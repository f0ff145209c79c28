-------------------------- MODULE PhaseTranscript --------------------------
(***************************************************************************)
(* What a phase sends its model (consult/engine.rs): PhaseLoop counts the    *)
(* turns, this module keeps the transcript.  A provider takes it only when    *)
(* every tool call is answered by the message after it, and some wires lose     *)
(* an image in a tool result; the loop cuts, rewrites and resumes it on the      *)
(* way to an answer.  A turn the provider could not parse is asked for again,     *)
(* and CompletionLog (completion_watch.rs) counts every completion, that one too.  *)
(* The agent library is external: a repeated turn is not in the transcript and    *)
(* costs its run a turn, as completion_retry.rs relies on; whether the cut-off     *)
(* turn is in the transcript it hands back, and whether the cap or the hook comes  *)
(* first, is left open.                                                            *)
(***************************************************************************)
EXTENDS Naturals, Sequences, SequencesExt, FiniteSets

CONSTANTS
  PhaseTurns,    \* max_turns; no minimum is enforced
  CallsPerTurn   \* the most tools one turn calls

ASSUME PhaseTurnsAssumption == PhaseTurns \in Nat
ASSUME CallsPerTurnAssumption == CallsPerTurn \in Nat

\* MALFORMED_RETRIES, of a run of the loop or of a single completion.
MalformedResends == 2

VARIABLES
  arm,          \* what the slot configures, and whether the phase has tools
  history,      \* the messages, the prompt of the next completion last
  stage,        \* where the loop is
  left,         \* the turns left of this run's budget
  resent,       \* completions sent again, of this run
  sawImage,     \* ToolImageBreakHook's flag, of this run
  imaged,       \* the calls that gave an image
  turns,        \* CompletionLog: what each completed turn reported
  attempts,     \* CompletionLog: completions sent
  request,      \* how the last one was sent
  ended         \* how the phase ended, and what its caller is advised

transcriptVars ==
  <<arm, history, stage, left, resent, sawImage, imaged, turns, attempts, request, ended>>

\* Of EFFORT_LADDER, and beside it: off, not a rung, not set.
Ladder == <<"low", "medium", "high">>
Rung(effort) == SelectInSeq(Ladder, LAMBDA rung : rung = effort)

Part(is, id, image) == [is |-> is, id |-> id, image |-> image]
User(parts) == [from |-> "user", parts |-> parts]
Assistant(parts) == [from |-> "assistant", parts |-> parts]
PartsOf(message) == ToSet(message.parts)

\* Arm::rewrites_tool_images.
RewritesToolImages == arm.vision /\ ~arm.toolImages

\* count_model_turns.
CountModelTurns == Cardinality({i \in DOMAIN history : history[i].from = "assistant"})

\* transcript_has_tool_results.
TranscriptHasToolResults ==
  \E i \in DOMAIN history : \E p \in PartsOf(history[i]) : p.is = "result"

\* What rewrite_tool_image_history emits: each message, at part 0, and each part of it
\* that is a result with an image.
Emitted ==
  {<<i, 0>> : i \in DOMAIN history}
    \cup UNION {{i} \X {j \in DOMAIN history[i].parts : history[i].parts[j].is = "result" /\ history[i].parts[j].image}
                : i \in DOMAIN history}

\* Mutant of EmittedBy: a message's images are pushed before the message.
EmittedByFirst(e) ==
  {d \in Emitted : d[1] < e[1] \/ (d[1] = e[1] /\ (d = e \/ d[2] > e[2]))}
\* In the order of the history, a message before its images: what is out when e is.
EmittedBy(e) == {d \in Emitted : d[1] < e[1] \/ (d[1] = e[1] /\ d[2] <= e[2])}

\* A result keeps its text, or an acknowledgement.
Acknowledged(message) ==
  [message EXCEPT !.parts = [j \in DOMAIN message.parts |->
     LET p == message.parts[j] IN Part(p.is, p.id, p.image /\ p.is # "result")]]

\* rewrite_tool_image_history: an image follows its message in a user message of its own.
RewriteToolImageHistory ==
  [k \in 1..Cardinality(Emitted) |->
     LET e == CHOOSE d \in Emitted : Cardinality(EmittedBy(d)) = k
     IN IF e[2] = 0 THEN Acknowledged(history[e[1]])
        ELSE User(<<Part("image", history[e[1]].parts[e[2]].id, TRUE)>>)]

\* finalize_prompt: the note is the last thing in the last user message.
FinalizePrompt(messages, note) ==
  IF Last(messages).from = "user"
  THEN [messages EXCEPT ![Len(messages)].parts = Append(@, Part(note, 0, FALSE))]
  ELSE Append(messages, User(<<Part(note, 0, FALSE)>>))

\* user_turn_with_attachments: the text first, then every attached image.
UserTurn(text, attached) ==
  User(<<Part("text", 0, FALSE)>> \o [i \in 1..attached |-> Part("image", 0, TRUE)])

TranscriptInit ==
  /\ arm \in [vision : BOOLEAN, toolImages : BOOLEAN, tools : BOOLEAN,
              effort : {"unset", "none", "low", "high"}, cache : {"short", "off"}]
  /\ \E attached \in 0..1 :
       /\ attached > 0 => ~arm.tools /\ arm.vision
       /\ history = <<UserTurn("asked", attached)>>
  /\ stage = IF arm.tools THEN "resume" ELSE "single"
  /\ left = 0 /\ resent = 0 /\ sawImage = FALSE /\ imaged = {}
  /\ turns = <<>> /\ attempts = 0
  /\ request = [tools |-> FALSE, choice |-> "none", effort |-> "unset", cache |-> "off"]
  /\ ended = [how |-> "no", advice |-> "none"]

\* Llm::agent and Llm::request: every completion carries the slot's parameters and cache.
SendCompletion(tools, choice, effort) ==
  /\ request' = [tools |-> tools, choice |-> choice, effort |-> effort, cache |-> arm.cache]
  /\ attempts' = attempts + 1
\* A turn of the run, of its max_turns(remaining).
SendTurn == SendCompletion(TRUE, "auto", arm.effort) /\ left' = left - 1

\* TurnRecord::observe, of a completion that came back.
Observe(finish, calls) == turns' = Append(turns, [finish |-> finish, calls |-> calls])

\* CompletionLog::last_finish_reason.
LastFinishReason(log) == IF log = <<>> THEN "" ELSE Last(log).finish

\* is_output_limit: the spellings of it.
IsOutputLimit(reason) == reason \in {"length", "MAX_TOKENS", "max_output_tokens"}

\* Why a turn ended, as the providers report it; Responses reports nothing of a normal stop.
Reasons == {"", "stop", "MAX_TOKENS", "malformed"}

\* malformed_turn is accepted like any other turn once the run's repeats are spent.
Accepted == IF resent < MalformedResends THEN Reasons \ {"malformed"} ELSE Reasons

Return(how, advice) == stage' = "done" /\ ended' = [how |-> how, advice |-> advice]

\* empty_answer_error: what a caller is advised follows the reason reported last.
EmptyAnswer(log) ==
  Return("empty", IF IsOutputLimit(LastFinishReason(log)) THEN "budget" ELSE "retry")

\* FINALIZE_NOTE, EMPTY_ANSWER_NOTE and CUT_OFF_NOTE: told what happened, and to write.
Notes == {"turns spent", "stopped", "cut off"}

\* An answer, nothing, or no completion at all.
Concludes ==
  \/ \E finish \in Reasons : Observe(finish, 0) /\ Return("answer", "none")
  \/ \E finish \in Reasons : Observe(finish, 0) /\ EmptyAnswer(turns')
  \/ Return("failed", "none") /\ UNCHANGED turns

-----------------------------------------------------------------------------

\* Arm::complete, of an arm without tools: what comes back ends the phase.
Complete ==
  /\ stage = "single"
  /\ SendCompletion(FALSE, "auto", arm.effort)
  /\ Concludes
  /\ UNCHANGED <<arm, history, left, resent, sawImage, imaged>>

\* retry_malformed: an error that says so is sent again, and no turn is reported.
CompleteAgain ==
  /\ stage = "single" /\ resent < MalformedResends
  /\ SendCompletion(FALSE, "auto", arm.effort)
  /\ resent' = resent + 1
  /\ UNCHANGED <<arm, history, stage, left, sawImage, imaged, turns, ended>>

\* The head of run_phase_loop: what is left of the turns, and hooks of its own.
BeginRun ==
  /\ stage = "resume"
  /\ left' = PhaseTurns - CountModelTurns
  /\ stage' = IF left' = 0 THEN "turns spent" ELSE "run"
  /\ resent' = 0 /\ sawImage' = FALSE
  /\ UNCHANGED <<arm, history, imaged, turns, attempts, request, ended>>

MayAsk == stage = "run" /\ left > 0 /\ ~(RewritesToolImages /\ sawImage)

\* MalformedGenerationHook: a turn that calls nothing and could not be parsed is asked
\* for again, as it was; the run pays for it, and the log has it.
RepeatTurnAsked ==
  /\ MayAsk /\ resent < MalformedResends
  /\ SendTurn
  /\ Observe("malformed", 0)
  /\ resent' = resent + 1
  /\ UNCHANGED <<arm, history, stage, sawImage, imaged, ended>>

CallTools ==
  /\ MayAsk
  /\ \E count \in 1..CallsPerTurn, known \in BOOLEAN, finish \in {"stop", "length"} :
       /\ history' = Append(history,
            Assistant([i \in 1..count |-> Part("call", Len(history) * CallsPerTurn + i, FALSE)]))
       /\ Observe(finish, count)
       /\ stage' = IF known THEN "tools" ELSE "unknown tool"
  /\ SendTurn
  /\ UNCHANGED <<arm, resent, sawImage, imaged, ended>>

\* Each call of the last message has a result; some of them carry an image.
Answered(seen) ==
  LET calls == Last(history).parts
  IN history' = Append(history,
       User([i \in DOMAIN calls |-> Part("result", calls[i].id, calls[i].id \in seen)]))

\* ToolImageBreakHook::on_outcome, at every result that holds an image.
RunTools ==
  /\ stage = "tools"
  /\ \E seen \in SUBSET {p.id : p \in PartsOf(Last(history))} :
       /\ arm.vision \/ seen = {}
       /\ Answered(seen)
       /\ imaged' = imaged \cup seen
       /\ sawImage' = (sawImage \/ (RewritesToolImages /\ seen # {}))
  /\ stage' = "run"
  /\ UNCHANGED <<arm, left, resent, turns, attempts, request, ended>>

\* UnknownToolFeedbackHook: no call of the turn runs, and each is answered.
SkipTools ==
  /\ stage = "unknown tool"
  /\ Answered({})
  /\ stage' = "run"
  /\ UNCHANGED <<arm, left, resent, sawImage, imaged, turns, attempts, request, ended>>

WritesAnswer ==
  /\ MayAsk
  /\ SendTurn
  /\ \/ \E finish \in Accepted : Observe(finish, 0) /\ Return("answer", "none")
     \/ Return("failed", "none") /\ UNCHANGED turns
  /\ UNCHANGED <<arm, history, resent, sawImage, imaged>>

\* write_up_or_fail: a turn that wrote nothing, or was cut off by then (CutOffStopHook).
WritesNothing ==
  /\ MayAsk
  /\ SendTurn
  /\ \E cause \in {"stopped", "cut off"} :
       /\ \E finish \in IF cause = "cut off" THEN {"length", "MAX_TOKENS"} ELSE Accepted :
            Observe(finish, 0)
       /\ \/ history' = Append(history, Assistant(<<>>))
          \/ cause = "cut off" /\ UNCHANGED history
       /\ IF TranscriptHasToolResults THEN stage' = cause /\ UNCHANGED ended
          ELSE EmptyAnswer(turns')
  /\ UNCHANGED <<arm, resent, sawImage, imaged>>

\* TOOL_IMAGE_BREAK at the next completion: rewrite, split_for_resume, go round.
RewriteAndResume ==
  /\ stage = "run" /\ RewritesToolImages /\ sawImage
  /\ history' = RewriteToolImageHistory
  /\ stage' = "resume"
  /\ UNCHANGED <<arm, left, resent, sawImage, imaged, turns, attempts, request, ended>>

TurnsSpent ==
  /\ stage = "run" /\ left = 0
  /\ stage' = "turns spent"
  /\ UNCHANGED <<arm, history, left, resent, sawImage, imaged, turns, attempts, request, ended>>

\* lower_effort, to CUT_OFF_WRITE_UP_EFFORT: down the ladder or not at all.
LowerEffort(effort) == IF Rung(effort) > Rung("medium") THEN "medium" ELSE effort

\* forced_finish_turn: the tools are declared and may not be called.
ForcedTurn ==
  /\ stage \in Notes
  /\ history' = FinalizePrompt(history, stage)
  /\ SendCompletion(TRUE, "none", IF stage = "cut off" THEN LowerEffort(arm.effort) ELSE arm.effort)
  /\ stage' = "forced"
  /\ UNCHANGED <<arm, left, resent, sawImage, imaged, turns, ended>>

ForcedAnswer ==
  /\ stage = "forced"
  /\ Concludes
  /\ UNCHANGED <<arm, history, left, resent, sawImage, imaged, attempts, request>>

TranscriptNext ==
  \/ Complete \/ CompleteAgain \/ BeginRun \/ RepeatTurnAsked \/ CallTools \/ RunTools
  \/ SkipTools \/ WritesAnswer \/ WritesNothing \/ RewriteAndResume \/ TurnsSpent
  \/ ForcedTurn \/ ForcedAnswer
TranscriptSpec == TranscriptInit /\ [][TranscriptNext]_transcriptVars

----
(* Properties *)

Sending == MayAsk \/ stage \in {"forced", "single"}

\* Each id's calls, or results, over the whole transcript.
PlacesOf(is, id) ==
  {place \in UNION {{i} \X DOMAIN history[i].parts : i \in DOMAIN history} :
     LET p == history[place[1]].parts[place[2]] IN p.is = is /\ p.id = id}

\* What a note says of the phase: its turns are used up, by the transcript and by repeats,
\* with none that answered; or its last turn wrote nothing, or was cut off.
NoteIsTrue(note) ==
  \/ /\ note = "turns spent" /\ CountModelTurns + resent = PhaseTurns
     /\ turns = <<>> \/ Last(turns).calls > 0 \/ Last(turns).finish = "malformed"
  \/ note = "stopped" /\ turns # <<>> /\ Last(turns).calls = 0
  \/ /\ note = "cut off" /\ turns # <<>> /\ Last(turns).calls = 0
     /\ IsOutputLimit(Last(turns).finish)

\* However a phase mixes repeats, tools, unknown tools, images and turns that wrote nothing, each
\* completion is sent a transcript a provider takes: it ends on a user's message, every
\* call is answered once, in the message after it.  No message holds an image beside a
\* result, and, short of the turn cap, no result an image the wire would lose; every
\* image a tool gave is still in it.  The forced turn adds one note, last, true to what
\* happened, and thinks no deeper than the slot asks for.
TranscriptHolds ==
  /\ Sending =>
       /\ Last(history).from = "user"
       /\ \A i \in DOMAIN history : \A p \in PartsOf(history[i]) :
            /\ p.is = "call" =>
                 /\ Cardinality(PlacesOf("result", p.id)) = 1
                 /\ i < Len(history) /\ \E q \in PartsOf(history[i + 1]) : q.is = "result" /\ q.id = p.id
            /\ p.is = "result" => ~\E q \in PartsOf(history[i]) : q.is = "image"
            /\ p.is = "result" /\ p.image =>
                 ~RewritesToolImages \/ \E q \in PartsOf(Last(history)) : q.is = "turns spent"
       /\ \A id \in imaged : \E i \in DOMAIN history : \E p \in PartsOf(history[i]) : p.id = id /\ p.image
  /\ stage = "forced" =>
       /\ NoteIsTrue(Last(Last(history).parts).is)
       /\ request.effort = arm.effort \/ (Rung(request.effort) > 0 /\ Rung(request.effort) < Rung(arm.effort))

\* What a failed phase says of itself is true: its advice to change the token budget
\* follows a last turn the provider cut off, the turns with tool calls that it counted are
\* those of the transcript, and the completions are the phase's turns, the repeats each run
\* allows beside a turn, and the forced one; or, without tools, one and its repeats.
AccountsAgree ==
  /\ ended.advice = "budget" => IsOutputLimit(Last(turns).finish)
  /\ Len(turns) <= attempts
  /\ attempts <= IF arm.tools THEN (1 + MalformedResends) * PhaseTurns + 1
                   ELSE 1 + MalformedResends
  /\ Cardinality({i \in DOMAIN turns : turns[i].calls > 0})
       = Cardinality({i \in DOMAIN history : \E p \in PartsOf(history[i]) : p.is = "call"})

\* Both hold of every phase: what it sends a model, and what it says when it failed.
TranscriptIsSound == TranscriptHolds /\ AccountsAgree
=============================================================================

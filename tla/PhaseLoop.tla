----------------------------- MODULE PhaseLoop ------------------------------
(***************************************************************************)
(* One phase of a consult, explore or dossier sweep                         *)
(* (src/src/consult/engine.rs, run_phase_loop): the agent runs a model and  *)
(* its tools for a number of turns, and the loop around it decides what an  *)
(* ended run becomes.  A run stopped to move a tool's image onto a user     *)
(* turn is resumed with what is left of the budget; a phase out of turns,   *)
(* or that ended with nothing written, is owed one forced turn without      *)
(* tools.  The agent library is not in the repository: its turn budget and  *)
(* the order it reports the cap and calls the hooks in are taken as the     *)
(* code relies on them, and where it relies on neither order both happen.   *)
(***************************************************************************)
EXTENDS Naturals

CONSTANTS
  MaxTurns,           \* explorer_max_turns or synth_max_turns; no minimum is enforced
  BreakOnToolImages   \* the model sees images, its wire has none in tool results

ASSUME TurnsAssumption == MaxTurns \in Nat
ASSUME BreaksAssumption == BreakOnToolImages \in BOOLEAN

\* MALFORMED_RETRIES
MalformedRetries == 2

VARIABLES
  at,           \* where the loop is
  carried,      \* assistant messages in the transcript a run starts from
  inRun,        \* assistant messages this run added, each answered by its tools
  runTurns,     \* turns of its budget this run has spent
  repeated,     \* of those, turns MalformedGenerationHook sent again
  sawToolImage, \* the flag of this run's ToolImageBreakHook
  imageInTool,  \* a tool result of the transcript still holds an image
  calls,        \* completions the loop asked for, the forced turn not counted
  outcome       \* what the phase returned

vars == <<at, carried, inRun, runTurns, repeated, sawToolImage, imageInTool, calls,
          outcome>>

Outcomes == {"answer", "empty", "failed", "deadline"}

\* What is left of the phase's turns when a run starts.
Remaining == MaxTurns - carried

\* transcript_has_tool_results: every assistant message a run keeps called a tool.
HasToolResults == carried + inRun > 0

Init ==
  /\ at = "resume" /\ carried = 0
  /\ inRun = 0 /\ runTurns = 0 /\ repeated = 0
  /\ sawToolImage = FALSE /\ imageInTool = FALSE
  /\ calls = 0
  /\ outcome = "none"

End(o) == at' = "done" /\ outcome' = o

-----------------------------------------------------------------------------
(* The head of the loop. *)

\* Mutant: one hook for the whole phase: a resumed run starts with the flag still set.
StartRunStaleHook ==
  /\ at = "resume"
  /\ Remaining > 0
  /\ at' = "run"
  /\ inRun' = 0 /\ runTurns' = 0 /\ repeated' = 0
  /\ UNCHANGED <<carried, sawToolImage, imageInTool, calls, outcome>>

\* Every hook is new: an allowance of repeats, and no image seen.
StartRun ==
  /\ at = "resume"
  /\ Remaining > 0
  /\ at' = "run"
  /\ inRun' = 0 /\ runTurns' = 0 /\ repeated' = 0
  /\ sawToolImage' = FALSE
  /\ UNCHANGED <<carried, imageInTool, calls, outcome>>

\* The whole budget went to image breaks.
SpentOnBreaks ==
  /\ at = "resume"
  /\ Remaining = 0
  /\ at' = "forced"
  /\ UNCHANGED <<carried, inRun, runTurns, repeated, sawToolImage, imageInTool, calls,
                 outcome>>

-----------------------------------------------------------------------------
(* A turn of the run. *)

\* The completion is sent: turns are left and no image stops it.
Completion ==
  /\ at = "run"
  /\ runTurns < Remaining
  /\ ~sawToolImage
  /\ runTurns' = runTurns + 1
  /\ calls' = calls + 1

\* The turn calls tools, known or not, and their results are appended; one of
\* them may carry an image.
ToolTurn ==
  /\ Completion
  /\ inRun' = inRun + 1
  /\ \E image \in BOOLEAN :
       /\ sawToolImage' = (image /\ BreakOnToolImages)
       /\ imageInTool' = (imageInTool \/ (image /\ BreakOnToolImages))
  /\ UNCHANGED <<at, carried, repeated, outcome>>

\* The provider could not parse the turn: the same request again, nothing kept.
RepeatTurn ==
  /\ Completion
  /\ repeated < MalformedRetries
  /\ repeated' = repeated + 1
  /\ UNCHANGED <<at, carried, inRun, sawToolImage, imageInTool, outcome>>

Answers ==
  /\ Completion
  /\ End("answer")
  /\ UNCHANGED <<carried, inRun, repeated, sawToolImage, imageInTool>>

\* Mutant: an empty answer is asked for again whatever the transcript holds.
WroteNothingUngated ==
  /\ Completion
  /\ at' = "forced"
  /\ UNCHANGED <<carried, inRun, repeated, sawToolImage, imageInTool, outcome>>

\* The turn wrote nothing, by itself or cut off at the output limit
\* (CutOffStopHook): one forced turn if there is evidence, else an error.
WroteNothing ==
  /\ Completion
  /\ \/ HasToolResults /\ at' = "forced" /\ UNCHANGED outcome
     \/ ~HasToolResults /\ End("empty")
  /\ UNCHANGED <<carried, inRun, repeated, sawToolImage, imageInTool>>

\* A refusal, a transport that gave up, a generation malformed once too often.
CallFails ==
  /\ Completion
  /\ End("failed")
  /\ UNCHANGED <<carried, inRun, repeated, sawToolImage, imageInTool>>

-----------------------------------------------------------------------------
(* The run stops before its next completion. *)

TurnCap ==
  /\ at = "run"
  /\ runTurns = Remaining
  /\ at' = "forced"
  /\ UNCHANGED <<carried, inRun, runTurns, repeated, sawToolImage, imageInTool, calls,
                 outcome>>

\* Mutant: the resumed run gets the whole budget again.
ImageBreakForgets ==
  /\ at = "run"
  /\ sawToolImage
  /\ at' = "resume"
  /\ inRun' = 0 /\ runTurns' = 0
  /\ imageInTool' = FALSE
  /\ UNCHANGED <<carried, repeated, sawToolImage, calls, outcome>>

\* rewrite_tool_image_history, and the loop goes round.
ImageBreak ==
  /\ at = "run"
  /\ sawToolImage
  /\ at' = "resume"
  /\ carried' = carried + inRun
  /\ inRun' = 0 /\ runTurns' = 0
  /\ imageInTool' = FALSE
  /\ UNCHANGED <<repeated, sawToolImage, calls, outcome>>

-----------------------------------------------------------------------------
(* The forced turn, and the end of the call. *)

ForcedFinish ==
  /\ at = "forced"
  /\ \E o \in {"answer", "empty", "failed"} : End(o)
  /\ UNCHANGED <<carried, inRun, runTurns, repeated, sawToolImage, imageInTool, calls>>

\* with_call_deadline drops the phase wherever it waits.
CallDeadline ==
  /\ at \in {"run", "forced"}
  /\ End("deadline")
  /\ UNCHANGED <<carried, inRun, runTurns, repeated, sawToolImage, imageInTool, calls>>

Turn == ToolTurn \/ RepeatTurn \/ Answers \/ WroteNothing \/ CallFails
Progress == StartRun \/ SpentOnBreaks \/ Turn \/ TurnCap \/ ImageBreak \/ ForcedFinish
Done == at = "done" /\ UNCHANGED vars
Next == Progress \/ CallDeadline \/ Done

Spec == Init /\ [][Next]_vars

\* Every request ends, by its own timeout if nothing else.
FairSpec == Spec /\ WF_vars(Progress)
-----------------------------------------------------------------------------
(* Properties *)

TypeOK ==
  /\ at \in {"resume", "run", "forced", "done"}
  /\ carried \in Nat /\ inRun \in Nat /\ runTurns \in Nat /\ repeated \in Nat
  /\ sawToolImage \in BOOLEAN /\ imageInTool \in BOOLEAN
  /\ calls \in Nat
  /\ outcome \in Outcomes \cup {"none"}

\* However the model mixes tools, images and malformed turns, a phase asks for
\* at most three completions a turn before the forced one: the budget carried
\* across image breaks and the repeats each resume allows anew bound the work.
WorkIsBounded == calls <= (1 + MalformedRetries) * MaxTurns

\* A forced turn goes only to a model that gathered something: guaranteed by
\* transcript_has_tool_results where the run wrote nothing, and by the budget
\* where it ran out of turns, if repeats alone cannot spend it.
ForcedHasEvidence ==
  at = "forced" /\ MaxTurns > MalformedRetries => HasToolResults

\* In the loop no completion is sent while an image is in a tool result, where
\* the provider would not see it (ToolImageBreakHook).
NoImageLeftBehind == [][calls' > calls => ~imageInTool]_vars

\* A phase ends: image breaks and repeats cannot go on for ever.
PhaseEnds == <>(at = "done")

\* What makes them inductive: what a run's turns were spent on, and what the
\* transcript it started from has cost.
Accounts ==
  /\ carried + runTurns <= MaxTurns
  /\ runTurns = inRun + repeated \/ at # "run"
  /\ repeated <= MalformedRetries
  /\ calls <= (1 + MalformedRetries) * carried + runTurns
  /\ at = "resume" => inRun = 0 /\ runTurns = 0
  /\ sawToolImage /\ at = "run" => inRun > 0
IInv == TypeOK /\ Accounts /\ ForcedHasEvidence
=============================================================================

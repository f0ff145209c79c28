----------------------------- MODULE ConsultCall ----------------------------
(***************************************************************************)
(* One consult, from its handler to what the caller is shown                *)
(* (src/src/server/mod.rs, consult and consult_submit; consult/engine.rs,   *)
(* consult_with, RunExplore and consult_session_turn): the driver's loop    *)
(* delegates sweeps and saves artifacts through tools that run              *)
(* concurrently, a deadline may drop it where it waits, and a call with a   *)
(* session records its answer.  The loop of a phase is in PhaseLoop, the    *)
(* sink of one sweep in SweepAttach, the thread in SessionTurns.            *)
(***************************************************************************)
EXTENDS Artifacts

CONSTANT Sweeps   \* bound: explore calls the driver makes

VARIABLES
  callAt,      \* where the call is
  offered,     \* the gates: [save, session, job]
  sweep,       \* per delegated sweep, how it stands
  reports,     \* what ConsultOutput.report collects
  sweepUsage,  \* sweeps whose tokens were folded into the consult's total
  threadNames, \* the contents the recorded turn names, as a set of one, or {}
  shownNames,  \* the contents the rendered result names
  shownUsage,  \* the sweeps the result's token line counts
  warned       \* the result says its turn was not recorded

callVars == <<callAt, offered, sweep, reports, sweepUsage, threadNames,
              shownNames, shownUsage, warned>>
consultVars == <<artifactVars, callVars>>

ConsultInit ==
  /\ ArtifactsInit
  /\ callAt = "new"
  /\ offered = [save |-> FALSE, session |-> FALSE, job |-> FALSE]
  /\ sweep = [s \in Sweeps |-> "idle"]
  /\ reports = {} /\ sweepUsage = {}
  /\ threadNames = {} /\ shownNames = {} /\ shownUsage = {}
  /\ warned = FALSE

\* The ledger's contents: what with_artifacts appends as a footer.
Named == {ledger[i].blob : i \in DOMAIN ledger}

ToolsIdle ==
  /\ \A s \in Sweeps : sweep[s] # "running"
  /\ \A c \in Savers : saving[c].at = "idle"

-----------------------------------------------------------------------------
(* The handler, up to the loop. *)

\* A bad path or cast, a missing key, an image for a blind synth, or artifacts
\* asked for with a key of artifact_sink missing: refused before any work, and
\* in consult_submit before a job exists.
RefuseCall ==
  /\ callAt = "new"
  /\ callAt' = "refused"
  /\ UNCHANGED <<artifactVars, offered, sweep, reports, sweepUsage, 
                 threadNames, shownNames, shownUsage, warned>>

\* The arms are built and the toolset has save_artifact only where asked for.
\* The thread's replay, fatal where it fails, is in SessionTurns.
StartCall ==
  /\ callAt = "new"
  /\ offered' \in [save : BOOLEAN, session : BOOLEAN, job : BOOLEAN]
  /\ callAt' = "driver"
  /\ UNCHANGED <<artifactVars, sweep, reports, sweepUsage, threadNames,
                 shownNames, shownUsage, warned>>

-----------------------------------------------------------------------------
(* The driver's tools. *)

\* One sink of the call: every rebuild of the toolset shares it.
SaveTool ==
  /\ callAt = "driver" /\ offered.save
  /\ \E c \in Savers : SaverStep(c)
  /\ UNCHANGED callVars

OtherCallSaves == StoredElsewhere /\ UNCHANGED callVars

StartSweep(s) ==
  /\ callAt = "driver"
  /\ sweep[s] = "idle"
  /\ sweep' = [sweep EXCEPT ![s] = "running"]
  /\ UNCHANGED <<artifactVars, callAt, offered, reports, sweepUsage, 
                 threadNames, shownNames, shownUsage, warned>>

SweepEnds(s, as) ==
  /\ callAt = "driver"
  /\ sweep[s] = "running"
  /\ sweep' = [sweep EXCEPT ![s] = as]
  /\ UNCHANGED <<artifactVars, callAt, offered, threadNames, shownNames,
                 shownUsage, warned>>

\* The tokens are folded in first; an empty report is a failed sweep.
SweepReturns(s) ==
  /\ \/ SweepEnds(s, "reported") /\ reports' = reports \cup {s}
     \/ SweepEnds(s, "empty") /\ UNCHANGED reports
  /\ sweepUsage' = sweepUsage \cup {s}

\* The nested loop failed: the driver sees the error, there is no usage to fold.
SweepFails(s) == SweepEnds(s, "failed") /\ UNCHANGED <<reports, sweepUsage>>

-----------------------------------------------------------------------------
(* How the loop ends. *)

Rendered(usage) == shownNames' = Named /\ shownUsage' = usage

\* Mutant: the failure text leaves the artifacts out (consultation_failed).
LoopFailsUnnamed ==
  /\ callAt = "driver"
  /\ ToolsIdle
  /\ callAt' = "failed"
  /\ UNCHANGED <<artifactVars, offered, sweep, reports, sweepUsage, 
                 threadNames, shownNames, shownUsage, warned>>

\* The provider refused, the transport gave up or the model wrote nothing: the
\* failure text names what was saved, and no turn is recorded.
LoopFails ==
  /\ callAt = "driver"
  /\ ToolsIdle
  /\ callAt' = "failed"
  /\ Rendered({})
  /\ UNCHANGED <<artifactVars, offered, sweep, reports, sweepUsage, 
                 threadNames, warned>>

\* with_call_deadline drops the loop where it waits.  A save never waits while
\* it holds the ledger; sweeps in flight are dropped with the loop.
DeadlinePasses ==
  /\ callAt = "driver"
  /\ sinkLock = "free"
  /\ callAt' = "failed"
  /\ sweep' = [s \in Sweeps |-> IF sweep[s] = "running" THEN "dropped" ELSE sweep[s]]
  /\ saving' = [c \in Savers |-> NotSaving]
  /\ Rendered({})
  /\ UNCHANGED <<casFormat, ledger, spent, sinkLock, saves, mine, offered, reports,
                 sweepUsage, threadNames, warned>>

\* The driver answers: its tools have returned, so the sinks are complete.
DriverAnswers ==
  /\ callAt = "driver"
  /\ ToolsIdle
  /\ callAt' = IF offered.session THEN "recording" ELSE "rendering"
  /\ UNCHANGED <<artifactVars, offered, sweep, reports, sweepUsage, 
                 threadNames, shownNames, shownUsage, warned>>

\* The answer is recorded with the footer of what it saved.
RecordTurn ==
  /\ callAt = "recording"
  /\ callAt' = "rendering"
  /\ threadNames' = {Named}
  /\ UNCHANGED <<artifactVars, offered, sweep, reports, sweepUsage, 
                 shownNames, shownUsage, warned>>

\* Not fatal: the answer was paid for, and says it was not recorded.
RecordTurnFails ==
  /\ callAt = "recording"
  /\ callAt' = "rendering"
  /\ warned' = TRUE
  /\ UNCHANGED <<artifactVars, offered, sweep, reports, sweepUsage, 
                 threadNames, shownNames, shownUsage>>

\* consult_answer_text: warnings, the footer, the models and the tokens.
RenderAnswer ==
  /\ callAt = "rendering"
  /\ callAt' = "answered"
  /\ Rendered(sweepUsage)
  /\ UNCHANGED <<artifactVars, offered, sweep, reports, sweepUsage, 
                 threadNames, warned>>

\* job_cancel on the background lane: the task is dropped where it waits.
CancelCall ==
  /\ offered.job
  /\ callAt \in {"driver", "recording"}
  /\ sinkLock = "free"
  /\ callAt' = "cancelled"
  /\ sweep' = [s \in Sweeps |-> IF sweep[s] = "running" THEN "dropped" ELSE sweep[s]]
  /\ saving' = [c \in Savers |-> NotSaving]
  /\ UNCHANGED <<casFormat, ledger, spent, sinkLock, saves, mine, offered, reports,
                 sweepUsage, threadNames, shownNames, shownUsage, warned>>

CallOver ==
  callAt \in {"refused", "answered", "failed", "cancelled"} /\ UNCHANGED consultVars

CallStep ==
  \/ StartCall \/ RefuseCall
  \/ \E s \in Sweeps : StartSweep(s) \/ SweepReturns(s) \/ SweepFails(s)
  \/ LoopFails \/ DeadlinePasses \/ DriverAnswers
  \/ RecordTurn \/ RecordTurnFails \/ RenderAnswer \/ CancelCall

ConsultNext == CallStep \/ SaveTool \/ OtherCallSaves \/ CallOver
ConsultSpec == ConsultInit /\ [][ConsultNext]_consultVars
-----------------------------------------------------------------------------
(* Properties *)

ConsultTypeOK ==
  /\ callAt \in {"new", "refused", "driver", "recording", "rendering", "answered",
                 "failed", "cancelled"}
  /\ sweep \in [Sweeps -> {"idle", "running", "reported", "empty", "failed", "dropped"}]
  /\ reports \subseteq Sweeps /\ sweepUsage \subseteq Sweeps
  /\ threadNames \subseteq SUBSET Blobs
  /\ shownNames \subseteq Blobs /\ shownUsage \subseteq Sweeps
  /\ warned \in BOOLEAN

\* The digest is the only handle on stored bytes: an answer names everything the
\* call saved, and so does the text of a failure or of a passed deadline.
SavedIsNamed == callAt \in {"answered", "failed"} => shownNames = mine

\* What the thread remembers is what the caller was shown, and a thread that will
\* not replay the turn is said so; a failed call leaves no turn behind.
ThreadAgrees ==
  /\ callAt = "answered" =>
       threadNames = IF offered.session /\ ~warned THEN {shownNames} ELSE {}
  /\ callAt = "failed" => threadNames = {}

\* The token line of an answer counts every sweep whose model loop ended well,
\* the empty ones included, and no report reaches the caller unpaid for.
UsageIsComplete ==
  callAt = "answered" =>
    shownUsage = {s \in Sweeps : sweep[s] \in {"reported", "empty"}}

\* Together: a call tells its caller, and its thread, all that it saved and spent,
\* and in the format the store has.
CallTellsAll ==
  /\ ConsultTypeOK
  /\ SavedIsNamed /\ StoredIsInLedger /\ FooterFormatIsStored
  /\ UsageIsComplete /\ ThreadAgrees
=============================================================================

------------------------------ MODULE MCConsult ------------------------------
(***************************************************************************)
(* The parts of one consult side by side, for TLC: the loop of a phase and  *)
(* its transcript, what each model is told, the attach sink of a sweep, the *)
(* tools' kernel, the project map, the call around them, its completions    *)
(* and turns, and deliberate.  They share no variable; part picks the one   *)
(* that moves, so that the run visits the sum of their states and not the   *)
(* product.                                                                 *)
(***************************************************************************)
EXTENDS PhaseLoop, SweepAttach, ConsultCall, Deliberate, Transport, SessionTurns, Explorer, Orientation, Prompts,
        PhaseTranscript, TLC

CONSTANTS p1, p2, p3, p4, b1, b2, c1, c2, s1, s2

VARIABLE part

-----------------------------------------------------------------------------
(* Three calls of one kernel; projects of three kinds of file. *)

MCContents == {[bytes |-> 10, lines |-> 1], [bytes |-> 10, lines |-> 3], [bytes |-> 40, lines |-> 1]}
MCProjects ==
  [{<<"a">>, <<"b">>, <<"d", "c">>} -> MCContents]
    \cup {[f \in fs |-> [bytes |-> 10, lines |-> 1]] : fs \in
            {{}, {<<"a">>, <<"b">>, <<"d", "c">>, <<"d", "e">>},
             {<<"a">>, <<"x", "y", "b">>, <<"d", "c">>, <<"d", "e">>},
             {<<"a">>, <<"x", "y", "b">>, <<"d", "c">>, <<"e", "c">>, <<"f", "c">>}}}
MCQuoted == {<<"b">>}

-----------------------------------------------------------------------------
MCPaths == {p1, p2, p3, p4}
MCBlobs == {b1, b2}
MCBytes == (b1 :> 1) @@ (b2 :> 2)

Parts == {"phase", "attach", "call", "deliberate", "transport", "turns",
          "kernel", "map", "transcript", "prompts"}
mcVars == <<part, vars, attachVars, consultVars, deliberateVars, transportVars, turnVars,
            explorerVars, orientationVars, transcriptVars, promptVars>>

\* A part that does not move stays in one of its initial states.
Still ==
  /\ part = "deliberate" \/ lane = [d \in Deliberations |-> "batch"]
  /\ part = "turns" \/ bound = [t \in Turns |-> s1]
  /\ part = "map" \/ project = CHOOSE p \in MCProjects : TRUE
  /\ part = "transcript" \/ arm = [vision |-> TRUE, toolImages |-> TRUE, tools |-> TRUE,
                                   effort |-> "unset", cache |-> "off"]
  /\ \/ part = "prompts"
     \/ /\ cast = [slots |-> {"synth"}, preambles |-> {}, vision |-> TRUE,
                   lane |-> "interactive", consult |-> "unset", attach |-> FALSE]
        /\ global = {} /\ layers = {}
        /\ asking = [tool |-> "consult", attached |-> {}, context |-> FALSE, history |-> FALSE]

MCInit ==
  /\ part \in Parts /\ Still
  /\ Init /\ AttachInit /\ ConsultInit /\ DeliberateInit /\ TransportInit /\ TurnsInit
  /\ ExplorerInit /\ OrientationInit /\ TranscriptInit /\ PromptsInit

MCNext ==
  /\ UNCHANGED part
  /\ \/ /\ part = "phase" /\ Next
        /\ UNCHANGED <<attachVars, consultVars, deliberateVars, transportVars, turnVars,
                       explorerVars, orientationVars, transcriptVars, promptVars>>
     \/ /\ part = "attach" /\ AttachNext
        /\ UNCHANGED <<vars, consultVars, deliberateVars, transportVars, turnVars,
                       explorerVars, orientationVars, transcriptVars, promptVars>>
     \/ /\ part = "call" /\ ConsultNext
        /\ UNCHANGED <<vars, attachVars, deliberateVars, transportVars, turnVars,
                       explorerVars, orientationVars, transcriptVars, promptVars>>
     \/ /\ part = "deliberate" /\ DeliberateNext
        /\ UNCHANGED <<vars, attachVars, consultVars, transportVars, turnVars,
                       explorerVars, orientationVars, transcriptVars, promptVars>>
     \/ /\ part = "transport" /\ TransportNext
        /\ UNCHANGED <<vars, attachVars, consultVars, deliberateVars, turnVars,
                       explorerVars, orientationVars, transcriptVars, promptVars>>
     \/ /\ part = "turns" /\ TurnsNext
        /\ UNCHANGED <<vars, attachVars, consultVars, deliberateVars, transportVars,
                       explorerVars, orientationVars, transcriptVars, promptVars>>
     \/ /\ part = "kernel" /\ ExplorerNext
        /\ UNCHANGED <<vars, attachVars, consultVars, deliberateVars, transportVars,
                       turnVars, orientationVars, transcriptVars, promptVars>>
     \/ /\ part = "map" /\ OrientationNext
        /\ UNCHANGED <<vars, attachVars, consultVars, deliberateVars, transportVars,
                       turnVars, explorerVars, transcriptVars, promptVars>>
     \/ /\ part = "transcript" /\ TranscriptNext
        /\ UNCHANGED <<vars, attachVars, consultVars, deliberateVars, transportVars,
                       turnVars, explorerVars, orientationVars, promptVars>>
     \/ /\ part = "prompts" /\ PromptsNext
        /\ UNCHANGED <<vars, attachVars, consultVars, deliberateVars, transportVars,
                       turnVars, explorerVars, orientationVars, transcriptVars>>

MCSpec ==
  /\ MCInit /\ [][MCNext]_mcVars
  /\ WF_mcVars(part = "phase" /\ Progress /\ UNCHANGED <<part, attachVars, consultVars, deliberateVars, transportVars, turnVars,
                       explorerVars, orientationVars, transcriptVars, promptVars>>)

-----------------------------------------------------------------------------
(* A phase, and the transcript it works from, never leave an image behind. *)

\* A phase ends, image breaks and repeats cannot go on for ever, and on the way no
\* completion is sent while an image is where its provider would not see it (PhaseLoop).
EveryPhaseEnds == NoImageLeftBehind /\ (part = "phase" => PhaseEnds)
=============================================================================

------------------------------- MODULE Prompts -------------------------------
(***************************************************************************)
(* What each phase's model is told (consult/prompts.rs): a system prompt from  *)
(* the built-in framing or the operator's, layered with the project's file map  *)
(* and house rules, directives added where a tool or a file is, and a user turn. *)
(* The words are put together in one place and the toolsets in another; what a    *)
(* prompt says is here the set of tools it names and the files it tells of.       *)
(***************************************************************************)
EXTENDS Naturals, Sequences, SequencesExt

VARIABLES
  cast,     \* the slots of the call's cast and what they set
  global,   \* [prompts]: the framings the operator replaced for every cast
  layers,   \* the layers of the project: its file map, its house rules
  asking,   \* the tool, the attached files, the caller's context, earlier turns
  promptAt, \* where the call is
  phases    \* the phases started so far: what each model was sent

promptVars == <<cast, global, layers, asking, promptAt, phases>>

Roles == {"explorer", "synth"}
FileKinds == {"small", "large", "image"}    \* of attached files: inlined, too large to inline, an image
Routed == {"text", "image", "note", "demotion"}

\* Cast::consult_solo.
ConsultSolo(c) == IF c.consult = "unset" THEN "explorer" \notin c.slots ELSE c.consult = "solo"

\* Phase, and the framing it has when the operator replaces none.
Phases == {"explorer-for-synthesis", "explorer-for-caller", "consult", "consult-solo",
           "oneshot", "batch"}
SlotRole(phase) ==
  IF phase \in {"explorer-for-synthesis", "explorer-for-caller"} THEN "explorer" ELSE "synth"
\* Phase::override_in: the key of [prompts] that replaces the framing.
Key(phase) == CASE SlotRole(phase) = "explorer" -> "explorer"
                [] phase = "consult-solo" -> "consult"
                [] OTHER -> phase
\* Phase::reads_project.
ReadsProject(phase) == phase \notin {"oneshot", "batch"}

\* Cast::resolved_prompts: a slot's preamble, else [prompts], replaces the framing.
Overridden(phase) == SlotRole(phase) \in cast.preambles \/ Key(phase) \in global

\* phase_preamble and resolve_phase_preamble: the closing sentence again after what was
\* spliced behind it, unless the framing is the operator's.
Preamble(phase) ==
  LET read == IF ReadsProject(phase) THEN layers ELSE {}
      Layer(l) == IF l \in read THEN <<l>> ELSE <<>>
  IN <<IF Overridden(phase) THEN "operator's" ELSE phase>>
       \o Layer("file-map") \o Layer("house-rules")
       \o (IF read # {} /\ ~Overridden(phase) THEN <<"closing">> ELSE <<>>)

\* explorer_attachment_directive: the text files, to be read whole.
AttachmentDirective(attached) == IF attached \ {"image"} = {} THEN <<>> ELSE <<"read-attached">>

\* consult_user_prompt: earlier turns, context, then each attached file in one of three ways.
ConsultUserPrompt ==
  (IF asking.history THEN <<"turns">> ELSE <<>>) \o (IF asking.context THEN <<"context">> ELSE <<>>)
    \o (IF "small" \in asking.attached THEN <<"inlined">> ELSE <<>>)
    \o (IF "large" \in asking.attached THEN <<"read-whole">> ELSE <<>>)
    \o (IF "image" \in asking.attached THEN <<"view-images">> ELSE <<>>) \o <<"question">>

\* report_preamble: every command is one run_kaish call.
ReportNames == {"run_kaish"}
\* driver_preamble: the driver of a team is told of explore, a solo one reads all itself.
DriverNames(phase) == {"run_kaish"} \cup (IF phase = "consult" THEN {"explore"} ELSE {})
\* oneshot_preamble: no codebase access and no tools.
OneshotNames == {}
\* batch_preamble: the same, offline.
BatchNames == {}
\* explorer_attach_directive.
AttachNames == {"attach"}

\* The tools a part of a prompt names.
Names(part) ==
  CASE SlotRole(part) = "explorer" -> ReportNames
    [] part \in {"consult", "consult-solo"} -> DriverNames(part)
    [] part = "oneshot" -> OneshotNames
    [] part = "batch" -> BatchNames
    [] part = "attach-directive" -> AttachNames
    [] part = "view-images" -> {"view_image"}
    [] part \in {"read-attached", "read-whole", "context"} -> {"run_kaish"}
    [] OTHER -> {}

\* ReportReader::words: whom the report says it is for.
Readers(phase) ==
  IF phase = "explorer-for-synthesis" THEN {"driver", "synth"} ELSE {"caller"}

\* The files a part tells of.
TellsOf(part) ==
  CASE part = "inlined" -> {"small"}
    [] part = "read-whole" -> {"large"}
    [] part = "view-images" -> {"image"}
    [] part = "read-attached" -> asking.attached \ {"image"}
    [] OTHER -> {}

Sent(phase, system, user, tools, reader) ==
  phases' = Append(phases, [phase |-> phase, system |-> system, user |-> user,
                            tools |-> tools, reader |-> reader])

PromptsInit ==
  /\ cast \in [slots : {{"synth"}, Roles}, preambles : SUBSET Roles, vision : BOOLEAN,
               lane : {"interactive", "offline"}, consult : {"unset", "solo", "team"},
               attach : BOOLEAN]
  /\ cast.preambles \subseteq cast.slots
  /\ cast.consult = "team" => "explorer" \in cast.slots
  /\ global \in {{}} \cup {{key} : key \in {"explorer", "consult", "oneshot", "batch"}}
  /\ layers \in SUBSET {"file-map", "house-rules"}
  /\ asking \in [tool : {"consult", "explore", "deliberate", "oneshot", "batch"},
               attached : SUBSET FileKinds, context : BOOLEAN, history : BOOLEAN]
  /\ (asking.context \/ asking.history) => asking.tool = "consult"
  /\ promptAt = "start" /\ phases = <<>>

Refuse == promptAt' = "refused" /\ UNCHANGED phases

\* Mutant of ConsultPhase: the slots alone decide.
ConsultPhaseBySlots == IF "explorer" \in cast.slots THEN "consult" ELSE "consult-solo"
\* The driver's phase: consult_with is given an explorer unless the cast runs solo.
ConsultPhase == IF ConsultSolo(cast) THEN "consult-solo" ELSE "consult"

\* consult_tools.
ConsultTools ==
  {"run_kaish"} \cup (IF ConsultSolo(cast) THEN {} ELSE {"explore"})
                \cup (IF cast.vision THEN {"view_image"} ELSE {})

\* gate_consult_image_attachments, then the driver.
Consult ==
  /\ promptAt = "start" /\ asking.tool = "consult"
  /\ IF cast.lane = "offline" \/ ("image" \in asking.attached /\ ~cast.vision) THEN Refuse
     ELSE /\ Sent(ConsultPhase, Preamble(ConsultPhase), ConsultUserPrompt, ConsultTools, "caller")
          /\ promptAt' = "driving"
  /\ UNCHANGED <<cast, global, layers, asking>>

\* The tools of run_explore_phase, with its directive on attach beside the tool.
Explore(phase, attach, reader) ==
  Sent(phase,
       Preamble(phase) \o AttachmentDirective(asking.attached)
         \o (IF attach THEN <<"attach-directive">> ELSE <<>>),
       <<"question">>,
       {"run_kaish"} \cup (IF attach THEN {"attach"} ELSE {}), reader)

\* RunExplore: a sweep the driver delegates.
Sweep ==
  /\ promptAt = "driving" /\ "explore" \in ConsultTools
  /\ Explore("explorer-for-synthesis", cast.attach, "driver")
  /\ promptAt' = "swept"
  /\ UNCHANGED <<cast, global, layers, asking>>

\* resolve_sweep_attachments: the survey has no tool for an image.
ExploreTool ==
  /\ promptAt = "start" /\ asking.tool = "explore"
  /\ IF "image" \in asking.attached \/ "explorer" \notin cast.slots THEN Refuse
     ELSE Explore("explorer-for-caller", FALSE, "caller") /\ promptAt' = "done"
  /\ UNCHANGED <<cast, global, layers, asking>>

Deliberate ==
  /\ promptAt = "start" /\ asking.tool = "deliberate"
  /\ IF "image" \in asking.attached \/ cast.lane # "offline" \/ "explorer" \notin cast.slots THEN Refuse
     ELSE Explore("explorer-for-synthesis", cast.attach, "synth") /\ promptAt' = "dossier"
  /\ UNCHANGED <<cast, global, layers, asking>>

\* sweep_evidence_block: each routed thing told of under its heading, nothing if none.
EvidenceBlock(routed) ==
  IF routed = {} THEN <<>>
  ELSE <<"header">> \o SetToSeq(routed)

\* deliberation_prompt, under batch_system_prompt.
Synthesize ==
  /\ promptAt = "dossier"
  /\ \E routed \in SUBSET Routed :
       /\ routed # {} => cast.attach
       /\ "image" \in routed => cast.vision
       /\ Sent("batch", Preamble("batch"), <<"question", "dossier">> \o EvidenceBlock(routed),
               {}, "caller")
  /\ promptAt' = "done"
  /\ UNCHANGED <<cast, global, layers, asking>>

\* oneshot and batch_submit: the files ride the prompt, the images as parts of their own.
Direct ==
  /\ promptAt = "start" /\ asking.tool \in {"oneshot", "batch"}
  /\ IF \/ cast.lane # (IF asking.tool = "batch" THEN "offline" ELSE "interactive")
        \/ "image" \in asking.attached /\ ~cast.vision
     THEN Refuse
     ELSE /\ Sent(asking.tool, Preamble(asking.tool), <<"question">>, {}, "caller")
          /\ promptAt' = "done"
  /\ UNCHANGED <<cast, global, layers, asking>>

PromptsNext == Consult \/ Sweep \/ ExploreTool \/ Deliberate \/ Synthesize \/ Direct
PromptsSpec == PromptsInit /\ [][PromptsNext]_promptVars

\* render_prompts_resource: the framings kaibo://prompts/<cast> shows.
Shown ==
  LET interactive == "synth" \in cast.slots /\ cast.lane = "interactive"
      skipped == {phase \in {"consult", "consult-solo"} :
                    ~interactive \/ (phase = "consult-solo") # ConsultSolo(cast)}
  IN {[phase |-> phase, framing |-> IF Overridden(phase) THEN "operator's" ELSE phase] :
        phase \in Phases \ skipped}

----
(* Properties *)

\* No model is told of a tool it does not have, of a file it cannot open with the tools it
\* has or that the caller did not attach, or of a reader other than the one that gets its
\* report; every file attached to a consult is told of once; a phase without tools gets no
\* layer of the project; and kaibo adds nothing of its own framing to an operator's.
PromptsAreTrue ==
  \A i \in DOMAIN phases :
    LET told == ToSet(phases[i].system) \cup ToSet(phases[i].user) IN
    /\ UNION {Names(part) : part \in told} \subseteq phases[i].tools
    /\ UNION {TellsOf(part) : part \in told} \subseteq asking.attached
    /\ phases[i].phase \in {"consult", "consult-solo"} =>
         UNION {TellsOf(part) : part \in ToSet(phases[i].user)} = asking.attached
    /\ phases[i].system[1] \in Phases => phases[i].reader \in Readers(phases[i].system[1])
    /\ phases[i].tools = {} => told \cap {"file-map", "house-rules"} = {}
    /\ "operator's" \in told => told \cap (Phases \cup {"closing"}) = {}

\* "so what a call sends and what the doc shows can't drift" (config.rs:1049): every
\* framing a call of the cast sends is one kaibo://prompts/<cast> shows.
ShownIsRead ==
  \A i \in DOMAIN phases : [phase |-> phases[i].phase, framing |-> phases[i].system[1]] \in Shown

\* No model is told of a tool, a file or a reader it does not have, and every framing
\* sent is one the prompts resource shows.
PromptsHold == PromptsAreTrue /\ ShownIsRead
=============================================================================

------------------------------- MODULE MCFront -------------------------------
(***************************************************************************)
(* What a call meets before and beside the consult itself, for TLC: the    *)
(* layers of configuration, the casts, the boundary of the file tools, the *)
(* two front doors, decide, generate and the batch lanes.  They share no   *)
(* variable; part picks the one that moves, so that the run visits the sum *)
(* of their states and not the product.                                    *)
(***************************************************************************)
EXTENDS Casts, Layers, FrontDoors, Boundary, Decide, Generate, BatchLanes

VARIABLE part

MCTopics == {{s.key} : s \in Settings}
  \cup {{"consult", "batch"}, {"telemetry", "endpoint"}, {"metrics", "endpoint"},
        {"metrics", "metrics_endpoint"}, {"logs", "endpoint"},
        {"telemetry", "capture"}, {"capture", "capture_content"},
        {"persistence", "state_db"}, {"persistence", "cas_dir"}, {"persistence", "cas"}}
MCVerbs == DOMAIN CallOf

-----------------------------------------------------------------------------
(* A file of backends and casts, and the lines an operator may change. *)

B(name, key, word) == Line("backends", name, key, word)
K(cast, key, word) == Line("casts", cast, key, word)
At(name, id) == Bare(name, id)

MCKeys == {B(name, "api_key_env", "set") : name \in Builtins}
MCMine(kind) == {B("mine", "kind", kind), B("mine", "base_url", "hosted"),
                 B("mine", "api_key_cmd", "good"), SlotLine("own", "explorer", At("gemini", "other"))}
MCStarts ==
  {<<"openai", [At("mine", "gpt-5") EXCEPT !.effort = "low", !.lane = "batch"]>>,
   <<"openai", [At("mine", "gpt-4") EXCEPT !.lane = "direct"]>>,
   <<"anthropic", [At("mine", "claude-3") EXCEPT !.lane = "batch"]>>,
   <<"anthropic", [At("anthropic", "claude-5") EXCEPT !.style = "budget"]>>,
   <<"stability", [At("openrouter", "other") EXCEPT !.effort = "none", !.lane = "batch"]>>,
   <<"stability", At("openrouter", "google/gemini")>>}
MCBases ==
  {{}} \cup {MCKeys \cup MCMine(s[1]) \cup {SlotLine("own", "synth", s[2])} : s \in MCStarts}
       \cup {MCKeys \cup MCMine(k) : k \in {"openai", "stability"}}

MCBackendLines ==
  {B("mine", "kind", k) : k \in {"openai", "garbled", "bfl"}}
    \cup {B(n, "base_url", u) : n \in {"anthropic", "openai-local", "openrouter"}, u \in {"hosted", "other"}}
    \cup {B(n, "wire", u) : n \in {"mine", "openai-local", "gemini"}, u \in {"responses", "chat", "garbled"}}
    \cup {B(n, "data_collection", u) : n \in {"openrouter", "gemini"}, u \in {"allow", "deny", "garbled"}}
    \cup {B(n, "prompt_cache", "off") : n \in {"openrouter", "gemini"}}
    \cup {B(n, "request_timeout_secs", "zero") : n \in {"gemini"}}
    \cup {B(n, "api_key_env", w) : n \in {"anthropic", "openrouter"}, w \in {"set", "blank"}}
    \cup {B(n, "api_key_file", w) : n \in {"openrouter", "mine", "gemini"}, w \in {"there", "gone", "empty"}}
    \cup {B(n, "api_key_cmd", w) : n \in {"deepseek", "openrouter"}, w \in {"good", "fails", "empty"}}
    \cup {B(n, "key_optional", "true") : n \in {"anthropic", "mine"}}
    \cup {B(n, "aliases", w) : n \in {"mine", "gemini"}, w \in {"claude", "mine2", "anthropic"}}
    \cup {B("a/b", "kind", "gemini"), Line("env", "all", "OPENAI_BASE_URL", "hosted"),
          Line("defaults", "all", "thinking_budget", "over"), Line("defaults", "all", "effort", "none"),
          Line("defaults", "all", "style", "off"), Line("defaults", "all", "style", "budget"),
          Line("server", "all", "cast", "own"), Line("server", "all", "cast", "google"),
          Line("server", "all", "cast", "nobody")}

MCSynths ==
  {At(b, "other") : b \in {"mine", "claude", "gemini", "openai-local", "nobody"}}
    \cup {[At(b, i) EXCEPT !.lane = l] :
            <<b, i>> \in {<<"anthropic", "claude-5">>, <<"anthropic", "claude-3">>,
                          <<"mine", "gpt-5">>, <<"mine", "gpt-4">>, <<"deepseek", "deepseek-flash">>,
                          <<"openrouter", "google/gemini">>},
            l \in {Unset, "batch", "direct"}}
    \cup {[At(b, i) EXCEPT !.effort = e, !.lane = l] :
            <<b, i>> \in {<<"anthropic", "claude-5">>, <<"gemini", "other">>, <<"openrouter", "other">>,
                          <<"mine", "gpt-5">>, <<"deepseek", "other">>},
            e \in {"none", "low", "max", "odd"}, l \in {Unset, "batch"}}
    \cup {[At("anthropic", "claude-5") EXCEPT !.style = s, !.budget = n, !.lane = l] :
            s \in {"budget", "off", "garbled"}, n \in {0, 20000, 40000}, l \in {Unset, "batch"}}
    \cup {[At("mine", "empty") EXCEPT !.lane = "batch"], [At("mine", "other") EXCEPT !.heat = "over"]}

MCCastLines ==
  {SlotLine("own", "synth", s) : s \in MCSynths}
    \cup {SlotLine(c, "explorer", s) : c \in {"anthropic-batch"},
            s \in {At("mine", "gpt-5"), At("gemini", "other"), [At("gemini", "other") EXCEPT !.lane = "direct"],
                   [At("deepseek", "other") EXCEPT !.effort = "none"]}}
    \cup {SlotLine(c, "synth", s) : c \in {"anthropic", "gemini-batch"},
            s \in {At("gemini", "other"), At("mine", "gpt-5"), [At("anthropic", "claude-3") EXCEPT !.tokens = 65536, !.budget = 40000]}}
    \cup {SlotLine("own", r, At(b, "other")) : r \in {"image", "audio", "decision"}, b \in {"mine", "openrouter"}}
    \cup {K(c, "batch", "true") : c \in {"own", "anthropic", "deepseek"}}
    \cup {K(c, "consult", w) : c \in {"own", "gemini-batch", "gemini"}, w \in {"solo", "team", "garbled"}}
    \cup {K("own", "aliases", w) : w \in {"claude", "mine2", "anthropic"}}

MCEdits == MCBackendLines \cup MCCastLines
MCAsked == {"own", "anthropic", "gemini-batch", "anthropic-batch", "openrouter"}
MCOverrides ==
  {[role |-> r, backend |-> b, id |-> i] : r \in Reasoning, b \in {Unset, "openrouter", "local"}, i \in {"other"}}
   \cup {[role |-> "synth", backend |-> b, id |-> "claude-3"] : b \in {"claude", "nobody"}}
   \cup {[role |-> "explorer", backend |-> Unset, id |-> "empty"]}

-----------------------------------------------------------------------------
(* Two repositories, a worktree's place outside and one around the first. *)

MCNone == <<"none">>
MCHome == <<"h">>
MCRepo == <<"h", "s", "r">>
MCDirs == {<< >>, MCHome, <<"h", "s">>, MCRepo, <<"w">>, <<"o">>}
MCFiles == {MCRepo \o <<"f">>, <<"w", "g">>, <<"h", "p">>}
MCCanon == [d \in MCDirs \cup MCFiles |-> d]
             @@ (<<"link">> :> <<"h", "p">>) @@ (<<"gone">> :> MCNone)
MCRegistrations == "r1" :> MCRepo @@ "r2" :> <<"o">>
MCConfigs ==
  [root : {MCNone}, allow : {{}, {<<"w">>}}, infer : {TRUE}, follow : BOOLEAN,
   cwd : {MCHome, MCRepo}]
    \cup [root : {MCRepo}, allow : {{}, {<<"w">>}}, infer : {TRUE}, follow : BOOLEAN, cwd : {MCHome}]
    \cup [root : {MCNone, <<"gone">>}, allow : {{<<"w">>}}, infer : {FALSE}, follow : {TRUE},
          cwd : {MCRepo}]
MCPaths == {MCHome, <<"w">>, <<"gone">>}
MCPlaces == {MCHome, <<"w">>}
MCLists == {<<MCRepo \o <<"f">>>>, <<<<"link">>>>, <<<<"w", "g">>>>,
            <<MCRepo \o <<"f">>, MCRepo \o <<"f">>>>, <<<<"w", "g">>, <<"w", "g">>, <<"gone">>>>}

-----------------------------------------------------------------------------
(* Two questions; every plain request for media, and each with one thing asked of
   it (the command line asks for no op and no input); three prompts in a batch. *)

MCSlots == {<<"stability", "core">>, <<"stability", "sd3.5">>, <<"stability", "stable-audio-2">>,
            <<"stability", "stable-audio-2.5">>, <<"stability", "stable-audio-3">>,
            <<"openai-images", "gpt-image-1">>, <<"gemini-media", "gemini-image">>,
            <<"dashscope", "wan2.6">>, <<"bfl", "flux-2-pro">>, <<"bfl", "flux-3">>,
            <<"openai", "gpt-5">>}
MCPlain ==
  {[door |-> d, kind |-> s[1], model |-> s[2], output |-> o, op |-> "none",
    input |-> "none", field |-> "none", key |-> TRUE, store |-> TRUE, slot |-> TRUE] :
     d \in {"server", "cli"}, s \in MCSlots, o \in {"image", "audio"}}
MCOps == {"edit/erase", "edit/remove-background", "audio-to-audio", "inpaint", "edits",
          "variations", "flux-dev", "unwired"}
MCInputs == {"image", "named-prompt", "text", "absent"}
MCFields == {"prompt", "model", "webhook_url", "response_format", "format-webp",
             "format-bad", "voice-and-speakers", "speakers-bad", "other"}
MCRequested ==
  MCPlain
    \cup {[r EXCEPT !.field = f] : r \in MCPlain, f \in MCFields}
    \cup {[r EXCEPT !.op = o, !.input = i] :
            r \in {p \in MCPlain : p.door = "server"}, o \in MCOps \cup {"none"},
            i \in MCInputs \cup {"none"}}
    \cup {[r EXCEPT !.key = FALSE] : r \in MCPlain}
    \cup {[r EXCEPT !.store = FALSE] : r \in MCPlain}
    \cup {[r EXCEPT !.slot = FALSE] : r \in MCPlain}

MCAttached == <<"file", "image">>

-----------------------------------------------------------------------------
Parts == {"layers", "casts", "trees", "doors", "questions", "media", "batch"}

\* A part that does not move stays in one of its initial states.
Still ==
  /\ part = "layers" \/ topic = {"root"}
  /\ part = "casts" \/ file = {}
  /\ part = "trees" \/ config = CHOOSE c \in MCConfigs : TRUE
  /\ part = "doors" \/ (verb = (CHOOSE v \in Verbs : TRUE) /\ wrong = {} /\ asks = [persistence |-> TRUE, dir |-> TRUE])
  /\ part = "questions" \/ (asked = [i \in {} |-> 0] /\ deny = FALSE)
  /\ part = "media" \/ gAsked = CHOOSE r \in MCPlain : TRUE
  /\ part = "batch" \/ backend = CHOOSE b \in Backend : TRUE

MCInit ==
  /\ part \in Parts /\ Still
  /\ LayersInit /\ CastsInit /\ BoundaryInit /\ FrontInit
  /\ GenerateInit /\ LaneInit /\ DecideInit
  /\ asks.dir => asks.persistence   \* without the database the directory is not looked at

\* Git changes twice while the files stay, or once beside the rewriting of a file.
FewChanges == changes'.git + changes'.files <= 2

MCNext ==
  /\ UNCHANGED part
  /\ \/ /\ part = "layers" /\ LayersNext
        /\ UNCHANGED <<castVars, boundaryVars, frontVars,
                       decideVars, generateVars, laneVars>>
     \/ /\ part = "casts" /\ CastsNext
        /\ UNCHANGED <<layerVars, boundaryVars, frontVars,
                       decideVars, generateVars, laneVars>>
     \/ /\ part = "trees" /\ BoundaryNext /\ FewChanges
        /\ UNCHANGED <<layerVars, castVars, frontVars,
                       decideVars, generateVars, laneVars>>
     \/ /\ part = "doors" /\ FrontNext
        /\ UNCHANGED <<layerVars, castVars, boundaryVars,
                       decideVars, generateVars, laneVars>>
     \/ /\ part = "questions" /\ DecideNext
        /\ UNCHANGED <<layerVars, castVars, boundaryVars,
                       frontVars, generateVars, laneVars>>
     \/ /\ part = "media" /\ GenerateNext
        /\ UNCHANGED <<layerVars, castVars, boundaryVars,
                       frontVars, decideVars, laneVars>>
     \/ /\ part = "batch" /\ LaneNext
        /\ UNCHANGED <<layerVars, castVars, boundaryVars,
                       frontVars, decideVars, generateVars>>

MCSpec == MCInit /\ [][MCNext]_<<part, layerVars, castVars, boundaryVars,
                                  frontVars, decideVars, generateVars, laneVars>>
=============================================================================

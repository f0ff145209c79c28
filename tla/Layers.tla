-------------------------------- MODULE Layers --------------------------------
(***************************************************************************)
(* How the settings of one process are resolved (config.rs, main.rs): built-in *)
(* defaults, config.toml, the environment, merge and its checks, and the flags, *)
(* which are applied after them.  A value is the part of it that a check tells *)
(* apart, a setting what each layer may do to it.                             *)
(***************************************************************************)
EXTENDS Naturals, Sequences, FiniteSets, TLC

CONSTANTS
  GatedTools,  \* the tools an operator can turn off (ToolGating)
  Topics       \* the sets of settings that are varied together

VARIABLES
  topic,     \* the settings some layer speaks of
  spoken,    \* what each layer said of each of them
  homeless,  \* neither $HOME nor an $XDG_*_HOME is set
  otel,      \* the standard telemetry variables that are set
  layerAt,   \* where the process is
  settings,  \* each setting as resolved so far
  opened     \* what serving holds: sessions, media store and exported signals

layerVars == <<topic, spoken, homeless, otel, layerAt, settings, opened>>

Unsaid == "unset"

----
(* Settings *)

Switch(key, env, flag, default) ==
  [key |-> key, kind |-> "switch", env |-> env, flag |-> flag, default |-> default,
   refused |-> {}]
Number(key, env, flag, refused) ==
  [key |-> key, kind |-> "number", env |-> env, flag |-> flag, default |-> "some",
   refused |-> refused]
Ratio(key, refused) ==
  [key |-> key, kind |-> "ratio", env |-> "set", flag |-> "none", default |-> "some",
   refused |-> refused]
Word(key, env, flag, refused) ==
  [key |-> key, kind |-> "word", env |-> env, flag |-> flag, default |-> "default",
   refused |-> refused]
Place(key, env, flag, default) ==
  [key |-> key, kind |-> "place", env |-> env, flag |-> flag, default |-> default,
   refused |-> {"unset-variable", "empty-variable", "stray"}]

\* All on.
ToolSettings == {Switch(tool, "off", "off", "true") : tool \in GatedTools}

ServerSettings ==
  {Place("root", "set", "set", Unsaid), Place("allow_paths", "list", "list", Unsaid),
   Switch("follow_worktrees", "off", "off", "true"),
   Switch("infer_cwd", "off", "off", "true"),
   Word("cast", "set", "set", {"unknown"}), Word("log", "set", "none", {})}

Turns == {Number(key, "set", "none", {}) : key \in
           {"explorer_max_turns", "synth_max_turns", "max_tokens", "thinking_budget",
            "inline_attach_budget"}}
Capacities == {Number(key, "set", "none", {"zero"}) : key \in
                {"session_capacity", "job_capacity", "call_deadline_secs",
                 "request_timeout_secs"}}

DefaultsSettings ==
  Turns \cup Capacities
    \cup {Number("max_attachments", "set", "set", {}),
          Number("slow_chat_secs", "set", "none", {}),
          Ratio("explorer_temperature", {"over"}), Ratio("synth_temperature", {"over"}),
          Ratio("top_p", {"zero", "over"}),
          Word("explorer_effort", "set", "none", {}), Word("synth_effort", "set", "none", {}),
          Word("thinking_style", "set", "none", {"unknown"})}

TelemetrySettings ==
  {Switch("telemetry", "loose", "none", "false"),
   Switch("traces", "loose", "none", "true"), Switch("logs", "loose", "none", "true"),
   Switch("metrics", "loose", "none", "true"),
   Switch("capture_content", "loose", "none", "false"), Word("capture", "none", "none", {}),
   Word("endpoint", "set", "none", {}), Word("logs_endpoint", "set", "none", {}),
   Word("metrics_endpoint", "set", "none", {}), Word("service_name", "set", "none", {}),
   Number("telemetry_timeout", "set", "none", {"zero"})}

\* A default directory under $HOME or one of its XDG names.
DefaultStateDb == IF homeless THEN Unsaid ELSE "plain"
DefaultCasDir == IF homeless THEN Unsaid ELSE "plain"

PersistenceSettings ==
  {Switch("persistence", "off", "off", "true"), Place("state_db", "set", "set", "plain")}
CasSettings ==
  {Switch("cas", "none", "none", "true"), Place("cas_dir", "set", "set", "plain"),
   Number("cas_max_bytes", "set", "set", {"zero"})}
ArtifactsSettings == {Switch("artifacts", "strict", "on", "false")}

ContextSettings ==
  {Word("project_files", "set", "list", {}), Place("user_files", "set", "list", Unsaid)}
PromptSettings ==
  {Word(key, "none", "none", {"blank"}) : key \in
    {"prompts.explorer", "prompts.consult", "prompts.oneshot", "prompts.batch"}}
OrientationSettings ==
  {Switch("orientation", "none", "none", "true"),
   Number("full_list_max_files", "none", "none", {"zero"}),
   Number("tree_max_depth", "none", "none", {"zero"})}
SandboxSettings ==
  {Number("exec_timeout_secs", "set", "none", {}),
   Number("output_limit_bytes", "set", "none", {}),
   Number("scratch_limit_bytes", "set", "none", {"zero"}),
   Word("disable_builtins", "none", "none", {})}
KaishSettings ==
  {Switch("ignore.defaults", "none", "none", "true"),
   Switch("ignore.auto_gitignore", "none", "none", "true"),
   Switch("ignore.global_gitignore", "none", "none", "false"),
   Word("ignore.scope", "none", "none", {"unknown"}),
   Word("ignore.files", "none", "none", {})}

OtherSettings ==
  UNION {ServerSettings, DefaultsSettings, TelemetrySettings, PersistenceSettings,
         CasSettings, ArtifactsSettings, ContextSettings, PromptSettings,
         OrientationSettings, SandboxSettings, KaishSettings}

Settings == ToolSettings \cup OtherSettings

\* No tool has the name of another setting.
ASSUME ToolsAssumption == \A s \in OtherSettings : s.key \notin GatedTools

Keys == {s.key : s \in Settings}
Setting(key) == CHOOSE s \in Settings : s.key = key

----
(* What a layer may say *)

Words(s) ==
  CASE s.kind = "switch" -> {"true", "false"}
    [] s.kind = "number" -> {"zero", "some"}
    [] s.kind = "ratio" -> {"zero", "some", "over"}
    [] s.kind = "place" -> {"plain", "home", "variable"} \cup s.refused
    [] s.kind = "word" ->
         CASE s.key = "endpoint" -> {"given", "custom"}   \* ends in /v1/traces, or does not
           [] s.key = "disable_builtins" -> {"given", "unknown"}
           [] s.key = "capture" -> {"safe", "content"}       \* names one that carries content
           [] OTHER -> {"given"} \cup s.refused

\* An environment's text need not be the text of any value.
Texts(s) ==
  Words(s) \cup (IF s.kind \in {"switch", "number", "ratio"} THEN {"garbled"} ELSE {})
           \cup (IF s.kind = "number" THEN {"huge"} ELSE {})
           \cup (IF s.env = "list" THEN {"empty"} ELSE {})

\* A flag is typed, and the shell expands its places.
FlagWords(s) ==
  CASE s.flag \in {"on", "off"} -> {"raised"}
    [] s.kind = "place" -> {"plain"}
    [] OTHER -> Words(s)

Layer(layer, s) ==
  CASE layer = "file" -> Words(s)
    [] layer = "env" -> IF s.env = "none" THEN {} ELSE Texts(s)
    [] OTHER -> IF s.flag = "none" THEN {} ELSE FlagWords(s)

Speeches(layer) ==
  LET words(key) == {Unsaid} \cup Layer(layer, Setting(key)) IN
  {said \in [topic -> UNION {words(key) : key \in topic}] :
     \A key \in topic : said[key] \in words(key)}

Silence == [key \in topic |-> Unsaid]
Said(layer, key) == IF key \in topic THEN spoken[layer][key] ELSE Unsaid

LayersInit ==
  /\ topic \in Topics
  /\ spoken = [file |-> Silence, env |-> Silence, flag |-> Silence]
  /\ homeless \in IF topic \cap {"state_db", "cas_dir"} # {} THEN BOOLEAN ELSE {FALSE}
  /\ otel \in SUBSET IF topic \cap {"telemetry", "metrics", "logs", "capture_content", "capture"} # {}
                       THEN {"base", "traces", "metrics", "capture", "disabled"} ELSE {}
  /\ layerAt = "file"
  /\ settings = [key \in Keys |-> Unsaid]
  /\ opened = [sessions |-> "none", media |-> "none", exports |-> {}, content |-> {}]

Goes(at) == layerAt' = at
Hears(layer, said) == spoken' = [spoken EXCEPT ![layer] = said]
Inputs == <<topic, homeless, otel>>

Refused == Goes("refused") /\ UNCHANGED <<Inputs, settings, opened>>

----
(* The file and the environment *)

\* A file that was named must exist; one that does must parse.
ReadFile ==
  /\ layerAt = "file"
  /\ \/ /\ Refused
        /\ UNCHANGED spoken
     \/ \E said \in Speeches("file") :
          /\ Hears("file", said)
          /\ settings' = [key \in Keys |-> IF key \in topic THEN said[key] ELSE Unsaid]
          /\ Goes("env")
          /\ UNCHANGED <<Inputs, opened>>

\* env_flag, and the telemetry switches: whatever is not a no.
Raised(text) == text \notin {Unsaid, "false"}

\* parse_env_int, parse_env and parse_strict_bool.
EnvRefuses(s, text) ==
  \/ s.kind = "number" /\ text \in {"huge", "garbled"}
  \/ s.kind = "ratio" /\ text = "garbled"
  \/ s.env = "strict" /\ text = "garbled"

\* What kaibo's own variable makes of a setting.  An empty list of files is a list of
\* none, an empty list of trees says nothing.
FromEnv(s, text) ==
  IF text = Unsaid \/ (s.key = "allow_paths" /\ text = "empty") THEN settings[s.key]
  ELSE CASE s.env = "off" -> IF Raised(text) THEN "false" ELSE settings[s.key]
         [] s.env = "loose" -> IF Raised(text) THEN "true" ELSE "false"
         [] OTHER -> text

\* The standard variables fill what the file left unsaid, and an address turns
\* telemetry on there.
OtelEndpoint == IF "traces" \in otel THEN "custom" ELSE IF "base" \in otel THEN "given" ELSE Unsaid
OtelMetrics == IF otel \cap {"base", "metrics"} # {} THEN "given" ELSE Unsaid
OtelLogs == IF "base" \in otel THEN "given" ELSE Unsaid

Fills(key, value) == IF settings[key] = Unsaid THEN value ELSE settings[key]

OtelFills ==
  [endpoint |-> Fills("endpoint", OtelEndpoint),
   logs_endpoint |-> Fills("logs_endpoint", OtelLogs),
   metrics_endpoint |-> Fills("metrics_endpoint", OtelMetrics),
   telemetry |-> Fills("telemetry", IF \/ OtelEndpoint # Unsaid
                                       \/ Fills("metrics_endpoint", OtelMetrics) # Unsaid
                                      THEN "true" ELSE Unsaid),
   capture_content |-> Fills("capture_content", IF "capture" \in otel THEN "true" ELSE Unsaid)]

\* Mutant of FromEnvironment: the standard kill switch is one more variable to fill.
FromEnvironmentKept(said) ==
  [key \in Keys |->
    LET standard == IF key \in DOMAIN OtelFills THEN OtelFills[key] ELSE settings[key]
        text == IF key \in topic THEN said[key] ELSE Unsaid IN
    IF text = Unsaid THEN standard ELSE FromEnv(Setting(key), text)]

\* kaibo's variables are over the standard ones, and OTEL_SDK_DISABLED over both.
FromEnvironment(said) ==
  [key \in Keys |->
    LET standard == IF key \in DOMAIN OtelFills THEN OtelFills[key] ELSE settings[key]
        text == IF key \in topic THEN said[key] ELSE Unsaid IN
    IF key = "telemetry" /\ "disabled" \in otel THEN "false"
    ELSE IF text = Unsaid THEN standard ELSE FromEnv(Setting(key), text)]

\* The retired KAIBO_PROVIDER is refused before anything else is read.
ApplyRawEnv ==
  /\ layerAt = "env"
  /\ \/ Refused /\ UNCHANGED spoken
     \/ \E said \in Speeches("env") :
          /\ Hears("env", said)
          /\ IF \E key \in topic : EnvRefuses(Setting(key), said[key])
               THEN Refused
               ELSE /\ settings' = FromEnvironment(said)
                    /\ Goes("merge")
                    /\ UNCHANGED <<Inputs, opened>>

----
(* Merge *)

\* Where a setting nobody gave starts; metrics that nobody gave are on all the same.
DefaultOf(key) ==
  CASE key = "state_db" -> DefaultStateDb
    [] key = "cas_dir" -> DefaultCasDir
    [] key = "metrics" -> "by-default"
    [] OTHER -> Setting(key).default

\* expand_tilde after expand_env_vars.
ExpandPath(place) ==
  CASE place = "variable" -> "plain"
    [] place = "home" -> IF homeless THEN "literal" ELSE "plain"
    [] OTHER -> place

Resolved(key) ==
  IF settings[key] = Unsaid THEN DefaultOf(key)
  ELSE CASE Setting(key).kind = "place" -> ExpandPath(settings[key])
         [] key = "slow_chat_secs" /\ settings[key] = "zero" -> "off"
         [] OTHER -> settings[key]

\* Durable sessions must have somewhere to be.
PersistenceRefuses == /\ Resolved("persistence") = "true"
                      /\ Resolved("state_db") = Unsaid

MergeRefuses ==
  \/ \E key \in Keys : settings[key] \in Setting(key).refused
  \/ PersistenceRefuses

Merge ==
  /\ layerAt = "merge"
  /\ UNCHANGED spoken
  /\ \/ MergeRefuses /\ Refused
     \/ /\ ~MergeRefuses
        /\ settings' = [key \in Keys |-> Resolved(key)]
        /\ Goes("flags")
        /\ UNCHANGED <<Inputs, opened>>

----
(* Flags, applied to what merge checked *)

FromFlag(s, word) ==
  IF word = Unsaid THEN settings[s.key]
  ELSE CASE s.flag = "off" -> "false"
         [] s.flag = "on" -> "true"
         [] OTHER -> word

ApplyCli ==
  /\ layerAt = "flags"
  /\ \E said \in Speeches("flag") :
       /\ Hears("flag", said)
       /\ settings' = [key \in Keys |->
                        IF key \in topic THEN FromFlag(Setting(key), said[key])
                                         ELSE settings[key]]
  /\ Goes("telemetry")
  /\ UNCHANGED <<Inputs, opened>>

----
(* Serving *)

On(key) == settings[key] \in {"true", "by-default"}

\* An endpoint nobody gave is the traces endpoint's sibling, when that has one.
Derivable(key) == settings[key] # "default" \/ settings["endpoint"] # "custom"

\* Signals on by default are dropped when they have nowhere to go, signals asked for
\* are an error.
TelemetryFails ==
  /\ On("telemetry")
  /\ \/ On("logs") /\ ~Derivable("logs_endpoint")
     \/ settings["metrics"] = "true" /\ ~Derivable("metrics_endpoint")

Exported ==
  IF ~On("telemetry") THEN {}
  ELSE {signal \in {"traces", "logs", "metrics"} :
          On(signal) /\ (signal = "metrics" => Derivable("metrics_endpoint"))}

\* AttributePolicy::new: of what a span says, what leaves.  The switch admits every
\* attribute that carries content, and a listed one goes by its own name, without it.
ContentAttributes == {"prompts", "responses"}
ContentAllowed ==
  {attribute \in ContentAttributes :
     On("capture_content") \/ (settings["capture"] = "content" /\ attribute = "responses")}

InitTelemetry ==
  /\ layerAt = "telemetry"
  /\ UNCHANGED spoken
  /\ \/ TelemetryFails /\ Refused
     \/ /\ ~TelemetryFails
        /\ opened' = [opened EXCEPT !.exports = Exported, !.content = ContentAllowed]
        /\ Goes("start")
        /\ UNCHANGED <<Inputs, settings>>

AllDisabled == \A tool \in GatedTools : settings[tool] = "false"

\* A flag's cast and the sandbox's builtins are checked here only.
StartRefuses == \/ AllDisabled
                \/ settings["cast"] = "unknown"
                \/ settings["disable_builtins"] = "unknown"

CheckStart ==
  /\ layerAt = "start"
  /\ UNCHANGED spoken
  /\ \/ StartRefuses /\ Refused
     \/ ~StartRefuses /\ Goes("store") /\ UNCHANGED <<Inputs, settings, opened>>

\* Another process's lock is lived with in memory; any other failure stops the start.
OpenSessions ==
  /\ layerAt = "store"
  /\ UNCHANGED spoken
  /\ \/ On("persistence") /\ Refused
     \/ \E sessions \in IF On("persistence") THEN {"persistent", "memory"} ELSE {"memory"} :
          /\ opened' = [opened EXCEPT !.sessions = sessions]
          /\ Goes("media")
          /\ UNCHANGED <<Inputs, settings>>

CasMode(persistent) ==
  IF ~On("cas") THEN "off"
  ELSE IF persistent /\ settings["cas_dir"] # Unsaid THEN "disk" ELSE "memory"

\* A disk store that does not open is never replaced by memory.
FinalizeMediaStore ==
  LET mode == CasMode(opened.sessions = "persistent") IN
  /\ layerAt = "media"
  /\ UNCHANGED spoken
  /\ \/ mode = "disk" /\ Refused
     \/ /\ opened' = [opened EXCEPT !.media = mode]
        /\ Goes("serving")
        /\ UNCHANGED <<Inputs, settings>>

LayersNext ==
  \/ ReadFile \/ ApplyRawEnv \/ Merge \/ ApplyCli
  \/ InitTelemetry \/ CheckStart \/ OpenSessions \/ FinalizeMediaStore

LayersSpec == LayersInit /\ [][LayersNext]_layerVars

\* kaibo://config: the settings that are served, with the address each signal resolves
\* to, and of the stores what was opened.
Shown ==
  [tools |-> {tool \in GatedTools : settings[tool] = "true"},
   telemetry |-> On("telemetry"),
   addressed |-> {signal \in {"traces", "logs", "metrics"} :
                    /\ On(signal)
                    /\ signal = "logs" => Derivable("logs_endpoint")
                    /\ signal = "metrics" => Derivable("metrics_endpoint")},
   content |-> On("capture_content"),
   captured |-> settings["capture"],
   persistence |-> [enabled |-> On("persistence"), active |-> opened.sessions = "persistent"],
   media |-> [enabled |-> On("cas"), mode |-> opened.media]]

----
(* Properties *)

Serving == layerAt = "serving"

\* Some layer turned the switch off after the file.
TurnedOff(key) == \/ Setting(key).env = "off" /\ Raised(Said("env", key))
                  \/ Setting(key).flag = "off" /\ Said("flag", key) = "raised"

\* What an operator turned off on the way up is off, whatever the file says: a tool is
\* not offered; without persistence no session and no artifact reaches a disk; and
\* OTEL_SDK_DISABLED silences every signal.
OffIsOff ==
  Serving =>
    /\ \A key \in GatedTools \cup {"follow_worktrees", "infer_cwd"} :
         TurnedOff(key) => settings[key] = "false"
    /\ TurnedOff("persistence") => opened.sessions = "memory" /\ opened.media # "disk"
    /\ opened.media = "disk" => opened.sessions = "persistent"
    /\ "disabled" \in otel => opened.exports = {}

Names(key, words) == \E layer \in {"file", "env", "flag"} : Said(layer, key) \in words

ContentAsked == Names("capture_content", {"true", "garbled"}) \/ "capture" \in otel

\* What leaves the machine, and what a model may write, somebody asked for: nothing is
\* exported unless a layer enabled telemetry or named a collector; no attribute with
\* content passes the filter of the spans unless a layer asked for content or the file
\* lists it, and listing one does not admit another; and a consult's artifacts are
\* allowed by an unambiguous yes.
OptInsAreExplicit ==
  Serving =>
    /\ opened.exports # {} =>
         \/ Names("telemetry", {"true", "garbled"})
         \/ otel \cap {"base", "traces", "metrics"} # {}
         \/ Names("metrics_endpoint", {"given"})
    /\ "prompts" \in opened.content => ContentAsked
    /\ "responses" \in opened.content => ContentAsked \/ Said("file", "capture") = "content"
    /\ On("artifacts") => Names("artifacts", {"true", "raised"})

\* What the config resource shows is what runs, though each is resolved by itself: the
\* signals shown with an address are those exported; content leaves whole if the switch is
\* shown, and not at all if neither it is nor a listed name that carries some; a store is
\* active or on disk only if it is enabled too; and a tool that is shown as off was turned
\* off by some layer.
ShownIsTrue ==
  Serving =>
    /\ Shown.telemetry => Shown.addressed = opened.exports
    /\ ~Shown.telemetry => opened.exports = {}
    /\ Shown.content => opened.content = ContentAttributes
    /\ opened.content # {} => Shown.content \/ Shown.captured = "content"
    /\ Shown.persistence.active => Shown.persistence.enabled
    /\ Shown.media.mode = "disk" => Shown.media.enabled /\ Shown.persistence.active
    /\ \A tool \in GatedTools \ Shown.tools :
         TurnedOff(tool) \/ Said("file", tool) = "false"

\* What an operator turned off is off, what leaves the machine somebody asked for, and
\* what the config resource shows is what runs.
SwitchesHold == OffIsOff /\ OptInsAreExplicit /\ ShownIsTrue
=============================================================================

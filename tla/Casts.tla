-------------------------------- MODULE Casts --------------------------------
(***************************************************************************)
(* Backends and casts: what config.toml may say of them, what merge makes of *)
(* it and refuses, which tools are offered with which casts (config.rs,        *)
(* server/mod.rs), and what a call on a cast sends to its models (resolver.rs, *)
(* engine.rs, shaping.rs, batch.rs).  A value is the part of it that a check   *)
(* tells apart; token counts are the code's own.                               *)
(***************************************************************************)
EXTENDS Naturals, FiniteSets, TLC

CONSTANTS
  Bases,      \* the files a configuration starts from, each a set of lines
  Edits,      \* the lines an operator may add to one
  MaxEdits,
  Asked,      \* the casts a caller may name
  Overrides   \* the models a caller may ask for in a cast's stead

VARIABLES
  file,      \* the lines of config.toml
  castsAt,   \* how far the load has come
  backends,  \* each backend's connection
  casts,     \* each cast's slots and consult mode
  offered,   \* the live tools, each with the casts its schema lists
  reply      \* what became of a call

castVars == <<file, castsAt, backends, casts, offered, reply>>

Unset == "unset"

----
(* Lines: one key of one table, with its word or, for a role's key, its slot *)

Bare(backend, id) ==
  [backend |-> backend, id |-> id, effort |-> Unset, style |-> Unset, lane |-> Unset,
   budget |-> 0, tokens |-> 0, vision |-> FALSE, heat |-> "some"]
Slot == Bare(Unset, "other")

Line(table, name, key, word) ==
  [table |-> table, name |-> name, key |-> key, word |-> word, slot |-> Slot]
SlotLine(cast, role, slot) ==
  [table |-> "casts", name |-> cast, key |-> role, word |-> "slot", slot |-> slot]

SameKey(l, k) == l.table = k.table /\ l.name = k.name /\ l.key = k.key

Of(table, name, key) == {l \in file : l.table = table /\ l.name = name /\ l.key = key}
Says(table, name, key) ==
  LET said == Of(table, name, key) IN
  IF said = {} THEN Unset ELSE (CHOOSE l \in said : TRUE).word
Or(word, value) == IF word = Unset THEN value ELSE word
Tables(table) == {l.name : l \in {k \in file : k.table = table}}

\* A slot has the fields of one, in the widths of the code's; and no line writes the
\* effort that stands for none.
IsSlot(s) ==
  /\ s = [backend |-> s.backend, id |-> s.id, effort |-> s.effort, style |-> s.style,
          lane |-> s.lane, budget |-> s.budget, tokens |-> s.tokens, vision |-> s.vision,
          heat |-> s.heat]
  /\ s.budget \in Nat /\ s.tokens \in Nat /\ s.effort # "absent"
ASSUME LinesAssumption ==
  \A l \in Edits \cup UNION Bases : IsSlot(l.slot) /\ (l.key = "effort" => l.word # "absent")

----
(* Kinds and models (credentials.rs, shaping.rs) *)

WireKinds == {"anthropic", "deepseek", "gemini", "openrouter", "openai"}
MediaKinds == {"stability", "bfl"}   \* one that makes audio too, one that does not

EffortLadder == <<"minimal", "low", "medium", "high", "xhigh", "max">>
Rungs == DOMAIN EffortLadder
Ranked(effort) == \E n \in Rungs : EffortLadder[n] = effort
EffortRank(effort) == CHOOSE n \in Rungs : EffortLadder[n] = effort

\* The shape a kind's wire gives reasoning; off is answered first.
ThinkingStyle(kind, id, style) ==
  IF kind \notin WireKinds \/ style = "off" THEN "none"
  ELSE CASE kind = "anthropic" ->
              IF style = "adaptive" \/ (style = "auto" /\ id = "claude-5")
                THEN "anthropic-adaptive" ELSE "anthropic-budget"
         [] kind = "gemini" -> "gemini-level"
         [] kind = "deepseek" -> "deepseek-effort"
         [] kind = "openrouter" -> "openrouter-effort"
         [] OTHER -> "effort-only"

SinksBudget(shape) == shape = "anthropic-budget"
SinksEffort(shape) == shape \notin {"none", "anthropic-budget"}

CheckEffortFails(shape, effort) ==
  \/ shape = "gemini-level" /\ effort \notin {"minimal", "low", "medium", "high"}
  \/ shape = "anthropic-adaptive" /\ effort = "none"

\* How an effort looks in the request of a shape.
WrittenEffort(shape, effort) ==
  IF ~SinksEffort(shape) THEN "absent"
  ELSE IF effort = "none" /\ shape \in {"deepseek-effort", "openrouter-effort"} THEN "disabled"
  ELSE effort

AcceptsReasoning(id) == id = "gpt-5"
ResponsesEffort(id, style, effort) ==
  IF AcceptsReasoning(id) /\ style # "off" THEN effort ELSE "absent"

Vision(kind, slot) ==
  /\ kind \in WireKinds
  /\ \/ slot.vision
     \/ kind \in {"anthropic", "gemini"}
     \/ kind = "deepseek" /\ slot.id = "deepseek-flash"
     \/ kind = "openrouter" /\ slot.id = "google/gemini"

----
(* Backends (config.rs) *)

Builtins == {"anthropic", "deepseek", "gemini", "openrouter", "openai-local"}
BuiltinKind(name) == IF name = "openai-local" THEN "openai" ELSE name

\* What the words a file may write in these keys can be.
DataCollections == {"deny", "allow"}
PromptCaches == {"short", "long", "off"}
OpenaiWires == {"responses", "chat"}
ConsultModes == {"solo", "team"}
Lanes == {"batch", "direct"}
ThinkingStyles == {"auto", "adaptive", "budget", "off"}

\* Only a server of one's own may do without a key.
KeyOptional(kind) == kind = "openai"

Template(kind) ==
  [kind |-> kind, url |-> Unset, env |-> Unset, file |-> Unset, cmd |-> Unset,
   optional |-> KeyOptional(kind), timeout |-> "some", collection |-> "deny",
   cache |-> "short", wire |-> Unset]

KindOf(name) ==
  IF name \in Builtins THEN BuiltinKind(name) ELSE Says("backends", name, "kind")

\* RawBackend.apply_to: a key only some kinds know, or a word that is not one of its.
ApplyRefuses(name) ==
  LET says(key) == Says("backends", name, key)
      kind == KindOf(name) IN
  \/ says("kind") \notin {Unset, kind}
  \/ /\ says("data_collection") # Unset
     /\ kind # "openrouter" \/ says("data_collection") \notin DataCollections
  \/ /\ says("prompt_cache") # Unset
     /\ kind \notin {"anthropic", "openrouter"} \/ says("prompt_cache") \notin PromptCaches
  \/ /\ says("wire") # Unset
     /\ kind # "openai" \/ says("wire") \notin OpenaiWires

ApplyTo(name) ==
  LET says(key) == Says("backends", name, key)
      old == Template(KindOf(name)) IN
  [old EXCEPT !.url = says("base_url"), !.env = says("api_key_env"),
              !.file = says("api_key_file"), !.cmd = says("api_key_cmd"),
              !.optional = IF says("key_optional") = Unset THEN @ ELSE says("key_optional") = "true",
              !.timeout = Or(says("request_timeout_secs"), @),
              !.collection = Or(says("data_collection"), @),
              !.cache = Or(says("prompt_cache"), @), !.wire = says("wire")]

\* A backend the file adds must say its kind, and where an openai one is.
NewRefuses(name) ==
  \/ KindOf(name) \notin WireKinds \cup MediaKinds
  \/ KindOf(name) = "openai" /\ Says("backends", name, "base_url") = Unset

BackendRefuses(name, b) ==
  \/ name = "a/b"
  \/ b.url # Unset /\ b.kind \in {"deepseek", "openrouter"}
  \/ b.timeout = "zero"
  \/ b.file # Unset /\ b.cmd # Unset
  \/ b.cmd = "empty"

\* The aliases of a table: those of the built-ins it holds, and the file's.
BuiltinAliases(name) ==
  CASE name = "anthropic" -> {"claude"}
    [] name = "gemini" -> {"google"}
    [] name = "openai-local" -> {"local"}
    [] OTHER -> {}
Aliases(table, names) ==
  {a \in {"claude", "google", "local", "mine2", "anthropic"} \X names :
     a[1] \in BuiltinAliases(a[2]) \/ a[1] = Says(table, a[2], "aliases")}
AliasClashes(table, names) ==
  \E a \in Aliases(table, names) :
    a[1] \in names \/ \E b \in Aliases(table, names) : a[1] = b[1] /\ a[2] # b[2]
Canonical(table, names, name) ==
  IF name \in names THEN name
  ELSE IF \E a \in Aliases(table, names) : a[1] = name
         THEN (CHOOSE a \in Aliases(table, names) : a[1] = name)[2]
         ELSE "unknown"

----
(* Casts (config.rs) *)

Roles == {"explorer", "synth", "image", "audio", "decision"}
Reasoning == {"explorer", "synth"}

BuiltinSlot(cast, role) ==
  CASE cast \in {"gemini-batch", "anthropic-batch"} ->
         [Bare(IF cast = "gemini-batch" THEN "gemini" ELSE "anthropic",
               IF cast = "gemini-batch" THEN "other" ELSE "claude-5") EXCEPT !.lane = "batch"]
    [] cast = "anthropic" ->
         [Bare(cast, "claude-5") EXCEPT !.tokens = IF role = "synth" THEN 32768 ELSE 0]
    [] cast = "deepseek" ->
         [Bare(cast, "deepseek-flash") EXCEPT
            !.tokens = IF role = "synth" THEN 131072 ELSE 0,
            !.effort = IF role = "synth" THEN "max" ELSE Unset]
    [] cast = "openrouter" ->
         [Bare(cast, "other") EXCEPT !.tokens = IF role = "synth" THEN 65536 ELSE 0,
                                     !.vision = role = "explorer"]
    [] OTHER ->
         [Bare(cast, "other") EXCEPT
            !.tokens = IF cast = "gemini" /\ role = "synth" THEN 65536 ELSE 0]

BuiltinCasts == Builtins \cup {"gemini-batch", "anthropic-batch"}
BuiltinRoles(cast) ==
  CASE cast \in {"gemini-batch", "anthropic-batch"} -> {"synth"}
    [] cast \in Builtins -> Reasoning
    [] OTHER -> {}
BuiltinMode(cast) == IF cast = "anthropic" THEN "solo" ELSE Unset

WrittenSlot(cast, role) == (CHOOSE l \in Of("casts", cast, role) : TRUE).slot
WrittenRoles(cast) == {role \in Roles : Of("casts", cast, role) # {}}

\* A slot of the file replaces the cast's, but for a lane it does not speak of.
\* A built-in offline synth stays offline.
RawSlot(cast, role) ==
  IF role \notin WrittenRoles(cast) THEN BuiltinSlot(cast, role)
  ELSE LET slot == WrittenSlot(cast, role) IN
       IF slot.lane = Unset /\ role \in BuiltinRoles(cast)
         THEN [slot EXCEPT !.lane = BuiltinSlot(cast, role).lane] ELSE slot

\* The batch = true sugar.
WithBatch(cast, role, slot) ==
  IF role = "synth" /\ Says("casts", cast, "batch") = "true" /\ slot.lane = Unset
    THEN [slot EXCEPT !.lane = "batch"] ELSE slot

RawCast(cast) ==
  [slots |-> [role \in BuiltinRoles(cast) \cup WrittenRoles(cast) |->
                WithBatch(cast, role, RawSlot(cast, role))],
   consult |-> Or(Says("casts", cast, "consult"), BuiltinMode(cast))]

Has(cast, role) == role \in DOMAIN cast.slots
SynthLane(cast) == IF Has(cast, "synth") THEN cast.slots["synth"].lane ELSE Unset
SynthOffline(cast) == SynthLane(cast) # Unset

RawCastRefuses(cast) ==
  \/ Says("casts", cast, "consult") \notin ConsultModes \cup {Unset}
  \/ \E role \in WrittenRoles(cast) :
       \/ WrittenSlot(cast, role).style \notin ThinkingStyles \cup {Unset}
       \/ WrittenSlot(cast, role).lane \notin Lanes \cup {Unset}
  \/ /\ Says("casts", cast, "batch") = "true"
     /\ ~Has(RawCast(cast), "synth") \/ SynthLane(RawCast(cast)) = "direct"

\* Tokens: the slot's, or the defaults'.
DefaultWord(key) == Says("defaults", "all", key)
Tunables(role, slot) ==
  [effort |-> Or(slot.effort, Or(DefaultWord("effort"), "high")),
   style |-> Or(slot.style, Or(DefaultWord("style"), "auto")),
   tokens |-> IF slot.tokens # 0 THEN slot.tokens ELSE 16384,
   budget |-> IF slot.budget # 0 THEN slot.budget
              ELSE IF DefaultWord("thinking_budget") = "over" THEN 20000 ELSE 8192]

Shape(b, slot, t) == ThinkingStyle(b.kind, slot.id, t.style)

StarvesAnswer(b, role, slot) ==
  LET t == Tunables(role, slot) IN SinksBudget(Shape(b, slot, t)) /\ t.budget >= t.tokens

Url(b) == Or(b.url, IF b.kind = "openai" THEN Or(Says("env", "all", "OPENAI_BASE_URL"), "other")
                                         ELSE Unset)
HostedOpenai(b) == b.kind = "openai" /\ Url(b) = "hosted"
UsesResponsesWire(b) ==
  /\ b.kind = "openai"
  /\ b.wire = "responses" \/ (b.wire = Unset /\ Url(b) = "hosted")
BatchSupported(b) == b.kind \in {"anthropic", "gemini", "openrouter"} \/ HostedOpenai(b)

SlotRefuses(role, slot) ==
  \/ slot.backend \notin DOMAIN backends
  \/ slot.id = "empty"
  \/ slot.heat = "over"
  \/ LET b == backends[slot.backend] IN
     \/ StarvesAnswer(b, role, slot)
     \/ role = "decision" /\ b.kind # "openrouter"
     \/ b.kind \in MediaKinds /\ role \in Reasoning
     \/ role \in {"image", "audio"} /\ b.kind \notin MediaKinds
     \/ role = "audio" /\ b.kind # "stability"
     \/ slot.lane # Unset /\ role # "synth"
     \/ slot.lane = "batch" /\ ~BatchSupported(b)

\* consult = "team" needs somebody to delegate to.
CastRefuses(cast) ==
  \/ cast.consult = "team" /\ ~Has(cast, "explorer")
  \/ \E role \in DOMAIN cast.slots : SlotRefuses(role, cast.slots[role])

ConsultSolo(cast) == cast.consult = "solo" \/ (cast.consult = Unset /\ ~Has(cast, "explorer"))

----
(* Loading *)

NoReply == [tool |-> "none"]

CastsInit ==
  /\ file \in Bases
  /\ castsAt = "writing"
  /\ backends = << >> /\ casts = << >> /\ offered = << >>
  /\ reply = NoReply

WriteLine ==
  /\ castsAt = "writing"
  /\ \E base \in Bases : base \subseteq file /\ Cardinality(file \ base) < MaxEdits
  /\ \E l \in Edits : /\ \A k \in file : ~SameKey(l, k)
                      /\ file' = file \cup {l}
  /\ UNCHANGED <<castsAt, backends, casts, offered, reply>>

Turn(to) == castsAt' = to
Refuse == Turn("refused") /\ UNCHANGED <<file, backends, casts, offered, reply>>

MergeBackends ==
  LET names == Builtins \cup Tables("backends")
      merged == [name \in names |-> ApplyTo(name)]
      refused == \/ \E name \in names \ Builtins : NewRefuses(name)
                 \/ \E name \in names : \/ ApplyRefuses(name)
                                        \/ BackendRefuses(name, merged[name])
                 \/ AliasClashes("backends", names) IN
  /\ castsAt = "writing"
  /\ IF refused THEN Refuse
     ELSE /\ backends' = merged
          /\ Turn("backends")
          /\ UNCHANGED <<file, casts, offered, reply>>

\* Each slot's backend by its own name.
MergeCasts ==
  LET names == BuiltinCasts \cup Tables("casts")
      real(slot) == [slot EXCEPT !.backend = Canonical("backends", DOMAIN backends, @)]
      merged == [name \in names |->
                   LET raw == RawCast(name) IN
                   [raw EXCEPT !.slots = [role \in DOMAIN raw.slots |-> real(raw.slots[role])]]]
      refused == \E name \in names : RawCastRefuses(name) IN
  /\ castsAt = "backends"
  /\ IF refused THEN Refuse
     ELSE /\ casts' = merged
          /\ Turn("casts")
          /\ UNCHANGED <<file, backends, offered, reply>>

CastNamed(name) == Canonical("casts", DOMAIN casts, name)
DefaultCast == CastNamed(Or(Says("server", "all", "cast"), "anthropic"))

CheckCasts ==
  LET refused == \/ \E name \in DOMAIN casts : CastRefuses(casts[name])
                 \/ AliasClashes("casts", DOMAIN casts)
                 \/ DefaultCast = "unknown" IN
  /\ castsAt = "casts"
  /\ IF refused THEN Refuse
     ELSE /\ Turn("loaded")
          /\ UNCHANGED <<file, backends, casts, offered, reply>>

----
(* Which tools are offered (config.rs, server/mod.rs) *)

\* A declared source counts, whatever it holds; a blank variable or a missing file
\* does not.
KeyStatus(b) ==
  IF b.env = "set" \/ b.file \in {"there", "empty"} \/ b.cmd # Unset THEN "present"
  ELSE IF b.optional THEN "placeholder" ELSE "missing"

\* What a call finds there.
ResolveKey(b) ==
  IF b.env = "set" THEN "env"
  ELSE IF b.file \in {"there", "empty"} THEN IF b.file = "there" THEN "file" ELSE "fails"
  ELSE IF b.cmd # Unset THEN IF b.cmd = "good" THEN "cmd" ELSE "fails"
  ELSE IF b.optional THEN "placeholder" ELSE "fails"

Usable(cast) == \A role \in DOMAIN cast.slots :
                  KeyStatus(backends[cast.slots[role].backend]) # "missing"

Eligible(tool, cast) ==
  CASE tool \in {"consult", "consult_submit", "oneshot"} ->
         Has(cast, "synth") /\ ~SynthOffline(cast)
    [] tool = "explore" -> Has(cast, "explorer")
    [] tool = "batch_submit" -> SynthLane(cast) = "batch"
    [] tool = "deliberate" -> SynthOffline(cast) /\ Has(cast, "explorer")
    [] tool = "decide" -> Has(cast, "decision")
    [] tool = "generate" -> Has(cast, "image") \/ Has(cast, "audio")

CastTools == {"consult", "consult_submit", "oneshot", "explore", "batch_submit",
              "deliberate", "decide", "generate"}
Followers == {"job_get", "job_cancel", "job_list", "job_wait"}

EligibleCasts(tool) ==
  {name \in DOMAIN casts : Usable(casts[name]) /\ Eligible(tool, casts[name])}

\* Tools with a handle to collect bring the four that collect it.
LiveTools ==
  LET staffed == {tool \in CastTools : EligibleCasts(tool) # {}} IN
  staffed \cup {"run_kaish", "list_models", "read_cas", "write_cas"}
    \cup IF staffed \cap {"consult", "batch_submit", "deliberate", "generate"} # {}
           THEN Followers ELSE {}

ServeTools ==
  /\ castsAt = "loaded"
  /\ offered' = [tool \in LiveTools |-> IF tool \in CastTools THEN EligibleCasts(tool) ELSE {}]
  /\ Turn("serving")
  /\ UNCHANGED <<file, backends, casts, reply>>

----
(* What a call sends *)

\* An override is a slot of its own: no effort, no lane, no vision of the one it
\* replaces.
OverrideRefuses(cast, over) ==
  \/ over.id = "empty"
  \/ over.backend # Unset /\ Canonical("backends", DOMAIN backends, over.backend) = "unknown"
  \/ over.backend = Unset /\ ~Has(cast, over.role)

OverrideModel(cast, over) ==
  LET backend == IF over.backend = Unset THEN cast.slots[over.role].backend
                 ELSE Canonical("backends", DOMAIN backends, over.backend) IN
  [cast EXCEPT !.slots = [role \in DOMAIN @ \cup {over.role} |->
                            IF role = over.role THEN Bare(backend, over.id) ELSE @[role]]]

Request(role, slot, effort, budget, tokens, denies) ==
  [role |-> role, slot |-> slot, effort |-> effort, budget |-> budget, tokens |-> tokens,
   denies |-> denies]

Denies(b, effort) == b.kind = "openrouter" /\ b.collection = "deny"

\* Arm::from_slot.
ArmRefuses(role, slot) ==
  LET b == backends[slot.backend]
      t == Tunables(role, slot) IN
  IF CheckEffortFails(Shape(b, slot, t), t.effort) THEN "effort"
  ELSE IF StarvesAnswer(b, role, slot) THEN "budget"
  ELSE IF b.kind \in MediaKinds THEN "media"
  ELSE IF ResolveKey(b) = "fails" THEN "key"
  ELSE "none"

ArmRequest(role, slot) ==
  LET b == backends[slot.backend]
      t == Tunables(role, slot)
      shape == Shape(b, slot, t)
      effort == IF UsesResponsesWire(b) THEN ResponsesEffort(slot.id, t.style, t.effort)
                ELSE WrittenEffort(shape, t.effort) IN
  Request(role, slot, effort, IF SinksBudget(shape) THEN t.budget ELSE 0, t.tokens,
          Denies(b, effort))

\* batch_effort: a floor under every rung there is, and off stays off.
BatchEffort(effort) ==
  IF Ranked(effort) /\ EffortRank(effort) < EffortRank("high") THEN "high" ELSE effort

BatchTokens(t) == IF t.tokens < 32768 THEN 32768 ELSE t.tokens
BatchBudget(t) ==
  LET floored == IF t.budget < 16384 THEN 16384 ELSE t.budget IN
  IF floored < BatchTokens(t) THEN floored ELSE BatchTokens(t) - 1

\* submitter: the two whose levels are known check the effort, the others pass it on.
BatchRefuses(slot) ==
  LET b == backends[slot.backend]
      t == Tunables("synth", slot) IN
  IF ~BatchSupported(b) THEN "batch"
  ELSE IF /\ b.kind \in {"anthropic", "gemini"}
          /\ \/ CheckEffortFails(Shape(b, slot, t), t.effort)
             \/ b.kind = "gemini" /\ CheckEffortFails(Shape(b, slot, t), BatchEffort(t.effort))
    THEN "effort"
  ELSE IF ResolveKey(b) = "fails" THEN "key"
  ELSE "none"

BatchRequest(slot) ==
  LET b == backends[slot.backend]
      t == Tunables("synth", slot)
      shape == Shape(b, slot, t)
      effort == IF b.kind = "openai" THEN ResponsesEffort(slot.id, t.style, BatchEffort(t.effort))
                ELSE WrittenEffort(shape, BatchEffort(t.effort)) IN
  Request("synth", slot, effort, IF SinksBudget(shape) THEN BatchBudget(t) ELSE 0,
          BatchTokens(t), Denies(b, effort))

----
(* The tools' own refusals and requests (server/mod.rs) *)

Interactive(tool, cast) ==
  IF ~Has(cast, "synth") THEN "no-synth" ELSE IF SynthOffline(cast) THEN "offline" ELSE "none"

\* The first of two refusals.
First(a, b) == IF a # "none" THEN a ELSE b

Armed(cast, role) ==
  IF ~Has(cast, role) THEN "no-slot" ELSE ArmRefuses(role, cast.slots[role])

\* A solo cast's consult has no explorer, and refuses a model for one.
ConsultExplorer(cast, over) ==
  IF cast.consult = "solo" THEN IF over.role = "explorer" THEN "solo" ELSE "none"
  ELSE IF Has(cast, "explorer") THEN Armed(cast, "explorer") ELSE "none"

Sees(slot) == Vision(backends[slot.backend].kind, slot)
Blind(image, slot) == IF image /\ ~Sees(slot) THEN "vision" ELSE "none"

\* What the tool refuses of the cast as named, before any override.
CastRefusal(tool, cast) ==
  CASE tool \in {"consult", "consult_submit", "oneshot"} -> Interactive(tool, cast)
    [] tool = "batch_submit" -> IF SynthLane(cast) # "batch" THEN "lane" ELSE "none"
    [] tool = "deliberate" -> IF SynthOffline(cast) THEN "none" ELSE "not-offline"
    [] OTHER -> "none"

\* What it refuses of the cast as overridden; lane is the synth's before that.
TeamRefusal(tool, cast, over, lane, image) ==
  CASE tool \in {"consult", "consult_submit"} ->
         First(ConsultExplorer(cast, over),
               First(Armed(cast, "synth"), Blind(image, cast.slots["synth"])))
    [] tool = "oneshot" ->
         First(Armed(cast, "synth"), Blind(image, cast.slots["synth"]))
    [] tool = "explore" -> First(Armed(cast, "explorer"), IF image THEN "image" ELSE "none")
    [] tool = "deliberate" ->
         First(Armed(cast, "explorer"),
               First(IF image THEN "image" ELSE "none",
                     IF lane = "batch" THEN BatchRefuses(cast.slots["synth"])
                                       ELSE Armed(cast, "synth")))
    [] tool = "batch_submit" ->
         First(Blind(image, cast.slots["synth"]), BatchRefuses(cast.slots["synth"]))
    [] OTHER ->
         IF ~Has(cast, "decision") THEN "no-slot"
         ELSE IF ResolveKey(backends[cast.slots["decision"].backend]) = "fails" THEN "key"
         ELSE "none"

Sent(tool, cast, lane) ==
  LET arm(role) == ArmRequest(role, cast.slots[role]) IN
  CASE tool \in {"consult", "consult_submit"} ->
         {arm("synth")} \cup IF ConsultSolo(cast) THEN {} ELSE {arm("explorer")}
    [] tool = "oneshot" -> {arm("synth")}
    [] tool = "explore" -> {arm("explorer")}
    [] tool = "deliberate" ->
         {arm("explorer"), IF lane = "batch" THEN BatchRequest(cast.slots["synth"])
                                             ELSE arm("synth")}
    [] tool = "batch_submit" -> {BatchRequest(cast.slots["synth"])}
    [] OTHER ->
         LET slot == cast.slots["decision"] IN
         {Request("decision", slot, "absent", 0, 0,
                  backends[slot.backend].collection = "deny")}

\* A call that names no cast gets the default; decide prefers the only cast there is
\* for it.
Chosen(tool, named) ==
  LET deciders == {name \in DOMAIN casts : Has(casts[name], "decision")} IN
  IF named # Unset THEN CastNamed(named)
  ELSE IF tool = "decide" /\ ~Has(casts[DefaultCast], "decision") /\ Cardinality(deciders) = 1
    THEN CHOOSE name \in deciders : TRUE
  ELSE DefaultCast

\* The roles a tool's caller may override.
Overridable(tool) ==
  CASE tool \in {"consult", "consult_submit", "deliberate"} -> Reasoning
    [] tool \in {"oneshot", "batch_submit"} -> {"synth"}
    [] tool = "explore" -> {"explorer"}
    [] OTHER -> {}

NoOverride == [role |-> "none", backend |-> Unset, id |-> Unset]

ReplyTo(tool, named, over, image) ==
  LET name == Chosen(tool, named)
      asks == over.role # "none"
      lane == SynthLane(casts[name])
      cast == IF asks THEN OverrideModel(casts[name], over) ELSE casts[name]
      why == First(CastRefusal(tool, casts[name]),
                   IF asks /\ OverrideRefuses(casts[name], over) THEN "override"
                   ELSE TeamRefusal(tool, cast, over, lane, image)) IN
  [tool |-> tool, cast |-> name, plain |-> ~asks /\ ~image, why |-> why,
   sent |-> IF why = "none" THEN Sent(tool, cast, lane) ELSE {}]

CallTool ==
  /\ castsAt = "serving"
  /\ \E tool \in (DOMAIN offered) \cap (CastTools \ {"generate"}), named \in Asked \cup {Unset},
        over \in Overrides \cup {NoOverride}, image \in BOOLEAN :
       /\ named = Unset \/ CastNamed(named) # "unknown"
       /\ over.role # "none" => over.role \in Overridable(tool)
       /\ image => over.role = "none" /\ tool # "decide"
       /\ reply' = ReplyTo(tool, named, over, image)
  /\ Turn("answered")
  /\ UNCHANGED <<file, backends, casts, offered>>

CastsNext ==
  WriteLine \/ MergeBackends \/ MergeCasts \/ CheckCasts \/ ServeTools \/ CallTool

CastsSpec == CastsInit /\ [][CastsNext]_castVars

----
(* What the operator is told an effort becomes *)

\* Mutant of Disposition: a batch slot is answered for as an interactive one.
DispositionInteractive(role, slot) ==
  LET b == backends[slot.backend]
      t == Tunables(role, slot) IN
  IF IF UsesResponsesWire(b) THEN t.style = "off" \/ ~AcceptsReasoning(slot.id)
                             ELSE ~SinksEffort(Shape(b, slot, t))
    THEN [fate |-> "no-sink", sent |-> "absent"]
    ELSE [fate |-> IF t.effort = "none" THEN "off" ELSE "sent", sent |-> t.effort]

Disposition(role, slot) ==
  LET b == backends[slot.backend]
      t == Tunables(role, slot)
      batch == slot.lane = "batch"
      responses == IF batch THEN HostedOpenai(b) ELSE UsesResponsesWire(b)
      sinks == IF responses THEN t.style # "off" /\ AcceptsReasoning(slot.id)
                            ELSE SinksEffort(Shape(b, slot, t))
      shipped == IF batch THEN BatchEffort(t.effort) ELSE t.effort IN
  IF ~sinks THEN [fate |-> "no-sink", sent |-> "absent"]
  ELSE [fate |-> IF shipped # t.effort THEN "lifted"
                 ELSE IF t.effort = "none" THEN "off"
                 ELSE IF Ranked(t.effort) THEN "sent" ELSE "unranked",
        sent |-> shipped]

----
(* The config resource (config_resource.rs) *)

Those(budget, effort, style) ==
  (IF budget THEN {"thinking_budget"} ELSE {}) \cup (IF effort THEN {"effort"} ELSE {})
    \cup (IF style THEN {"thinking_style"} ELSE {})

WrittenTunables(slot) == Those(slot.budget # 0, slot.effort # Unset, slot.style # Unset)

\* Somebody wrote it, on the slot or in the defaults: a built-in pin is not written.
EffortWritten(cast, role) ==
  \/ role \in WrittenRoles(cast) /\ casts[cast].slots[role].effort # Unset
  \/ DefaultWord("effort") # Unset

\* The tunables in play that no request of the slot carries as written; whatever reasoning
\* tunable a media slot was given is one.
InertTunables(cast, role) ==
  LET slot == casts[cast].slots[role]
      b == backends[slot.backend]
      t == Tunables(role, slot) IN
  IF role \notin Reasoning THEN WrittenTunables(slot)
  ELSE Those(slot.budget # 0 /\ ~SinksBudget(Shape(b, slot, t)),
             EffortWritten(cast, role) /\ Disposition(role, slot).fate \in {"no-sink", "lifted"},
             t.style \in {"adaptive", "budget"} /\ b.kind # "anthropic")

SlotDoc(cast, role) ==
  [vision |-> Sees(casts[cast].slots[role]), inert |-> InertTunables(cast, role)]

\* A cast that runs no consult shows no mode for it.
ConsultDoc(cast) ==
  IF ~Has(cast, "synth") \/ SynthOffline(cast) THEN Unset
  ELSE IF ConsultSolo(cast) THEN "solo" ELSE "team"

\* Only the kinds that send such a thing show it; of the wire, the one that is used.
BackendDoc(b) ==
  [collection |-> IF b.kind = "openrouter" THEN b.collection ELSE Unset,
   cache |-> IF b.kind \in {"anthropic", "openrouter"} THEN b.cache ELSE Unset,
   wire |-> IF b.kind # "openai" THEN Unset
            ELSE IF UsesResponsesWire(b) THEN "responses" ELSE "chat"]

\* The tools nothing can staff.
Unstaffable == {tool \in CastTools : EligibleCasts(tool) = {}}

----
(* Properties *)

Answered == castsAt = "answered"
Broken(cast) ==
  \E role \in DOMAIN cast.slots :
    LET b == backends[cast.slots[role].backend] IN b.file = "empty" \/ b.cmd \notin {Unset, "good"}

\* What the resource says becomes of its slot's effort is what a request carries.
EffortIsTold(r) ==
  LET d == Disposition(r.role, r.slot) IN
  \/ r.effort = d.sent
  \/ d.fate = "off" /\ r.effort = "disabled"

\* What it calls inert of a slot is what a request leaves out or alters, and so is deny.
InertIsTold(cast, r) ==
  LET inert == SlotDoc(cast, r.role).inert
      b == backends[r.slot.backend]
      t == Tunables(r.role, r.slot) IN
  /\ r.slot.budget # 0 => ("thinking_budget" \in inert <=> r.budget = 0)
  /\ EffortWritten(cast, r.role) =>
       ("effort" \in inert <=>
          r.effort \notin {t.effort} \cup (IF t.effort = "none" THEN {"disabled"} ELSE {}))
  /\ "thinking_style" \in inert =>
       LET unstyled == [r.slot EXCEPT !.style = "auto"] IN
       r.slot.style # Unset /\ r.slot.lane = Unset =>
         [ArmRequest(r.role, unstyled) EXCEPT !.slot = r.slot] = r
  /\ b.kind = "openrouter" => (BackendDoc(b).collection = "deny" <=> r.denies)

\* A request says so where data may not be collected, and its budget leaves room.
KeepsPolicy(r) ==
  LET b == backends[r.slot.backend] IN
  /\ b.kind = "openrouter" => (r.denies <=> b.collection = "deny")
  /\ r.budget # 0 => r.budget < r.tokens

\* A tool is offered only with casts that can staff it: a plain call on a cast its
\* schema lists is refused for nothing but a declared key source that fails when
\* read, or an effort the wire has no form for, and some model then gets a request.
AdvertisedIsStaffed ==
  Answered /\ reply.plain /\ reply.cast \in offered[reply.tool] =>
    \/ reply.why = "none" /\ reply.sent # {}
    \/ reply.why = "effort"
    \/ reply.why = "key" /\ Broken(casts[reply.cast])

\* What the config resource says becomes of a slot's effort is what the request of
\* that slot carries, on the interactive wires and on the batch lane alike.
DispositionIsTrue ==
  Answered /\ reply.plain => \A r \in reply.sent : r.role \in Reasoning => EffortIsTold(r)

\* What the config resource shows of a cast is what a plain call on it does: the tunables
\* it calls inert, and no others that were written, are missing from the request or
\* altered in it; a consult delegates exactly when its cast shows team; a backend shows
\* deny exactly when its requests say so; and no tool is both offered and unstaffable.
ResourceIsTrue ==
  /\ castsAt \in {"serving", "answered"} => DOMAIN offered \cap Unstaffable = {}
  /\ Answered /\ reply.plain =>
       \A r \in reply.sent : r.role \in Reasoning => InertIsTold(reply.cast, r)
  /\ Answered /\ reply.plain /\ reply.tool = "consult" /\ reply.why = "none" =>
       (ConsultDoc(casts[reply.cast]) = "team" <=> \E r \in reply.sent : r.role = "explorer")

\* Every request, whichever tool or override made it, keeps two promises: one to an
\* OpenRouter backend that does not allow data collection says so, and a thinking
\* budget leaves room for an answer.
RequestsKeepPolicy == Answered => \A r \in reply.sent : KeepsPolicy(r)

\* A tool is offered only with casts that can staff it; what the config resource says
\* of a cast, and of what becomes of a slot's effort, is what its requests carry; and
\* every request keeps the operator's data policy and leaves room for an answer.
CastsHold ==
  AdvertisedIsStaffed /\ DispositionIsTrue /\ ResourceIsTrue /\ RequestsKeepPolicy
=============================================================================

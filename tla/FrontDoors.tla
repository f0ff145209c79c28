------------------------------ MODULE FrontDoors ------------------------------
(***************************************************************************)
(* The two doors of one install (main.rs, cli.rs, server/mod.rs): the MCP      *)
(* server, which starts and then takes a call, and the command line, where a    *)
(* process takes one verb and exits.  Both are the same pipeline over the same  *)
(* resolver, written twice: a door is the sequence of what it checks and does,  *)
(* in the order of its code, and here one request goes through both at once.    *)
(* What a check looks at is a fact of the request, the configuration or the     *)
(* world that is right or wrong; only the state database changes meanwhile.     *)
(***************************************************************************)
EXTENDS Naturals, Sequences

CONSTANTS
  Verbs,     \* the verbs the two doors are asked for
  MaxWrong,  \* how many things may be wrong at once
  MaxTurns   \* how often the state database changes

VARIABLES
  verb,      \* what both doors are asked
  wrong,     \* what is wrong with it, its configuration and its world
  asks,      \* what the operator configured: persistence, and a directory for media
  db,        \* the state database, as the next to open it finds it
  turns,
  passed,    \* how many steps of its path each door is past
  outcome,   \* how each door answered
  holds,     \* what each door's process opened: its sessions, its media store
  spent,     \* the providers each door has asked
  left       \* what each door left: a kept artifact, a turn, a handle, and where

frontVars == <<verb, wrong, asks, db, turns, passed, outcome, holds, spent, left>>

Doors == {"mcp", "cli"}
Check(what, class) == <<[does |-> "check", what |-> what, class |-> class]>>
Do(step, what, class) == <<[does |-> step, what |-> what, class |-> class]>>
Checks(whats, class) == [n \in DOMAIN whats |-> Check(whats[n], class)[1]]

----
(* The server's start, and the start of a verb *)

Serve ==
  Check("file", "usage")
    \o Checks(<<"telemetry", "all-off", "default-cast", "builtins", "resolver", "no-tools">>, "exit")
    \o Do("serve", "state-db", "exit") \o Do("open-media", "media-dir", "exit")

\* load_config and Resolver::from_config; a verb's telemetry starts before it.
CliStart == Check("telemetry", "exit") \o Check("file", "usage") \o Check("resolver", "setup")

----
(* The verbs, at the server *)

\* gated_tool_refusal: a tool the server does not offer.  job_get and job_cancel are
\* offered while anything makes jobs, and look again at what their handle names.
Gated == Check("gated", "params")
Enabled == Check("gated", "params")

ConsultChecks ==
  Gated \o Checks(<<"root", "cast", "lane", "override", "solo">>, "params")
    \o Checks(<<"explorer-key", "key">>, "internal") \o Checks(<<"attach", "image">>, "params")
    \o Check("rules", "internal") \o Check("artifacts", "params")
ConsultCall == ConsultChecks \o Do("spend", "provider", "failed") \o Do("turn", "none", "failed")
\* The consultation is the job's: its handle is the answer.
ConsultSubmitCall == ConsultChecks \o Do("job", "none", "failed")

ExploreCall ==
  Gated \o Checks(<<"root", "cast", "override">>, "params") \o Check("key", "internal")
    \o Check("attach", "params") \o Check("rules", "internal")
    \o Do("spend", "provider", "failed")

OneshotCall ==
  Gated \o Checks(<<"cast", "lane", "override">>, "params") \o Check("key", "internal")
    \o Checks(<<"attach", "image">>, "params") \o Do("spend", "provider", "failed")

DecideCall ==
  Gated \o Checks(<<"cast", "slot">>, "params") \o Check("backend", "internal")
    \o Checks(<<"question", "key">>, "params") \o Do("spend", "provider", "failed")

\* deliberate_call, up to its synth: what kept.
DeliberateChecks == Gated \o Checks(<<"inert", "root", "cast", "lane", "override">>, "params")
SweepCall ==
  Check("key", "internal") \o Check("attach", "params") \o Check("rules", "internal")
    \o Do("spend", "provider", "failed") \o Do("keep-dossier", "none", "failed")
DeliberateBatchCall ==
  Check("synth-key", "params") \o Do("spend", "synth", "internal") \o Do("record", "none", "failed")
DeliberateDirectCall == Check("synth-key", "internal") \o Do("job", "none", "failed")

GenerateCall ==
  Gated \o Checks(<<"media-off", "cast", "slot">>, "params") \o Check("backend", "internal")
    \o Checks(<<"key", "field", "input">>, "params")
    \o Do("spend", "provider", "failed") \o Do("keep", "media-full", "failed")

RunKaishCall ==
  Gated \o Checks(<<"root">>, "params") \o Check("shell", "internal") \o Check("worker", "internal")

BatchSubmitCall ==
  Gated \o Checks(<<"prompts", "cast", "lane", "override", "attach", "image">>, "params")
    \o Check("key", "internal")
    \o Do("spend", "provider", "internal") \o Do("record", "none", "failed")

\* job_get and job_cancel of a batch; a backend with no batch lane has no poller.
BatchGetCall ==
  Check("handle", "params") \o Enabled \o Checks(<<"backend", "no-lane", "key">>, "params")
    \o Do("spend", "provider", "internal")

\* job_list: what one backend cannot say is a line of the answer.
BatchListCall == Gated \o Do("spend", "none", "failed")

ListModelsCall == Gated \o Checks(<<"backend">>, "params") \o Do("spend", "none", "failed")

WriteCasCall ==
  Checks(<<"media-off", "outside", "content">>, "params") \o Do("keep", "media-full", "internal")

ReadCasCall == Checks(<<"media-off", "digest", "absent">>, "params") \o Check("range", "params")

----
(* The verbs, on the command line *)

\* The explorer's arm is refused as a usage error, the synth's as one of setup.
ConsultVerb ==
  Check("root", "setup") \o Checks(<<"cast", "lane", "override", "solo", "explorer-key">>, "usage")
    \o Checks(<<"key", "attach">>, "setup") \o Check("image", "usage")
    \o Do("open-sessions", "state-db", "setup") \o Check("rules", "setup")
    \o Do("spend", "provider", "failed") \o Do("turn", "none", "failed")

ExploreVerb ==
  Check("root", "setup") \o Checks(<<"cast", "override">>, "usage")
    \o Checks(<<"key", "attach", "rules">>, "setup") \o Do("spend", "provider", "failed")

\* fold_stdin_context: what is piped in is text.
Piped == Check("stdin", "usage")
OneshotVerb ==
  Checks(<<"cast", "lane", "override">>, "usage") \o Checks(<<"key", "attach">>, "setup")
    \o Check("image", "usage") \o Piped \o Do("spend", "provider", "failed")

\* open_batch_store: a database that does not open is done without.
OpenStores == Do("open-batches", "none", "failed") \o Do("open-media", "media-dir", "setup")

DeliberateStart ==
  Check("inert", "usage") \o Check("root", "setup")
    \o Checks(<<"cast", "lane", "override">>, "usage") \o OpenStores
SweepVerb ==
  Checks(<<"key", "attach", "rules">>, "setup")
    \o Do("spend", "provider", "failed") \o Do("keep-dossier", "none", "failed")
DeliberateBatchVerb ==
  Check("synth-key", "setup") \o Do("spend", "synth", "failed") \o Do("record", "none", "failed")
DeliberateDirectVerb == Check("synth-key", "setup") \o Do("spend", "synth", "failed")

\* Mutant of GenerateVerb: the stores are opened for what has been rendered.
GenerateVerbPaysFirst ==
  Checks(<<"cast", "slot">>, "usage") \o Checks(<<"backend", "key">>, "setup")
    \o Check("field", "usage") \o Do("spend", "provider", "failed")
    \o OpenStores \o Check("media-off", "usage") \o Do("keep", "media-full", "failed")
GenerateVerb ==
  Checks(<<"cast", "slot">>, "usage") \o Checks(<<"backend", "key">>, "setup")
    \o Check("field", "usage") \o OpenStores \o Check("media-off", "usage")
    \o Do("spend", "provider", "failed") \o Do("keep", "media-full", "failed")

\* A script that fails is an answer, with its own exit code.
KaishVerb == Checks(<<"root", "shell">>, "setup") \o Check("worker", "failed")

BatchSubmitVerb ==
  Checks(<<"prompts", "cast", "lane", "override">>, "usage") \o Check("attach", "setup")
    \o Check("image", "usage") \o Check("key", "setup") \o Do("spend", "provider", "failed")
    \o Do("open-batches", "none", "failed") \o Do("record", "none", "failed")

BatchGetVerb ==
  Checks(<<"handle", "backend">>, "usage") \o Checks(<<"no-lane", "key">>, "setup")
    \o Do("open-batches", "none", "failed") \o Do("spend", "provider", "failed")
BatchCancelVerb ==
  Checks(<<"handle", "backend", "no-lane">>, "usage") \o Check("key", "setup")
    \o Do("spend", "provider", "failed")
BatchListVerb ==
  Checks(<<"backend", "no-lane">>, "usage")
    \o Do("spend", "none", "failed") \o Do("open-batches", "none", "failed")

ModelsVerb == Check("backend", "usage") \o Do("spend", "provider", "failed")

CasWriteVerb ==
  OpenStores \o Check("media-off", "usage") \o Do("durable", "none", "setup")
    \o Check("content", "usage") \o Do("keep", "media-full", "setup")

CasReadVerb ==
  OpenStores \o Check("media-off", "usage") \o Do("durable", "none", "setup")
    \o Checks(<<"digest", "absent", "range">>, "usage")

\* Only configuration is read and printed.
ConfigVerb == << >>

----
(* One request through both doors *)

CallOf ==
  [consult |-> ConsultCall, submit |-> ConsultSubmitCall, explore |-> ExploreCall,
   oneshot |-> OneshotCall, decide |-> DecideCall,
   deliberate |-> DeliberateChecks \o SweepCall \o DeliberateBatchCall,
   again |-> DeliberateChecks \o Check("dossier", "params") \o DeliberateBatchCall,
   direct |-> DeliberateChecks \o SweepCall \o DeliberateDirectCall,
   generate |-> GenerateCall, kaish |-> RunKaishCall, batch |-> BatchSubmitCall,
   get |-> BatchGetCall, cancel |-> BatchGetCall, list |-> BatchListCall,
   models |-> ListModelsCall, write |-> WriteCasCall, read |-> ReadCasCall,
   config |-> << >>]
VerbOf ==
  [consult |-> ConsultVerb, submit |-> ConsultVerb, explore |-> ExploreVerb,
   oneshot |-> OneshotVerb, decide |-> << >>,
   deliberate |-> DeliberateStart \o SweepVerb \o DeliberateBatchVerb,
   again |-> DeliberateStart \o Check("dossier", "usage") \o DeliberateBatchVerb,
   direct |-> DeliberateStart \o SweepVerb \o DeliberateDirectVerb,
   generate |-> GenerateVerb, kaish |-> KaishVerb, batch |-> BatchSubmitVerb,
   get |-> BatchGetVerb, cancel |-> BatchCancelVerb, list |-> BatchListVerb,
   models |-> ModelsVerb, write |-> CasWriteVerb, read |-> CasReadVerb,
   config |-> ConfigVerb]

ASSUME VerbsAssumption == Verbs \subseteq DOMAIN CallOf

Path(door) == IF door = "mcp" THEN Serve \o CallOf[verb] ELSE CliStart \o VerbOf[verb]
Looks(path) == {path[n].what : n \in {m \in DOMAIN path : path[m].what # "state-db"}} \ {"none"}
Facts(v) == Looks(Serve \o CallOf[v]) \cup Looks(CliStart \o VerbOf[v])

Unanswered == "unanswered"
Closed == [sessions |-> "none", media |-> "none"]

FrontInit ==
  /\ verb \in Verbs
  /\ wrong \in {{}} \cup {{w[n] : n \in DOMAIN w} : w \in [1..MaxWrong -> Facts(verb)]}
  /\ asks \in [persistence : BOOLEAN, dir : BOOLEAN]
  /\ db = "opens" /\ turns = 0
  /\ passed = [d \in Doors |-> 0]
  /\ outcome = [d \in Doors |-> Unanswered]
  /\ holds = [d \in Doors |-> Closed]
  /\ spent = [d \in Doors |-> 0]
  /\ left = [d \in Doors |-> {}]

Step(d) == Path(d)[passed[d] + 1]
Going(d) == outcome[d] = Unanswered /\ passed[d] < Len(Path(d))
Pass(d) == passed' = [passed EXCEPT ![d] = @ + 1]
End(d, how) == outcome' = [outcome EXCEPT ![d] = how]
Same == UNCHANGED <<verb, wrong, asks, db, turns>>

Hold(d, sessions, media) ==
  holds' = [holds EXCEPT ![d] = [sessions |-> sessions, media |-> media]]

\* A fact is looked at: wrong, it ends the request there.
Look(d) ==
  /\ Going(d) /\ Step(d).does = "check"
  /\ IF Step(d).what \in wrong THEN End(d, Step(d).class) /\ UNCHANGED passed
                               ELSE Pass(d) /\ UNCHANGED outcome
  /\ Same /\ UNCHANGED <<holds, spent, left>>

\* A provider is asked: what it costs is spent whether or not it answers.
Spend(d) ==
  /\ Going(d) /\ Step(d).does = "spend"
  /\ spent' = [spent EXCEPT ![d] = @ + 1]
  /\ IF Step(d).what \in wrong THEN End(d, Step(d).class) /\ UNCHANGED passed
                               ELSE Pass(d) /\ UNCHANGED outcome
  /\ Same /\ UNCHANGED <<holds, left>>

\* A database that opens is used; the server serves without one only when another
\* process holds it, and a verb without one keeps nothing.
Openings == {"serve", "open-sessions", "open-batches"}
OpenDb(d) ==
  /\ Going(d) /\ Step(d).does \in Openings
  /\ LET opens == asks.persistence /\ db = "opens"
         refused == /\ asks.persistence
                    /\ \/ Step(d).does = "serve" /\ db = "broken"
                       \/ Step(d).does = "open-sessions" /\ db # "opens" IN
     IF refused THEN End(d, Step(d).class) /\ UNCHANGED <<passed, holds>>
     ELSE /\ Hold(d, IF opens THEN "db" ELSE "memory", holds[d].media)
          /\ Pass(d) /\ UNCHANGED outcome
  /\ Same /\ UNCHANGED <<spent, left>>

\* Config.cas_mode and open_media_store: the media store follows the database.
MediaMode(sessions) ==
  IF "media-off" \in wrong THEN "none" ELSE IF sessions = "db" /\ asks.dir THEN "disk" ELSE "memory"
OpenMedia(d) ==
  LET mode == MediaMode(holds[d].sessions) IN
  /\ Going(d) /\ Step(d).does = "open-media"
  /\ IF mode = "disk" /\ "media-dir" \in wrong
       THEN End(d, Step(d).class) /\ UNCHANGED <<passed, holds>>
       ELSE Hold(d, holds[d].sessions, mode) /\ Pass(d) /\ UNCHANGED outcome
  /\ Same /\ UNCHANGED <<spent, left>>

\* cas read and cas write: a store that dies with the process is no store.
Durable(d) ==
  /\ Going(d) /\ Step(d).does = "durable"
  /\ IF holds[d].media = "memory" THEN End(d, Step(d).class) /\ UNCHANGED passed
                                  ELSE Pass(d) /\ UNCHANGED outcome
  /\ Same /\ UNCHANGED <<holds, spent, left>>

Keep(d) ==
  /\ Going(d) /\ Step(d).does = "keep"
  /\ IF Step(d).what \in wrong
       THEN End(d, Step(d).class) /\ UNCHANGED <<passed, left>>
       ELSE /\ left' = [left EXCEPT ![d] = @ \cup {<<"artifact", holds[d].media>>}]
            /\ Pass(d) /\ UNCHANGED outcome
  /\ Same /\ UNCHANGED <<holds, spent>>
\* A dossier is kept if it can be, a handle recorded if there is a database, a turn
\* where the sessions are; a job is always taken.
Lasting(d) ==
  CASE Step(d).does = "keep-dossier" ->
         {{}} \cup (IF holds[d].media = "none" THEN {} ELSE {{<<"dossier", holds[d].media>>}})
    [] Step(d).does = "record" ->
         {{}} \cup (IF holds[d].sessions = "db" THEN {{<<"handle", "db">>}} ELSE {})
    [] Step(d).does = "turn" -> {{<<"turn", holds[d].sessions>>}, {}}
    [] OTHER -> {{<<"job", "memory">>}}
Leave(d) ==
  /\ Going(d) /\ Step(d).does \in {"keep-dossier", "record", "turn", "job"}
  /\ \E kept \in Lasting(d) : left' = [left EXCEPT ![d] = @ \cup kept]
  /\ Pass(d) /\ Same /\ UNCHANGED <<outcome, holds, spent>>

Answer(d) ==
  /\ outcome[d] = Unanswered /\ passed[d] = Len(Path(d))
  /\ End(d, "answered")
  /\ Same /\ UNCHANGED <<passed, holds, spent, left>>

\* Another process takes, breaks or mends the database: external.  Only who opens it
\* sees it, so that a turn is told apart from a later one by an opening between them.
DbTurns(to) ==
  /\ turns < MaxTurns /\ to # db
  /\ asks.persistence /\ \E d \in Doors : Going(d) /\ Step(d).does \in Openings
  /\ db' = to /\ turns' = turns + 1
  /\ UNCHANGED <<verb, wrong, asks, passed, outcome, holds, spent, left>>

FrontNext ==
  \/ \E d \in Doors : \/ Look(d) \/ Spend(d) \/ OpenDb(d) \/ OpenMedia(d) \/ Durable(d)
                      \/ Keep(d) \/ Leave(d) \/ Answer(d)
  \/ \E to \in {"opens", "held", "broken"} : DbTurns(to)

FrontSpec == FrontInit /\ [][FrontNext]_frontVars

----
(* Properties *)

\* What one door alone may mind: the server's start and gates, save_artifacts, a
\* generation's inputs and where an upload is; the CLI's standard input, a list of one
\* backend, every provider of a model list failing; and only the server needs a media
\* directory it will not use.  A job's failure comes after it.
Own ==
  {"all-off", "default-cast", "builtins", "no-tools", "gated", "artifacts", "input", "outside", "stdin"}
    \cup (IF "open-media" \in {Path("cli")[n].does : n \in DOMAIN Path("cli")} THEN {} ELSE {"media-dir"})
    \cup (CASE verb = "list" -> {"backend", "no-lane"}
            [] verb \in {"models", "submit"} -> {"provider"}
            [] verb = "direct" -> {"synth"}
            [] OTHER -> {})

\* The pipeline is written twice, and a fix to one of them is easily forgotten in the
\* other (cli.rs:4425 tells of one): over one configuration and one world, a request
\* that one door answers the other answers too, whatever else is wrong with it and
\* whatever order they look in.  The CLI's media commands, which refuse a store that
\* dies with them, are the exception.
DoorsAgree ==
  /\ \A d \in Doors : outcome[d] # Unanswered
  /\ verb \notin {"decide", "config"} /\ wrong \cap Own = {} /\ turns = 0
  /\ verb \in {"read", "write"} => asks.persistence /\ asks.dir
  => (outcome["mcp"] = "answered" <=> outcome["cli"] = "answered")

\* A request refused for what it asks or how kaibo is set up has cost nothing and left
\* nothing behind: every check of both doors comes before the provider is paid.  A
\* deliberation's synth is the exception: its key is looked at once the sweep is paid.
RefusedIsFree ==
  \A d \in Doors :
    /\ outcome[d] \in {"usage", "setup", "params", "exit"}
    /\ ~(verb \in {"deliberate", "direct"} /\ "synth-key" \in wrong)
    => spent[d] = 0 /\ left[d] = {}

\* What was asked to last does: with persistence on, a turn is told to the database,
\* unless another process held it from a server that said so at its start; a media
\* store outlives its process only beside the sessions that name its digests; and the
\* CLI stores no upload where it would be gone with the process.
LastingLasts ==
  \A d \in Doors :
    /\ <<"turn", "memory">> \in left[d] /\ asks.persistence => d = "mcp" /\ turns > 0
    /\ holds[d].media = "disk" => holds[d].sessions = "db" /\ "media-off" \notin wrong
    /\ d = "cli" /\ verb = "write" => left[d] \subseteq {<<"artifact", "disk">>}

\* Together: the doors answer the same requests, a request refused has cost nothing, and
\* what was asked to last does.
DoorsKeepFaith == DoorsAgree /\ RefusedIsFree /\ LastingLasts
=============================================================================

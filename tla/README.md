# Verification of kaibo

kaibo is an MCP server and a command line that answers questions about a code base by running a team of models over it. The interesting logic is not in the models: it is in the bookkeeping around calls that take minutes, may be cancelled, may outlive the caller's interest, share state with other calls, and share files with other processes; and in the rules that decide, from configuration and request, what is read, sent, paid for, kept and told. This directory models both in TLA+, checks them with TLC on small instances and proves parts of them with TLAPS for all instances.

Paths below are relative to the repository (`src/` is its root here, so `src/src/jobs.rs` is the crate's `jobs.rs`; a bare `jobs.rs:203` is a line of it).

## 1. Inventory

| part | source | state | operations |
|---|---|---|---|
| job store | `jobs.rs` | an LRU map of jobs; per job a state cell, an abort handle, a spawned task | submit, get, list, cancel; the worker; the drop of a job |
| log ring and mailbox | `mcp_log.rs` | a bounded ring of records, one `Notify`, a sequence counter | push, drain, wait_drain with its sliding tail, discard_job_pings |
| asynchronous job tools | `server/mod.rs` | none of its own | job_wait, job_get, job_list, job_cancel, the completion ping |
| in-memory sessions | `session.rs` | an LRU of threads | history, record |
| durable sessions | `store.rs` | SQLite tables sessions and turns, user_version | open and migrate, history, record_turn, evict |
| consult call | `server/mod.rs`, `consult/engine.rs` | sweeps in flight, usage, the artifact ledger, the thread | consult, consult_submit, explore, session turn, deadline |
| phase loop | `consult/engine.rs`, `completion_retry.rs` | transcript, turn budget, hooks of the current run | run, resume after an image, forced turn, deadline |
| transport and completion watch | `completion_retry.rs`, `completion_watch.rs` | retries of a completion, the log of completions | send, wait, send again, ask anew, record |
| sweep attachments | `sweep_attach.rs` | slots reserved and filled | attach, drain |
| artifacts | `artifact.rs` | ledger of the call | save_artifact |
| deliberate and dossiers | `server/dossier.rs`, `server/mod.rs` | evidence, the kept dossier | deliberate on its two lanes, reuse of a dossier |
| decide | `decide.rs` | one request | validate, send, check the reply |
| batches | `batch.rs`, `store.rs` | the provider's batch, its input file, the handle's row | submit, poll, list, cancel, prune |
| media generation | `media.rs`, `bfl.rs`, `stability.rs`, `openai_images.rs`, `gemini_media.rs`, `dashscope.rs` | a generation at the provider, the artifacts collected | generate, inline poll, deferred poll, store |
| media store | `cas.rs` | object files and sidecar files, a write mutex per process | open, put, get, list |
| kernel and explorer tools | `sandbox.rs`, `explorer.rs`, `progress.rs`, `tool_span.rs` | one worker thread, its queue, its shell, the progress log | run, read, give up |
| orientation | `orientation.rs` | the measurements taken so far | glob, measure, render the map |
| containment | `server/resolver.rs`, `server/containment.rs`, `worktree.rs`, `attach.rs`, `view_image.rs`, `context.rs` | allowed trees, default root | admit a root, resolve, measure and read a file |
| configuration | `config.rs`, `credentials.rs`, `main.rs` | settings layer by layer; backends and casts | load, merge, check, serve |
| request shaping | `consult/shaping.rs`, `batch.rs` | none | what a request carries for a slot and role |
| prompts | `consult/prompts.rs`, `consult/engine.rs` | none | the system prompt and user turn of each phase |
| front doors | `main.rs`, `cli.rs`, `server/mod.rs` | what a process opened, spent and left | start, the order of checks, payments and records of every verb |
| the rest | telemetry, model discovery, rendering, TLS | output | |

How they interact. A tool call with a `_submit` name creates a job; the job's worker runs a consult, deliberation or generation and ends by writing its outcome in the state cell and pushing one terminal ping in the ring. `job_wait` sleeps on the ring's `Notify`; `job_get` reads the cell and discards the pings of the job it has collected. A consult reads the thread of its session, runs one synth phase (which may call explorer phases as tools, which use one kernel and one attach sink per sweep), and appends the turn to the thread. The threads live in memory or in a database that several kaibo processes open. Artifacts, dossiers and generated media go to the media store, a directory that several processes share. A batch belongs to the provider; kaibo keeps a row of memory about it in the same database. Both doors, the MCP server and the command line, run the same pipelines over one resolver, but each has them written out on its own.

What is hard. Futures that are dropped at any await; a job map that evicts jobs whose handle someone is using; a `Notify` that holds one permit for several waiters; a bounded ring that drops records; a read, then a call of minutes, then a write; transactions of several statements that can fail, be abandoned or race with another process; files that exist before their bytes do, and files that change between a measurement and a read; budgets that are counted from a transcript; tools of one turn that run concurrently under shared caps; two retry loops one above the other; a paid call followed by a record that may fail; the same rule written twice (the effort that is described and the effort that is sent, the server's pipeline and the CLI's, the prompt that names a tool and the list of tools); and layers of settings that may only be turned off.

What makes each part correct is stated as its properties in section 3. The components that are modelled, partly modelled and left out are listed with reasons in `PROJECT.json`, and every hazard with its line and the properties aimed at it.

## 2. Modules

| module | models | refines or uses |
|---|---|---|
| `JobLifecycle` | the abstract life of a job: absent, Running, one final state, at most one ping and only for an outcome | |
| `JobStore` | `jobs.rs` | refines `JobLifecycle` (`LifecycleSpec`) |
| `NotificationBuffer` | the ring, the waiters and tokio's `Notify` | |
| `AsyncJobs` | the job tools, as the composition of the two | INSTANCEs `JobStore` and `NotificationBuffer` |
| `SessionLru` | the in-memory session cache | |
| `SessionStore` | the durable store: transactions over two tables | refines `SessionLru` (`LruSpec`) |
| `SessionTurns` | consult_session_turn over either store | INSTANCEs `SessionLru` |
| `StoreMigration` | opening and migrating the database, several processes | |
| `BatchHandles` | a batch's submission, its row, pruning, listing by server and CLI | |
| `BatchResults` | what a poll tells of each item, four providers | |
| `BatchLanes` | who has a lane, what a submission carries, counts, result order | |
| `PhaseLoop` | run_phase_loop and its hooks, as counts | |
| `PhaseTranscript` | the same loop, as the transcript it sends | |
| `Transport` | one completion down to its HTTP requests | |
| `SweepAttach` | the attach sink of a sweep | |
| `Artifacts` | save_artifact and its caps | |
| `ConsultCall` | one consult from handler to footer | EXTENDS `Artifacts` |
| `Deliberate` | both lanes of deliberate, kept and reused dossiers | |
| `Decide` | decide | |
| `Explorer` | the kernel thread, the tools' queue, the progress log, the spans | |
| `Orientation` | the project map | |
| `Prompts` | which framing, directives and spliced parts each phase is sent | |
| `Boundary` | roots, trees, worktrees, and each kind of read | |
| `Layers` | settings: defaults, file, environment, checks, flags | |
| `Casts` | backends, casts, offered tools, and what a call on a cast sends | |
| `MediaModels` | the rules of the five media providers, as operators | |
| `Generate` | one generation on either door | EXTENDS `MediaModels` |
| `FrontDoors` | each verb as the server and the CLI run it, side by side | |
| `MemoryCas` | the in-memory media store | |
| `MediaCas` | the disk media store | refines `MemoryCas` (`MemorySpec`) |
| `FiniteSums` | lemmas about least elements and sums over finite sets | used by the proofs |
| `*_proofs` | theorems (section 5) | the component, or INSTANCEs of the components and of their proofs |
| `MC*` | constants and compositions for TLC | |

How state and actions correspond to the code:

- **JobStore.** `lru` is the order of the `LruCache`; `cell[j]` the `JobState` behind the job's mutex; `task[j]` how far the spawned task is; `handler[c]` an MCP handler between its lookup and its use of the `Arc<Job>` it cloned. Submit is two steps because the worker is spawned before the map has the job (`SubmitSpawn`, `SubmitPut`). A job is dropped, and its task aborted, when the map and every handler have let go of it (`SubmitPut`, `Release`). Abort is a request: the task takes it at its next await (`AbortTakes`) or lands first (`LandOutcome`). `Signal` is the completion ping, sent after the cell is unlocked. `FinishGuardDrop` is the destructor that turns a panic into `Failed`.
- **NotificationBuffer.** `ring` is the `VecDeque`; `call[w]` a wait between its `notified()`, its drain under the lock and its park; the permit of `Notify` and the waiter it hands it to are variables, since `notify_one` stores at most one permit and a dropped waiter passes it on. Time is an `Expire` action.
- **AsyncJobs.** The variables of the two components, the job each caller is collecting and two histories. A completion ping is `JobStore`'s `Signal` and the ring's `Push` in one action, because that is one call.
- **SessionStore.** Rows as sets, `lock` the write lock that `BEGIN IMMEDIATE` takes, `conn[c]` the statement a connection has reached. Every statement may fail, the future may be abandoned at any statement, and the transaction then rolls back.
- **SessionTurns.** `place[t]` is where a call is between reading its history and recording its answer.
- **StoreMigration.** The schema is a set of objects; `ApplyV1`, `ApplyV2` and the bump of `user_version` are separate steps; a process may be killed between them.
- **BatchHandles.** `born`, `kept` are the provider's; `row` is the table, `stray` an input file uploaded for a batch never created. A submit is upload, creation and record, and may fail or be killed after each. `JobList` and `CliList` merge what each backend answers, or fails to, with the rows.
- **BatchResults.** An item ran and said something, errored, was cancelled or is never heard of again; `JobGet` and `CliGet` are the parsers of the four lanes with `cross_check_absentees`, `CutIsMarked`'s words are their `incomplete_note`.
- **BatchLanes.** `synthSlot` is the slot a submitter was asked for, `client` what the constructors return for it and its backend: each may refuse the slot, Anthropic and Gemini its effort (`EffortRefused`, which is `check_effort`, before the floor deepens it and after), OpenRouter its id. `submission` is the body, each item with the model and the effort it asks for, `output` and `faults` OpenAI's two files, `answers` what a poll returns. An id is named or empty and has a suffix or not; one with a suffix under its suffix is outside.
- **PhaseLoop.** `carried` counts the assistant messages of the transcript a run starts from, as `count_model_turns` does; `inRun`, `runTurns` and `repeated` what the run's budget went to; `sawToolImage` is the hook's flag, and a new run has a new hook.
- **PhaseTranscript.** Messages are sequences of parts (text, call, result, image, note). The actions are a turn with calls, a turn that writes nothing and is sent again (`RepeatTurnAsked` within a run, `CompleteAgain` on the lane without tools), an unknown tool, the image break with its rewrite, the forced turn, `finalize_prompt`; `turns` and `attempts` are the `CompletionLog`, `left` is what a run has of its budget and `resent` what it repeated: as completion_retry.rs has it, the agent library charges a repeat to the run it is in, and a resume begins with neither. The rewrite is stated by rank: what it emits is a set, and the message at a place is the one that has as many emitted before it.
- **Transport.** `Transient` is below the model (`RetryingHttp`), `Malformed` above it; each malformed retry makes a new transport.
- **SweepAttach.** `Reserve` and `NotReserved` are `reserve` under the sink's lock; `Commit` and `ReleaseSlot` come after the read; `Drain` is the end of the sweep.
- **ConsultCall, Artifacts.** The ledger lock spans the check, the put and the record. A sweep's usage and report are collected when it ends; the deadline drops what is in flight and the footer still names the ledger.
- **Deliberate.** `SweepDossier`, `StitchAndKeep` (the attachments stitched in, the text kept if the store takes it), `SubmitDeliberation` with its row or `SpawnDeliberation` on the long lane; `ReuseDossier` skips the sweep.
- **Explorer.** A script is what it does to the kernel: reads, changes directory, fills the scratch, hangs into its timeout, panics the thread. `GiveUp` is a call whose future was dropped.
- **Boundary.** A path is a sequence of names, `Canon` what the file system makes of it; `dotgit` and `registered` are what worktree registration and worktree say of each other. Each kind of read is begin, check (stat) and read, and files and worktrees change in between.
- **Layers, Casts.** Both follow the load step by step: file, environment, merge, checks, flags, then what serving opens, or which tools are offered and what a call sends. Words stand for values: `garbled`, `empty`, `zero` are those a check treats differently. `capture` is the list of attributes a file names, and `ContentAllowed` the policy `otel_filter.rs` makes of it and of the content flag: `opened.content` is what content the spans carry, apart from what the config resource says of it (`Shown`).
- **FrontDoors.** A door is, per verb, the sequence of its checks, payments, openings and records in the order of its code. One request goes through both.
- **MediaCas.** A file is Absent, Torn or Whole; `lock[p]` the write mutex of process p; `call[c]` the step of `put` or `get`. `Crash(p)` ends all calls of a process anywhere.

Definitions named as mutants (a comment says so) are not part of any specification: each is an error the code could plausibly make, and every checked property is known to be violated when one of them replaces the definition it stands before.

## 3. Runs

A configuration gathers every question that can be asked of one instance, temporal ones included. Three runs (`stores`, `consult`, `front`) put several components side by side that share no variable: the variable `part` picks the one that moves, so that the run visits the sum of their states and not the product, and the parts that do not move stay in an initial state (`Still`). A property that gathers several named ones does so because they are questions about one hazard; the parts keep their names and comments in the module.

| run | shows | instance and why it is enough |
|---|---|---|
| `jobstore` | an abort is deserved; no reachable job is Running after its task is over; a done job pinged once; the registry refines `JobLifecycle`; abandoned work stops (liveness) | two handlers, two ids, one slot: every submit evicts, also under a get or a cancel in flight |
| `ring` | no lost wake-up, delivery once and in order, an early return shows why | two waiters, three records, two slots: overflow, the single permit, its hand-over when a sleep ends |
| `async_pings` | a ping agrees with the cell, leaves the ring for a cause, and a job collected after its task ended stays quiet | two jobs whose pings meet in a ring of one |
| `async_wake` | an outcome ends a parked wait, with no deadline obliged to pass; every job_wait returns once deadlines pass (liveness) | one job, two callers of whom either may collect first, a line of narrative |
| `stores` | `TurnsAreWhole`, `LruSpec`: tables agree, what was warned of is not there, the store refines the LRU cache. `SchemaIsWhole`: user_version is never ahead, what opens is migrated. `HandlesAreAccounted`: rows name batches that were taken, none is pruned while it can be collected, a listing has each once and leaves none out. `AnswersAreTold`: per item, missing, cut and whole are told truly, and for good | three sessions and three turns over two processes of different capacity; three processes, four opens, kills anywhere, files new, old, current and newer; two batches of a one-step and a two-step backend over a clock that passes window and TTL; two items on each lane |
| `consult` | `WorkIsBounded`, `ForcedHasEvidence`, `EveryPhaseEnds` (liveness) of a phase; `TranscriptIsSound` of what it sends; `RetriesHold` of a completion; `AttachmentsAreAccounted`; `CallCapsHold`, `CallTellsAll` of the call; `DossierIsTheEvidence`; `ThreadIsHonest` of the thread; `ScriptsStandAlone` of the kernel; `MapIsTrue` of the map, list or tree; `PromptsHold` | a budget of four turns (more than the two repeats, room for image breaks), as a transcript two turns of two calls; two attach calls of up to two of four files over two slots; one sweep and three saves, two at a time, over caps of two; two deliberations of which one may reuse the other; delays under and over the cap; four turns on two sessions with room for one; three tool calls on one kernel; maps of up to five files in lists and trees; every combination of phase, reader, tool and layer a prompt depends on |
| `front` | `SwitchesHold`: what is off stays off, opt-ins were made, and the config resource shows what is served, content of spans included. `CastsHold`: an advertised cast is staffed, what the config resource says of a cast is what its requests carry, data policy and budget on every request. `TreesHold`: nothing is opened or worked in outside named or mutually vouched trees, listed is served, inlined fits. `DoorsKeepFaith`: both doors answer the same requests, a refusal is free, what should last does. `AnsweredAsAsked`, `MediaIsAccounted`, `LanesHold` | every setting alone and the pairs that interact; one edit of a file that starts as one of several shapes; two repositories, a worktree outside one and around it, two changes of git under a running server, or one beside a file rewritten; a database that turns once, before an opening; every verb with at most one thing wrong; two questions; every plain media request and each with one thing asked; three prompts on every backend and slot |
| `media_cas` | what was reported stored is whole; nothing whole is rewritten; the ceiling; refinement of `MemoryCas` | three callers in two processes, two contents, two formats, a ceiling for one of them and an object more: shared mutex, lost `create_new`, kills between create and write |

Four runs end in a violation: a comment of the code says more than the code does. Each is a finding in `PROJECT.json` with its line and the quoted claim.

| run | what TLC shows |
|---|---|
| `async_stale_ping` | the task releases the state lock, a job_get shows the outcome and discards the pings there are, and only then the ping is pushed: it ends a later job_wait for a job already collected |
| `migration_race` | a process still migrating writes an older user_version over the newer one; the file is whole, but every later open fails on the column that is already there |
| `media_cas_probe` | a content stored without its sidecar is looked for in the probe order and a torn file of another format is found first |
| `dossier_images` | a reused dossier is text: the images its sweep attached reached the first synth and not the second, although the tool says the same evidence is read again |

Bounds named in the modules: `MaxJobs`, `MaxRecords`, `MaxNarrative`, `MaxTurns`, `MaxTouch`, `MaxOpens`, `MaxAttachCalls`, `MaxSaves`, `Sweeps`, `MaxClock`, `MaxItems`, `MaxEdits`, `MaxWrong`, `MaxGit`, `MaxRewrites`, `MaxChats`, `MaxFailures`. They cap counters the program does not cap; past them an action is disabled, never an error. Deadlock is checked in `jobstore`, `ring`, `async_*` and `media_cas`; the other parts are calls, loads and opens that are finite and then over.

Symmetry is used only where no liveness property is checked and where the permuted values are not told apart by any definition.

Divergences met on the way that have no run of their own:

- jobs.rs:131 has the finish guard make of a panic an honest failure in place of a hang; its destructor (jobs.rs:206) records the failure without a ping, so a parked `job_wait` sleeps on to its deadline.
- mcp_log.rs:261: the tail of a timed-out wait shows the last records at or above a level, and enough of them slide the ping out that server/mod.rs:3918 counts on; a ring too small does the same.
- store.rs:333: a database written by a newer kaibo is opened as if it were current, and the arm at store.rs:337 cannot be reached.
- session.rs:14 says an actively used thread cannot be evicted out from under a client that is still asking on it; a thread is touched when a turn begins and when it is recorded (engine.rs:2800), and other threads may push it out between, after which the turn is recorded into a new thread. Two turns of one thread may also both answer from the same history.
- cas.rs:886: a sidecar torn by a crash is not replaced by a later put of the same content; cas.rs:729: a get beside a write may find the file before it is whole; cas.rs:829: the ceiling counts per process.
- completion_retry.rs:334 says that a phase that resumes gets a fresh allowance of repeats and that its turn cap still bounds the total. What is left to a resumed run is counted in messages (engine.rs:1677), and a repeat leaves none, so a run that repeated a turn before an image stopped it lets the phase make more requests than its cap; `WorkIsBounded` and `BudgetKept` say how many at most.
- engine.rs:1818: at the turn cap the history is not rewritten, so an image may stay in a tool result.
- rewrite_tool_image_history's doc says the OpenAI converter drops what is not a result in a message of results, and `finalize_prompt` pushes its note into exactly such a message; the rewriting also leaves two user turns in a row, which `finalize_prompt`'s doc says never happens. engine.rs:2565 says a delegated explore gets its own view_image; `run_explore_phase` gives it none.
- prompts.rs:232-235 says the closing obligation is last after whatever is spliced in; `explorer_attachment_directive` is appended after it when explore is called with attachments and no sink.
- config_resource.rs:242 calls the resource's one flag "whether exported spans carry prompts, completions, and tool payloads", and otel_filter.rs:237 words its line by that flag alone. A file that names an attribute of content in `[telemetry] capture` has it on its spans with the flag down, and the resource then says that content is redacted, beside the name that is listed. `ShownIsTrue` says how much of the resource may be relied on: nothing of content leaves unless the flag is shown or a listed name carries it.
- config_resource.rs:253-257 says a running server shows `active == enabled` of persistence: a start that finds another process's lock serves from memory, with persistence enabled (main.rs:252-326, `OpenSessions`).
- A typo in `disable_builtins` stops the server (config.rs:1836, main.rs:199) and not a CLI verb (cli.rs:734). A broken state database stops the server and not the CLI. config.rs:3370-3375 suggests `--no-persistence` for an error raised before any flag is applied. `cas_max_bytes = 0` is refused in the file and served when it comes as a flag (config.rs:3380-3386). `metrics_endpoint` alone turns telemetry on (config.rs:3751), other endpoints of the file do not (config.rs:3747-3750).
- cli.rs:79-80 says a missing key exits 3; a consult whose explorer has none exits 2 (cli.rs:1004-1006). A telemetry failure exits 1. A provider that refuses a batch is an internal error over MCP and exit 4 on the command line.
- Both doors pay for a deliberation's sweep before they look at the synth's backend and key, and the refusal does not name the dossier that was kept (dossier.rs:33-34). A cancelled deliberation orphans its digests. `decide` without a cast picks the only decider of all casts.
- `check_effort` is not run at load, and on the batch lanes only Anthropic and Gemini are asked. An OpenAI submission that fails after the upload leaves the input file behind. Anthropic's and Gemini's answers come in the provider's order.
- server/mod.rs:5235 says "nothing stored" of an object whose sidecar failed (cas.rs:806). A BFL poll or fetch that fails inline loses the polling address (bfl.rs:117); a store that fails after a deferred job was collected does not name the provider's job, and `job_cancel` forgets its id. An input named `prompt` replaces the prompt on BFL, and operations that take no prompt record the one not sent.
- sweep_attach.rs:400: the receipt of a duplicate says the file is attached while the first call may still drop it. orientation.rs:273 leaves a directory's file unmarked that orientation.rs:293 did not list whole. The 32 MiB total of a oneshot is summed from the lengths of `stat`.

## 4. Fairness

Weak fairness, stated per actor, and nowhere strong. `JobStore`, `AsyncJobs` assume it of a spawned task that can take its next step and of a handler between two statements: tokio polls a woken task again. Nothing obliges a caller to call, a provider to answer before its time, a process to crash or not to. Deadlines are not fair by themselves: `EveryWaitReturns` has the fairness of `Deadline` as its hypothesis, `LandingEndsAWait` does without. `PhaseLoop` assumes that each completion ends, in an answer or an error, which the request timeout of the HTTP client gives; it then shows that the phase ends. In `MCConsult` that is the one fair action of the composition.

Every other run checks safety under `Init /\ [][Next]_vars`.

## 5. Proofs

TLAPS proves the theorems below for every value of the constants. Each invariant is proved from an inductive strengthening that TLC was asked first. The assumptions are named in the modules that declare the constants, and TLC evaluates them in every run.

- **JobStore_proofs** (assumes `JobStoreAssumption`: the ids are numbers, capacity at least one). `IInv` is `TypeOK` with four named parts — `MintedInv` (of an id not yet minted nothing is known), `StoreInv` (the map holds an id once, and minted ones only), `HandlerInv` (a submit between its spawn and its put is the only one to know its id), `TaskInv` (how far a task is, what its cell says and whether it was announced go together), and with the property `AbortIsDeserved` itself. `Invariance` gives `TypeCorrect`, `AbortCorrect`, `EndCorrect` and, with `LandingInv`, `PingCorrect`; `Refinement` shows that every step of the registry is a step or a stutter of `JobLifecycle`.
- **NotificationBuffer_proofs** (assumes `RingAssumption`: capacity at least one, levels and limits are numbers, the floor that wakes is a level). `RecordsReachOneWait` rests on `RingInv`: the ring is in sequence order, what was drained is older than what is buffered, and what was delivered was delivered once. `NoWakeupIsLost` rests on `WakeInv`: the queue of `Notify` and the waiters it has handed a wakeup to are exactly the parked ones (`QueueIsParked`), a stored permit means an empty queue, and while a record of the wake level is buffered its wakeup is on its way (`WakeIsPending`) — as the notification the push still owes, as the permit, in a waiter that was notified, or in one that has not parked yet and will look. Only the last part is about the property; without the first two a notification could go to a waiter that is no longer there.
- **Server_proofs.** Of the async-job tools (assumes `AsyncJobsAssumption`): the composition of registry and mailbox implements each of them: `RegistryIsTheStore` and `MailboxIsTheRing` show that its steps are steps or stutters of `JobStore` and of `NotificationBuffer`, so the theorems of the two proof modules hold in it; they are carried over by instances of those modules. On top of them `PingsInv` gives `PingsTellTheTruth`: a ping in the ring is of a landed job (from `PingCorrect` of the store), and a job that was collected after its task settled has none and will get none. `PingsLeaveForCause` is its action property: a ping leaves into a wait, by its own job's collection, or pushed out of a full ring.
  Of both front doors (assumes `VerbsAssumption`: the verbs asked for are ones the doors know): `DoorsAlwaysKeepFaith` proves `DoorsKeepFaith` for any number of things wrong at once and any number of turns of the database, where the run has one of each. Its first half is about the paths alone. A path is put together from few parts, and what holds of it is proved along the same joins: what it does and minds (`Is`, `JoinedPaths`), that a refusal comes before everything that costs (`CostFree`), that sessions are opened before the media store and that before it is asked whether it lasts (`Tidy`), and that the command line keeps a file only past those and the check of `media-off` (`WritesAreLed`). From what they mind, two doors lack the same (`MindedAlike`, `LackAlike`): this is the theorem's comparison of the two copies of every pipeline, verb by verb. The second half is the inductive invariant `DoorsInv`: a door that is `k` steps past on its path (`Runs`) has found right what it minded, holds what the configuration says unless the database turned (`Timely`), has spent nothing if it refused (`Frugal`), and ended early only for something its path lacks; so while the database is left alone a door answers exactly the requests that lack nothing (`AnsweredLacks`).
- **Stores_proofs** (assumes what its four modules state of their constants). `ThreadsAreWhole`: `StoreInv` says of every connection what its statements have done so far to its own copy of the tables (`ConnHolds`, `DraftHolds`), that only the holder of the write lock has such a copy, and that the committed tables are whole (a session has its turns, numbered in order without gaps) and each turn is there once. Whatever is abandoned or fails, the copy is dropped. `SessionsAreAnLru` is the refinement of `SessionLru`: `DraftsFollow` says what the holder of the lock has made of the tables it found — the new key above all others, the promotion, the row, the eviction — and since only a COMMIT, and its own, changes them, they are still the tables it found when it commits. The rest is about operators: ranks by key are a bijection onto the places of the order (`RanksFollowKeys`, `RanksAreTaken`), so a promotion is Lru's `Touched` (`PromotionTouches`) and an eviction a prefix (`EvictionCuts`); seq numbers without gaps are places in the thread (`NumbersAreRanks`), so the INSERT is an `Append` (`InsertAppends`). `MigrationIsWhole`: `user_version` is never ahead of the schema because each process bumps it after the arms it applied itself (`ArmsAreApplied`), although it may go back (`migration_race`). `HandlesHold` is about the batch handles: `BornFirst` (a row is of a batch that exists at its provider) and `KeptInTime` (a batch the provider still has is no older than its retention), so a row old enough to be pruned is of a batch that is gone; it needs `RetentionAssumption`, that no provider keeps a batch for longer than its row is kept. `AnswersHold` is about what is told of a batch: requests are numbered, an ended batch does not change, and what was shown is, item by item (`ShownAs`), what the provider has of it; so two answers of an ended batch agree.
- **Consult_proofs.** Of the call (assumes `WordsAssumption`, that names and states are told apart): `SinkInv` says that the ledger is written by the holder of its lock and holds what the store holds; `CapsInv`, for `ConsultCapsHold`, that the sum over the ledger is what the sink has counted, that caps were checked under the lock for the save that records, and that no blob alone is over its cap; `CallInv`, for `ConsultTellsAll`, that a sweep which ended is in the usage, that a call which ended has its turn recorded as it was shown. The byte sum is a recursive function over the ledger and its induction is the step from a ledger to one entry more. Of deliberate: `DossierInv`, for `DossierIsTheEvidenceAlways` — a name that is out is of a text that was kept, and what is kept stays. Of a completion: `TransportInv`, for `TransportRetriesHold` — requests are what the attempts so far allow, waits are within the cap and not below the provider's delay.
  Of the phase (nothing assumed of the model's answers): `Accounts` ties the counters: what the transcript carries and what the run spent stay in the budget, a run's turns are its own and its repeats, and the calls made are bounded by those of each run that could be started over plus this one's. `WorkBounded` and `ForcedCorrect` follow from `PhaseInvariance`.
  Of its transcript (assumes `PhaseTurnsAssumption` and `CallsPerTurnAssumption`: the turns and the calls of one are bounded by numbers, zero included): `TranscriptsAreSound` proves `TranscriptIsSound` from `TranscriptInv`. `TranscriptShape` says what every message may hold, that no call has two results (`ResultsDiffer`), that each is answered by the message after it (`CallsAnswered`) but for those the last turn just made, and that new ids are above all ids answered so far (`ResultsBelow`). `ImagesKept` says where a wire that loses images may still see one in a result: only before the break that is coming, or with the turns spent. `TurnsCounted` and `LastTurnTold` tie the log to the transcript. `BudgetKept` is the bound on requests: within a run what is left, its messages and its repeats add up to the budget, and every turn that is carried may have been sent as often as repeats allow; so a phase makes at most `1 + MalformedResends` requests for each turn of its cap and one more for the forced turn, and on the lane without tools just the first part, once. The hard step is the rewriting: `Rewriting` shows that the ranks of what is emitted are a bijection onto the places of the new transcript (`EmittedInOrder`), so that it holds each old message, in order, and after it one message for each image its results had (`IsRewritten`); then a call and its answer stay next to each other because the message with a call has no result, and so no image, that would come between. What the forced turn adds is one note (`FinalizedIs`), and every other step appends a message (`AppendedKeeps`).
  Of the kernel (assumes `ExplorerAssumption`: finitely many calls, none of them the worker's `Nobody`, and no script that is a read or nothing): `KernelInv`, for `ScriptsAlwaysStandAlone` — only a call that has asked is queued or told anything (`CallsAreAsked`), a call that was told has its own script's result with the span that goes with it, or the loss of the worker with a failed span (`ToldItsOwn`), a call that waits is queued or served, and the steps are the number of scripts asked for. Of the map (assumes `OrientationAssumption`: a project is a finite set of files with names, a tree has a depth of at least one, as config.rs:3463 demands): `MapInv`, for `MapIsAlwaysTrue` — until the list is shown, a size or a line count of a file nobody touched is what it holds (`MeasuredStands`), whichever chunks failed; a tree was rendered of what the glob found. That a tree then counts every file is `TreeIsWhole`: a file below the root is under one directory of the root, its first (`TopDir`), so the directories of the root part the files (`TreeParts`) and their counts add up (`SumOfParts`).
  Of a sweep's attachments (assumes `BudgetAssumption`: at least one slot; nothing of the seed): `AttachInv` strengthens the property by what the code relies on between its two locks: a pending slot has exactly one call that reads for it and that call holds its path (`ReadersInv`, `PendingInv`), the path of a slot was seen (`SeenInv`), what was told attached is what is ready (`ToldInv`), and nothing moves after the drain (`DrainedInv`). `AttachInvariance` and from it `AttachmentsCorrect`, for any number of concurrent calls, paths and slots.
  Of the turns (assumes `CapacityAssumption`, that the capacity is a number): `ThreadsAreHonest` proves `ThreadIsHonest` from `ThreadInv`: a turn in flight has seen what its thread still begins with, or the thread was shed before its eyes (`FlightsAreHonest`); a recorded one has its place after what it saw, or was recorded in a thread begun anew (`StoredAreHonest`). The store below is the LRU itself, for which `SessionsAreAnLru` stands.
  Of the prompts (nothing assumed): `PromptsAlwaysHold`, for every cast, every layer of the project and everything the operator replaced. `PromptsInv` says of each phase that was started that what it was sent is true of its tools and its files (`EntryIsTrue`); a step that starts one more shows this of that one (`OneMoreEntry`), by cases over the framings a phase can be shown (`ShownFramings`), and no later step takes it back, since what is said depends on the call's own inputs only.
- **Front_proofs.** Of the boundary (assumes `PathsAssumption` and `SizesAssumption`, what the paths and sizes of an instance are): `TreesAlwaysHold` proves the containment boundary for every tree of paths, every layout of git and every set of files. `TreesInv` says that an allowed tree was named, or is the directory the server was started in and adopted with cause (`Granted`: it lies in a named tree, or does not hold the home directory), and that the default root lies in an allowed tree; `InsideItself` is what a tree of its own needs. A worktree that is followed need not be one: that what is opened lies in an allowed tree, or in a worktree that git and the tree vouch for at that moment, follows at each step from the guard and the transitivity of `Inside` (`InsideIsTransitive`), since files and worktrees change between a check and its read. `CallInv` says that a call that goes on has a root and opened a file, and that the bytes inlined and the budget left add up to the budget. The bytes are a recursive function over the files inlined, and its induction is the step from these to one more. Of decide (nothing assumed): `AnswersAreAsAsked` from `DecideInv` — once questions were sent they are those that were asked, each was valid, and an answer was checked against them.
  Of generate (nothing assumed of the provider's answers): `MediaIsAlwaysAccounted` from `GenerateInv` — nothing is held before it was collected and nothing kept but of a whole list of the right medium, of a request that was accepted and sent; so where a call ends, what was stored is what was told, and a job that was not collected is named. That the five providers' parsers give only whole lists is shown of each of the operators of `MediaModels`, an answer at a time.
  Of the batch lanes (assumes `LaneAssumption`: the number of prompts is bounded by a number): `LanesAlwaysHold`, for any number of prompts, any list of attachments, and items that end in any order. `SlotInv` says that who submits is the client its constructor made for its slot and can be polled, and that a lane with its key refused a slot only when its wire would have refused every item made of it; that each constructor judges so is shown lane by lane (`LaneJudges`), for any slot. `LaneInv` adds that what was submitted or waits for it carries every question whole and numbered by its index (`Carried`) and suits the slot (`AllSuit`), and that the provider ends each item once, in one of its two files (`OneEach`). Since the ids are the indices (`IdsAreIndices`), putting the lines back in order is a bijection, and the counts told are of disjoint sets.
  Of the settings (assumes `ToolsAssumption`: no gated tool has the name of another setting): `SwitchesAlwaysHold` for whatever the file, the environment, the standard telemetry variables and the flags say. `SettingsInv` ties each setting, at every layer, to what was said so far: what a layer turned off stays off (`DownIsKept`), and what leaves the machine was asked for by some layer (`ConsentIsGiven`), the list of attributes by the file, which alone can name them; `OpenedInv` ties what serving holds to the settings it was opened from.
  Of the casts (assumes `LinesAssumption`: the lines of a file are ones the parser accepts): `CastsAlwaysHold` for every file of backends and casts, every key present or missing, and every override. `CastsInv` says that what was loaded has the code's slots (`CastsFit`) and was not refused, and that the tools offered are those of the loaded casts (`ToolsOffered`); the rest is about operators: that the effort, budget and policy a request carries are those the config resource tells, on every lane and for every provider, and that each offered tool is staffed by each of its casts.
- **MediaCas_proofs** (assumes, of the ceiling, `SizesAssumption`: finitely many contents and processes, at least one of each, and sizes that are numbers). `Settled` (a put that is past its object has verified or written it) and `Describing` (a torn sidecar has one live writer at most) strengthen the two integrity invariants; the format a probe finds is a least index. Proved: `CasInvariance`, `DescribedCorrect`, `StoredCorrect`, `WriteOnceCorrect`. For `CapCorrect`, that the store stays under its ceiling, `CapHolds` alone is not inductive: a put is admitted, and the write comes later. `Mutex` says that the put is alone in its process from admission to return, `Owed` what it was admitted for and has not written yet, and `Budget`, the inductive part, that what the store holds and what all processes owe fit the ceiling together. Writes pay off debt; `Admit` takes on one, which fits under `max_bytes` by the check, beside one largest put of every other process. The totals are folds over finite sets, for which the lemmas of `FiniteSums` stand. `DiskIsTheMemory` shows the refinement of `MemoryCas`: the step that completes a sidecar is the put, its guard holds because what is described has whole objects that the scan counts (`HeldFits`), and every other step is a stutter.

Where a proof needs induction it takes the least counterexample: `<` is well-founded on the naturals, so a set of them has a least one (`LeastNumber`), and a family of subsets of a finite set has a smallest (`SmallestSet`). **FiniteSums** holds both, and with them what is needed of the sum of a function over a finite set: that it takes out an element, is bounded by its terms, grows with them, and is the size of a union of disjoint sets. It is about no constant of the model and has no assumption. This replaces the library's induction theorems, whose operator parameter the installed provers cannot instantiate.

Only model-checked: the liveness properties `AbandonedWorkStops`, `LandingEndsAWait`, `EveryWaitReturns` and `EveryPhaseEnds`, with every fairness claim, because the provers reach neither fairness nor ENABLED. Every other property of a passing run, and so every invariant, is the property of a theorem. The findings' runs refute what a comment says, so there is nothing to prove of them.

## 6. What is taken from outside

Marked external in `PROJECT.json` and modelled as the code uses it: tokio's `abort` (taken at the next await), `Notify` (one permit, passed on by a dropped waiter) and semaphores; the `lru` crate; SQLite's `BEGIN IMMEDIATE`, its rollback and its busy answer; `create_new` and the absence of any other atomicity of the file system; the run of the agent library (turns, hooks, the error at the cap); the kaish kernel; path canonicalization and git's two link files; the providers, who may answer, refuse, delay, cut, reorder and forget.

## 7. Not modelled

- The texts: wording of prompts, errors and tables, beyond what a caller must be told (names of what was kept, tools a prompt speaks of, marks of what is cut). The SQL of listing, and JSON shapes of the providers beyond the fields a decision reads.
- `discover.rs` (the discovery of models is a listing per backend and its failures), `metrics.rs` (what a measurement carries), `otel_filter.rs` beyond its policy for content (attributes that carry none, the text of an error), `tls.rs`, `upload.rs` (streams), `lib.rs`, the bootstrap of `main.rs` beyond serving, `test_support.rs`. What leaves through telemetry is modelled as which signals are exported and which content attributes may be on a span.
- kaish scripts: a script is what it does to a kernel. Parsing and formatting (`kaish_syntax.rs`) are text.
- Throughput: backoff and delay are modelled where a bound is promised (`Transport`), not elsewhere.
- Several servers on one media store are two processes, never more; the state database has up to three.

## 8. Plan

Done: the asynchronous core, persistence, the consult with its loop, transcript and transport, batches, media, configuration, the boundary and both doors; and proofs of every safety property the runs check. What is left, in order: the composition of `ConsultCall` with `JobStore` (a consult_submit under eviction); `MediaCas` below `Generate`, in place of a store that keeps or fails; a run of `SessionTurns` over `SessionStore` rather than over the LRU order.

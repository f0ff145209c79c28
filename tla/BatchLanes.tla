------------------------------ MODULE BatchLanes ------------------------------
(***************************************************************************)
(* The four providers' batch lanes as kaibo speaks them (batch.rs): which     *)
(* backend has one, which slots each refuses before anything is sent, what a  *)
(* submission carries for each of its prompts, how the provider's counts      *)
(* become the progress and the list a caller reads, and how the lines that    *)
(* come back, in any order and for one provider in two files, are put back in *)
(* the order of the prompts.                                                  *)
(***************************************************************************)
EXTENDS Naturals, Sequences, FiniteSets, Functions

CONSTANTS
  MaxPrompts,   \* bound: the prompts of a batch
  Attached      \* the attachments of a batch, in their order

ASSUME LaneAssumption == MaxPrompts \in Nat

VARIABLES
  backend,   \* its kind, whether it is the Platform itself, its key
  synthSlot, \* the synth slot a submitter was asked for
  client,    \* what speaks to it, with the model and the effort it submits
  submission,  \* the submission, once the provider has it
  upload,    \* the input file that waits for one
  output,    \* the lines of the provider, in the order they ended
  faults,    \* OpenAI's second file: those that failed
  progress,  \* the counts a caller was told last
  answers    \* the answers a caller was told last, in their order

laneVars == <<backend, synthSlot, client, submission, upload, output, faults, progress, answers>>

LaneKinds == {"anthropic", "gemini", "openrouter", "openai", "deepseek", "media"}
Backend == [kind : LaneKinds, hosted : BOOLEAN, keyed : BOOLEAN]

\* A model id, by whether it has a name and ends in OpenRouter's own ":batch"; a slot of
\* one, by whether its request has a place for an effort (adaptive at Anthropic, a level
\* at Gemini), and the effort by its place to the floor of a batch.  No id is empty.
ModelIds == [named : BOOLEAN, suffixed : BOOLEAN]
NoModel == [named |-> FALSE, suffixed |-> FALSE]
Depths == {"none", "low", "high", "max"}
SynthSlots == [id : ModelIds \ {NoModel}, levelled : BOOLEAN, effort : Depths]
NoSlot == [id |-> NoModel, levelled |-> FALSE, effort |-> "none"]

Nobody == [role |-> "none", model |-> NoModel, effort |-> "absent"]
NoUpload == << >>
Unsent == << >>

----
(* Three tables of who has a lane *)

\* batch_supported, over the wire a kind speaks; media kinds speak none.
HasLane(b) ==
  \/ b.kind \in {"anthropic", "gemini", "openrouter"}
  \/ b.kind = "openai" /\ b.hosted

\* batch_effort: a floor under depth, and off is not a depth.
BatchDepth(effort) == IF effort = "low" THEN "high" ELSE effort
EffortSent(s) == IF s.levelled THEN BatchDepth(s.effort) ELSE "absent"

\* check_effort: Google's levels end at high and have no off, nor has the adaptive tier.
EffortRefused(kind, s, effort) ==
  /\ s.levelled
  /\ \/ kind = "gemini" /\ effort \notin {"low", "high"}
     \/ kind = "anthropic" /\ effort = "none"

\* openrouter_batch_model: its own way to say batch is not part of a model's name.
BatchModel(id) == IF id.named THEN [id EXCEPT !.suffixed = FALSE] ELSE id

\* A client is built for a slot, with its model and effort, or for a backend alone; each
\* lane asks again whether the backend is its own, may refuse the slot, and needs a key.
RefusedClient(b) == [role |-> "refused", model |-> NoModel, effort |-> "absent"]
ClientFor(s, id) ==
  [role |-> IF s = NoSlot THEN "poller" ELSE "submitter", model |-> id, effort |-> EffortSent(s)]
Client(b, mine, s, id, refused) ==
  IF mine /\ b.keyed /\ ~refused THEN ClientFor(s, id) ELSE RefusedClient(b)
AnthropicClient(b, s) ==
  Client(b, b.kind = "anthropic", s, s.id, EffortRefused("anthropic", s, s.effort))
\* The effort as asked, and as the floor leaves it.
GeminiClient(b, s) ==
  Client(b, b.kind = "gemini", s, s.id,
         \E effort \in {s.effort, BatchDepth(s.effort)} : EffortRefused("gemini", s, effort))
OpenaiClient(b, s) == Client(b, b.kind = "openai" /\ b.hosted, s, s.id, FALSE)
OpenrouterClient(b, s) ==
  Client(b, b.kind = "openrouter", s, BatchModel(s.id), s # NoSlot /\ ~BatchModel(s.id).named)

\* submitter and poller, over the kind.
SubmitterOf(b, s) ==
  CASE b.kind = "anthropic" -> AnthropicClient(b, s)
    [] b.kind = "gemini" -> GeminiClient(b, s)
    [] b.kind = "openrouter" -> OpenrouterClient(b, s)
    [] b.kind = "openai" /\ b.hosted -> OpenaiClient(b, s)
    [] OTHER -> RefusedClient(b)
PollerOf(b) ==
  CASE b.kind = "anthropic" -> AnthropicClient(b, NoSlot)
    [] b.kind = "gemini" -> GeminiClient(b, NoSlot)
    [] b.kind = "openrouter" -> OpenrouterClient(b, NoSlot)
    [] b.kind = "openai" /\ b.hosted -> OpenaiClient(b, NoSlot)
    [] OTHER -> RefusedClient(b)

----
(* What a submission carries *)

\* Attachments first, in their order, then the prompt; without any, the prompt alone.
Content(prompt) == IF Attached = << >> THEN <<prompt>> ELSE Attached \o <<prompt>>
AnthropicContent(prompt) == Content(prompt)
GeminiParts(prompt) == Content(prompt)
OpenaiInput(prompt) == Content(prompt)
OpenrouterContent(prompt) == Content(prompt)

Item(id, model, effort, content) ==
  [id |-> id, model |-> model, effort |-> effort, content |-> content]

\* Each lane's body, of a client: one request per item, under the item's own id.
AnthropicBody(c, ids) ==
  [n \in DOMAIN ids |-> Item(ids[n], c.model, c.effort, AnthropicContent(ids[n]))]
GeminiBody(c, ids) ==
  [n \in DOMAIN ids |-> Item(ids[n], c.model, c.effort, GeminiParts(ids[n]))]
OpenaiJsonl(c, ids) ==
  [n \in DOMAIN ids |-> Item(ids[n], c.model, c.effort, OpenaiInput(ids[n]))]
OpenrouterBody(c, ids) ==
  [n \in DOMAIN ids |-> Item(ids[n], BatchModel(c.model), c.effort, OpenrouterContent(ids[n]))]

Submission(kind, c, ids) ==
  CASE kind = "anthropic" -> AnthropicBody(c, ids)
    [] kind = "gemini" -> GeminiBody(c, ids)
    [] kind = "openai" -> OpenaiJsonl(c, ids)
    [] kind = "openrouter" -> OpenrouterBody(c, ids)

----
(* What comes back *)

EndedLine(id, how) == [id |-> id, how |-> how]
Ids == {submission[n].id : n \in DOMAIN submission}
Lines == IF backend.kind = "openai" THEN output \o faults ELSE output
Settled == {Lines[n].id : n \in DOMAIN Lines}
Having(how) == {n \in DOMAIN Lines : Lines[n].how = how}

\* succeeded, errored, canceled and expired, of those and the ones processing.
CountsOf ==
  LET done == Cardinality(Having("answered")) + Cardinality(Having("failed")) IN
  <<done, done + Cardinality(Ids \ Settled)>>
\* batchStats: successful and failed, of requestCount.
GeminiProgress ==
  <<Cardinality(Having("answered")) + Cardinality(Having("failed")), Cardinality(Ids)>>
\* request_counts: completed and failed, of total; OpenRouter's are the same.
OpenaiCounts ==
  <<Cardinality(Having("answered")) + Cardinality(Having("failed")), Cardinality(Ids)>>
PollCounts ==
  CASE backend.kind = "anthropic" -> CountsOf
    [] backend.kind = "gemini" -> GeminiProgress
    [] OTHER -> OpenaiCounts

\* A list tells of each batch by the same counts.
AnthropicListed == CountsOf
GeminiListed == GeminiProgress
OpenaiListed == OpenaiCounts
Listed ==
  CASE backend.kind = "anthropic" -> AnthropicListed
    [] backend.kind = "gemini" -> GeminiListed
    [] OTHER -> OpenaiListed

\* Mutant of OrderByIndex: one file after the other.
OrderByFile(lines) == lines
\* order_by_index: ids are indices, so they sort.
OrderByIndex(lines) ==
  LET at(id) == Cardinality({n \in DOMAIN lines : lines[n].id < id}) + 1 IN
  [k \in DOMAIN lines |-> lines[CHOOSE n \in DOMAIN lines : at(lines[n].id) = k]]

----
LaneInit ==
  /\ backend \in Backend
  /\ synthSlot = NoSlot /\ client = Nobody /\ submission = Unsent /\ upload = NoUpload
  /\ output = << >> /\ faults = << >>
  /\ progress = <<0, 0>> /\ answers = << >>

\* submitter for a slot, poller for a handle: each call builds its own.
BuildSubmitter ==
  /\ client.role = "none"
  /\ synthSlot' \in SynthSlots /\ client' = SubmitterOf(backend, synthSlot')
  /\ UNCHANGED <<backend, submission, upload, output, faults, progress, answers>>
BuildPoller ==
  /\ client.role # "refused"
  /\ client' = PollerOf(backend)
  /\ UNCHANGED <<backend, synthSlot, submission, upload, output, faults, progress, answers>>

\* A client without a model submits nothing, nor is an empty batch submitted; OpenAI
\* takes a file first, which is left where it is when the batch over it fails.
CanSubmit(ids) ==
  client.role = "submitter" /\ client.model # NoModel /\ ids # << >> /\ submission = Unsent
UploadInput ==
  /\ backend.kind = "openai" /\ upload = NoUpload
  /\ \E n \in 1..MaxPrompts :
       LET ids == [k \in 1..n |-> k - 1] IN CanSubmit(ids) /\ upload' = OpenaiJsonl(client, ids)
  /\ UNCHANGED <<backend, synthSlot, client, submission, output, faults, progress, answers>>
SubmitOpenai ==
  /\ backend.kind = "openai" /\ upload # NoUpload /\ CanSubmit(upload)
  /\ submission' = upload /\ upload' = NoUpload
  /\ UNCHANGED <<backend, synthSlot, client, output, faults, progress, answers>>
SubmitInline ==
  /\ backend.kind # "openai"
  /\ \E n \in 1..MaxPrompts :
       LET ids == [k \in 1..n |-> k - 1] IN CanSubmit(ids) /\ submission' = Submission(backend.kind, client, ids)
  /\ UNCHANGED <<backend, synthSlot, client, upload, output, faults, progress, answers>>

\* The provider ends items in any order: external.
Run ==
  \E id \in Ids \ Settled, how \in {"answered", "failed"} :
    /\ IF backend.kind = "openai" /\ how = "failed"
         THEN faults' = Append(faults, EndedLine(id, how)) /\ UNCHANGED output
         ELSE output' = Append(output, EndedLine(id, how)) /\ UNCHANGED faults
    /\ UNCHANGED <<backend, synthSlot, client, submission, upload, progress, answers>>

\* poll while the batch runs, and list at any time.
PollBatch ==
  /\ client.role = "poller" /\ submission # Unsent /\ Ids # Settled
  /\ progress' = PollCounts
  /\ UNCHANGED <<backend, synthSlot, client, submission, upload, output, faults, answers>>
ListBatches ==
  /\ client.role = "poller" /\ submission # Unsent
  /\ progress' = Listed
  /\ UNCHANGED <<backend, synthSlot, client, submission, upload, output, faults, answers>>
\* poll once it has ended: Anthropic's and Gemini's lines are told as they come.
Collect ==
  /\ client.role = "poller" /\ submission # Unsent /\ Ids = Settled
  /\ answers' = IF backend.kind \in {"openai", "openrouter"} THEN OrderByIndex(Lines) ELSE Lines
  /\ UNCHANGED <<backend, synthSlot, client, submission, upload, output, faults, progress>>

LaneNext ==
  \/ BuildSubmitter \/ BuildPoller \/ UploadInput \/ SubmitOpenai \/ SubmitInline
  \/ Run \/ PollBatch \/ ListBatches \/ Collect

LaneSpec == LaneInit /\ [][LaneNext]_laneVars

----
(* Properties *)

\* What a provider's wire takes of one request, as the comments of check_effort and
\* openrouter_batch_model have it.
WireTakes(kind, id, effort) ==
  /\ kind = "gemini" => effort \in {"absent", "low", "high"}
  /\ kind = "anthropic" => effort # "none"
  /\ kind = "openrouter" => id.named /\ ~id.suffixed

\* Three tables and four constructors say who has a batch lane, and a batch outlives
\* the one that submitted it: whoever submits is listed among the backends asked and
\* can be polled by any later process, and nothing is submitted without a lane.  What is
\* refused is the slot and not the batch of it: a lane that has its key turns a slot away
\* just when its wire would have turned away every item made of it, once the floor has
\* deepened the effort and the name has lost its suffix, each a change made after the
\* check or before it depending on the lane.
SubmittedIsPollable ==
  /\ client.role = "submitter" => HasLane(backend) /\ PollerOf(backend).role = "poller"
  /\ submission # Unsent => HasLane(backend)
  /\ client.role = "refused" /\ HasLane(backend) /\ backend.keyed =>
       ~WireTakes(backend.kind, BatchModel(synthSlot.id), EffortSent(synthSlot))

\* Every item that is sent, or waits in a file to be, is one the wire takes; where the
\* request has a place for an effort, a slot that switched reasoning off is not billed for
\* it on every item, nor one that asked for it left without; and no item is shallower than
\* the floor.
ItemsAreTaken ==
  \A items \in {submission, upload} : \A n \in DOMAIN items :
    /\ WireTakes(backend.kind, items[n].model, items[n].effort)
    /\ items[n].effort = "none" <=> synthSlot.levelled /\ synthSlot.effort = "none"
    /\ items[n].effort # "low"

\* An answer told under an id answers that prompt: where answers are put back in order,
\* each stands at its prompt's place; and the counts a caller is told take what failed
\* with what was answered, so that they add up to the batch and never run ahead of the
\* provider.
AnswersAreTheirs ==
  /\ backend.kind \in {"openai", "openrouter"} =>
       \A k \in DOMAIN answers : answers[k].id = submission[k].id
  /\ progress # <<0, 0>> =>
       progress[2] = Cardinality(Ids) /\ progress[1] <= Cardinality(Settled)

\* Whoever submits a batch can be polled for it, only what a wire would refuse is refused
\* and nothing of it is sent, and an answer told under an id answers that prompt.
LanesHold == SubmittedIsPollable /\ ItemsAreTaken /\ AnswersAreTheirs
=============================================================================

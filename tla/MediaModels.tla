----------------------------- MODULE MediaModels -----------------------------
(***************************************************************************)
(* What each media backend makes of a generation: which requests it refuses, *)
(* what of one it sends, and what it makes of the provider's answer.  Bytes   *)
(* are the format they are in; an answer is the part of a body the parsers    *)
(* tell apart.                                                                *)
(***************************************************************************)
EXTENDS Naturals, Sequences, SequencesExt

----
(* Formats (cas.rs, view_image.rs) *)

ImageFormats == {"png", "jpeg", "webp", "gif"}
AudioFormats == {"mp3", "wav"}
TextFormats == {"txt", "jsonl", "md"}

\* The format a MIME type names, and none for one the store has no name for.
FromMime(mime) ==
  IF mime \in ImageFormats \cup AudioFormats \cup TextFormats THEN mime ELSE "none"

Admits(output, ext) ==
  ext \in IF output = "image" THEN ImageFormats ELSE AudioFormats

\* The first bytes decide; a Content-Type is only quoted in the refusal.
SniffMime(bytes) == IF bytes \in ImageFormats THEN bytes ELSE "none"

----
(* Kinds (credentials.rs) *)

ArmKinds == {"stability", "openai-images", "gemini-media", "dashscope", "bfl"}
ProviderKinds == ArmKinds \cup {"openai"}   \* and one completion wire

Produces(kind, output) == output = "image" \/ kind \in {"gemini-media", "stability"}

\* The arm is built from the slot: the kind must produce the output and its key
\* must resolve.
ArmBuilds(r) == r.kind \in ArmKinds /\ Produces(r.kind, r.output) /\ r.key

AcceptsInputs(r) ==
  \/ r.kind \in {"stability", "openai-images", "bfl"}
  \/ r.kind = "gemini-media" /\ r.output = "image"

AcceptsOps(r) == r.kind \in {"stability", "openai-images", "bfl"}

RefusesInputs(r) == r.input # "none" /\ ~AcceptsInputs(r)
RefusesOperation(r) == r.op # "none" /\ ~AcceptsOps(r)

\* What the arm refuses before the request reaches the provider's module.
Unsupported(r) == RefusesInputs(r) \/ RefusesOperation(r)

\* An input is the image or sound the store holds at a digest.
InputResolves(r) == r.input \in {"none", "image", "named-prompt"}

----
(* Answers *)

Complete(mimes) == [is |-> "complete", mimes |-> mimes]
Deferred == [is |-> "deferred"]
Failed == [is |-> "error"]
Pending == [is |-> "pending"]

\* The request as sent: the route, the model it runs and whose prompt it carries.
AsSent(route, model, prompt) == [route |-> route, model |-> model, prompt |-> prompt]
NotSent == [route |-> "none", model |-> "none", prompt |-> "none"]

\* A field given by the caller replaces the one kaibo put in the body.
Replaced(r, field, own) == IF r.field = field THEN "caller" ELSE own

----
(* Stability *)

StableImageOps == [name : {"edit/erase"}, takesPrompt : {TRUE}]
             \cup [name : {"edit/remove-background"}, takesPrompt : {FALSE}]
AudioModels == {"stable-audio-2", "stable-audio-2.5", "stable-audio-3"}
AudioActions == {"text-to-audio", "audio-to-audio", "inpaint"}

GenerateRoute(model) == IF model \in {"core", "ultra"} THEN model ELSE "sd3"

AudioFamily(model) ==
  IF model = "stable-audio-3" THEN "stable-audio" ELSE "stable-audio-2"

OperationShape(r) == IF r.output = "audio" /\ r.model = "stable-audio-3"
                       THEN "deferred" ELSE "sync"

AudioAction(r) == IF r.op = "none" THEN "text-to-audio" ELSE r.op

AudioRequest(r) ==
  LET route == <<AudioFamily(r.model), AudioAction(r)>>
      seeded == route # <<"stable-audio-2", "inpaint">> IN
  IF \/ r.model \notin AudioModels
     \/ AudioAction(r) \notin AudioActions
     \/ r.model = "stable-audio-2" /\ AudioAction(r) = "inpaint"
    THEN NotSent
    ELSE AsSent(route, Replaced(r, "model", r.model), Replaced(r, "prompt", "asked"))

StableImageRequest(r) ==
  LET ops == {o \in StableImageOps : o.name = r.op}
      prompt == IF \E o \in ops : ~o.takesPrompt THEN "unsent" ELSE "asked" IN
  IF r.op # "none" /\ ops = {}
    THEN NotSent
    ELSE AsSent(IF r.op = "none" THEN GenerateRoute(r.model) ELSE r.op,
              Replaced(r, "model", r.model), Replaced(r, "prompt", prompt))

StabilityRequest(r) ==
  IF r.output = "audio" THEN AudioRequest(r) ELSE StableImageRequest(r)

StabilityTypes == {"png", "webp", "jpeg", "mp3", "wav", "glb"}

\* The type before the body, the body before the finish reason.
ParseArtifact(a, reasonRequired) ==
  IF \/ a.type \in {"none", "json"}
     \/ a.empty
     \/ a.reason = "none" /\ reasonRequired
     \/ a.reason = "filtered"
     \/ a.type \notin StabilityTypes
    THEN Failed
    ELSE Complete(<<a.type>>)

StabilityAnswers ==
  [is : {"body"}, type : {"none", "json", "png", "mp3", "glb", "other"},
   empty : BOOLEAN, reason : {"none", "SUCCESS", "filtered"}]
    \cup [is : {"down", "http", "id", "accepted"}]

\* The shape is the operation's, never read off the answer.
HandleResponse(r, a) ==
  IF a.is \in {"down", "http"} THEN Failed
  ELSE IF OperationShape(r) = "deferred"
    THEN IF a.is = "id" THEN Deferred ELSE Failed
    ELSE IF a.is = "body" THEN ParseArtifact(a, TRUE) ELSE Failed

\* An image job's result names its finish; an audio job's need not.
StabilityPoll(r, a) ==
  CASE a.is = "accepted" -> Pending
    [] a.is = "body" -> ParseArtifact(a, r.output = "image")
    [] OTHER -> Failed

----
(* The OpenAI images API *)

ImagesOps == [name : {"edits"}, takesPrompt : {TRUE}]
        \cup [name : {"variations"}, takesPrompt : {FALSE}]

ImagesFormat(r) == IF r.field = "format-webp" THEN "webp" ELSE "png"

NamedOps(r) == {o \in ImagesOps : o.name = r.op}

\* The form of an operation that takes no prompt is sent without one.
ImagesPrompt(r) == IF \E o \in NamedOps(r) : ~o.takesPrompt
                     THEN "unsent" ELSE Replaced(r, "prompt", "asked")

ImagesRequest(r) ==
  IF \/ r.op # "none" /\ NamedOps(r) = {}
     \/ r.field \in {"response_format", "format-bad"}
    THEN NotSent
    ELSE AsSent(IF r.op = "none" THEN "generations" ELSE r.op,
              Replaced(r, "model", r.model), ImagesPrompt(r))

ImagesAnswers ==
  [is : {"data"}, data : UNION {[1 .. n -> {"b64", "url", "bad", "empty"}] : n \in 0 .. 2}]
    \cup [is : {"down", "http", "nodata"}]

\* One entry that is not an image fails them all.
ImagesResponse(r, a) ==
  IF a.is = "data" /\ a.data # <<>> /\ \A i \in DOMAIN a.data : a.data[i] = "b64"
    THEN Complete([i \in DOMAIN a.data |-> ImagesFormat(r)])
    ELSE Failed

----
(* Gemini *)

\* One voice or a list of speakers, each Name=Voice.
SpeechConfigFails(r) == r.field \in {"voice-and-speakers", "speakers-bad"}

\* The fields go under generationConfig, where they replace neither.
GeminiRequest(r) ==
  IF r.output = "audio" /\ SpeechConfigFails(r)
    THEN NotSent
    ELSE AsSent("generateContent", r.model, "asked")

AnswerParts == {"text", "png", "wav", "pcm24k", "pcm16k", "pcm-norate", "pcm-torn",
                "nomime", "bad64", "unknown"}
PcmParts == {"pcm24k", "pcm16k", "pcm-torn"}
GeminiAnswers ==
  [is : {"parts"}, parts : UNION {[1 .. n -> AnswerParts] : n \in 0 .. 2}]
    \cup [is : {"down", "http", "blocked", "nocandidates", "stopped"}]

\* A part without a type, or that does not decode, fails the answer; raw samples of
\* one rate are joined into one file, after the parts that are files.
WalkParts(parts) ==
  LET pcm == SelectSeq(parts, LAMBDA p : p \in PcmParts)
      rate(p) == IF p = "pcm16k" THEN 16 ELSE 24 IN
  IF \/ Range(parts) \cap {"nomime", "bad64", "pcm-norate"} # {}
     \/ \E i, j \in DOMAIN pcm : rate(pcm[i]) # rate(pcm[j])
     \/ "pcm-torn" \in Range(pcm)
    THEN Failed
    ELSE Complete(SelectSeq(parts, LAMBDA p : p \in {"png", "wav"})
                    \o IF pcm = <<>> THEN <<>> ELSE <<"wav">>)

GeminiResponse(a) ==
  IF a.is # "parts" THEN Failed
  ELSE LET walked == WalkParts(a.parts) IN
       IF walked.is = "complete" /\ walked.mimes = <<>> THEN Failed ELSE walked

----
(* DashScope *)

DashScopeRequest(r) == AsSent("multimodal-generation", r.model, "asked")

\* What is behind an address a provider gives.
Fetched == {"png", "mp3", "unfetchable"}

DashScopeAnswers ==
  [is : {"images"}, images : UNION {[1 .. n -> Fetched] : n \in 0 .. 2}]
    \cup [is : {"down", "http", "coded", "nochoices"}]

\* An artifact's type is its bytes'.
ArtifactMime(bytes) == SniffMime(bytes)

\* Each address is fetched before any is stored, and the first that fails ends it.
DashScopeResponse(a) ==
  IF a.is = "images" /\ a.images # <<>>
       /\ \A i \in DOMAIN a.images : ArtifactMime(a.images[i]) # "none"
    THEN Complete(a.images)
    ELSE Failed

----
(* BFL *)

BflOps == {"flux-dev", "flux-2-pro"}

BflOperation(r) == IF r.op = "none" THEN r.model ELSE r.op

RefusesWebhook(r) == r.field = "webhook_url"

\* The op is the path.  Inputs are inserted over the prompt, and fields over both.
BflRequest(r) ==
  IF RefusesWebhook(r) \/ BflOperation(r) \notin BflOps
    THEN NotSent
    ELSE AsSent(BflOperation(r), BflOperation(r),
              Replaced(r, "prompt", IF r.input = "named-prompt" THEN "input" ELSE "asked"))

BflCreated == {"polling_url", "plain_url", "webhook", "neither", "http", "down"}
BflStatuses ==
  [is : {"Ready"}, sample : Fetched]
    \cup [is : {"Pending", "NoSample", "Error", "Moderated", "NotFound", "Unknown",
                "http", "redirect", "down"}]

\* An answer is usable when it names the address to poll.
ParseCreate(a) == a \in {"polling_url", "plain_url"}

FetchArtifact(sample) ==
  IF ArtifactMime(sample) = "none" THEN Failed ELSE Complete(<<sample>>)

\* One GET of the address the provider gave, which must be https and not redirect,
\* and the fetch of what it made.
PollOnce(url, status) ==
  IF url = "plain_url" THEN Failed
  ELSE CASE status.is = "Pending" -> Pending
         [] status.is = "Ready" -> FetchArtifact(status.sample)
         [] OTHER -> Failed

----
(* Any of them *)

RequestOf(r) ==
  CASE r.kind = "stability" -> StabilityRequest(r)
    [] r.kind = "openai-images" -> ImagesRequest(r)
    [] r.kind = "gemini-media" -> GeminiRequest(r)
    [] r.kind = "dashscope" -> DashScopeRequest(r)
    [] OTHER -> BflRequest(r)

AnswersTo(r) ==
  CASE r.kind = "stability" -> StabilityAnswers
    [] r.kind = "openai-images" -> ImagesAnswers
    [] r.kind = "gemini-media" -> GeminiAnswers
    [] OTHER -> DashScopeAnswers

Outcome(r, a) ==
  CASE r.kind = "stability" -> HandleResponse(r, a)
    [] r.kind = "openai-images" -> ImagesResponse(r, a)
    [] r.kind = "gemini-media" -> GeminiResponse(a)
    [] OTHER -> DashScopeResponse(a)

\* The model a record names: BFL's ops are models, the others' are routes.
RecordedModel(r) == IF r.kind = "bfl" THEN BflOperation(r) ELSE r.model
=============================================================================

------------------------------- MODULE Generate -------------------------------
(***************************************************************************)
(* One generation (server/mod.rs generate, cli.rs generate_inner): checked,   *)
(* sent through the arm of the cast's slot, collected at once or from the      *)
(* provider's job, and stored one artifact at a time.  The server collects in  *)
(* a background job, which job_cancel drops where it waits; the CLI waits.     *)
(* Each sleep between two polls is a tick.                                     *)
(***************************************************************************)
EXTENDS MediaModels

CONSTANTS
  Requested,      \* the requests asked
  Contents,       \* digests of what is made
  InlineBudget,   \* INLINE_POLL_BUDGET over INLINE_POLL_INTERVAL
  CallDeadline    \* call_deadline over GENERATE_POLL_INTERVAL

VARIABLES
  gAsked,    \* the request
  gAt,       \* where the call is
  jobUrl,    \* what BFL's create gave to poll
  gClock,    \* ticks since the loop began
  held,      \* the formats of the artifacts collected
  kept,      \* digests put so far, and those whose record is missing
  gTold      \* what the caller is told: digests, "job" or "waiting", "provider job",
             \* "nothing" (was stored)

generateVars == <<gAsked, gAt, jobUrl, gClock, held, kept, gTold>>

Ended == {"refused", "done", "failed", "cancelled"}

GenerateInit ==
  /\ gAsked \in Requested
  /\ gAt = "asked" /\ jobUrl = "none" /\ gClock = 0
  /\ held = <<>> /\ kept = <<>> /\ gTold = {}

Reaches(step) == gAt' = step
Tells(names) == gTold' = gTold \cup names

Ends(how, names) == Reaches(how) /\ Tells(names)

\* A field that would make the record disagree with the request that ran.
Reserved(r) == r.field \in {"prompt", "model"}

\* The checks of both doors, before anything is sent.
RefuseRequest ==
  /\ gAt = "asked"
  /\ \/ ~gAsked.store \/ ~gAsked.slot
     \/ ~ArmBuilds(gAsked)
     \/ Reserved(gAsked)
     \/ ~InputResolves(gAsked)
     \/ Unsupported(gAsked)
  /\ Ends("refused", {})
  /\ UNCHANGED <<gAsked, jobUrl, gClock, held, kept>>

Accept ==
  /\ gAt = "asked"
  /\ gAsked.store /\ gAsked.slot
  /\ ArmBuilds(gAsked)
  /\ ~Reserved(gAsked)
  /\ InputResolves(gAsked)
  /\ ~Unsupported(gAsked)
  /\ Reaches("generate")
  /\ UNCHANGED <<gAsked, jobUrl, gClock, held, kept, gTold>>

\* The provider's module refuses to send it.
RefuseToSend ==
  /\ gAt = "generate"
  /\ RequestOf(gAsked) = NotSent
  /\ Ends("failed", {})
  /\ UNCHANGED <<gAsked, jobUrl, gClock, held, kept>>

\* A server names its own job at once, the CLI says that it waits; neither names the
\* provider's.
Deferring(url) ==
  /\ jobUrl' = url
  /\ gClock' = 0
  /\ Reaches("poll")
  /\ Tells({IF gAsked.door = "server" THEN "job" ELSE "waiting"})
  /\ UNCHANGED held

Collects(mimes) ==
  /\ held' = mimes
  /\ Reaches("store")
  /\ UNCHANGED <<jobUrl, gClock, gTold>>

\* One exchange: every provider but BFL.
Send ==
  /\ gAt = "generate"
  /\ gAsked.kind # "bfl" /\ RequestOf(gAsked) # NotSent
  /\ \E a \in AnswersTo(gAsked) :
       LET out == Outcome(gAsked, a) IN
       \/ out.is = "complete" /\ Collects(out.mimes)
       \/ out.is = "deferred" /\ Deferring("provider id")
       \/ out.is = "error" /\ Ends("failed", {}) /\ UNCHANGED <<jobUrl, gClock, held>>
  /\ UNCHANGED <<gAsked, kept>>

Create ==
  /\ gAt = "generate"
  /\ gAsked.kind = "bfl" /\ RequestOf(gAsked) # NotSent
  /\ \E a \in BflCreated :
       \/ ParseCreate(a) /\ jobUrl' = a /\ Reaches("inline") /\ UNCHANGED gTold
       \/ ~ParseCreate(a) /\ Ends("failed", {}) /\ UNCHANGED jobUrl
  /\ UNCHANGED <<gAsked, gClock, held, kept>>

\* BFL's own wait inside the call: the last poll is made with the budget spent, and
\* what is pending then is handed back as a job.
InlineStep ==
  /\ gAt = "inline"
  /\ \E status \in BflStatuses :
       LET out == PollOnce(jobUrl, status) IN
       \/ out.is = "complete" /\ Collects(out.mimes)
       \/ out.is = "pending" /\ gClock >= InlineBudget /\ Deferring(jobUrl)
       \/ /\ out.is = "pending" /\ gClock < InlineBudget
          /\ gClock' = gClock + 1
          /\ UNCHANGED <<gAt, jobUrl, held, gTold>>
       \/ out.is = "error" /\ Ends("failed", {}) /\ UNCHANGED <<jobUrl, gClock, held>>
  /\ UNCHANGED <<gAsked, kept>>

Polled(answer) ==
  IF gAsked.kind = "bfl" THEN PollOnce(jobUrl, answer) ELSE StabilityPoll(gAsked, answer)

PollAnswers == IF gAsked.kind = "bfl" THEN BflStatuses ELSE StabilityAnswers

\* A poll that fails, or that is pending past the deadline, names the provider's job.
PollProvider ==
  /\ gAt = "poll"
  /\ \E a \in PollAnswers :
       LET out == Polled(a) IN
       \/ out.is = "complete" /\ Collects(out.mimes)
       \/ /\ out.is = "pending" /\ gClock <= CallDeadline
          /\ gClock' = gClock + 1
          /\ UNCHANGED <<gAt, jobUrl, held, gTold>>
       \/ /\ \/ out.is = "pending" /\ gClock > CallDeadline
             \/ out.is = "error"
          /\ Ends("failed", {"provider job"})
          /\ UNCHANGED <<jobUrl, gClock, held>>
  /\ UNCHANGED <<gAsked, kept>>

\* job_cancel drops the server's task while it polls; the CLI has no job to cancel.
Cancel ==
  /\ gAt = "poll" /\ gAsked.door = "server"
  /\ Ends("cancelled", {})
  /\ UNCHANGED <<gAsked, jobUrl, gClock, held, kept>>

Storable(mime) == FromMime(mime) # "none" /\ Admits(gAsked.output, FromMime(mime))

\* The whole list is judged before the first byte is written.
RefuseWhole ==
  /\ gAt = "store" /\ kept = <<>>
  /\ held = <<>> \/ \E i \in DOMAIN held : ~Storable(held[i])
  /\ Ends("failed", {"nothing"})
  /\ UNCHANGED <<gAsked, jobUrl, gClock, held, kept>>

StoreOne ==
  /\ gAt = "store" /\ Len(kept) < Len(held)
  /\ \A i \in DOMAIN held : Storable(held[i])
  /\ \E d \in Contents :
       /\ kept' = Append(kept, d)
       /\ UNCHANGED <<gAt, gTold>>
  /\ UNCHANGED <<gAsked, jobUrl, gClock, held>>

\* Mutant of StoreFails: the error is the store's own.
StoreFailsBare ==
  /\ gAt = "store" /\ Len(kept) < Len(held)
  /\ \A i \in DOMAIN held : Storable(held[i])
  /\ Ends("failed", IF kept = <<>> THEN {"nothing"} ELSE {})
  /\ UNCHANGED <<gAsked, jobUrl, gClock, held, kept>>

\* A put that fails names what was put before it.
StoreFails ==
  /\ gAt = "store" /\ Len(kept) < Len(held)
  /\ \A i \in DOMAIN held : Storable(held[i])
  /\ Ends("failed", IF kept = <<>> THEN {"nothing"} ELSE Range(kept))
  /\ UNCHANGED <<gAsked, jobUrl, gClock, held, kept>>

\* A put whose record cannot be written is an error that carries the digest; the
\* first one is told as "nothing was stored" like any other.
StoreUndescribed ==
  /\ gAt = "store" /\ Len(kept) < Len(held)
  /\ \A i \in DOMAIN held : Storable(held[i])
  /\ \E d \in Contents :
       /\ kept' = Append(kept, d)
       /\ Ends("failed", {d} \cup IF kept = <<>> THEN {"nothing"} ELSE Range(kept))
  /\ UNCHANGED <<gAsked, jobUrl, gClock, held>>

FinishGenerate ==
  /\ gAt = "store" /\ Len(kept) = Len(held) /\ kept # <<>>
  /\ Ends("done", Range(kept))
  /\ UNCHANGED <<gAsked, jobUrl, gClock, held, kept>>

GenerateNext ==
  \/ RefuseRequest \/ Accept \/ RefuseToSend \/ Send \/ Create \/ InlineStep
  \/ PollProvider \/ Cancel
  \/ RefuseWhole \/ StoreOne \/ StoreFails \/ StoreUndescribed \/ FinishGenerate

GenerateSpec == GenerateInit /\ [][GenerateNext]_generateVars

----
\* Nothing paid for is lost without a name: a call that ends names every digest it put,
\* and one whose provider job was not collected names that job, unless it was told to
\* stop.
PaidIsNamed ==
  gAt \in {"done", "failed"} =>
    /\ Range(kept) \subseteq gTold
    /\ gTold \cap {"job", "waiting"} # {} /\ held = <<>> => "provider job" \in gTold

\* What is stored is of the kind asked for, all of it or none: a list with one artifact
\* of the wrong kind stores nothing, and only a whole list is a success.
WrongMediaStoresNothing ==
  kept # <<>> => /\ \A i \in DOMAIN held : Storable(held[i])
                 /\ gAt = "done" => Len(kept) = Len(held)

\* The provenance is that of the request that ran: the model it names is the one sent,
\* and the prompt it names was not replaced by a field.
RecordIsWhatRan ==
  kept # <<>> => LET sent == RequestOf(gAsked) IN
                 /\ RecordedModel(gAsked) = sent.model
                 /\ sent.prompt # "caller"

\* What was paid for is named, its record says what ran, and nothing of the wrong medium
\* is stored.
MediaIsAccounted == PaidIsNamed /\ RecordIsWhatRan /\ WrongMediaStoresNothing
=============================================================================

----------------------------- MODULE Deliberate -----------------------------
(***************************************************************************)
(* deliberate (src/src/server/mod.rs, deliberate_call and its two lanes;    *)
(* server/dossier.rs): an explorer sweep builds a dossier, kaibo keeps it   *)
(* in the media store, and an offline synth reasons over it: a provider     *)
(* batch, or one long local completion in a background job.  A later call   *)
(* may pass a dossier's digest instead of sweeping again.                   *)
(***************************************************************************)
EXTENDS Naturals, FiniteSets

CONSTANT Deliberations   \* deliberate calls; a dossier is named for its builder

None == "none"
NoText == <<>>

VARIABLES
  dstage,    \* per call, where it is
  lane,      \* per call, the lane of its cast's synth
  evidence,  \* per call, what the synth is handed: [text, images]
  kept,      \* per call, the digest it may name, or None
  swept,     \* calls that ran a sweep
  held,      \* the media store: per digest, the text it holds, or NoText
  told,      \* digests the caller was given
  handles,   \* the batch handles table: per call, the digest in its label
  running    \* deliberations a provider or a job is working on

deliberateVars == <<dstage, lane, evidence, kept, swept, held, told, handles, running>>

\* A dossier's text, before and after the sweep's attachments were stitched in.
Bare(d) == <<d, "bare">>
Stitched(d) == <<d, "stitched">>
NoEvidence == [text |-> NoText, images |-> {}]

DeliberateInit ==
  /\ dstage = [d \in Deliberations |-> "new"]
  /\ lane \in [Deliberations -> {"batch", "direct"}]
  /\ evidence = [d \in Deliberations |-> NoEvidence]
  /\ kept = [d \in Deliberations |-> None]
  /\ swept = {} /\ told = {} /\ running = {}
  /\ held = [d \in Deliberations |-> NoText]
  /\ handles = [d \in Deliberations |-> "unrecorded"]

To(d, from, to) == dstage[d] = from /\ dstage' = [dstage EXCEPT ![d] = to]

-----------------------------------------------------------------------------
(* Stage 1: the dossier. *)

\* Reuse with explorer arguments (inert_explorer_args), a cast that is not for
\* deliberate, a bad path: refused before anything is spent.
RefuseDeliberate(d) ==
  /\ To(d, "new", "refused")
  /\ UNCHANGED <<lane, evidence, kept, swept, held, told, handles, running>>

SweepDossier(d) ==
  /\ To(d, "new", "swept")
  /\ swept' = swept \cup {d}
  /\ \E images \in {{}, {d}} :
       evidence' = [evidence EXCEPT ![d] = [text |-> Bare(d), images |-> images]]
  /\ UNCHANGED <<lane, kept, held, told, handles, running>>

\* The explorer failed: no offline token is spent.
SweepDossierFails(d) ==
  /\ To(d, "new", "failed")
  /\ swept' = swept \cup {d}
  /\ UNCHANGED <<lane, evidence, kept, held, told, handles, running>>

\* keep_dossier: a store that is off or refuses is no failure of the call.
KeepDossier(d, text) ==
  \/ /\ held' = [held EXCEPT ![d] = text]
     /\ kept' = [kept EXCEPT ![d] = d]
  \/ UNCHANGED <<held, kept>>

\* Mutant: the dossier is kept before the sweep's delivery is stitched in.
KeepThenStitch(d) ==
  /\ To(d, "swept", "ready")
  /\ evidence' = [evidence EXCEPT ![d].text = Stitched(d)]
  /\ KeepDossier(d, Bare(d))
  /\ UNCHANGED <<lane, swept, told, handles, running>>

\* stitch_and_keep: text bodies, notes and demotions join the dossier, then it is
\* kept; the images ride apart.
StitchAndKeep(d) ==
  /\ To(d, "swept", "ready")
  /\ evidence' = [evidence EXCEPT ![d].text = Stitched(d)]
  /\ KeepDossier(d, Stitched(d))
  /\ UNCHANGED <<lane, swept, told, handles, running>>

\* load_dossier: a digest the caller was given, still held and textual.  No sweep
\* runs and no image comes with it.
ReuseDossier(d) ==
  /\ To(d, "new", "ready")
  /\ \E digest \in told :
       /\ held[digest] # NoText
       /\ evidence' = [evidence EXCEPT ![d] = [text |-> held[digest], images |-> {}]]
       /\ kept' = [kept EXCEPT ![d] = digest]
  /\ UNCHANGED <<lane, swept, held, told, handles, running>>

-----------------------------------------------------------------------------
(* Stage 2: the two lanes. *)

\* dossier_ack: the reply names the dossier, kept or reused.
Ack(d) == told' = told \cup ({kept[d]} \ {None})

\* The provider is handed the batch; its handle is recorded with the dossier's
\* address in its label, and a failing write is only logged.
SubmitDeliberation(d) ==
  /\ lane[d] = "batch"
  /\ To(d, "ready", "offline")
  /\ \/ handles' = [handles EXCEPT ![d] = kept[d]]
     \/ UNCHANGED handles
  /\ Ack(d)
  /\ running' = running \cup {d}
  /\ UNCHANGED <<lane, evidence, kept, swept, held>>

\* No submitter for the backend, no key, or the provider refused: an error of
\* the call that says only what failed.
SubmitDeliberationFails(d) ==
  /\ lane[d] = "batch"
  /\ To(d, "ready", "failed")
  /\ UNCHANGED <<lane, evidence, kept, swept, held, told, handles, running>>

SpawnDeliberation(d) ==
  /\ lane[d] = "direct"
  /\ To(d, "ready", "offline")
  /\ Ack(d)
  /\ running' = running \cup {d}
  /\ UNCHANGED <<lane, evidence, kept, swept, held, handles>>

\* The synth's arm cannot be built: its key is only looked for now.
SynthArmFails(d) ==
  /\ lane[d] = "direct"
  /\ To(d, "ready", "failed")
  /\ UNCHANGED <<lane, evidence, kept, swept, held, told, handles, running>>

\* The answer: with_dossier on the direct lane; the batch lane's text is the
\* provider's alone, and its ack and its label carry the address.
DeliberationAnswers(d) ==
  /\ d \in running
  /\ To(d, "offline", "answered")
  /\ IF lane[d] = "direct" THEN Ack(d) ELSE UNCHANGED told
  /\ running' = running \ {d}
  /\ UNCHANGED <<lane, evidence, kept, swept, held, handles>>

\* The completion failed or passed its deadline, or the batch did.
DeliberationFails(d) ==
  /\ d \in running
  /\ To(d, "offline", "failed")
  /\ running' = running \ {d}
  /\ UNCHANGED <<lane, evidence, kept, swept, held, told, handles>>

DeliberationsOver ==
  /\ \A d \in Deliberations : dstage[d] \in {"refused", "failed", "answered"}
  /\ UNCHANGED deliberateVars

DeliberateNext ==
  \/ \E d \in Deliberations :
       \/ RefuseDeliberate(d) \/ SweepDossier(d) \/ SweepDossierFails(d)
       \/ StitchAndKeep(d) \/ ReuseDossier(d)
       \/ SubmitDeliberation(d) \/ SubmitDeliberationFails(d)
       \/ SpawnDeliberation(d) \/ SynthArmFails(d)
       \/ DeliberationAnswers(d) \/ DeliberationFails(d)
  \/ DeliberationsOver

DeliberateSpec == DeliberateInit /\ [][DeliberateNext]_deliberateVars
-----------------------------------------------------------------------------
(* Properties *)

Stage2(d) == dstage[d] \in {"offline", "answered"}

\* The audit record is what was sent: wherever a dossier is named, the store
\* holds under that digest the very text the synth was handed, built or reused.
KeptIsWhatWasSent ==
  \A d \in Deliberations :
    Stage2(d) /\ kept[d] # None => held[kept[d]] = evidence[d].text

\* The long lane keeps its evidence trail: a recorded batch handle names the
\* dossier under deliberation, so job_list finds it after the ack is gone.
HandleNamesDossier ==
  \A d \in Deliberations : handles[d] # "unrecorded" => handles[d] = kept[d]

\* Together: what a deliberation names as its dossier is what its synth was handed.
DossierIsTheEvidence == KeptIsWhatWasSent /\ HandleNamesDossier

\* What the reuse road says of itself: the same evidence reaches the second synth.
SameEvidence ==
  \A d \in Deliberations :
    Stage2(d) /\ kept[d] \notin {None, d} => evidence[d] = evidence[kept[d]]
=============================================================================

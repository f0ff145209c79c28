------------------------------ MODULE Artifacts -----------------------------
(***************************************************************************)
(* save_artifact (src/src/artifact.rs): the driver of a consult hands kaibo *)
(* bytes and gets back their address.  One sink per call: a ledger of what  *)
(* the call saved, and caps checked against it before the media store is    *)
(* written.  The store is content-addressed, shared with every other call   *)
(* and never rewritten: the first format bytes are stored under is the one  *)
(* they keep (the store itself is in MediaCas).                             *)
(***************************************************************************)
EXTENDS Naturals, FiniteSets, SequencesExt

CONSTANTS
  Blobs,            \* contents a model may save; equal contents have one address
  BlobBytes,        \* their sizes
  BlobFormats,      \* container formats: text, jsonl, markdown
  Savers,           \* tool calls in flight
  ArtifactBytesCap, ArtifactsPerCall, CallBytesCap,   \* Caps
  MaxSaves          \* bound: save_artifact calls of one consult

ASSUME CapsAssumption ==
  /\ {ArtifactBytesCap, ArtifactsPerCall, CallBytesCap} \subseteq Nat
  /\ BlobBytes \in [Blobs -> Nat]

\* The model's own words for no content and for a ledger nobody holds.
ASSUME WordsAssumption == "none" \notin BlobFormats /\ "free" \notin Savers

VARIABLES
  casFormat,  \* the media store: the format of each content held, or "none"
  ledger,     \* the sink's saved artifacts, oldest first
  spent,      \* its total_bytes
  sinkLock,   \* who holds the ledger, or "free"
  saving,     \* per tool call, what it saves and how far it is
  saves,      \* calls made so far
  mine        \* contents this call's puts left in the store, for the properties

artifactVars == <<casFormat, ledger, spent, sinkLock, saving, saves, mine>>

NotSaving == [at |-> "idle"]
ArtifactsInit ==
  /\ casFormat = [b \in Blobs |-> "none"]
  /\ ledger = <<>> /\ spent = 0 /\ sinkLock = "free"
  /\ saving = [c \in Savers |-> NotSaving]
  /\ saves = 0 /\ mine = {}

-----------------------------------------------------------------------------
(* ArtifactSink::save. *)

\* resolve_format: a name outside the table is text, never a refusal.
Resolved(asked) == IF asked \in BlobFormats THEN asked ELSE "text"

\* The checks that need no ledger: a label, on one line, and the content's size.
Save(c) ==
  /\ saving[c].at = "idle"
  /\ saves < MaxSaves
  /\ \E b \in Blobs, asked \in BlobFormats \cup {"unknown"} :
       /\ BlobBytes[b] <= ArtifactBytesCap
       /\ saving' = [saving EXCEPT ![c] =
                       [at |-> "wait", blob |-> b, format |-> Resolved(asked)]]
  /\ saves' = saves + 1
  /\ UNCHANGED <<casFormat, ledger, spent, sinkLock, mine>>

\* Mutant: the ledger is read without its lock.
LockNothing(c) ==
  /\ saving[c].at = "wait"
  /\ saving' = [saving EXCEPT ![c].at = "admit"]
  /\ UNCHANGED <<casFormat, ledger, spent, sinkLock, saves, mine>>

LockLedger(c) ==
  /\ saving[c].at = "wait"
  /\ sinkLock = "free"
  /\ sinkLock' = c
  /\ saving' = [saving EXCEPT ![c].at = "admit"]
  /\ UNCHANGED <<casFormat, ledger, spent, saves, mine>>

Admitted(c) ==
  /\ Len(ledger) < ArtifactsPerCall
  /\ spent + BlobBytes[saving[c].blob] <= CallBytesCap

\* Past a cap of the call: refused before the store is touched.
RefuseSave(c) ==
  /\ saving[c].at = "admit"
  /\ ~Admitted(c)
  /\ saving' = [saving EXCEPT ![c] = NotSaving]
  /\ sinkLock' = "free"
  /\ UNCHANGED <<casFormat, ledger, spent, saves, mine>>

\* MediaStore::put: stored, stored without its sidecar, or refused by the store.
PutBlob(c) ==
  LET b == saving[c].blob IN
  /\ saving[c].at = "admit"
  /\ Admitted(c)
  /\ \/ /\ \E sidecar \in BOOLEAN :
             saving' = [saving EXCEPT ![c] = [at |-> "stored", blob |-> b,
                          format |-> saving[c].format, sidecar |-> sidecar]]
        /\ casFormat' = [casFormat EXCEPT ![b] =
                           IF @ = "none" THEN saving[c].format ELSE @]
        /\ mine' = mine \cup {b}
        /\ UNCHANGED sinkLock
     \/ /\ saving' = [saving EXCEPT ![c] = NotSaving]
        /\ sinkLock' = "free"
        /\ UNCHANGED <<casFormat, mine>>
  /\ UNCHANGED <<ledger, spent, saves>>

\* The artifact enters the ledger under the format the store answers with
\* (extension_for), whether its sidecar was written or not.
RecordSaved(c) ==
  LET b == saving[c].blob IN
  /\ saving[c].at = "stored"
  /\ ledger' = Append(ledger, [blob |-> b, format |-> casFormat[b],
                               noSidecar |-> ~saving[c].sidecar])
  /\ spent' = spent + BlobBytes[b]
  /\ sinkLock' = "free"
  /\ saving' = [saving EXCEPT ![c] = NotSaving]
  /\ UNCHANGED <<casFormat, saves, mine>>

\* Another call of this server, or another process, stores the same bytes.
StoredElsewhere ==
  /\ \E b \in Blobs, f \in BlobFormats :
       casFormat[b] = "none" /\ casFormat' = [casFormat EXCEPT ![b] = f]
  /\ UNCHANGED <<ledger, spent, sinkLock, saving, saves, mine>>

SaverStep(c) ==
  \/ Save(c) \/ LockLedger(c) \/ RefuseSave(c) \/ PutBlob(c) \/ RecordSaved(c)
ArtifactsNext == (\E c \in Savers : SaverStep(c)) \/ StoredElsewhere
ArtifactsSpec == ArtifactsInit /\ [][ArtifactsNext]_artifactVars
-----------------------------------------------------------------------------
(* Properties *)

\* Bytes of the ledger's entries: what the caps are about.
LedgerBytes ==
  LET sum[n \in 0..Len(ledger)] ==
        IF n = 0 THEN 0 ELSE sum[n - 1] + BlobBytes[ledger[n].blob]
  IN sum[Len(ledger)]

\* Tools of one turn run concurrently; the caps of a call hold over all of them,
\* whatever order their checks and writes fall in (the ledger lock spans both).
CallCapsHold ==
  /\ Len(ledger) <= ArtifactsPerCall
  /\ LedgerBytes <= CallBytesCap
  /\ \A i \in DOMAIN ledger : BlobBytes[ledger[i].blob] <= ArtifactBytesCap

\* The footer tells the truth about the stored bytes: the format it names is the
\* store's, also when others stored the same bytes first under another.
FooterFormatIsStored ==
  \A i \in DOMAIN ledger : ledger[i].format = casFormat[ledger[i].blob]

\* Content this call stored is in its ledger as soon as the save returned: no
\* outcome of the store leaves durable bytes nobody was told about.
StoredIsInLedger ==
  \A b \in mine :
    \/ \E i \in DOMAIN ledger : ledger[i].blob = b
    \/ \E c \in Savers : saving[c].at = "stored" /\ saving[c].blob = b
=============================================================================

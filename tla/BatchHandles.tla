---------------------------- MODULE BatchHandles ----------------------------
(***************************************************************************)
(* How a batch handle is not lost (src/src/server/mod.rs, batch_submit,     *)
(* deliberate_batch and job_list; src/src/cli.rs, batch submit and list;    *)
(* src/src/store.rs, the batch_handles table).  The provider owns a batch;  *)
(* the row kaibo writes after the provider took it is a memory of its own,  *)
(* pruned by age, and a listing puts the two together.  The server and any  *)
(* number of command lines share the file and the account.                  *)
(***************************************************************************)
EXTENDS Naturals

CONSTANTS Batches,
          BackendOf,     \* the backend each is submitted to
          TwoStep,       \* backends that take an input file first (OpenAI's)
          Ttl,           \* BATCH_HANDLE_TTL_SECS
          Window,        \* BATCH_RECENCY_WINDOW_SECS
          Retention,     \* how long a provider keeps a batch
          MaxClock       \* bound: the last tick of the wall clock

\* "Provider batches expire around 30 days" (store.rs).
ASSUME RetentionAssumption == Window \in Nat /\ Ttl \in Nat /\ Retention \in 0..Ttl

VARIABLES
  clock,
  submitAt,   \* where each batch's submit is
  stray,      \* input files uploaded for a batch that was never created
  born,       \* when the provider created it, as a set of one, or {}
  kept,       \* the batches the provider still has
  row,        \* created_at of each handle's row, as a set of one, or {}
  pruned,     \* history: handles whose row was pruned
  listing     \* what a listing showed, until the next step

handleVars == <<clock, submitAt, stray, born, kept, row, pruned, listing>>

Backends == {BackendOf[b] : b \in Batches}
NoListing == [entries |-> {}, hidden |-> {}, recovered |-> {}, whole |-> {}, read |-> FALSE]

NotListing == listing' = NoListing

HandlesInit ==
  /\ clock = 0
  /\ submitAt = [b \in Batches |-> "new"]
  /\ stray = {} /\ kept = {} /\ pruned = {}
  /\ born = [b \in Batches |-> {}]
  /\ row = [b \in Batches |-> {}]
  /\ listing = NoListing

-----------------------------------------------------------------------------
(* Submitting: batch_submit, deliberate's batch lane, kaibo batch submit.    *)

Go(b, from, to) == submitAt[b] = from /\ submitAt' = [submitAt EXCEPT ![b] = to]

\* No prompts, no batch cast, a bad path, an image for a blind model, no key.
RefuseSubmit(b) ==
  /\ Go(b, "new", "failed")
  /\ NotListing
  /\ UNCHANGED <<clock, stray, born, kept, row, pruned>>

\* OpenAI's batch reads its requests from a file uploaded first.
UploadInput(b) ==
  /\ BackendOf[b] \in TwoStep
  /\ Go(b, "new", "uploaded")
  /\ NotListing
  /\ UNCHANGED <<clock, stray, born, kept, row, pruned>>

Ready(b) == submitAt[b] = (IF BackendOf[b] \in TwoStep THEN "uploaded" ELSE "new")

\* The provider took it, and kaibo has its id ...
Accepted(b) ==
  /\ Ready(b)
  /\ born' = [born EXCEPT ![b] = {clock}]
  /\ kept' = kept \cup {b}
  /\ submitAt' = [submitAt EXCEPT ![b] = "accepted"]
  /\ NotListing
  /\ UNCHANGED <<clock, stray, row, pruned>>

\* ... or the answer was lost, or unreadable, or kaibo was killed: an error, and
\* a batch that only the provider's list knows.
AcceptedUnheard(b) ==
  /\ Ready(b)
  /\ born' = [born EXCEPT ![b] = {clock}]
  /\ kept' = kept \cup {b}
  /\ submitAt' = [submitAt EXCEPT ![b] = "failed"]
  /\ NotListing
  /\ UNCHANGED <<clock, stray, row, pruned>>

SubmitFails(b) ==
  /\ Ready(b)
  /\ submitAt' = [submitAt EXCEPT ![b] = "failed"]
  /\ stray' = IF submitAt[b] = "uploaded" THEN stray \cup {b} ELSE stray
  /\ NotListing
  /\ UNCHANGED <<clock, born, kept, row, pruned>>

\* prune_stale_batch_handles.
Stale(r) == {b \in Batches : \E t \in r[b] : t + Ttl < clock}

PruneRows(r) ==
  /\ row' = [b \in Batches |-> IF b \in Stale(r) THEN {} ELSE r[b]]
  /\ pruned' = pruned \cup Stale(r)

\* Mutant of PutBatch: the handle is written before the provider answers.
PutBatchFirst(b) ==
  /\ submitAt[b] \in {"new", "uploaded", "accepted"}
  /\ submitAt' = IF submitAt[b] = "accepted" THEN [submitAt EXCEPT ![b] = "told"] ELSE submitAt
  /\ PruneRows([row EXCEPT ![b] = {clock}])
  /\ NotListing
  /\ UNCHANGED <<clock, stray, born, kept>>

\* put_batch, then the handle is told whatever became of the row.
PutBatch(b) ==
  /\ Go(b, "accepted", "told")
  /\ PruneRows([row EXCEPT ![b] = {clock}])
  /\ NotListing
  /\ UNCHANGED <<clock, stray, born, kept>>

\* The insert is in and the prune after it failed: a warning in the log.
PutBatchUnpruned(b) ==
  /\ Go(b, "accepted", "told")
  /\ row' = [row EXCEPT ![b] = {clock}]
  /\ NotListing
  /\ UNCHANGED <<clock, stray, born, kept, pruned>>

\* No persistence, no store, or no insert: the handle still reaches the caller.
TellUnrecorded(b) ==
  /\ Go(b, "accepted", "told")
  /\ NotListing
  /\ UNCHANGED <<clock, stray, born, kept, row, pruned>>

\* Killed between the provider's answer and the caller's.
KilledBeforeTelling(b) ==
  /\ Go(b, "accepted", "failed")
  /\ row' \in {row, [row EXCEPT ![b] = {clock}]}
  /\ NotListing
  /\ UNCHANGED <<clock, stray, born, kept, pruned>>

-----------------------------------------------------------------------------
(* The store is opened: at the start of a server, and by every command line. *)
OpenPrunes ==
  /\ PruneRows(row)
  /\ NotListing
  /\ UNCHANGED <<clock, submitAt, stray, born, kept>>

(* Time passes; a provider drops what it has kept for its time. *)
Tick ==
  /\ clock < MaxClock
  /\ clock' = clock + 1
  /\ kept' = {b \in kept : \A t \in born[b] : clock + 1 <= t + Retention}
  /\ NotListing
  /\ UNCHANGED <<submitAt, stray, born, row, pruned>>

-----------------------------------------------------------------------------
(* Listing: job_list and kaibo batch list. *)

\* batch_within_window: an undated batch stays in sight.
WithinWindow(b) == \A t \in born[b] : clock <= t + Window

Handles(r) == {b \in Batches : r[b] # {}}

Listing(found, whole, all, read, r) ==
  LET hides == IF all THEN {} ELSE {b \in found : ~WithinWindow(b)}
  IN [entries |-> found \ hides, hidden |-> hides,
      recovered |-> IF read THEN Handles(r) \ found ELSE {},
      whole |-> whole, read |-> read]

\* Each backend asked answers with all it has, a page of it, or an error.
Ask(all, read, r) ==
  \E asked \in {Backends} \cup {{k} : k \in Backends} : \E whole \in SUBSET asked :
  \E found \in SUBSET {b \in kept : BackendOf[b] \in asked} :
    /\ \A b \in kept : BackendOf[b] \in whole => b \in found
    /\ listing' = Listing(found, whole, all, read, r)

JobList ==
  /\ \E all, read \in BOOLEAN : Ask(all, read, row)
  /\ UNCHANGED <<clock, submitAt, stray, born, kept, row, pruned>>

\* The command line opens the store after it has asked, which prunes it.
CliList ==
  /\ \E all \in BOOLEAN :
       \/ PruneRows(row) /\ Ask(all, TRUE, row')
       \/ UNCHANGED <<row, pruned>> /\ Ask(all, FALSE, row)
  /\ UNCHANGED <<clock, submitAt, stray, born, kept>>

HandlesNext ==
  \/ \E b \in Batches :
       \/ RefuseSubmit(b) \/ UploadInput(b) \/ Accepted(b) \/ AcceptedUnheard(b)
       \/ SubmitFails(b) \/ PutBatch(b) \/ PutBatchUnpruned(b) \/ TellUnrecorded(b)
       \/ KilledBeforeTelling(b)
  \/ OpenPrunes \/ Tick \/ JobList \/ CliList

HandlesSpec == HandlesInit /\ [][HandlesNext]_handleVars
-----------------------------------------------------------------------------
(***************************************************************************)
(* Properties.                                                             *)
(***************************************************************************)

\* A row names a batch a provider took: a submit that failed leaves none that a
\* later job_list would recover.
RowsWereTaken == \A b \in Batches : row[b] # {} => born[b] # {}

\* "a handle older than that names a batch the provider has already dropped"
\* (BATCH_HANDLE_TTL_SECS): no handle is pruned while its batch can be collected.
PrunedIsGone == pruned \cap kept = {}

\* A batch is listed once: what a provider named, in sight or hidden by its age,
\* is not shown again as recovered.
ListedOnce == listing.recovered \cap (listing.entries \cup listing.hidden) = {}

\* "the way back to a batch whose handle you lost" (job_list): whatever the
\* backends answer, a listing accounts for every handle in the store it read,
\* and for every batch of a backend that answered in full, told or not.
NothingUnlisted ==
  [][listing' # listing =>
       LET seen == listing'.entries \cup listing'.hidden \cup listing'.recovered
       IN /\ listing'.read => Handles(row') \subseteq seen
          /\ \A b \in kept : BackendOf[b] \in listing'.whole => b \in seen]_handleVars

\* Together: rows name batches that were taken and can still be collected, and every
\* listing accounts for what the store and the backends have, once.
HandlesAreAccounted == [](RowsWereTaken /\ PrunedIsGone /\ ListedOnce) /\ NothingUnlisted
=============================================================================

------------------------------ MODULE MediaCas ------------------------------
(***************************************************************************)
(* The disk media store (src/src/cas.rs, Cas) shared by several kaibo       *)
(* processes.  A put writes two files, the object and then the sidecar that *)
(* says what it is, each created with create_new and never touched again;   *)
(* the write mutex covers the callers of one process only.  A file is       *)
(* absent, torn (created, its bytes not all there yet, or never) or whole.  *)
(* A process is killed between any two steps; the machine does not lose     *)
(* power, so bytes that were written stay written.                          *)
(***************************************************************************)
EXTENDS Naturals, Sequences, FiniteSetsExt, Functions

CONSTANTS
  Processes,    \* kaibo processes on one store
  Callers,      \* calls in flight at once
  ProcessOf,    \* the process each caller runs in
  Digests,      \* contents, each named by its own SHA-256
  ProbeOrder,   \* Extension::ALL
  Size,         \* the bytes of each content
  SidecarSize,  \* the bytes of a serialised provenance record
  MaxBytes,     \* the ceiling ([media] max_bytes)
  Absent, Torn, Whole,
  Nobody

Formats == Range(ProbeOrder)

ASSUME CallersAssumption == ProcessOf \in [Callers -> Processes]
ASSUME StatesAssumption ==
  /\ Absent # Torn /\ Absent # Whole /\ Torn # Whole
  /\ Absent \notin Formats /\ Torn \notin Formats
ASSUME ProbeAssumption == ProbeOrder \in Seq(Formats)
ASSUME NobodyAssumption == Nobody \notin Callers
ASSUME SizesAssumption ==
  /\ IsFiniteSet(Digests) /\ Digests # {} /\ Size \in [Digests -> Nat]
  /\ IsFiniteSet(Processes) /\ Processes # {}
  /\ SidecarSize \in Nat /\ MaxBytes \in Nat

VARIABLES
  object,    \* <<digest, format>> -> the state of <hex>.<ext>
  sidecar,   \* digest -> Absent, Torn, or the format <hex>.json names
  lock,      \* process -> the caller in its write mutex
  call,      \* caller -> where it is, and with which digest and format
  stored     \* digests some put reported to be in the store

files == <<object, sidecar>>
vars == <<object, sidecar, lock, call, stored>>

Idle == [at |-> "idle"]
At(c, step) == call[c].at = step
InPut == {"admit", "verify", "create", "write", "sidecar", "describe"}
Calls == [at : {"lock", "read"} \cup InPut, digest : Digests, format : Formats]

\* The object file of the caller's digest and format.
File(c) == <<call[c].digest, call[c].format>>

\* total_bytes: a torn file counts for nothing, the least a scan can see of it.
ObjectBytes(file) == IF object[file] = Whole THEN Size[file[1]] ELSE 0
SidecarBytes(d) == IF sidecar[d] \in Formats THEN SidecarSize ELSE 0
TotalBytes == MapThenSumSet(ObjectBytes, Digests \X Formats)
            + MapThenSumSet(SidecarBytes, Digests)

\* entry_for: the format a readable sidecar names, or the first in the probe
\* order that has a file.
Kept(d) == {i \in DOMAIN ProbeOrder : object[<<d, ProbeOrder[i]>>] # Absent}
Probed(d) == ProbeOrder[CHOOSE i \in Kept(d) : \A j \in Kept(d) : i <= j]
EntryFor(d) ==
  IF sidecar[d] \in Formats /\ object[<<d, sidecar[d]>>] # Absent
    THEN sidecar[d]
    ELSE Probed(d)

Init ==
  /\ object = [file \in Digests \X Formats |-> Absent]
  /\ sidecar = [d \in Digests |-> Absent]
  /\ lock = [p \in Processes |-> Nobody]
  /\ call = [c \in Callers |-> Idle]
  /\ stored = {}

GoesOn(c, step) == call' = [call EXCEPT ![c].at = step]

\* The call returns and the mutex guard drops.
Returns(c) ==
  /\ call' = [call EXCEPT ![c] = Idle]
  /\ lock' = [p \in Processes |-> IF lock[p] = c THEN Nobody ELSE lock[p]]

ReturnsCorrupt(c) ==
  /\ Returns(c)
  /\ UNCHANGED <<files, stored>>

StartPut(c, d, f) ==
  /\ call[c] = Idle
  /\ call' = [call EXCEPT ![c] = [at |-> "lock", digest |-> d, format |-> f]]
  /\ UNCHANGED <<files, lock, stored>>

\* Mutant of Lock: no mutex.
LockShared(c) ==
  /\ At(c, "lock")
  /\ GoesOn(c, "admit")
  /\ UNCHANGED <<files, lock, stored>>

Lock(c) ==
  /\ At(c, "lock") /\ lock[ProcessOf[c]] = Nobody
  /\ lock' = [lock EXCEPT ![ProcessOf[c]] = c]
  /\ GoesOn(c, "admit")
  /\ UNCHANGED <<files, stored>>

\* Cap admission, before anything depends on what the store holds.
Admit(c) ==
  /\ At(c, "admit")
  /\ TotalBytes + Size[call[c].digest] + SidecarSize <= MaxBytes
  /\ GoesOn(c, "verify")
  /\ UNCHANGED <<files, lock, stored>>

Refuse(c) ==
  /\ At(c, "admit")
  /\ TotalBytes + Size[call[c].digest] + SidecarSize > MaxBytes
  /\ Returns(c)
  /\ UNCHANGED <<files, stored>>

\* The dedup check: an object already there is read back and hashed.
Verify(c) ==
  /\ At(c, "verify") /\ object[File(c)] # Torn
  /\ GoesOn(c, "create")
  /\ UNCHANGED <<files, lock, stored>>

VerifyFails(c) ==
  /\ At(c, "verify") /\ object[File(c)] = Torn
  /\ ReturnsCorrupt(c)

CreateObject(c) ==
  /\ At(c, "create") /\ object[File(c)] = Absent
  /\ object' = [object EXCEPT ![File(c)] = Torn]
  /\ GoesOn(c, "write")
  /\ UNCHANGED <<sidecar, lock, stored>>

\* create_new lost, to this process earlier or to another one just now: the
\* bytes are read back and hashed again.
ObjectExists(c) ==
  /\ At(c, "create") /\ object[File(c)] = Whole
  /\ GoesOn(c, "sidecar")
  /\ UNCHANGED <<files, lock, stored>>

ObjectExistsTorn(c) ==
  /\ At(c, "create") /\ object[File(c)] = Torn
  /\ ReturnsCorrupt(c)

WriteObject(c) ==
  /\ At(c, "write")
  /\ object' = [object EXCEPT ![File(c)] = Whole]
  /\ GoesOn(c, "sidecar")
  /\ UNCHANGED <<sidecar, lock, stored>>

\* Mutant of CreateSidecar: create and truncate, for create_new.
CreateSidecarTruncates(c) ==
  /\ At(c, "sidecar")
  /\ sidecar' = [sidecar EXCEPT ![call[c].digest] = Torn]
  /\ GoesOn(c, "describe")
  /\ UNCHANGED <<object, lock, stored>>

CreateSidecar(c) ==
  /\ At(c, "sidecar") /\ sidecar[call[c].digest] = Absent
  /\ sidecar' = [sidecar EXCEPT ![call[c].digest] = Torn]
  /\ GoesOn(c, "describe")
  /\ UNCHANGED <<object, lock, stored>>

\* Put returns the digest, or ProvenanceNotRecorded: the object is in the store
\* and only its provenance is missing.
ReturnsStored(c) ==
  /\ Returns(c)
  /\ stored' = stored \cup {call[c].digest}

SidecarExists(c) ==
  /\ At(c, "sidecar") /\ sidecar[call[c].digest] # Absent
  /\ ReturnsStored(c)
  /\ UNCHANGED files

WriteSidecar(c) ==
  /\ At(c, "describe")
  /\ sidecar' = [sidecar EXCEPT ![call[c].digest] = call[c].format]
  /\ ReturnsStored(c)
  /\ UNCHANGED object

\* An I/O error with nothing written, in a put or in a get.
IoFails(c) ==
  /\ call[c].at \in {"admit", "verify", "create", "read"}
  /\ Returns(c)
  /\ UNCHANGED <<files, stored>>

\* Mutant of WriteFails: the object is taken for stored.
WriteFailsAsStored(c) ==
  /\ At(c, "write")
  /\ ReturnsStored(c)
  /\ UNCHANGED files

\* write_all fails and the object stays as it is, or sync_all fails and it is
\* whole: either way the put reports that nothing was stored.
WriteFails(c) ==
  /\ At(c, "write")
  /\ Returns(c)
  /\ object' \in {object, [object EXCEPT ![File(c)] = Whole]}
  /\ UNCHANGED <<sidecar, stored>>

CreateSidecarFails(c) ==
  /\ At(c, "sidecar")
  /\ ReturnsStored(c)
  /\ UNCHANGED files

WriteSidecarFails(c) ==
  /\ At(c, "describe")
  /\ ReturnsStored(c)
  /\ sidecar' \in {sidecar, [sidecar EXCEPT ![call[c].digest] = call[c].format]}
  /\ UNCHANGED object

\* MediaStore::get of a digest that has a file: the path is looked up (a second
\* time, after the label), then read and hashed, without the mutex.
StartGet(c, d) ==
  /\ call[c] = Idle /\ Kept(d) # {}
  /\ call' = [call EXCEPT ![c] =
                [at |-> "read", digest |-> d, format |-> EntryFor(d)]]
  /\ UNCHANGED <<files, lock, stored>>

ReadVerifies(c) ==
  /\ At(c, "read") /\ object[File(c)] = Whole
  /\ Returns(c)
  /\ UNCHANGED <<files, stored>>

ReadIsCorrupt(c) ==
  /\ At(c, "read") /\ object[File(c)] = Torn
  /\ ReturnsCorrupt(c)

\* The process is killed: its calls and its mutex are gone, the files stay.
Crash(p) ==
  /\ \E c \in Callers : ProcessOf[c] = p /\ call[c] # Idle
  /\ call' = [c \in Callers |-> IF ProcessOf[c] = p THEN Idle ELSE call[c]]
  /\ lock' = [lock EXCEPT ![p] = Nobody]
  /\ UNCHANGED <<files, stored>>

PutStep(c) ==
  \/ \E d \in Digests, f \in Formats : StartPut(c, d, f)
  \/ Lock(c) \/ Admit(c) \/ Refuse(c) \/ Verify(c) \/ VerifyFails(c)
  \/ CreateObject(c) \/ ObjectExists(c) \/ ObjectExistsTorn(c) \/ WriteObject(c)
  \/ CreateSidecar(c) \/ SidecarExists(c) \/ WriteSidecar(c)
  \/ IoFails(c) \/ WriteFails(c) \/ CreateSidecarFails(c) \/ WriteSidecarFails(c)

GetStep(c) ==
  \/ \E d \in Digests : StartGet(c, d)
  \/ ReadVerifies(c) \/ ReadIsCorrupt(c)

Next ==
  \/ \E c \in Callers : PutStep(c) \/ GetStep(c)
  \/ \E p \in Processes : Crash(p)

Spec == Init /\ [][Next]_vars
-----------------------------------------------------------------------------
TypeOK ==
  /\ object \in [Digests \X Formats -> {Absent, Torn, Whole}]
  /\ sidecar \in [Digests -> Formats \cup {Absent, Torn}]
  /\ lock \in [Processes -> Callers \cup {Nobody}]
  /\ call \in [Callers -> Calls \cup {Idle}]
  /\ stored \subseteq Digests

\* The format a sidecar names is a whole object: what describes itself can be
\* read back, whoever wrote either file and wherever it was killed.
DescribedIsWhole ==
  \A d \in Digests : sidecar[d] \in Formats => object[<<d, sidecar[d]>>] = Whole

\* A digest some put reported to be in the store has a whole object there.
StoredIsWhole ==
  \A d \in stored : \E f \in Formats : object[<<d, f>>] = Whole

\* What those two rest on: a put that is past its object has verified or
\* written it.
Settled ==
  \A c \in Callers :
    call[c].at \in {"sidecar", "describe"} => object[File(c)] = Whole

\* A torn sidecar has one writer at most: create_new let one caller through.
Describing ==
  \A c \in Callers : At(c, "describe") =>
    /\ sidecar[call[c].digest] = Torn
    /\ \A x \in Callers :
         At(x, "describe") /\ call[x].digest = call[c].digest => x = c

IInv == TypeOK /\ DescribedIsWhole /\ StoredIsWhole /\ Settled /\ Describing

\* "An edit is always a new digest, never a mutation" (write_new_file): a whole
\* object stays whole and a digest keeps the first description it got, with any
\* number of processes writing it.
WriteOnce ==
  [][ /\ \A file \in Digests \X Formats : object[file] = Whole => object'[file] = Whole
      /\ \A d \in Digests : sidecar[d] \in Formats => sidecar'[d] = sidecar[d] ]_files

\* The ceiling of a store that several processes share: each of the others may
\* have one put admitted that a scan does not count yet.
Largest == Max({Size[d] : d \in Digests}) + SidecarSize
Ceiling == MaxBytes + (Cardinality(Processes) - 1) * Largest

\* No put takes the store past its ceiling, which is max_bytes itself for one
\* process: check and write are one step under the mutex, whatever fails.
CapHolds == TotalBytes <= Ceiling

\* What it rests on: a put holds its process's mutex from admission to return,
Mutex ==
  /\ \A c \in Callers : call[c].at \in InPut => lock[ProcessOf[c]] = c
  /\ \A p \in Processes : lock[p] # Nobody => ProcessOf[lock[p]] = p

\* and what the put in each process's mutex was admitted for and has not written
\* yet fits beside what the store holds.
Owed(p) ==
  LET step == IF lock[p] = Nobody THEN "idle" ELSE call[lock[p]].at
  IN  IF step \in {"verify", "create", "write"}
        THEN Size[call[lock[p]].digest] + SidecarSize
        ELSE IF step \in {"sidecar", "describe"} THEN SidecarSize ELSE 0

Budget == TotalBytes + MapThenSumSet(Owed, Processes) <= Ceiling

\* Seen through its readable sidecars the disk store is the memory store.
Memory == INSTANCE MemoryCas WITH
  objects <- [d \in Digests |-> IF sidecar[d] \in Formats THEN sidecar[d] ELSE Absent],
  MaxBytes <- Ceiling
MemorySpec == Memory!Spec

\* What cas.rs says of ProvenanceNotRecorded: "the bytes are durable and
\* retrievable at that digest" -- entry_for finds a whole object.
StoredIsRetrievable == \A d \in stored : object[<<d, EntryFor(d)>>] = Whole
=============================================================================

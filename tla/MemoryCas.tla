----------------------------- MODULE MemoryCas -----------------------------
(***************************************************************************)
(* The in-memory media store (src/src/cas.rs, MemoryCas), the same          *)
(* contract as the disk store in a few lines: content is kept under its own *)
(* digest, for good, under the format it first came with, and a put that    *)
(* would pass the ceiling is refused whatever the store holds.              *)
(***************************************************************************)
EXTENDS Naturals, FiniteSetsExt

CONSTANTS
  Digests,      \* contents, each named by its own SHA-256
  Formats,      \* the container formats (Extension)
  Size,         \* the bytes of each content
  SidecarSize,  \* the bytes of a serialised provenance record
  MaxBytes,     \* the ceiling ([media] max_bytes)
  Absent

VARIABLE objects  \* the format each digest is held under, or Absent

Held == {d \in Digests : objects[d] # Absent}

Footprint(d) == Size[d] + SidecarSize

Init == objects = [d \in Digests |-> Absent]

\* The cap is checked before the digest is looked up: a full store refuses
\* held content too.
Put(d, f) ==
  /\ objects' = IF d \in Held THEN objects ELSE [objects EXCEPT ![d] = f]
  /\ MapThenSumSet(Footprint, Held) + Footprint(d) <= MaxBytes

Next == \E d \in Digests, f \in Formats : Put(d, f)

Spec == Init /\ [][Next]_objects
=============================================================================

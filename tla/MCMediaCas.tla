----------------------------- MODULE MCMediaCas -----------------------------
(* Small instances of MediaCas. *)
EXTENDS MediaCas, TLC

CONSTANTS a, b, p, q, c1, c2, c3, txt, md

TwoProcesses == [c \in Callers |-> IF c = c3 THEN q ELSE p]
Probe == <<txt, md>>
(* Callers of one process, and contents of one size, are interchangeable. *)
Symmetry == Permutations({c1, c2}) \cup Permutations({a, b})
Sizes == [d \in Digests |-> 1]
=============================================================================

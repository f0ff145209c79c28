--------------------------- MODULE MediaCas_proofs ---------------------------
(***************************************************************************)
(* Proofs about MediaCas for every set of processes, callers, contents and  *)
(* formats and every ceiling.                                               *)
(***************************************************************************)
EXTENDS MediaCas, FiniteSums, FiniteSetTheorems, TLAPS

Steps == {"lock", "read"} \cup InPut

\* A call that is in flight has a digest and a format, and so a file.
LEMMA InFlight ==
  ASSUME TypeOK, NEW c \in Callers, call[c].at # "idle"
  PROVE  /\ call[c] \in Calls /\ call[c] # Idle
         /\ call[c].digest \in Digests /\ call[c].format \in Formats
         /\ File(c) \in Digests \X Formats
<1>1. call[c] \in Calls \cup {Idle}
  BY DEF TypeOK
<1>2. call[c] # Idle
  BY DEF Idle
<1>3. QED
  BY <1>1, <1>2 DEF Calls, File

\* Going on changes where the caller is and nothing else of any call.
LEMMA GoesOnStep ==
  ASSUME TypeOK, NEW c \in Callers, call[c].at # "idle",
         NEW step \in Steps, GoesOn(c, step)
  PROVE  /\ call' \in [Callers -> Calls \cup {Idle}]
         /\ call'[c].at = step
         /\ call'[c].digest = call[c].digest /\ call'[c].format = call[c].format
         /\ \A x \in Callers \ {c} : call'[x] = call[x]
<1>1. call[c] \in Calls
  BY InFlight
<1>2. [call[c] EXCEPT !.at = step] \in Calls
  BY <1>1 DEF Calls, Steps
<1>3. call' = [call EXCEPT ![c] = [call[c] EXCEPT !.at = step]]
  BY DEF GoesOn
<1>4. call \in [Callers -> Calls \cup {Idle}]
  BY DEF TypeOK
<1>5. call'[c] = [call[c] EXCEPT !.at = step]
  BY <1>3, <1>4
<1>6. QED
  BY <1>1, <1>2, <1>3, <1>4, <1>5 DEF Calls

\* A call that returns is idle and lets go of the mutex it held.
LEMMA ReturnsStep ==
  ASSUME TypeOK, NEW c \in Callers, Returns(c)
  PROVE  /\ call' \in [Callers -> Calls \cup {Idle}]
         /\ lock' \in [Processes -> Callers \cup {Nobody}]
         /\ call'[c].at = "idle"
         /\ \A x \in Callers \ {c} : call'[x] = call[x]
  BY DEF TypeOK, Returns, Idle

\* The three facts about whole objects carry over to the next state when no
\* whole object is lost and every new description, report and settled call has
\* a whole object to it.
LEMMA WholeCarriesOver ==
  ASSUME IInv, TypeOK',
         \A file \in Digests \X Formats : object[file] = Whole => object'[file] = Whole,
         \A d \in Digests : sidecar'[d] \in Formats =>
           sidecar'[d] = sidecar[d] \/ object'[<<d, sidecar'[d]>>] = Whole,
         \A d \in stored' : d \in stored \/ \E f \in Formats : object'[<<d, f>>] = Whole,
         \A x \in Callers : call'[x].at \in {"sidecar", "describe"} =>
           \/ call[x].at \in {"sidecar", "describe"} /\ File(x)' = File(x)
           \/ object'[File(x)'] = Whole
  PROVE  DescribedIsWhole' /\ StoredIsWhole' /\ Settled'
<1>1. DescribedIsWhole'
  BY DEF IInv, DescribedIsWhole, TypeOK
<1>2. StoredIsWhole'
  BY DEF IInv, StoredIsWhole, TypeOK
<1>3. ASSUME NEW x \in Callers, call'[x].at \in {"sidecar", "describe"}
      PROVE  object'[File(x)'] = Whole
  <2>1. CASE object'[File(x)'] = Whole
    BY <2>1
  <2>2. CASE call[x].at \in {"sidecar", "describe"} /\ File(x)' = File(x)
    <3>1. File(x) \in Digests \X Formats
      BY <2>2, InFlight DEF IInv
    <3>2. object[File(x)] = Whole
      BY <2>2 DEF IInv, Settled
    <3>3. QED
      BY <2>2, <3>1, <3>2
  <2>3. QED
    BY <1>3, <2>1, <2>2
<1>4. Settled'
  BY <1>3 DEF Settled
<1>5. QED
  BY <1>1, <1>2, <1>4

\* The one-writer fact carries over when nobody starts describing and a sidecar
\* somebody is still describing is left alone.
LEMMA DescribingCarriesOver ==
  ASSUME IInv,
         \A x \in Callers : call'[x].at = "describe" =>
           /\ call[x].at = "describe" /\ call'[x].digest = call[x].digest
           /\ sidecar'[call[x].digest] = sidecar[call[x].digest]
  PROVE  Describing'
  BY DEF IInv, Describing, At

\* A fresh store has no file, no call and no report.
LEMMA InitInv == Init => IInv
<1> SUFFICES ASSUME Init PROVE IInv
  OBVIOUS
<1>1. TypeOK
  BY DEF Init, TypeOK
<1>2. DescribedIsWhole
  BY StatesAssumption DEF Init, DescribedIsWhole
<1>3. StoredIsWhole
  BY DEF Init, StoredIsWhole
<1>4. Settled /\ Describing
  BY DEF Init, Settled, Describing, Idle, At
<1>5. QED
  BY <1>1, <1>2, <1>3, <1>4 DEF IInv

\* A step that only moves a call on, to a step before its sidecar, or to its
\* sidecar with the object whole.
LEMMA MovesOn ==
  ASSUME IInv, NEW c \in Callers, call[c].at # "idle",
         NEW step \in Steps \ {"describe"}, GoesOn(c, step),
         step = "sidecar" => object[File(c)] = Whole,
         lock' \in [Processes -> Callers \cup {Nobody}],
         UNCHANGED <<files, stored>>
  PROVE  IInv'
<1>1. /\ call' \in [Callers -> Calls \cup {Idle}]
      /\ call'[c].at = step
      /\ call'[c].digest = call[c].digest /\ call'[c].format = call[c].format
      /\ \A x \in Callers \ {c} : call'[x] = call[x]
  BY GoesOnStep DEF IInv
<1>2. TypeOK'
  BY <1>1 DEF IInv, TypeOK, files
<1>3. \A x \in Callers : call'[x].at \in {"sidecar", "describe"} =>
        \/ call[x].at \in {"sidecar", "describe"} /\ File(x)' = File(x)
        \/ object'[File(x)'] = Whole
  BY <1>1 DEF File, files
<1>4. DescribedIsWhole' /\ StoredIsWhole' /\ Settled'
  BY <1>2, <1>3, WholeCarriesOver DEF files
<1>5. Describing'
  BY <1>1, DescribingCarriesOver DEF files
<1>6. QED
  BY <1>2, <1>4, <1>5 DEF IInv

\* A step with which a call returns, leaving whole what is whole, describing
\* and reporting nothing that is not, and touching no sidecar of another call.
LEMMA ReturnsWhole ==
  ASSUME IInv, NEW c \in Callers, Returns(c),
         object' \in [Digests \X Formats -> {Absent, Torn, Whole}],
         \A file \in Digests \X Formats : object[file] = Whole => object'[file] = Whole,
         sidecar' \in [Digests -> Formats \cup {Absent, Torn}],
         \A d \in Digests : sidecar'[d] \in Formats =>
           sidecar'[d] = sidecar[d] \/ object'[<<d, sidecar'[d]>>] = Whole,
         \A x \in Callers \ {c} : At(x, "describe") =>
           sidecar'[call[x].digest] = sidecar[call[x].digest],
         stored' \subseteq Digests,
         \A d \in stored' : d \in stored \/ \E f \in Formats : object'[<<d, f>>] = Whole
  PROVE  IInv'
<1>1. /\ call' \in [Callers -> Calls \cup {Idle}]
      /\ lock' \in [Processes -> Callers \cup {Nobody}]
      /\ call'[c].at = "idle"
      /\ \A x \in Callers \ {c} : call'[x] = call[x]
  BY ReturnsStep DEF IInv
<1>2. TypeOK'
  BY <1>1 DEF TypeOK
<1>3. \A x \in Callers : call'[x].at \in {"sidecar", "describe"} =>
        \/ call[x].at \in {"sidecar", "describe"} /\ File(x)' = File(x)
        \/ object'[File(x)'] = Whole
  BY <1>1 DEF File
<1>4. DescribedIsWhole' /\ StoredIsWhole' /\ Settled'
  BY <1>2, <1>3, WholeCarriesOver
<1>5. Describing'
  BY <1>1, DescribingCarriesOver DEF At
<1>6. QED
  BY <1>2, <1>4, <1>5 DEF IInv

\* One case per action of a put.
LEMMA PutInv ==
  ASSUME IInv, NEW c \in Callers, PutStep(c)
  PROVE  IInv'
<1> USE DEF IInv
<1>1. CASE \E d \in Digests, f \in Formats : StartPut(c, d, f)
  <2> PICK d \in Digests, f \in Formats : StartPut(c, d, f)
    BY <1>1
  <2>1. [at |-> "lock", digest |-> d, format |-> f] \in Calls
    BY DEF Calls
  <2>2. /\ call' \in [Callers -> Calls \cup {Idle}] /\ call'[c].at = "lock"
        /\ \A x \in Callers \ {c} : call'[x] = call[x]
    BY <2>1 DEF StartPut, TypeOK
  <2>3. TypeOK'
    BY <2>2 DEF StartPut, TypeOK, files
  <2>4. \A x \in Callers : call'[x].at \in {"sidecar", "describe"} =>
          call[x].at \in {"sidecar", "describe"} /\ File(x)' = File(x)
    BY <2>2 DEF File
  <2>5. DescribedIsWhole' /\ StoredIsWhole' /\ Settled'
    BY <2>3, <2>4, WholeCarriesOver DEF StartPut, files
  <2>6. Describing'
    BY <2>2, DescribingCarriesOver DEF StartPut, files
  <2>7. QED
    BY <2>3, <2>5, <2>6
<1>2. CASE Lock(c)
  <2>1. lock' \in [Processes -> Callers \cup {Nobody}]
    BY <1>2 DEF Lock, TypeOK
  <2>2. QED
    BY <1>2, <2>1, MovesOn DEF Lock, At, Steps, InPut
<1>3. CASE Admit(c)
  BY <1>3, MovesOn DEF Admit, At, Steps, InPut, TypeOK
<1>4. CASE Verify(c)
  BY <1>4, MovesOn DEF Verify, At, Steps, InPut, TypeOK
<1>5. CASE ObjectExists(c)
  BY <1>5, MovesOn DEF ObjectExists, At, Steps, InPut, TypeOK
<1>6. CASE Refuse(c) \/ IoFails(c)
  BY <1>6, ReturnsWhole DEF Refuse, IoFails, files, TypeOK
<1>7. CASE VerifyFails(c) \/ ObjectExistsTorn(c)
  <2>1. File(c) \in Digests \X Formats
    BY <1>7, InFlight DEF VerifyFails, ObjectExistsTorn, At
  <2>2. QED
    BY <1>7, <2>1, ReturnsWhole
       DEF VerifyFails, ObjectExistsTorn, ReturnsCorrupt, files, TypeOK
<1>8. CASE CreateObject(c)
  <2>1. File(c) \in Digests \X Formats /\ call[c].at # "idle"
    BY <1>8, InFlight DEF CreateObject, At
  <2>2. /\ call' \in [Callers -> Calls \cup {Idle}] /\ call'[c].at = "write"
        /\ \A x \in Callers \ {c} : call'[x] = call[x]
    BY <1>8, <2>1, GoesOnStep DEF CreateObject, Steps, InPut
  <2>3. TypeOK'
    BY <1>8, <2>1, <2>2 DEF CreateObject, TypeOK
  <2>4. \A file \in Digests \X Formats : object[file] = Whole => object'[file] = Whole
    BY <1>8, <2>1, StatesAssumption DEF CreateObject, TypeOK
  <2>5. \A x \in Callers : call'[x].at \in {"sidecar", "describe"} =>
          call[x].at \in {"sidecar", "describe"} /\ File(x)' = File(x)
    BY <2>2 DEF File
  <2>6. DescribedIsWhole' /\ StoredIsWhole' /\ Settled'
    BY <1>8, <2>3, <2>4, <2>5, WholeCarriesOver DEF CreateObject
  <2>7. Describing'
    BY <1>8, <2>2, DescribingCarriesOver DEF CreateObject
  <2>8. QED
    BY <2>3, <2>6, <2>7
<1>9. CASE WriteObject(c)
  <2>1. File(c) \in Digests \X Formats /\ call[c].at # "idle"
    BY <1>9, InFlight DEF WriteObject, At
  <2>2. /\ call' \in [Callers -> Calls \cup {Idle}] /\ call'[c].at = "sidecar"
        /\ call'[c].digest = call[c].digest /\ call'[c].format = call[c].format
        /\ \A x \in Callers \ {c} : call'[x] = call[x]
    BY <1>9, <2>1, GoesOnStep DEF WriteObject, Steps, InPut
  <2>3. TypeOK'
    BY <1>9, <2>1, <2>2 DEF WriteObject, TypeOK
  <2>4. /\ \A file \in Digests \X Formats : object[file] = Whole => object'[file] = Whole
        /\ object'[File(c)] = Whole
    BY <1>9, <2>1 DEF WriteObject, TypeOK
  <2>5. \A x \in Callers : call'[x].at \in {"sidecar", "describe"} =>
          \/ call[x].at \in {"sidecar", "describe"} /\ File(x)' = File(x)
          \/ object'[File(x)'] = Whole
    BY <2>2, <2>4 DEF File
  <2>6. DescribedIsWhole' /\ StoredIsWhole' /\ Settled'
    BY <1>9, <2>3, <2>4, <2>5, WholeCarriesOver DEF WriteObject
  <2>7. Describing'
    BY <1>9, <2>2, DescribingCarriesOver DEF WriteObject
  <2>8. QED
    BY <2>3, <2>6, <2>7
<1>10. CASE WriteFails(c)
  <2>1. File(c) \in Digests \X Formats
    BY <1>10, InFlight DEF WriteFails, At
  <2>2. /\ object' \in [Digests \X Formats -> {Absent, Torn, Whole}]
        /\ \A file \in Digests \X Formats : object[file] = Whole => object'[file] = Whole
    BY <1>10, <2>1 DEF WriteFails, TypeOK
  <2>3. QED
    BY <1>10, <2>2, ReturnsWhole DEF WriteFails, TypeOK
<1>11. CASE CreateSidecar(c)
  <2>1. call[c].digest \in Digests /\ File(c) \in Digests \X Formats /\ call[c].at = "sidecar"
    BY <1>11, InFlight DEF CreateSidecar, At
  <2>2. /\ call' \in [Callers -> Calls \cup {Idle}] /\ call'[c].at = "describe"
        /\ call'[c].digest = call[c].digest /\ call'[c].format = call[c].format
        /\ \A x \in Callers \ {c} : call'[x] = call[x]
    BY <1>11, <2>1, GoesOnStep DEF CreateSidecar, Steps, InPut
  <2>3. TypeOK'
    BY <1>11, <2>1, <2>2 DEF CreateSidecar, TypeOK
  <2>4. \A d \in Digests : sidecar'[d] \in Formats => sidecar'[d] = sidecar[d]
    BY <1>11, <2>1, StatesAssumption DEF CreateSidecar, TypeOK
  <2>5. \A x \in Callers : call'[x].at \in {"sidecar", "describe"} =>
          call[x].at \in {"sidecar", "describe"} /\ File(x)' = File(x)
    BY <2>1, <2>2 DEF File
  <2>6. DescribedIsWhole' /\ StoredIsWhole' /\ Settled'
    BY <1>11, <2>3, <2>4, <2>5, WholeCarriesOver DEF CreateSidecar
  <2>7. ASSUME NEW x \in Callers, At(x, "describe")
        PROVE  x # c /\ call[x].digest \in Digests /\ call[x].digest # call[c].digest
    <3>1. sidecar[call[x].digest] = Torn
      BY <2>7 DEF Describing
    <3>2. call[x].digest \in Digests
      BY <2>7, InFlight DEF At
    <3>3. QED
      BY <1>11, <2>7, <2>1, <3>1, <3>2, StatesAssumption DEF CreateSidecar, At
  <2>8. sidecar' = [sidecar EXCEPT ![call[c].digest] = Torn]
    BY <1>11 DEF CreateSidecar
  <2>9. sidecar'[call[c].digest] = Torn
    BY <2>1, <2>8 DEF TypeOK
  <2>10. ASSUME NEW x \in Callers \ {c}, At(x, "describe")'
         PROVE  /\ At(x, "describe") /\ call'[x] = call[x]
                /\ sidecar'[call[x].digest] = sidecar[call[x].digest]
    <3>1. At(x, "describe") /\ call'[x] = call[x]
      BY <2>2, <2>10 DEF At
    <3>2. QED
      BY <3>1, <2>7, <2>8 DEF TypeOK
  <2>11. Describing'
    <3> SUFFICES ASSUME NEW x \in Callers, At(x, "describe")'
                 PROVE  /\ sidecar'[call'[x].digest] = Torn
                        /\ \A y \in Callers :
                             At(y, "describe")' /\ call'[y].digest = call'[x].digest => y = x
      BY DEF Describing
    <3>1. CASE x = c
      BY <3>1, <2>2, <2>7, <2>9, <2>10
    <3>2. CASE x # c
      BY <3>2, <2>2, <2>7, <2>10 DEF Describing
    <3>3. QED
      BY <3>1, <3>2
  <2>12. QED
    BY <2>3, <2>6, <2>11
<1>12. CASE SidecarExists(c)
  <2>1. /\ call[c].digest \in Digests /\ call[c].format \in Formats
        /\ object[<<call[c].digest, call[c].format>>] = Whole
    BY <1>12, InFlight DEF SidecarExists, At, Settled, File
  <2>2. QED
    BY <1>12, <2>1, ReturnsWhole DEF SidecarExists, ReturnsStored, files, TypeOK
<1>13. CASE WriteSidecar(c) \/ WriteSidecarFails(c)
  <2>1. /\ call[c].digest \in Digests /\ call[c].format \in Formats
        /\ object[<<call[c].digest, call[c].format>>] = Whole /\ At(c, "describe")
    BY <1>13, InFlight DEF WriteSidecar, WriteSidecarFails, At, Settled, File
  <2>2. sidecar' \in {sidecar, [sidecar EXCEPT ![call[c].digest] = call[c].format]}
    BY <1>13 DEF WriteSidecar, WriteSidecarFails
  <2>3. \A x \in Callers \ {c} : At(x, "describe") =>
          sidecar'[call[x].digest] = sidecar[call[x].digest]
    <3> SUFFICES ASSUME NEW x \in Callers \ {c}, At(x, "describe")
                 PROVE  sidecar'[call[x].digest] = sidecar[call[x].digest]
      OBVIOUS
    <3>1. call[x].digest # call[c].digest
      BY <2>1 DEF Describing
    <3>2. call[x].digest \in Digests
      BY InFlight DEF At
    <3>3. QED
      BY <2>1, <2>2, <3>1, <3>2 DEF TypeOK
  <2>4. /\ sidecar' \in [Digests -> Formats \cup {Absent, Torn}]
        /\ \A d \in Digests : sidecar'[d] = sidecar[d] \/ object[<<d, sidecar'[d]>>] = Whole
    BY <2>1, <2>2 DEF TypeOK
  <2>5. /\ Returns(c) /\ UNCHANGED object
        /\ stored' = stored \cup {call[c].digest}
    BY <1>13 DEF WriteSidecar, WriteSidecarFails, ReturnsStored, TypeOK
  <2>6. QED
    BY <2>1, <2>3, <2>4, <2>5, ReturnsWhole DEF TypeOK
<1>14. CASE CreateSidecarFails(c)
  <2>1. /\ call[c].digest \in Digests /\ call[c].format \in Formats
        /\ object[<<call[c].digest, call[c].format>>] = Whole
    BY <1>14, InFlight DEF CreateSidecarFails, At, Settled, File
  <2>2. QED
    BY <1>14, <2>1, ReturnsWhole DEF CreateSidecarFails, ReturnsStored, files, TypeOK
<1>15. QED
  BY <1>1, <1>2, <1>3, <1>4, <1>5, <1>6, <1>7, <1>8, <1>9, <1>10, <1>11, <1>12,
     <1>13, <1>14 DEF PutStep

\* The probe finds a first format: a non-empty set of positions has a least one.
LEMMA FirstKept ==
  ASSUME NEW d \in Digests, Kept(d) # {}
  PROVE  (CHOOSE i \in Kept(d) : \A j \in Kept(d) : i <= j) \in DOMAIN ProbeOrder
<1>1. Kept(d) \subseteq Nat
  BY ProbeAssumption DEF Kept
<1>2. PICK n \in Kept(d) : \A j \in Kept(d) : n <= j
  BY <1>1, LeastNumber
<1>3. QED
  BY <1>2 DEF Kept

\* A get changes no file, so what it reads stays as whole as it was.
LEMMA GetInv ==
  ASSUME IInv, NEW c \in Callers, GetStep(c)
  PROVE  IInv'
<1> USE DEF IInv
<1>1. CASE \E d \in Digests : StartGet(c, d)
  <2> PICK d \in Digests : StartGet(c, d)
    BY <1>1
  <2>1. EntryFor(d) \in Formats
    <3>1. Kept(d) # {} /\ Kept(d) \subseteq DOMAIN ProbeOrder
      BY DEF StartGet, Kept
    <3>2. CASE sidecar[d] \in Formats /\ object[<<d, sidecar[d]>>] # Absent
      BY <3>2 DEF EntryFor
    <3>3. CASE ~(sidecar[d] \in Formats /\ object[<<d, sidecar[d]>>] # Absent)
      BY <3>1, <3>3, FirstKept DEF EntryFor, Probed, Formats, Range
    <3>4. QED
      BY <3>2, <3>3
  <2>2. [at |-> "read", digest |-> d, format |-> EntryFor(d)] \in Calls
    BY <2>1 DEF Calls
  <2>3. /\ call' \in [Callers -> Calls \cup {Idle}] /\ call'[c].at = "read"
        /\ \A x \in Callers \ {c} : call'[x] = call[x]
    BY <2>2 DEF StartGet, TypeOK
  <2>4. TypeOK'
    BY <2>3 DEF StartGet, TypeOK, files
  <2>5. \A x \in Callers : call'[x].at \in {"sidecar", "describe"} =>
          call[x].at \in {"sidecar", "describe"} /\ File(x)' = File(x)
    BY <2>3 DEF File
  <2>6. DescribedIsWhole' /\ StoredIsWhole' /\ Settled'
    BY <2>4, <2>5, WholeCarriesOver DEF StartGet, files
  <2>7. Describing'
    BY <2>3, DescribingCarriesOver DEF StartGet, files
  <2>8. QED
    BY <2>4, <2>6, <2>7
<1>2. CASE ReadVerifies(c)
  BY <1>2, ReturnsWhole DEF ReadVerifies, files, TypeOK
<1>3. CASE ReadIsCorrupt(c)
  <2>1. File(c) \in Digests \X Formats
    BY <1>3, InFlight DEF ReadIsCorrupt, At
  <2>2. QED
    BY <1>3, <2>1, ReturnsWhole DEF ReadIsCorrupt, ReturnsCorrupt, files, TypeOK
<1>4. QED
  BY <1>1, <1>2, <1>3 DEF GetStep

\* A killed process drops its calls and its mutex and leaves every file as it is.
LEMMA CrashInv ==
  ASSUME IInv, NEW p \in Processes, Crash(p)
  PROVE  IInv'
<1> USE DEF IInv
<1>1. /\ call' \in [Callers -> Calls \cup {Idle}]
      /\ \A x \in Callers : call'[x] = Idle \/ call'[x] = call[x]
  BY DEF Crash, TypeOK
<1>2. TypeOK'
  BY <1>1 DEF Crash, TypeOK, files
<1>3. \A x \in Callers : call'[x].at \in {"sidecar", "describe"} =>
        call[x].at \in {"sidecar", "describe"} /\ File(x)' = File(x)
  BY <1>1 DEF Idle, File
<1>4. DescribedIsWhole' /\ StoredIsWhole' /\ Settled'
  BY <1>2, <1>3, WholeCarriesOver DEF Crash, files
<1>5. Describing'
  BY <1>1, DescribingCarriesOver DEF Crash, files, Idle
<1>6. QED
  BY <1>2, <1>4, <1>5

\* Every step keeps the inductive invariant.
LEMMA NextInv == IInv /\ [Next]_vars => IInv'
<1> SUFFICES ASSUME IInv, [Next]_vars PROVE IInv'
  OBVIOUS
<1>1. CASE Next
  BY <1>1, PutInv, GetInv, CrashInv DEF Next
<1>2. CASE UNCHANGED vars
  BY <1>2 DEF vars, IInv, TypeOK, DescribedIsWhole, StoredIsWhole, Settled, Describing,
              At, File
<1>3. QED
  BY <1>1, <1>2

\* The inductive invariant: the reports and the sidecars of cas.rs are backed
\* by whole objects, because no put gets past its object before it is whole.
THEOREM CasInvariance == Spec => []IInv
  BY InitInv, NextInv, PTL DEF Spec

\* What describes itself can be read back (entry_for, get), for any number of
\* processes writing and being killed.
THEOREM DescribedCorrect == Spec => []DescribedIsWhole
<1>1. IInv => DescribedIsWhole
  BY DEF IInv
<1>2. QED
  BY <1>1, CasInvariance, PTL

\* What put reported to be in the store (the digest, or ProvenanceNotRecorded)
\* is there, under some format.
THEOREM StoredCorrect == Spec => []StoredIsWhole
<1>1. IInv => StoredIsWhole
  BY DEF IInv
<1>2. QED
  BY <1>1, CasInvariance, PTL

\* No step of any caller changes a whole object or a description, although two
\* processes may write the same digest at once (write_new_file).
THEOREM WriteOnceCorrect == Spec => WriteOnce
<1> DEFINE Once ==
      /\ \A file \in Digests \X Formats : object[file] = Whole => object'[file] = Whole
      /\ \A d \in Digests : sidecar[d] \in Formats => sidecar'[d] = sidecar[d]
<1>1. IInv /\ [Next]_vars => Once
  <2> SUFFICES ASSUME IInv, [Next]_vars PROVE Once
    OBVIOUS
  <2>1. CASE UNCHANGED files
    BY <2>1 DEF files
  <2>2. ASSUME NEW c \in Callers, CreateObject(c)
        PROVE  Once
    <3>1. File(c) \in Digests \X Formats
      BY <2>2, InFlight DEF CreateObject, At, IInv
    <3>2. QED
      BY <2>2, <3>1, StatesAssumption DEF CreateObject, IInv, TypeOK
  <2>3. ASSUME NEW c \in Callers, WriteObject(c) \/ WriteFails(c)
        PROVE  Once
    <3>1. File(c) \in Digests \X Formats
      BY <2>3, InFlight DEF WriteObject, WriteFails, At, IInv
    <3>2. QED
      BY <2>3, <3>1 DEF WriteObject, WriteFails, IInv, TypeOK
  <2>4. ASSUME NEW c \in Callers, CreateSidecar(c)
        PROVE  Once
    BY <2>4, StatesAssumption DEF CreateSidecar, IInv, TypeOK
  <2>5. ASSUME NEW c \in Callers, WriteSidecar(c) \/ WriteSidecarFails(c)
        PROVE  Once
    <3>1. sidecar[call[c].digest] = Torn
      BY <2>5 DEF WriteSidecar, WriteSidecarFails, IInv, Describing
    <3>2. sidecar' \in {sidecar, [sidecar EXCEPT ![call[c].digest] = call[c].format]}
      BY <2>5 DEF WriteSidecar, WriteSidecarFails
    <3>3. object' = object
      BY <2>5 DEF WriteSidecar, WriteSidecarFails
    <3>4. QED
      BY <3>1, <3>2, <3>3, StatesAssumption DEF IInv, TypeOK
  <2>6. ASSUME NEW c \in Callers, PutStep(c), ~UNCHANGED files
        PROVE  \/ CreateObject(c) \/ WriteObject(c) \/ WriteFails(c) \/ CreateSidecar(c)
               \/ WriteSidecar(c) \/ WriteSidecarFails(c)
    BY <2>6 DEF PutStep, StartPut, Lock, Admit, Refuse, Verify, VerifyFails, ObjectExists,
                ObjectExistsTorn, ReturnsCorrupt, SidecarExists, IoFails,
                CreateSidecarFails, files
  <2>7. ASSUME NEW c \in Callers, GetStep(c)
        PROVE  UNCHANGED files
    BY <2>7 DEF GetStep, StartGet, ReadVerifies, ReadIsCorrupt, ReturnsCorrupt, files
  <2>8. ASSUME NEW p \in Processes, Crash(p)
        PROVE  UNCHANGED files
    BY <2>8 DEF Crash, files
  <2>9. CASE UNCHANGED vars
    BY <2>9, <2>1 DEF vars, files
  <2>10. QED
    <3> HIDE DEF Once
    <3>1. ASSUME NEW c \in Callers, PutStep(c)
          PROVE  Once
      BY <3>1, <2>1, <2>2, <2>3, <2>4, <2>5, <2>6
    <3>2. QED
      BY <3>1, <2>1, <2>7, <2>8, <2>9 DEF Next
<1>2. QED
  BY <1>1, CasInvariance, PTL DEF Spec, WriteOnce

-----------------------------------------------------------------------------
\* What the store holds and what its processes owe, as functions to be summed.
ObjectFiles == Digests \X Formats
ObjectSizes == [file \in ObjectFiles |-> ObjectBytes(file)]
SidecarSizes == [d \in Digests |-> SidecarBytes(d)]
Debts == [p \in Processes |-> Owed(p)]

\* The files, the contents and the processes are finitely many.
LEMMA AllFinite == IsFiniteSet(ObjectFiles) /\ IsFiniteSet(Digests) /\ IsFiniteSet(Processes)
<1>1. ProbeOrder \in Seq(Formats)
  BY ProbeAssumption
<1>2. PICK n \in Nat : ProbeOrder \in [1..n -> Formats]
  BY <1>1
<1>3. IsFiniteSet(1..n)
  BY FS_Interval
<1>4. ProbeOrder \in Surjection(1..n, Formats)
  BY <1>2 DEF Formats, Range, Surjection
<1>5. IsFiniteSet(Formats)
  BY <1>3, <1>4, FS_Surjection
<1>6. QED
  BY <1>5, FS_Product, SizesAssumption DEF ObjectFiles

\* total_bytes, the objects: the fold of the model is the sum reasoned about here.
LEMMA ObjectSum == MapThenSumSet(ObjectBytes, Digests \X Formats) = Sum(ObjectSizes, ObjectFiles)
<1> DEFINE F == ObjectFiles
           Folds(it) == it = [s \in SUBSET F |-> IF s = {} THEN 0
             ELSE ObjectBytes(CHOOSE x \in s : TRUE) + it[s \ {CHOOSE x \in s : TRUE}]]
<1>1. MapThenSumSet(ObjectBytes, Digests \X Formats) = (CHOOSE it : Folds(it))[F]
  BY Zenon DEF MapThenSumSet, MapThenFoldSet, ObjectFiles
<1>2. ASSUME NEW s \in SUBSET F, s # {}
      PROVE  ObjectSizes[FirstOf(s)] = ObjectBytes(CHOOSE x \in s : TRUE)
             /\ RestOf(s) = s \ {CHOOSE x \in s : TRUE}
  <2>1. FirstOf(s) = (CHOOSE x \in s : TRUE) /\ FirstOf(s) \in s
    BY <1>2, Zenon DEF FirstOf
  <2>2. QED
    BY <2>1, Zenon DEF ObjectSizes, RestOf
<1>3. \A it : IsFold(it, ObjectSizes, F) <=> Folds(it)
  <2> TAKE it
  <2>1. [s \in SUBSET F |-> IF s = {} THEN 0 ELSE ObjectSizes[FirstOf(s)] + it[RestOf(s)]]
      = [s \in SUBSET F |-> IF s = {} THEN 0
           ELSE ObjectBytes(CHOOSE x \in s : TRUE) + it[s \ {CHOOSE x \in s : TRUE}]]
    BY <1>2, Zenon
  <2>2. QED
    BY <2>1, Zenon DEF IsFold
<1> HIDE DEF Folds
<1>4. (CHOOSE it : IsFold(it, ObjectSizes, F)) = (CHOOSE it : Folds(it))
  BY <1>3, Zenon
<1>5. QED
  BY <1>1, <1>4, Zenon DEF Sum
\* total_bytes, the sidecars.
LEMMA SidecarSum == MapThenSumSet(SidecarBytes, Digests) = Sum(SidecarSizes, Digests)
<1> DEFINE F == Digests
           Folds(it) == it = [s \in SUBSET F |-> IF s = {} THEN 0
             ELSE SidecarBytes(CHOOSE x \in s : TRUE) + it[s \ {CHOOSE x \in s : TRUE}]]
<1>1. MapThenSumSet(SidecarBytes, Digests) = (CHOOSE it : Folds(it))[F]
  BY Zenon DEF MapThenSumSet, MapThenFoldSet
<1>2. ASSUME NEW s \in SUBSET F, s # {}
      PROVE  SidecarSizes[FirstOf(s)] = SidecarBytes(CHOOSE x \in s : TRUE)
             /\ RestOf(s) = s \ {CHOOSE x \in s : TRUE}
  <2>1. FirstOf(s) = (CHOOSE x \in s : TRUE) /\ FirstOf(s) \in s
    BY <1>2, Zenon DEF FirstOf
  <2>2. QED
    BY <2>1, Zenon DEF SidecarSizes, RestOf
<1>3. \A it : IsFold(it, SidecarSizes, F) <=> Folds(it)
  <2> TAKE it
  <2>1. [s \in SUBSET F |-> IF s = {} THEN 0 ELSE SidecarSizes[FirstOf(s)] + it[RestOf(s)]]
      = [s \in SUBSET F |-> IF s = {} THEN 0
           ELSE SidecarBytes(CHOOSE x \in s : TRUE) + it[s \ {CHOOSE x \in s : TRUE}]]
    BY <1>2, Zenon
  <2>2. QED
    BY <2>1, Zenon DEF IsFold
<1> HIDE DEF Folds
<1>4. (CHOOSE it : IsFold(it, SidecarSizes, F)) = (CHOOSE it : Folds(it))
  BY <1>3, Zenon
<1>5. QED
  BY <1>1, <1>4, Zenon DEF Sum
\* What all processes owe.
LEMMA OwedSum == MapThenSumSet(Owed, Processes) = Sum(Debts, Processes)
<1> DEFINE F == Processes
           Folds(it) == it = [s \in SUBSET F |-> IF s = {} THEN 0
             ELSE Owed(CHOOSE x \in s : TRUE) + it[s \ {CHOOSE x \in s : TRUE}]]
<1>1. MapThenSumSet(Owed, Processes) = (CHOOSE it : Folds(it))[F]
  BY Zenon DEF MapThenSumSet, MapThenFoldSet
<1>2. ASSUME NEW s \in SUBSET F, s # {}
      PROVE  Debts[FirstOf(s)] = Owed(CHOOSE x \in s : TRUE)
             /\ RestOf(s) = s \ {CHOOSE x \in s : TRUE}
  <2>1. FirstOf(s) = (CHOOSE x \in s : TRUE) /\ FirstOf(s) \in s
    BY <1>2, Zenon DEF FirstOf
  <2>2. QED
    BY <2>1, Zenon DEF Debts, RestOf
<1>3. \A it : IsFold(it, Debts, F) <=> Folds(it)
  <2> TAKE it
  <2>1. [s \in SUBSET F |-> IF s = {} THEN 0 ELSE Debts[FirstOf(s)] + it[RestOf(s)]]
      = [s \in SUBSET F |-> IF s = {} THEN 0
           ELSE Owed(CHOOSE x \in s : TRUE) + it[s \ {CHOOSE x \in s : TRUE}]]
    BY <1>2, Zenon
  <2>2. QED
    BY <2>1, Zenon DEF IsFold
<1> HIDE DEF Folds
<1>4. (CHOOSE it : IsFold(it, Debts, F)) = (CHOOSE it : Folds(it))
  BY <1>3, Zenon
<1>5. QED
  BY <1>1, <1>4, Zenon DEF Sum

\* The budget, in terms of the three sums.
LEMMA BudgetIs ==
  Budget <=> Sum(ObjectSizes, ObjectFiles) + Sum(SidecarSizes, Digests)
             + Sum(Debts, Processes) <= Ceiling
  BY ObjectSum, SidecarSum, OwedSum, Zenon DEF Budget, TotalBytes

\* When all terms but one stay or shrink, the sum grows by no more than that one.
LEMMA SumGrows ==
  ASSUME NEW S, NEW f, NEW g, Adds(f, S), Adds(g, S), NEW x \in S,
         \A y \in S \ {x} : g[y] <= f[y]
  PROVE  Sum(g, S) + f[x] <= Sum(f, S) + g[x]
<1>1. Sum(f, S) = f[x] + Sum(f, S \ {x}) /\ Sum(g, S) = g[x] + Sum(g, S \ {x})
  BY SumTakesOut
<1>2. Adds(f, S \ {x}) /\ Adds(g, S \ {x})
  BY FS_Subset DEF Adds
<1>3. /\ Sum(g, S \ {x}) <= Sum(f, S \ {x})
      /\ Sum(f, S \ {x}) \in Nat /\ Sum(g, S \ {x}) \in Nat
  BY <1>2, SumIsNatural, SumBelow
<1>4. f[x] \in Nat /\ g[x] \in Nat
  BY DEF Adds
<1>5. QED
  BY <1>1, <1>3, <1>4

\* A bounded non-empty set of naturals has a maximum.
LEMMA MaxOf ==
  ASSUME NEW T \in SUBSET Nat, T # {}, NEW b \in Nat, \A s \in T : s <= b
  PROVE  Max(T) \in T /\ \A s \in T : s <= Max(T)
<1> DEFINE U == {n \in Nat : \A s \in T : s <= n}
<1>1. PICK n \in U : \A m \in U : n <= m
  BY LeastNumber
<1>2. n \in Nat /\ \A s \in T : s \in Nat /\ s <= n
  OBVIOUS
<1>3. n \in T
  <2>1. SUFFICES ASSUME n \notin T PROVE FALSE
    OBVIOUS
  <2>2. ASSUME NEW s \in T PROVE s <= n - 1 /\ n # 0
    <3>1. s \in Nat /\ n \in Nat /\ s <= n /\ s # n
      BY <1>2, <2>1
    <3>2. QED
      BY ONLY <3>1
  <2>3. n - 1 \in U /\ ~(n <= n - 1)
    <3>1. n # 0 /\ n \in Nat
      BY <1>2, <2>2
    <3>2. n - 1 \in Nat /\ ~(n <= n - 1)
      BY ONLY <3>1
    <3>3. QED
      BY <2>2, <3>2
  <2>4. QED
    BY <1>1, <2>3
<1>4. \A s \in T : n >= s
  BY <1>2
<1>5. Max(T) \in T /\ \A s \in T : Max(T) >= s
  BY <1>3, <1>4, Zenon DEF Max
<1>6. QED
  BY <1>5

\* No put writes more than the largest content and its sidecar.
LEMMA LargestIs ==
  /\ Largest \in Nat
  /\ \A d \in Digests : Size[d] + SidecarSize <= Largest
<1> DEFINE T == {Size[d] : d \in Digests}
<1>1. Adds(Size, Digests)
  BY SizesAssumption DEF Adds
<1>2. Sum(Size, Digests) \in Nat /\ \A d \in Digests : Size[d] <= Sum(Size, Digests)
  BY <1>1, SumIsNatural, SumHoldsEach
<1>3. Max(T) \in T /\ \A s \in T : s <= Max(T)
  <2>1. T \in SUBSET Nat /\ T # {} /\ \A s \in T : s <= Sum(Size, Digests)
    BY <1>2, SizesAssumption
  <2> HIDE DEF T
  <2>2. QED
    BY <1>2, <2>1, MaxOf
<1>4. \A d \in Digests : Size[d] \in Nat /\ Size[d] <= Max(T)
  BY <1>3, SizesAssumption
<1>5. Max(T) \in Nat /\ SidecarSize \in Nat
  BY <1>3, SizesAssumption
<1>6. Largest = Max(T) + SidecarSize
  BY Zenon DEF Largest
<1> HIDE DEF T
<1>7. QED
  BY <1>4, <1>5, <1>6

\* The ceiling is a natural: there is at least one process.
LEMMA CeilingIs ==
  /\ Cardinality(Processes) \in Nat /\ Cardinality(Processes) # 0
  /\ (Cardinality(Processes) - 1) * Largest \in Nat
  /\ Ceiling = MaxBytes + (Cardinality(Processes) - 1) * Largest /\ Ceiling \in Nat
<1>1. Cardinality(Processes) \in Nat /\ Cardinality(Processes) # 0
  BY SizesAssumption, FS_CardinalityType, FS_EmptySet
<1>2. (Cardinality(Processes) - 1) * Largest \in Nat
  BY <1>1, LargestIs, OneMore
<1>3. QED
  BY <1>1, <1>2, SizesAssumption DEF Ceiling

\* A process owes at most one put.
LEMMA OwedBounds ==
  TypeOK => \A p \in Processes : Owed(p) \in Nat /\ Owed(p) <= Largest
<1> SUFFICES ASSUME TypeOK, NEW p \in Processes PROVE Owed(p) \in Nat /\ Owed(p) <= Largest
  OBVIOUS
<1>1. SidecarSize \in Nat /\ 0 <= Largest /\ SidecarSize <= Largest /\ Largest \in Nat
  <2>1. PICK d \in Digests : TRUE
    BY SizesAssumption
  <2>2. Size[d] \in Nat /\ Size[d] + SidecarSize <= Largest
    BY LargestIs, SizesAssumption
  <2>3. QED
    BY <2>2, LargestIs, SizesAssumption
<1>2. CASE lock[p] = Nobody
  BY <1>1, <1>2 DEF Owed
<1>3. CASE lock[p] # Nobody
  <2>1. lock[p] \in Callers
    BY <1>3 DEF TypeOK
  <2>2. CASE call[lock[p]].at \in {"verify", "create", "write"}
    <3>1. call[lock[p]].digest \in Digests
      BY <2>1, <2>2, InFlight
    <3>2. Owed(p) = Size[call[lock[p]].digest] + SidecarSize
      BY <1>3, <2>2 DEF Owed
    <3>3. Size[call[lock[p]].digest] \in Nat /\ Size[call[lock[p]].digest] + SidecarSize <= Largest
      BY <3>1, LargestIs, SizesAssumption
    <3>4. QED
      BY <1>1, <3>2, <3>3
  <2>3. CASE call[lock[p]].at \notin {"verify", "create", "write"}
    BY <1>1, <1>3, <2>3 DEF Owed
  <2>4. QED
    BY <2>2, <2>3
<1>4. QED
  BY <1>2, <1>3

\* All three sums add naturals over finite sets.
LEMMA AddsAll ==
  TypeOK => /\ Adds(ObjectSizes, ObjectFiles) /\ Adds(SidecarSizes, Digests)
            /\ Adds(Debts, Processes)
<1> SUFFICES ASSUME TypeOK
             PROVE  /\ Adds(ObjectSizes, ObjectFiles) /\ Adds(SidecarSizes, Digests)
                    /\ Adds(Debts, Processes)
  OBVIOUS
<1>1. ASSUME NEW file \in ObjectFiles PROVE ObjectSizes[file] \in Nat
  <2>1. file[1] \in Digests
    BY DEF ObjectFiles
  <2>2. ObjectSizes[file] = ObjectBytes(file)
    BY DEF ObjectSizes
  <2>3. QED
    BY <2>1, <2>2, SizesAssumption DEF ObjectBytes
<1>2. \A d \in Digests : SidecarSizes[d] \in Nat
  BY SizesAssumption DEF SidecarSizes, SidecarBytes
<1>3. \A p \in Processes : Debts[p] \in Nat
  BY OwedBounds DEF Debts
<1>4. QED
  BY <1>1, <1>2, <1>3, AllFinite DEF Adds

\* The write mutex is held from Lock to the return of the put, and only by a caller of
\* its own process, whatever fails and whoever is killed.
LEMMA MutexHolds ==
  ASSUME IInv, Mutex, [Next]_vars
  PROVE  Mutex'
<1> USE DEF IInv, InPut
<1>1. ASSUME NEW c \in Callers, Returns(c) PROVE Mutex'
  <2>1. /\ call'[c] = Idle /\ \A x \in Callers \ {c} : call'[x] = call[x]
        /\ \A p \in Processes : lock'[p] = IF lock[p] = c THEN Nobody ELSE lock[p]
    BY <1>1 DEF Returns, TypeOK
  <2>2. QED
    BY <2>1, CallersAssumption DEF Mutex, Idle
<1>2. ASSUME NEW c \in Callers, call[c].at \in InPut, NEW step \in InPut, GoesOn(c, step),
             UNCHANGED lock
      PROVE  Mutex'
  <2>1. call'[c].at = step /\ \A x \in Callers \ {c} : call'[x] = call[x]
    BY <1>2, GoesOnStep DEF Steps
  <2>2. QED
    BY <1>2, <2>1 DEF Mutex
<1>3. ASSUME NEW c \in Callers, Lock(c) PROVE Mutex'
  <2>1. /\ \A x \in Callers \ {c} : call'[x] = call[x]
        /\ lock[ProcessOf[c]] = Nobody
        /\ \A p \in Processes : lock'[p] = IF p = ProcessOf[c] THEN c ELSE lock[p]
    BY <1>3, GoesOnStep DEF Lock, At, Steps, TypeOK
  <2>2. QED
    BY <2>1, CallersAssumption, NobodyAssumption DEF Mutex
<1>4. ASSUME NEW c \in Callers, NEW x, x.at \notin InPut, call' = [call EXCEPT ![c] = x],
             UNCHANGED lock
      PROVE  Mutex'
  <2>1. call'[c] = x /\ \A y \in Callers \ {c} : call'[y] = call[y]
    BY <1>4 DEF TypeOK
  <2>2. QED
    BY <1>4, <2>1 DEF Mutex
<1>5. ASSUME NEW p \in Processes, Crash(p) PROVE Mutex'
  BY <1>5, CallersAssumption DEF Crash, Mutex, TypeOK, Idle
<1>6. CASE UNCHANGED vars
  BY <1>6 DEF vars, Mutex
<1>7. ASSUME NEW c \in Callers, PutStep(c) PROVE Mutex'
  <2>1. CASE \E d \in Digests, f \in Formats : StartPut(c, d, f)
    BY <2>1, <1>4 DEF StartPut
  <2>2. CASE Lock(c)
    BY <2>2, <1>3
  <2>3. CASE \/ Admit(c) \/ Verify(c) \/ CreateObject(c) \/ ObjectExists(c) \/ WriteObject(c)
             \/ CreateSidecar(c)
    BY <2>3, <1>2 DEF Admit, Verify, CreateObject, ObjectExists, WriteObject, CreateSidecar, At
  <2>4. CASE \/ Refuse(c) \/ VerifyFails(c) \/ ObjectExistsTorn(c) \/ SidecarExists(c)
             \/ WriteSidecar(c) \/ IoFails(c) \/ WriteFails(c) \/ CreateSidecarFails(c)
             \/ WriteSidecarFails(c)
    BY <2>4, <1>1 DEF Refuse, VerifyFails, ObjectExistsTorn, ReturnsCorrupt, SidecarExists,
       WriteSidecar, ReturnsStored, IoFails, WriteFails, CreateSidecarFails, WriteSidecarFails
  <2>5. QED
    BY <1>7, <2>1, <2>2, <2>3, <2>4 DEF PutStep
<1>8. ASSUME NEW c \in Callers, GetStep(c) PROVE Mutex'
  BY <1>8, <1>1, <1>4 DEF GetStep, StartGet, ReadVerifies, ReadIsCorrupt, ReturnsCorrupt
<1>9. QED
  BY <1>5, <1>6, <1>7, <1>8 DEF Next

\* The same in the next state.
LEMMA AddsNext ==
  ASSUME TypeOK'
  PROVE  /\ Adds(ObjectSizes', ObjectFiles) /\ Adds(SidecarSizes', Digests)
         /\ Adds(Debts', Processes)
<1>1. (TypeOK => /\ Adds(ObjectSizes, ObjectFiles) /\ Adds(SidecarSizes, Digests)
                 /\ Adds(Debts, Processes))'
  BY AddsAll, PTL
<1>2. QED
  BY <1>1 DEF Adds, ObjectFiles

\* The budget in the next state, in terms of the three sums.
LEMMA BudgetNext ==
  ASSUME Sum(ObjectSizes', ObjectFiles) + Sum(SidecarSizes', Digests)
           + Sum(Debts', Processes) <= Ceiling
  PROVE  Budget'
<1>1. (Budget <=> Sum(ObjectSizes, ObjectFiles) + Sum(SidecarSizes, Digests)
                  + Sum(Debts, Processes) <= Ceiling)'
  BY BudgetIs, PTL
<1>2. QED
  BY <1>1 DEF Sum, IsFold, FirstOf, RestOf, ObjectFiles, Ceiling, Largest

\* A step that changes one file, one sidecar and one process's debt keeps the budget when
\* what it adds to the store is paid off the debt.
LEMMA Paid ==
  ASSUME TypeOK, TypeOK', Budget,
         NEW p \in Processes, NEW file \in ObjectFiles, NEW d \in Digests,
         \A g \in ObjectFiles \ {file} : ObjectBytes(g)' <= ObjectBytes(g),
         \A e \in Digests \ {d} : SidecarBytes(e)' <= SidecarBytes(e),
         \A q \in Processes \ {p} : Owed(q)' <= Owed(q),
         ObjectBytes(file)' + SidecarBytes(d)' + Owed(p)'
           <= ObjectBytes(file) + SidecarBytes(d) + Owed(p)
  PROVE  Budget'
<1>1. /\ Adds(ObjectSizes, ObjectFiles) /\ Adds(SidecarSizes, Digests)
      /\ Adds(Debts, Processes)
  BY AddsAll
<1>2. /\ Adds(ObjectSizes', ObjectFiles) /\ Adds(SidecarSizes', Digests)
      /\ Adds(Debts', Processes)
  BY AddsNext
<1>3. Sum(ObjectSizes', ObjectFiles) + ObjectSizes[file]
        <= Sum(ObjectSizes, ObjectFiles) + ObjectSizes'[file]
  <2>1. \A g \in ObjectFiles \ {file} : ObjectSizes'[g] <= ObjectSizes[g]
    BY DEF ObjectSizes
  <2>2. QED
    BY <1>1, <1>2, <2>1, SumGrows
<1>4. Sum(SidecarSizes', Digests) + SidecarSizes[d]
        <= Sum(SidecarSizes, Digests) + SidecarSizes'[d]
  <2>1. \A e \in Digests \ {d} : SidecarSizes'[e] <= SidecarSizes[e]
    BY DEF SidecarSizes
  <2>2. QED
    BY <1>1, <1>2, <2>1, SumGrows
<1>5. Sum(Debts', Processes) + Debts[p] <= Sum(Debts, Processes) + Debts'[p]
  <2>1. \A q \in Processes \ {p} : Debts'[q] <= Debts[q]
    BY DEF Debts
  <2>2. QED
    BY <1>1, <1>2, <2>1, SumGrows
<1>6. /\ Sum(ObjectSizes, ObjectFiles) \in Nat /\ Sum(ObjectSizes', ObjectFiles) \in Nat
      /\ Sum(SidecarSizes, Digests) \in Nat /\ Sum(SidecarSizes', Digests) \in Nat
      /\ Sum(Debts, Processes) \in Nat /\ Sum(Debts', Processes) \in Nat
  BY <1>1, <1>2, SumIsNatural
<1>7. /\ ObjectSizes[file] \in Nat /\ ObjectSizes'[file] \in Nat
      /\ SidecarSizes[d] \in Nat /\ SidecarSizes'[d] \in Nat
      /\ Debts[p] \in Nat /\ Debts'[p] \in Nat
  BY <1>1, <1>2 DEF Adds
<1>8. ObjectSizes'[file] + SidecarSizes'[d] + Debts'[p]
        <= ObjectSizes[file] + SidecarSizes[d] + Debts[p]
  BY DEF ObjectSizes, SidecarSizes, Debts
<1>9. Sum(ObjectSizes, ObjectFiles) + Sum(SidecarSizes, Digests) + Sum(Debts, Processes)
        <= Ceiling
  BY BudgetIs
<1>10. Sum(ObjectSizes', ObjectFiles) + Sum(SidecarSizes', Digests) + Sum(Debts', Processes)
         <= Ceiling
  BY <1>3, <1>4, <1>5, <1>6, <1>7, <1>8, <1>9, CeilingIs
<1>11. QED
  BY <1>10, BudgetNext

\* A step that stores nothing and takes on no debt keeps the budget.
LEMMA NothingStored ==
  ASSUME TypeOK, TypeOK', Budget,
         \A file \in ObjectFiles : ObjectBytes(file)' <= ObjectBytes(file),
         \A d \in Digests : SidecarBytes(d)' <= SidecarBytes(d),
         \A p \in Processes : Owed(p)' <= Owed(p)
  PROVE  Budget'
<1>1. /\ Adds(ObjectSizes, ObjectFiles) /\ Adds(SidecarSizes, Digests)
      /\ Adds(Debts, Processes)
  BY AddsAll
<1>2. /\ Adds(ObjectSizes', ObjectFiles) /\ Adds(SidecarSizes', Digests)
      /\ Adds(Debts', Processes)
  BY AddsNext
<1>3. /\ \A file \in ObjectFiles : ObjectSizes'[file] <= ObjectSizes[file]
      /\ \A d \in Digests : SidecarSizes'[d] <= SidecarSizes[d]
      /\ \A p \in Processes : Debts'[p] <= Debts[p]
  BY DEF ObjectSizes, SidecarSizes, Debts
<1>4. /\ Sum(ObjectSizes', ObjectFiles) <= Sum(ObjectSizes, ObjectFiles)
      /\ Sum(SidecarSizes', Digests) <= Sum(SidecarSizes, Digests)
      /\ Sum(Debts', Processes) <= Sum(Debts, Processes)
  BY <1>1, <1>2, <1>3, SumBelow
<1>5. /\ Sum(ObjectSizes, ObjectFiles) \in Nat /\ Sum(ObjectSizes', ObjectFiles) \in Nat
      /\ Sum(SidecarSizes, Digests) \in Nat /\ Sum(SidecarSizes', Digests) \in Nat
      /\ Sum(Debts, Processes) \in Nat /\ Sum(Debts', Processes) \in Nat
  BY <1>1, <1>2, SumIsNatural
<1>6. Sum(ObjectSizes, ObjectFiles) + Sum(SidecarSizes, Digests) + Sum(Debts, Processes)
        <= Ceiling
  BY BudgetIs
<1>7. Sum(ObjectSizes', ObjectFiles) + Sum(SidecarSizes', Digests) + Sum(Debts', Processes)
        <= Ceiling
  BY <1>4, <1>5, <1>6, CeilingIs
<1>8. QED
  BY <1>7, BudgetNext

\* Sizes are naturals.
LEMMA BytesAre ==
  /\ \A file \in ObjectFiles : ObjectBytes(file) \in Nat
  /\ \A d \in Digests : SidecarBytes(d) \in Nat
  BY SizesAssumption DEF ObjectFiles, ObjectBytes, SidecarBytes

\* What the put in the mutex owes, by the step it is at.
LEMMA OwedAt ==
  Mutex => \A c \in Callers :
    /\ call[c].at \in {"verify", "create", "write"} =>
         Owed(ProcessOf[c]) = Size[call[c].digest] + SidecarSize
    /\ call[c].at \in {"sidecar", "describe"} => Owed(ProcessOf[c]) = SidecarSize
    /\ call[c].at = "admit" => Owed(ProcessOf[c]) = 0
  BY NobodyAssumption DEF Mutex, Owed, InPut

\* A step of a caller leaves alone what the other processes owe.
LEMMA OthersOwe ==
  ASSUME TypeOK, Mutex, NEW c \in Callers, \A x \in Callers \ {c} : call'[x] = call[x],
         NEW p \in Processes, lock[p] # c, lock'[p] = lock[p]
  PROVE  Owed(p)' = Owed(p)
<1>1. lock[p] = Nobody \/ (lock[p] \in Callers \ {c})
  BY DEF TypeOK
<1>2. QED
  BY <1>1 DEF Owed

\* The mutex of another process is not held by the caller.
LEMMA NotTheirs ==
  ASSUME Mutex, NEW c \in Callers, NEW p \in Processes, p # ProcessOf[c]
  PROVE  lock[p] # c
  BY NobodyAssumption DEF Mutex

\* A put that returns owes nothing more.
LEMMA ReturnsOwing ==
  ASSUME TypeOK, Mutex, NEW c \in Callers, Returns(c), NEW p \in Processes
  PROVE  /\ Owed(p)' \in Nat /\ Owed(p)' <= Owed(p)
         /\ p = ProcessOf[c] /\ call[c].at \in InPut => Owed(p)' = 0
<1>1. /\ \A x \in Callers \ {c} : call'[x] = call[x]
      /\ lock'[p] = IF lock[p] = c THEN Nobody ELSE lock[p]
  BY DEF Returns, TypeOK
<1>2. Owed(p) \in Nat
  BY OwedBounds
<1>3. CASE lock[p] = c
  <2>1. Owed(p)' = 0
    BY <1>1, <1>3 DEF Owed
  <2>2. QED
    BY <1>2, <2>1
<1>4. CASE lock[p] # c
  <2>1. Owed(p)' = Owed(p)
    BY <1>1, <1>4, OthersOwe
  <2>2. p = ProcessOf[c] => call[c].at \notin InPut
    BY <1>4 DEF Mutex
  <2>3. QED
    BY <1>2, <2>1, <2>2
<1>5. QED
  BY <1>3, <1>4

\* A put that moves on owes what its new step has left to write.
LEMMA MovesOwing ==
  ASSUME TypeOK, Mutex, Mutex', NEW c \in Callers, call[c].at \in InPut,
         NEW step \in InPut, GoesOn(c, step), UNCHANGED lock
  PROVE  /\ \A p \in Processes \ {ProcessOf[c]} : Owed(p)' = Owed(p)
         /\ step \in {"verify", "create", "write"} =>
              Owed(ProcessOf[c])' = Size[call[c].digest] + SidecarSize
         /\ step \in {"sidecar", "describe"} => Owed(ProcessOf[c])' = SidecarSize
<1>1. /\ call'[c].at = step /\ call'[c].digest = call[c].digest
      /\ \A x \in Callers \ {c} : call'[x] = call[x]
  BY GoesOnStep DEF Steps, InPut
<1>2. lock'[ProcessOf[c]] = c /\ c # Nobody
  BY <1>1, NobodyAssumption DEF Mutex
<1>3. ASSUME NEW p \in Processes \ {ProcessOf[c]} PROVE Owed(p)' = Owed(p)
  <2>1. lock[p] # c /\ lock'[p] = lock[p]
    BY NotTheirs
  <2>2. QED
    BY <1>1, <2>1, OthersOwe
<1>4. /\ step \in {"verify", "create", "write"} =>
           Owed(ProcessOf[c])' = Size[call[c].digest] + SidecarSize
      /\ step \in {"sidecar", "describe"} => Owed(ProcessOf[c])' = SidecarSize
  BY <1>1, <1>2 DEF Owed
<1>5. QED
  BY <1>3, <1>4

\* Files that are left alone weigh the same.
LEMMA SameBytes ==
  ASSUME UNCHANGED files
  PROVE  /\ \A file \in ObjectFiles :
              ObjectBytes(file)' = ObjectBytes(file) /\ ObjectBytes(file)' <= ObjectBytes(file)
         /\ \A d \in Digests :
              SidecarBytes(d)' = SidecarBytes(d) /\ SidecarBytes(d)' <= SidecarBytes(d)
<1>1. /\ \A file \in ObjectFiles : ObjectBytes(file)' = ObjectBytes(file)
      /\ \A d \in Digests : SidecarBytes(d)' = SidecarBytes(d)
  BY DEF files, ObjectBytes, SidecarBytes
<1>2. QED
  BY <1>1, BytesAre

\* Every process owes a natural number of bytes, one content's at the most.
OneEach == \A p \in Processes : Owed(p) \in Nat /\ Owed(p) <= Largest

\* The bound on one process, as a state predicate.
LEMMA OneEachOwed == TypeOK => OneEach
  BY OwedBounds DEF OneEach

\* Each step of a put keeps the budget. Admit is the one that takes on a debt: its own
\* put fits under max_bytes by the check, and every other process owes one put at most,
\* which is what the ceiling allows them.
LEMMA PutBudget ==
  ASSUME IInv, IInv', Mutex, Mutex', Budget, NEW c \in Callers, PutStep(c)
  PROVE  \/ Budget'
         \/ \E d \in Digests, f \in Formats : StartPut(c, d, f)
         \/ Lock(c)
         \/ Returns(c) /\ UNCHANGED files
<1> DEFINE p == ProcessOf[c]
<1>0. TypeOK /\ TypeOK' /\ p \in Processes
  BY CallersAssumption DEF IInv
<1>1. ASSUME call[c].at \in InPut, NEW step \in InPut, GoesOn(c, step), UNCHANGED lock
      PROVE  /\ call[c].digest \in Digests /\ File(c) \in ObjectFiles
             /\ \A q \in Processes \ {p} : Owed(q)' <= Owed(q)
             /\ step \in {"verify", "create", "write"} =>
                  Owed(p)' = Size[call[c].digest] + SidecarSize
             /\ step \in {"sidecar", "describe"} => Owed(p)' = SidecarSize
  <2>1. \A q \in Processes : Owed(q) \in Nat
    BY <1>0, OwedBounds
  <2>2. call[c].digest \in Digests /\ File(c) \in ObjectFiles
    BY <1>0, <1>1, InFlight DEF InPut, ObjectFiles
  <2>3. QED
    BY <1>0, <1>1, <2>1, <2>2, MovesOwing
<1>2. /\ call[c].at \in {"verify", "create", "write"} =>
           Owed(p) = Size[call[c].digest] + SidecarSize
      /\ call[c].at \in {"sidecar", "describe"} => Owed(p) = SidecarSize
  BY OwedAt
<1>3. SidecarSize \in Nat /\ \A d \in Digests : Size[d] \in Nat
  BY SizesAssumption
<1> HIDE DEF p
<1>4. CASE Admit(c)
  <2>1. /\ \A q \in Processes : Debts'[q] \in Nat /\ Debts'[q] <= Largest
        /\ Debts'[p] = Size[call[c].digest] + SidecarSize
    <3>1. (TypeOK => OneEach)'
      BY OneEachOwed, PTL
    <3>2. Largest' = Largest
      BY DEF Largest
    <3>3. \A q \in Processes : Owed(q)' \in Nat /\ Owed(q)' <= Largest
      BY <1>0, <3>1, <3>2 DEF OneEach
    <3>4. Owed(p)' = Size[call[c].digest] + SidecarSize
      BY <1>1, <1>4 DEF Admit, At, InPut
    <3>5. QED
      BY <1>0, <3>3, <3>4 DEF Debts
  <2>2. Adds(Debts', Processes) /\ Adds(Debts', Processes \ {p})
    BY <1>0, AddsNext, FS_Subset DEF Adds
  <2>3. Sum(Debts', Processes) = Debts'[p] + Sum(Debts', Processes \ {p})
    BY <1>0, <2>2, SumTakesOut
  <2>4. Cardinality(Processes \ {p}) = Cardinality(Processes) - 1
    BY <1>0, FS_RemoveElement, SizesAssumption
  <2>5. Sum(Debts', Processes \ {p}) <= (Cardinality(Processes) - 1) * Largest
    BY <2>1, <2>2, <2>4, LargestIs, SumAtMost
  <2>6. Sum(Debts', Processes \ {p}) \in Nat
    BY <2>2, SumIsNatural
  <2>7. ObjectSizes' = ObjectSizes /\ SidecarSizes' = SidecarSizes
    BY <1>4, SameBytes DEF Admit, ObjectSizes, SidecarSizes, ObjectFiles, files, ObjectBytes,
       SidecarBytes
  <2>8. Sum(ObjectSizes, ObjectFiles) + Sum(SidecarSizes, Digests)
          + Size[call[c].digest] + SidecarSize <= MaxBytes
    BY <1>4, ObjectSum, SidecarSum DEF Admit, TotalBytes
  <2>9. Sum(ObjectSizes, ObjectFiles) \in Nat /\ Sum(SidecarSizes, Digests) \in Nat
    BY <1>0, AddsAll, SumIsNatural
  <2>10. call[c].digest \in Digests
    BY <1>1, <1>4 DEF Admit, At, InPut
  <2>11. Sum(ObjectSizes', ObjectFiles) + Sum(SidecarSizes', Digests)
           + Sum(Debts', Processes) <= Ceiling
    BY <1>3, <2>1, <2>3, <2>5, <2>6, <2>7, <2>8, <2>9, <2>10, CeilingIs, SizesAssumption
  <2>12. QED
    BY <2>11, BudgetNext
<1>5. CASE Verify(c) \/ ObjectExists(c)
  <2>1. UNCHANGED files
    BY <1>5 DEF Verify, ObjectExists, files
  <2>2. \A q \in Processes : Owed(q)' <= Owed(q)
    BY <1>1, <1>2, <1>3, <1>5 DEF Verify, ObjectExists, At, InPut
  <2>3. QED
    BY <1>0, <2>1, <2>2, SameBytes, NothingStored
<1>6. CASE CreateObject(c)
  <2>1. \A q \in Processes : Owed(q)' <= Owed(q)
    BY <1>1, <1>2, <1>3, <1>6 DEF CreateObject, At, InPut
  <2>2. \A file \in ObjectFiles : ObjectBytes(file)' <= ObjectBytes(file)
    BY <1>0, <1>6, BytesAre, StatesAssumption DEF CreateObject, ObjectBytes, TypeOK, ObjectFiles
  <2>3. \A d \in Digests : SidecarBytes(d)' <= SidecarBytes(d)
    BY <1>6, BytesAre DEF CreateObject, SidecarBytes
  <2>4. QED
    BY <1>0, <2>1, <2>2, <2>3, NothingStored
<1>7. CASE CreateSidecar(c)
  <2>1. \A q \in Processes : Owed(q)' <= Owed(q)
    BY <1>1, <1>2, <1>3, <1>7 DEF CreateSidecar, At, InPut
  <2>2. \A file \in ObjectFiles : ObjectBytes(file)' <= ObjectBytes(file)
    BY <1>7, BytesAre DEF CreateSidecar, ObjectBytes
  <2>3. \A d \in Digests : SidecarBytes(d)' <= SidecarBytes(d)
    BY <1>0, <1>7, BytesAre, StatesAssumption DEF CreateSidecar, SidecarBytes, TypeOK
  <2>4. QED
    BY <1>0, <2>1, <2>2, <2>3, NothingStored
<1>8. CASE WriteObject(c) \/ WriteFails(c)
  <2>1. /\ call[c].at = "write" /\ call[c].digest \in Digests /\ File(c) \in ObjectFiles
        /\ File(c)[1] = call[c].digest
    BY <1>0, <1>8, InFlight DEF WriteObject, WriteFails, At, ObjectFiles, File
  <2>2. PICK file \in ObjectFiles, d \in Digests :
          file = File(c) /\ d = call[c].digest /\ file[1] = d
    BY <2>1
  <2>3. Owed(p)' <= SidecarSize /\ Owed(p)' \in Nat
        /\ \A q \in Processes \ {p} : Owed(q)' <= Owed(q)
    <3>1. CASE WriteObject(c)
      BY <1>1, <1>3, <2>1, <3>1 DEF WriteObject, At, InPut
    <3>2. CASE WriteFails(c)
      BY <1>0, <1>3, <2>1, <3>2, ReturnsOwing DEF WriteFails, InPut, p
    <3>3. QED
      BY <1>8, <3>1, <3>2
  <2>4. \A g \in ObjectFiles \ {file} : ObjectBytes(g)' <= ObjectBytes(g)
    BY <1>0, <1>8, <2>2, BytesAre DEF WriteObject, WriteFails, ObjectBytes, TypeOK, ObjectFiles
  <2>5. ObjectBytes(file) \in Nat /\ ObjectBytes(file)' \in Nat /\ ObjectBytes(file)' <= Size[d]
    <3>1. ObjectBytes(file) \in Nat
      BY BytesAre
    <3>2. ObjectBytes(file)' \in {0, Size[d]}
      BY <2>2 DEF ObjectBytes
    <3>3. QED
      BY <1>3, <3>1, <3>2
  <2>6. \A e \in Digests : SidecarBytes(e)' = SidecarBytes(e) /\ SidecarBytes(e) \in Nat
    BY <1>8, BytesAre DEF WriteObject, WriteFails, SidecarBytes
  <2>7. Owed(p) = Size[d] + SidecarSize
    BY <1>2, <2>1, <2>2
  <2>8. ObjectBytes(file)' + SidecarBytes(d)' + Owed(p)'
          <= ObjectBytes(file) + SidecarBytes(d) + Owed(p)
    BY <1>3, <2>3, <2>5, <2>6, <2>7
  <2>9. \A e \in Digests \ {d} : SidecarBytes(e)' <= SidecarBytes(e)
    BY <2>6
  <2>10. QED
    BY <1>0, <2>3, <2>4, <2>8, <2>9, Paid
<1>9. CASE WriteSidecar(c) \/ WriteSidecarFails(c)
  <2>1. call[c].at = "describe" /\ call[c].digest \in Digests /\ File(c) \in ObjectFiles
        /\ Returns(c)
    BY <1>0, <1>9, InFlight DEF WriteSidecar, WriteSidecarFails, At, ObjectFiles, ReturnsStored
  <2>2. PICK file \in ObjectFiles, d \in Digests : file = File(c) /\ d = call[c].digest
    BY <2>1
  <2>3. Owed(p)' = 0 /\ \A q \in Processes \ {p} : Owed(q)' <= Owed(q)
    BY <1>0, <2>1, ReturnsOwing DEF InPut, p
  <2>4. \A g \in ObjectFiles : ObjectBytes(g)' = ObjectBytes(g) /\ ObjectBytes(g) \in Nat
    BY <1>9, BytesAre DEF WriteSidecar, WriteSidecarFails, ObjectBytes
  <2>5. \A e \in Digests \ {d} : SidecarBytes(e)' <= SidecarBytes(e)
    BY <1>0, <1>9, <2>2, BytesAre DEF WriteSidecar, WriteSidecarFails, SidecarBytes, TypeOK
  <2>6. SidecarBytes(d) \in Nat /\ SidecarBytes(d)' \in Nat /\ SidecarBytes(d)' <= SidecarSize
    BY <1>3, BytesAre DEF SidecarBytes
  <2>7. Owed(p) = SidecarSize
    BY <1>2, <2>1
  <2>8. ObjectBytes(file)' + SidecarBytes(d)' + Owed(p)'
          <= ObjectBytes(file) + SidecarBytes(d) + Owed(p)
    BY <1>3, <2>3, <2>4, <2>6, <2>7
  <2>9. \A g \in ObjectFiles \ {file} : ObjectBytes(g)' <= ObjectBytes(g)
    BY <2>4
  <2>10. QED
    BY <1>0, <2>3, <2>5, <2>8, <2>9, Paid
<1>10. CASE \/ Refuse(c) \/ VerifyFails(c) \/ ObjectExistsTorn(c) \/ SidecarExists(c)
            \/ IoFails(c) \/ CreateSidecarFails(c)
  BY <1>10 DEF Refuse, VerifyFails, ObjectExistsTorn, ReturnsCorrupt, SidecarExists,
     ReturnsStored, IoFails, CreateSidecarFails, files
<1>11. QED
  BY <1>4, <1>5, <1>6, <1>7, <1>8, <1>9, <1>10 DEF PutStep

\* Every step keeps the budget.
LEMMA BudgetHolds ==
  ASSUME IInv, IInv', Mutex, Mutex', Budget, [Next]_vars
  PROVE  Budget'
<1>0. TypeOK /\ TypeOK'
  BY DEF IInv
<1>1. ASSUME NEW c \in Callers, Returns(c), UNCHANGED files PROVE Budget'
  BY <1>0, <1>1, ReturnsOwing, SameBytes, NothingStored
<1>2. ASSUME UNCHANGED files, \A p \in Processes : Owed(p)' = Owed(p) \/ Owed(p)' = 0
      PROVE  Budget'
  <2>1. \A p \in Processes : Owed(p)' <= Owed(p)
    BY <1>0, <1>2, OwedBounds
  <2>2. QED
    BY <1>0, <1>2, <2>1, SameBytes, NothingStored
<1>3. ASSUME NEW c \in Callers, call'[c].at \in {"lock", "read"},
             \A y \in Callers \ {c} : call'[y] = call[y], UNCHANGED <<files, lock>>
      PROVE  Budget'
  <2>1. ASSUME NEW p \in Processes PROVE Owed(p)' = Owed(p) \/ Owed(p)' = 0
    <3>1. CASE lock[p] = c
      BY <1>3, <3>1, NobodyAssumption DEF Owed
    <3>2. CASE lock[p] # c
      BY <1>0, <1>3, <3>2, OthersOwe
    <3>3. QED
      BY <3>1, <3>2
  <2>2. QED
    BY <1>2, <1>3, <2>1
<1>4. ASSUME NEW c \in Callers, Lock(c) PROVE Budget'
  <2>1. /\ call'[c].at = "admit" /\ \A y \in Callers \ {c} : call'[y] = call[y]
        /\ \A p \in Processes : lock'[p] = IF p = ProcessOf[c] THEN c ELSE lock[p]
    BY <1>0, <1>4, GoesOnStep DEF Lock, At, Steps, InPut, TypeOK
  <2>2. ASSUME NEW p \in Processes PROVE Owed(p)' = Owed(p) \/ Owed(p)' = 0
    <3>1. CASE p = ProcessOf[c]
      BY <2>1, <3>1, NobodyAssumption DEF Owed
    <3>2. CASE p # ProcessOf[c]
      BY <1>0, <2>1, <3>2, OthersOwe, NotTheirs
    <3>3. QED
      BY <3>1, <3>2
  <2>3. UNCHANGED files
    BY <1>4 DEF Lock, files
  <2>4. QED
    BY <1>2, <2>2, <2>3
<1>5. ASSUME NEW p \in Processes, Crash(p) PROVE Budget'
  <2>1. ASSUME NEW q \in Processes PROVE Owed(q)' = Owed(q) \/ Owed(q)' = 0
    <3>1. CASE q = p
      BY <1>0, <1>5, <3>1 DEF Crash, Owed, TypeOK
    <3>2. CASE q # p /\ lock[q] # Nobody
      <4>1. lock[q] \in Callers /\ ProcessOf[lock[q]] # p /\ lock'[q] = lock[q]
        BY <1>0, <1>5, <3>2 DEF Crash, TypeOK, Mutex
      <4>2. call'[lock[q]] = call[lock[q]]
        BY <1>5, <4>1 DEF Crash
      <4>3. QED
        BY <4>1, <4>2 DEF Owed
    <3>3. CASE q # p /\ lock[q] = Nobody
      BY <1>0, <1>5, <3>3 DEF Crash, TypeOK, Owed
    <3>4. QED
      BY <3>1, <3>2, <3>3
  <2>2. UNCHANGED files
    BY <1>5 DEF Crash, files
  <2>3. QED
    BY <1>2, <2>1, <2>2
<1>6. CASE UNCHANGED vars
  <2>1. \A p \in Processes : Owed(p)' = Owed(p)
    BY <1>6 DEF vars, Owed
  <2>2. QED
    BY <1>2, <1>6, <2>1 DEF vars, files
<1>7. ASSUME NEW c \in Callers, GetStep(c) PROVE Budget'
  <2>1. ASSUME NEW d \in Digests, StartGet(c, d) PROVE Budget'
    <3>1. /\ call'[c].at \in {"lock", "read"} /\ \A y \in Callers \ {c} : call'[y] = call[y]
          /\ UNCHANGED <<files, lock>>
      BY <1>0, <2>1 DEF StartGet, TypeOK
    <3>2. QED
      BY <1>3, <3>1
  <2>2. CASE ReadVerifies(c) \/ ReadIsCorrupt(c)
    BY <2>2, <1>1 DEF ReadVerifies, ReadIsCorrupt, ReturnsCorrupt, files
  <2>3. QED
    BY <1>7, <2>1, <2>2 DEF GetStep
<1>8. ASSUME NEW c \in Callers, PutStep(c) PROVE Budget'
  <2>1. ASSUME NEW d \in Digests, NEW f \in Formats, StartPut(c, d, f) PROVE Budget'
    <3>1. /\ call'[c].at \in {"lock", "read"} /\ \A y \in Callers \ {c} : call'[y] = call[y]
          /\ UNCHANGED <<files, lock>>
      BY <1>0, <2>1 DEF StartPut, TypeOK
    <3>2. QED
      BY <1>3, <3>1
  <2>2. QED
    BY <1>1, <1>4, <1>8, <2>1, PutBudget
<1>9. QED
  BY <1>5, <1>6, <1>7, <1>8 DEF Next

\* A fresh store holds nothing and nobody owes.
LEMMA InitBudget == Init => Mutex /\ Budget
<1> SUFFICES ASSUME Init PROVE Mutex /\ Budget
  OBVIOUS
<1>1. TypeOK
  BY InitInv DEF IInv
<1>2. Mutex
  BY CallersAssumption DEF Init, Mutex, Idle, InPut
<1>3. /\ \A file \in ObjectFiles : ObjectSizes[file] <= 0
      /\ \A d \in Digests : SidecarSizes[d] <= 0
      /\ \A p \in Processes : Debts[p] <= 0
  BY StatesAssumption DEF Init, ObjectSizes, SidecarSizes, Debts, ObjectBytes, SidecarBytes,
     Owed, ObjectFiles
<1>4. /\ Adds(ObjectSizes, ObjectFiles) /\ Adds(SidecarSizes, Digests)
      /\ Adds(Debts, Processes)
  BY <1>1, AddsAll
<1>5. ASSUME NEW S, NEW f, Adds(f, S), \A x \in S : f[x] <= 0 PROVE Sum(f, S) = 0
  <2>1. Sum(f, S) <= Cardinality(S) * 0 /\ Sum(f, S) \in Nat
    BY <1>5, SumAtMost, SumIsNatural
  <2>2. Cardinality(S) \in Nat
    BY <1>5, FS_CardinalityType DEF Adds
  <2>3. Cardinality(S) * 0 = 0
    BY <2>2
  <2>4. QED
    BY <2>1, <2>3
<1>6. /\ Sum(ObjectSizes, ObjectFiles) = 0 /\ Sum(SidecarSizes, Digests) = 0
      /\ Sum(Debts, Processes) = 0
  BY <1>3, <1>4, <1>5
<1>7. QED
  BY <1>2, <1>6, BudgetIs, CeilingIs

\* The ceiling of the store holds for any number of processes, callers and contents:
\* max_bytes for one process, and one largest put more for each other (Cas::put checks
\* the cap and writes under the mutex of its own process).
THEOREM CapCorrect == Spec => []CapHolds
<1>1. IInv /\ Mutex /\ Budget /\ [Next]_vars => (Mutex /\ Budget)'
  <2> SUFFICES ASSUME IInv, Mutex, Budget, [Next]_vars PROVE Mutex' /\ Budget'
    OBVIOUS
  <2>1. IInv' /\ Mutex'
    BY NextInv, MutexHolds
  <2>2. QED
    BY <2>1, BudgetHolds
<1>2. IInv /\ Budget => CapHolds
  <2> SUFFICES ASSUME IInv, Budget PROVE CapHolds
    OBVIOUS
  <2>1. /\ Sum(ObjectSizes, ObjectFiles) \in Nat /\ Sum(SidecarSizes, Digests) \in Nat
        /\ Sum(Debts, Processes) \in Nat
    BY AddsAll, SumIsNatural DEF IInv
  <2>2. TotalBytes = Sum(ObjectSizes, ObjectFiles) + Sum(SidecarSizes, Digests)
    BY ObjectSum, SidecarSum, Zenon DEF TotalBytes
  <2>3. QED
    BY <2>1, <2>2, BudgetIs, CeilingIs DEF CapHolds
<1>3. QED
  BY <1>1, <1>2, InitInv, InitBudget, CasInvariance, PTL DEF Spec

-----------------------------------------------------------------------------
\* The memory store's contents, as the readable sidecars show them.
Footprints == [d \in Digests |-> Size[d] + SidecarSize]
Described == {d \in Digests : sidecar[d] \in Formats}
DescribedFits == Sum(Footprints, Described) <= TotalBytes

\* What the memory store holds is what has a readable sidecar.
LEMMA DescribedIsHeld == Memory!Held = Described
  BY StatesAssumption DEF Memory!Held, Described

\* The memory store's own total is a sum as well.
LEMMA FootprintSum ==
  Memory!MapThenSumSet(Memory!Footprint, Memory!Held) = Sum(Footprints, Memory!Held)
<1> DEFINE F == Memory!Held
           Folds(it) == it = [s \in SUBSET F |-> IF s = {} THEN 0
             ELSE Memory!Footprint(CHOOSE x \in s : TRUE) + it[s \ {CHOOSE x \in s : TRUE}]]
<1>1. Memory!MapThenSumSet(Memory!Footprint, Memory!Held) = (CHOOSE it : Folds(it))[F]
  BY Zenon DEF Memory!MapThenSumSet, Memory!MapThenFoldSet
<1>2. ASSUME NEW s \in SUBSET F, s # {}
      PROVE  Footprints[FirstOf(s)] = Memory!Footprint(CHOOSE x \in s : TRUE)
             /\ RestOf(s) = s \ {CHOOSE x \in s : TRUE}
  <2>1. FirstOf(s) = (CHOOSE x \in s : TRUE) /\ FirstOf(s) \in s
    BY <1>2, Zenon DEF FirstOf
  <2>2. FirstOf(s) \in Digests
    BY <2>1 DEF Memory!Held
  <2>3. QED
    BY <2>1, <2>2, Zenon DEF Footprints, RestOf, Memory!Footprint
<1>3. \A it : IsFold(it, Footprints, F) <=> Folds(it)
  <2> TAKE it
  <2>1. [s \in SUBSET F |-> IF s = {} THEN 0 ELSE Footprints[FirstOf(s)] + it[RestOf(s)]]
      = [s \in SUBSET F |-> IF s = {} THEN 0
           ELSE Memory!Footprint(CHOOSE x \in s : TRUE) + it[s \ {CHOOSE x \in s : TRUE}]]
    BY <1>2, Zenon
  <2>2. QED
    BY <2>1, Zenon DEF IsFold
<1> HIDE DEF Folds
<1>4. (CHOOSE it : IsFold(it, Footprints, F)) = (CHOOSE it : Folds(it))
  BY <1>3, Zenon
<1>5. QED
  BY <1>1, <1>4, Zenon DEF Sum

\* What is described weighs no more than what a scan counts: each readable sidecar has a
\* whole object (DescribedIsWhole) of its own.
LEMMA HeldFits == IInv => DescribedFits
<1> SUFFICES ASSUME IInv PROVE Sum(Footprints, Described) <= TotalBytes
  BY DEF DescribedFits
<1> DEFINE Notes == [d \in Digests |-> SidecarSize]
           Itself == [d \in Digests |-> d]
           Where == [d \in Digests |-> <<d, sidecar[d]>>]
<1>1. Adds(ObjectSizes, ObjectFiles) /\ Adds(SidecarSizes, Digests)
  BY AddsAll DEF IInv
<1>2. Described \in SUBSET Digests /\ IsFiniteSet(Described)
  BY AllFinite, FS_Subset DEF Described
<1>3. Adds(Size, Described) /\ Adds(Notes, Described)
  BY <1>2, SizesAssumption DEF Adds
<1>4. Sum(Footprints, Described) = Sum(Size, Described) + Sum(Notes, Described)
  <2>1. \A d \in Described : Footprints[d] = Size[d] + Notes[d]
    BY <1>2 DEF Footprints
  <2> HIDE DEF Notes
  <2>2. QED
    BY <1>3, <2>1, SumOfBoth
<1>5. Sum(Size, Described) <= Sum(ObjectSizes, ObjectFiles)
  <2>1. ASSUME NEW d \in Described
        PROVE  Where[d] \in ObjectFiles /\ Size[d] <= ObjectSizes[Where[d]]
    <3>1. d \in Digests /\ sidecar[d] \in Formats /\ object[<<d, sidecar[d]>>] = Whole
      BY DEF IInv, DescribedIsWhole, Described
    <3>2. <<d, sidecar[d]>> \in ObjectFiles /\ Where[d] = <<d, sidecar[d]>>
      BY <3>1 DEF ObjectFiles
    <3>3. ObjectSizes[<<d, sidecar[d]>>] = Size[d]
      BY <3>1, <3>2 DEF ObjectSizes, ObjectBytes
    <3>4. QED
      BY <3>1, <3>2, <3>3, SizesAssumption
  <2>2. \A d, e \in Described : Where[d] = Where[e] => d = e
    BY <1>2
  <2> HIDE DEF Where
  <2>3. QED
    BY <1>1, <1>3, <2>1, <2>2, SumInto
<1>6. Sum(Notes, Described) <= Sum(SidecarSizes, Digests)
  <2>1. \A d \in Described : Itself[d] \in Digests /\ Notes[d] <= SidecarSizes[Itself[d]]
    BY SizesAssumption DEF Described, SidecarSizes, SidecarBytes
  <2>2. \A d, e \in Described : Itself[d] = Itself[e] => d = e
    BY <1>2
  <2> HIDE DEF Itself, Notes
  <2>3. QED
    BY <1>1, <1>3, <2>1, <2>2, SumInto
<1>7. /\ Sum(Size, Described) \in Nat /\ Sum(Notes, Described) \in Nat
      /\ Sum(ObjectSizes, ObjectFiles) \in Nat /\ Sum(SidecarSizes, Digests) \in Nat
  BY <1>1, <1>3, SumIsNatural
<1>8. TotalBytes = Sum(ObjectSizes, ObjectFiles) + Sum(SidecarSizes, Digests)
  BY ObjectSum, SidecarSum, Zenon DEF TotalBytes
<1>9. QED
  BY <1>4, <1>5, <1>6, <1>7, <1>8

\* What a scan adds up is a number.
BytesAreNatural == TotalBytes \in Nat

\* The scan of a store in a reachable state.
LEMMA TotalIsNatural == IInv => BytesAreNatural
<1> SUFFICES ASSUME IInv PROVE TotalBytes \in Nat
  BY DEF BytesAreNatural
<1>1. Sum(ObjectSizes, ObjectFiles) \in Nat /\ Sum(SidecarSizes, Digests) \in Nat
  BY AddsAll, SumIsNatural DEF IInv
<1>2. TotalBytes = Sum(ObjectSizes, ObjectFiles) + Sum(SidecarSizes, Digests)
  BY ObjectSum, SidecarSum, Zenon DEF TotalBytes
<1>3. QED
  BY <1>1, <1>2

\* An empty disk store is an empty memory store.
LEMMA MemoryInit == Init => Memory!Init
  BY StatesAssumption DEF Init, Memory!Init

\* A step that writes no description is no step of the memory store.
LEMMA MemoryStutters ==
  ASSUME \A d \in Digests : (sidecar'[d] \in Formats \/ sidecar[d] \in Formats) =>
           sidecar'[d] = sidecar[d]
  PROVE  UNCHANGED [d \in Digests |-> IF sidecar[d] \in Formats THEN sidecar[d] ELSE Absent]
  OBVIOUS

\* The write of a sidecar is the memory store's put: the digest was not held, and what is
\* held with it fits under the ceiling.
LEMMA DescriptionIsPut ==
  ASSUME IInv, IInv', CapHolds', NEW c \in Callers, At(c, "describe"),
         sidecar' = [sidecar EXCEPT ![call[c].digest] = call[c].format]
  PROVE  Memory!Next
<1>1. PICK d \in Digests, f \in Formats :
        d = call[c].digest /\ f = call[c].format /\ sidecar[d] = Torn
  BY InFlight DEF At, IInv, Describing
<1>2. sidecar' = [sidecar EXCEPT ![d] = f] /\ sidecar \in [Digests -> Formats \cup {Absent, Torn}]
  BY <1>1 DEF IInv, TypeOK
<1>3. d \notin Described /\ Described' = Described \cup {d}
  BY <1>1, <1>2, StatesAssumption DEF Described
<1>4. Sum(Footprints, Described') <= TotalBytes'
  <2>1. (IInv => DescribedFits)'
    BY HeldFits, PTL
  <2>2. Footprints' = Footprints
    BY DEF Footprints
  <2>3. QED
    BY <2>1, <2>2 DEF DescribedFits, Sum, IsFold, FirstOf, RestOf
<1>5. Sum(Footprints, Described') <= Ceiling
  <2>1. TotalBytes' <= Ceiling
    BY DEF CapHolds, Ceiling, Largest
  <2>2. TotalBytes' \in Nat
    <3>1. (IInv => BytesAreNatural)'
      BY TotalIsNatural, PTL
    <3>2. QED
      BY <3>1 DEF BytesAreNatural
  <2>3. Adds(Footprints, Described')
    BY AllFinite, FS_Subset, SizesAssumption DEF Adds, Footprints, Described
  <2>4. Sum(Footprints, Described') \in Nat
    BY <2>3, SumIsNatural
  <2>5. QED
    BY <1>4, <2>1, <2>2, <2>4, CeilingIs
<1>6. Sum(Footprints, Described') = Memory!Footprint(d) + Sum(Footprints, Described)
  <2>1. Adds(Footprints, Described') /\ d \in Described' /\ Described' \ {d} = Described
    BY <1>3, AllFinite, FS_Subset, SizesAssumption DEF Adds, Footprints, Described
  <2>2. Footprints[d] = Memory!Footprint(d)
    BY DEF Footprints, Memory!Footprint
  <2>3. QED
    BY <2>1, <2>2, SumTakesOut
<1>7. Memory!MapThenSumSet(Memory!Footprint, Memory!Held) = Sum(Footprints, Described)
  BY FootprintSum, DescribedIsHeld
<1>8. Memory!Footprint(d) \in Nat /\ Sum(Footprints, Described) \in Nat
  <2>1. Adds(Footprints, Described)
    BY AllFinite, FS_Subset, SizesAssumption DEF Adds, Footprints, Described
  <2>2. QED
    BY <2>1, SumIsNatural, SizesAssumption DEF Memory!Footprint
<1>9. Memory!MapThenSumSet(Memory!Footprint, Memory!Held) + Memory!Footprint(d) <= Ceiling
  BY <1>5, <1>6, <1>7, <1>8
<1>10. d \notin Memory!Held
  BY <1>3, DescribedIsHeld
<1>11. [e \in Digests |-> IF sidecar[e] \in Formats THEN sidecar[e] ELSE Absent]'
         = [[e \in Digests |-> IF sidecar[e] \in Formats THEN sidecar[e] ELSE Absent]
              EXCEPT ![d] = f]
  BY <1>1, <1>2
<1>12. Memory!Put(d, f)
  BY <1>9, <1>10, <1>11 DEF Memory!Put
<1>13. QED
  BY <1>12 DEF Memory!Next

\* Seen through its readable sidecars, the disk store shared by several processes is the
\* in-memory store under the ceiling: each of its steps is one put of MemoryCas or none.
THEOREM DiskIsTheMemory == Spec => MemorySpec
<1> DEFINE Objects == [d \in Digests |-> IF sidecar[d] \in Formats THEN sidecar[d] ELSE Absent]
<1>1. IInv /\ IInv' /\ CapHolds' /\ [Next]_vars => Memory!Next \/ UNCHANGED Objects
  <2> SUFFICES ASSUME IInv, IInv', CapHolds', [Next]_vars PROVE Memory!Next \/ UNCHANGED Objects
    OBVIOUS
  <2>1. CASE UNCHANGED sidecar
    BY <2>1
  <2>2. ASSUME NEW c \in Callers, CreateSidecar(c) PROVE UNCHANGED Objects
    BY <2>2, MemoryStutters, StatesAssumption DEF CreateSidecar, IInv, TypeOK
  <2>3. ASSUME NEW c \in Callers, WriteSidecar(c) \/ WriteSidecarFails(c)
        PROVE  Memory!Next \/ UNCHANGED sidecar
    BY <2>3, DescriptionIsPut DEF WriteSidecar, WriteSidecarFails
  <2>4. ASSUME NEW c \in Callers, PutStep(c), sidecar' # sidecar
        PROVE  CreateSidecar(c) \/ WriteSidecar(c) \/ WriteSidecarFails(c)
    BY <2>4 DEF PutStep, StartPut, Lock, Admit, Refuse, Verify, VerifyFails, CreateObject,
       ObjectExists, ObjectExistsTorn, WriteObject, ReturnsCorrupt, SidecarExists, IoFails,
       WriteFails, CreateSidecarFails, files
  <2>5. ASSUME NEW c \in Callers, GetStep(c) PROVE UNCHANGED sidecar
    BY <2>5 DEF GetStep, StartGet, ReadVerifies, ReadIsCorrupt, ReturnsCorrupt, files
  <2>6. ASSUME NEW p \in Processes, Crash(p) PROVE UNCHANGED sidecar
    BY <2>6 DEF Crash, files
  <2>7. CASE UNCHANGED vars
    BY <2>7, <2>1 DEF vars
  <2> HIDE DEF Objects
  <2>8. QED
    BY <2>1, <2>2, <2>3, <2>4, <2>5, <2>6, <2>7 DEF Next
<1>2. IInv /\ IInv' /\ CapHolds' /\ [Next]_vars => [Memory!Next]_Objects
  BY <1>1
<1>3. Init => Memory!Init
  BY MemoryInit
<1>4. Spec => Memory!Init /\ [][Memory!Next]_Objects
  <2> HIDE DEF Objects
  <2>1. QED
    BY <1>2, <1>3, CasInvariance, CapCorrect, PTL DEF Spec
<1>5. QED
  BY <1>4, PTL DEF MemorySpec, Memory!Spec
=============================================================================

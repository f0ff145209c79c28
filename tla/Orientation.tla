------------------------------ MODULE Orientation ------------------------------
(***************************************************************************)
(* The map of the project that is put before a survey (orientation.rs): a     *)
(* glob, two measurements for each chunk of the files it found, and a list, a  *)
(* directory tree or a note.  The project may change between any two of these  *)
(* commands.  A path is the sequence of its names; no file has a million lines.*)
(***************************************************************************)
EXTENDS Naturals, FiniteSets, FiniteSetsExt, Sequences

CONSTANTS
  Projects,      \* what a project may hold: each file's bytes and lines
  FileContents,  \* the bytes and lines a file may come to have
  Quoted,        \* the files whose names hold a quote
  Enabled,
  FullListMaxFiles, TreeMaxDepth,
  ChunkSize,     \* the files of one command line
  OutputLimit,   \* what one command may return
  MaxFailures, MaxEdits

VARIABLES
  project,   \* the files that are there
  edited,    \* those that changed since the glob
  mapAt,     \* the command that runs next
  files,     \* what the glob found
  todo,      \* those not yet measured
  sizes, metrics,
  map,       \* what the model is shown
  failures

\* A walk is finite and a file has a name; a depth of zero is refused (config.rs).
ASSUME OrientationAssumption ==
  /\ \A p \in Projects : IsFiniteSet(DOMAIN p) /\ DOMAIN p \subseteq Seq(STRING) \ {<< >>}
  /\ TreeMaxDepth \in Nat \ {0}

orientationVars == <<project, edited, mapAt, files, todo, sizes, metrics, map, failures>>

NoMap == [kind |-> "none"]

OrientationInit ==
  /\ project \in Projects
  /\ edited = {} /\ files = {} /\ todo = {} /\ failures = 0
  /\ sizes = << >> /\ metrics = << >>
  /\ mapAt = "glob" /\ map = NoMap

NumberedOutputBytes(m) == m.bytes + m.lines * (6 + 1)
Fits(m) == NumberedOutputBytes(m) <= OutputLimit

----
(* The tree: DirNode *)

DirsOf(f) == {SubSeq(f, 1, n) : n \in 1 .. (Len(f) - 1)}
RenderedDirs(found) == {d \in UNION {DirsOf(f) : f \in found} : Len(d) <= TreeMaxDepth}
TotalFiles(found, dir) == Cardinality({f \in found : dir \in DirsOf(f)})
DirectFiles(found) == Cardinality({f \in found : Len(f) = 1})

RenderTree(found) ==
  IF Cardinality(RenderedDirs(found)) > FullListMaxFiles
    THEN [kind |-> "note", files |-> Cardinality(found)]
    ELSE [kind |-> "tree", files |-> Cardinality(found), root |-> DirectFiles(found),
          dirs |-> [d \in RenderedDirs(found) |-> TotalFiles(found, d)]]

----
(* The commands *)

Stop(shown) == /\ mapAt' = "done" /\ map' = shown

\* A glob that fails gives no map, and so does an empty project.
GlobFails ==
  LET found == DOMAIN project IN
  /\ mapAt = "glob"
  /\ (Enabled /\ found # {}) => failures < MaxFailures
  /\ Stop(NoMap)
  /\ UNCHANGED <<project, edited, files, todo, sizes, metrics, failures>>

GlobFinds ==
  LET found == DOMAIN project IN
  /\ mapAt = "glob" /\ Enabled /\ found # {}
  /\ files' = found
  /\ IF Cardinality(found) <= FullListMaxFiles
       THEN mapAt' = "stat" /\ todo' = found /\ UNCHANGED map
       ELSE Stop(RenderTree(found)) /\ UNCHANGED todo
  /\ UNCHANGED <<project, edited, sizes, metrics, failures>>

Chunk == CHOOSE some \in SUBSET todo :
           Cardinality(some) = IF Cardinality(todo) < ChunkSize THEN Cardinality(todo) ELSE ChunkSize

\* One file that is not there fails its command; a name with a quote names another.
Measurable == \A f \in Chunk : f \in DOMAIN project /\ f \notin Quoted

Stat ==
  /\ mapAt = "stat" /\ todo # {}
  /\ \/ Measurable /\ sizes' = [f \in Chunk |-> project[f].bytes] /\ UNCHANGED failures
     \/ ~Measurable /\ sizes' = << >> /\ UNCHANGED failures
     \/ failures < MaxFailures /\ sizes' = << >> /\ failures' = failures + 1
  /\ mapAt' = "wc"
  /\ UNCHANGED <<project, edited, files, todo, metrics, map>>

\* A file both commands measured has its numbers.
Joined == [f \in DOMAIN sizes \cap DOMAIN project |->
             [bytes |-> sizes[f], lines |-> project[f].lines]]
Wc ==
  /\ mapAt = "wc"
  /\ \/ Measurable /\ UNCHANGED failures
          /\ metrics' = [f \in DOMAIN metrics \cup DOMAIN Joined |->
                           IF f \in DOMAIN Joined THEN Joined[f] ELSE metrics[f]]
     \/ ~Measurable /\ UNCHANGED <<metrics, failures>>
     \/ failures < MaxFailures /\ failures' = failures + 1 /\ UNCHANGED metrics
  /\ todo' = todo \ Chunk
  /\ mapAt' = "stat"
  /\ UNCHANGED <<project, edited, files, sizes, map>>

\* Mutant of Marked: a file is marked by what it holds, not by what a read of it prints.
MarkedByBytes == {f \in DOMAIN metrics : metrics[f].bytes > OutputLimit}
Marked == {f \in DOMAIN metrics : ~Fits(metrics[f])}

RenderFullList ==
  /\ mapAt = "stat" /\ todo = {}
  /\ Stop([kind |-> "list", files |-> files, promises |-> metrics # << >>,
           sized |-> DOMAIN metrics, marked |-> Marked])
  /\ UNCHANGED <<project, edited, files, todo, sizes, metrics, failures>>

\* The project is somebody's: external.
Edit(f, content) ==
  /\ Cardinality(edited) < MaxEdits /\ mapAt \in {"stat", "wc"}
  /\ f \in DOMAIN project /\ project[f] # content
  /\ project' = [project EXCEPT ![f] = content]
  /\ edited' = edited \cup {f}
  /\ UNCHANGED <<mapAt, files, todo, sizes, metrics, map, failures>>

RemoveFile(f) ==
  /\ Cardinality(edited) < MaxEdits /\ mapAt \in {"stat", "wc"}
  /\ f \in DOMAIN project
  /\ project' = [g \in DOMAIN project \ {f} |-> project[g]]
  /\ edited' = edited \cup {f}
  /\ UNCHANGED <<mapAt, files, todo, sizes, metrics, map, failures>>

OrientationNext ==
  \/ GlobFails \/ GlobFinds \/ Stat \/ Wc \/ RenderFullList
  \/ \E f \in DOMAIN project, content \in FileContents : Edit(f, content)
  \/ \E f \in DOMAIN project : RemoveFile(f)

OrientationSpec == OrientationInit /\ [][OrientationNext]_orientationVars

----
(* Properties *)

\* The list is of the whole project and its marks are exact: it has every file the glob
\* found, and of the files nobody touched since, a sized one is marked just when one
\* numbered read of it would be cut.
MarksAreExact ==
  map.kind = "list" =>
    /\ map.files = files
    /\ \A f \in map.sized \ edited : f \in map.marked <=> ~Fits(project[f])

\* The tree is of the whole project: what it counts in the root and under the root's
\* directories, however deep they go, adds up to the files the glob found.
CountOf(d) == map.dirs[d]
TopDirs == {d \in DOMAIN map.dirs : Len(d) = 1}
TreeCountsAll ==
  map.kind = "tree" =>
    /\ map.files = Cardinality(files)
    /\ map.files = map.root + MapThenSumSet(CountOf, TopDirs)

\* What the model is shown of the project is so, list or tree.
MapIsTrue == MarksAreExact /\ TreeCountsAll
=============================================================================

------------------------------- MODULE Boundary -------------------------------
(***************************************************************************)
(* What a call may read (server/resolver.rs, server/containment.rs,           *)
(* worktree.rs, attach.rs, view_image.rs, context.rs): the trees the operator  *)
(* names, the launch directory kaibo may adopt, the git worktrees it follows,  *)
(* and the files each kind of read lets through while they and the worktrees   *)
(* change underneath.  A path is the sequence of its names.                    *)
(***************************************************************************)
EXTENDS Naturals, FiniteSets, Sequences, SequencesExt

CONSTANTS
  Dirs,           \* the directories there are
  Home,           \* the home directory
  Canon,          \* what each path a caller or operator writes stands for
  Files,          \* the regular files, by their canonical paths
  Registrations,  \* each entry a repository may hold under .git/worktrees
  Places,         \* where a worktree may be put
  Gits,           \* what a .git there may come to be
  Configs,        \* what the operator may ask for
  Lists,          \* the attachment lists a caller may send
  Budget,         \* the bytes a consult inlines
  MaxText, MaxImage, MaxTotal, MaxCount,
  Sizes,          \* how long a file may be
  Paths,          \* the projects a caller may name
  MaxGit,         \* how often the worktrees change under one server
  MaxRewrites     \* how often a call's files do

\* Directories and files have a path of names; a repository is a directory, and so is
\* where the server is started; a length and a budget are numbers of bytes.
ASSUME PathsAssumption ==
  /\ Dirs \cup Files \cup {Home} \subseteq Seq(STRING)
  /\ <<"none">> \notin Dirs \cup Files
  /\ \A r \in DOMAIN Registrations : Registrations[r] \in Dirs
  /\ \A c \in Configs : c.cwd \in Dirs
ASSUME SizesAssumption == Sizes \subseteq Nat /\ Budget \in Nat

VARIABLES
  config,     \* what the operator asked for
  allowed,    \* the allowed trees
  root,       \* the default root, and whether it was inferred
  dotgit,     \* what each directory's .git is
  registered, \* the worktree each registration names
  onDisk,     \* each file's length and what it holds
  read,       \* the call that is reading
  changes     \* how many changes of the worktrees and of files there were

boundaryVars == <<config, allowed, root, dotgit, registered, onDisk, read, changes>>

None == <<"none">>   \* a path that is no path
Inside(path, tree) == IsPrefix(tree, path)

----
(* Git worktrees (worktree.rs) *)

\* A .git is a directory, a file that names a registration, one that names a git
\* directory of its own (a submodule's), or nothing.
CommonGitDir(dir) ==
  CASE dotgit[dir] = "dir" -> dir
    [] dotgit[dir] \in DOMAIN Registrations -> Registrations[dotgit[dir]]
    [] OTHER -> None

\* Mutant of Vouched: a registration's word is taken without the worktree's.
VouchedOneWay(common) ==
  {common} \cup {registered[r] : r \in {q \in DOMAIN Registrations :
                   Registrations[q] = common /\ registered[q] \in Dirs}}

\* The main worktree, and each directory that a registration names and whose .git
\* names that registration.
Vouched(common) ==
  {common} \cup {registered[r] : r \in {q \in DOMAIN Registrations :
                   /\ Registrations[q] = common
                   /\ registered[q] \in Dirs
                   /\ dotgit[registered[q]] = q}}

\* From a tree that is itself vouched for, those that do not hold it.
WorktreesReachableFrom(tree) ==
  LET common == CommonGitDir(tree) IN
  IF common = None \/ tree \notin Vouched(common) THEN {}
  ELSE {wt \in Vouched(common) : wt = tree \/ ~Inside(tree, wt)}

----
(* Starting (resolver.rs) *)

HoldsHome(tree) == tree = << >> \/ Inside(Home, tree)
NamedTrees(c) == (IF c.root = None THEN {} ELSE {c.root}) \cup c.allow

BoundaryInit ==
  /\ config \in Configs
  /\ allowed = {} /\ root = [at |-> "starting"]
  /\ dotgit \in {[d \in Dirs |-> IF d \in {Registrations[r] : r \in DOMAIN Registrations}
                                 THEN "dir" ELSE "none"]}
  /\ registered = [r \in DOMAIN Registrations |-> None]
  /\ onDisk = [f \in Files |-> [size |-> 1, holds |-> "text"]]
  /\ read = [kind |-> "none", open |-> None]
  /\ changes = [git |-> 0, files |-> 0]

\* Resolver::from_config.  A launch directory inside a named tree is the default root
\* and no tree of its own.
Start ==
  LET named == {Canon[p] : p \in NamedTrees(config)}
      cwd == config.cwd
      within == \E tree \in named : Inside(cwd, tree)
      adopt == within \/ ~HoldsHome(cwd)
      refused == ~(named \subseteq Dirs) IN
  /\ root.at = "starting"
  /\ root' = CASE refused -> [at |-> "refused"]
               [] ~refused /\ config.root # None ->
                    [at |-> "set", path |-> Canon[config.root], inferred |-> FALSE]
               [] ~refused /\ config.root = None /\ config.infer /\ adopt ->
                    [at |-> "set", path |-> cwd, inferred |-> TRUE]
               [] OTHER -> [at |-> "unset"]
  /\ allowed' = IF refused THEN {}
                ELSE named \cup IF root'.at = "set" /\ root'.inferred /\ ~within
                                  THEN {cwd} ELSE {}
  /\ UNCHANGED <<config, dotgit, registered, onDisk, read, changes>>

Running == root.at \in {"set", "unset"}

\* containing_tree: a named tree, or a worktree followed from one.
Containing(path) ==
  LET followed == IF config.follow
                    THEN UNION {WorktreesReachableFrom(tree) : tree \in allowed} ELSE {} IN
  IF \E tree \in allowed : Inside(path, tree)
    THEN {tree \in allowed : Inside(path, tree)}
    ELSE {wt \in followed : Inside(path, wt)}

\* What kaibo://config lists beside the allowed trees.
FollowedWorktrees ==
  IF config.follow
    THEN {wt \in UNION {WorktreesReachableFrom(tree) : tree \in allowed} :
            \A tree \in allowed : ~Inside(wt, tree)}
    ELSE {}

----
(* The tree changes: external *)

\* What changes while a file is open is seen by the next look.
GitChange ==
  /\ Running /\ read.open = None
  /\ changes.git < MaxGit /\ changes' = [changes EXCEPT !.git = @ + 1]

\* git worktree add.
AddWorktree(r, wt) ==
  /\ GitChange
  /\ registered[r] = None /\ dotgit[wt] = "none"
  /\ registered' = [registered EXCEPT ![r] = wt]
  /\ dotgit' = [dotgit EXCEPT ![wt] = r]
  /\ UNCHANGED <<config, allowed, root, onDisk, read>>

\* A worktree's .git goes without git being told, and may come to be another's, a
\* copy of its own, or a repository of its own.
ReplaceDotGit(wt, what) ==
  /\ GitChange
  /\ dotgit[wt] # what
  /\ dotgit' = [dotgit EXCEPT ![wt] = what]
  /\ UNCHANGED <<config, allowed, root, registered, onDisk, read>>

\* git worktree prune, or git forgetting where it was.
Forget(r) ==
  /\ GitChange
  /\ registered[r] # None
  /\ registered' = [registered EXCEPT ![r] = None]
  /\ UNCHANGED <<config, allowed, root, dotgit, onDisk, read>>

Rewrite(f, size, holds) ==
  /\ read.kind # "none" /\ read.why = "none"
  /\ \E n \in DOMAIN read.names : Canon[read.names[n]] = f
  /\ changes.files < MaxRewrites /\ changes' = [changes EXCEPT !.files = @ + 1]
  /\ onDisk[f] # [size |-> size, holds |-> holds]
  /\ onDisk' = [onDisk EXCEPT ![f] = [size |-> size, holds |-> holds]]
  /\ UNCHANGED <<config, allowed, root, dotgit, registered, read>>

----
(* Reading (containment.rs, attach.rs, view_image.rs, context.rs) *)

ReadKinds == {"inline", "consult", "sweep", "media", "view", "rules"}

\* A call's root: the path it names, or the default; a directory in the boundary.
RootRefuses(path) ==
  \/ path = None /\ root.at = "unset"
  \/ path # None /\ (Canon[path] \notin Dirs \/ Containing(Canon[path]) = {})

Begin(kind, path, names) ==
  /\ Running /\ read.kind = "none"
  /\ kind \in {"media", "view", "rules"} => Len(names) = 1
  /\ kind \in {"inline", "media"} => path = None
  /\ read' =
       LET base == IF path # None THEN Canon[path]
                   ELSE IF root.at = "set" THEN root.path ELSE None
           why == CASE kind \notin {"inline", "media"} /\ RootRefuses(path) -> "root"
                    [] kind \in {"inline", "consult", "sweep"} /\ Len(names) > MaxCount -> "count"
                    [] OTHER -> "none" IN
       [kind |-> kind, base |-> base, names |-> names, out |-> << >>, why |-> why,
        left |-> IF kind = "consult" THEN Budget ELSE 0, total |-> 0, open |-> None,
        over |-> {}]
  /\ UNCHANGED <<config, allowed, root, dotgit, registered, onDisk, changes>>

Taking(kinds) == /\ read.kind \in kinds
                /\ read.why = "none"
Next1 == Canon[Head(read.names)]
Stop(why) == read' = [read EXCEPT !.why = why]
Opened(over) == read' = [read EXCEPT !.open = Next1, !.over = over]
Took(as, size) ==
  read' = [read EXCEPT !.out = Append(@, [file |-> read.open, as |-> as, size |-> size,
                                          from |-> read.over]),
                       !.names = Tail(@), !.open = None, !.over = {},
                       !.left = IF as = "text" /\ read.kind \in {"consult", "sweep"}
                                  THEN @ - size ELSE @]
\* A file the consult's model is only told of.
Noted(as) ==
  read' = [read EXCEPT !.out = Append(@, [file |-> Next1, as |-> as, size |-> 0,
                                          from |-> {read.base}]),
                       !.names = Tail(@), !.open = None, !.over = {}]

Ready(kinds) == Taking(kinds) /\ read.open = None /\ read.names # << >>
Reading(kinds) == Taking(kinds) /\ read.open # None
SameTree == UNCHANGED <<config, allowed, root, dotgit, registered, onDisk, changes>>

IsFile(path) == path \in Files /\ onDisk[path].holds # "gone"

\* check_attachment_bounds, with what this file adds.
TotalOver == read.total + onDisk[Next1].size > MaxTotal
Larger(a, b) == IF a < b THEN b ELSE a

\* resolve_attachments: the boundary is the allowed set, and the lengths are those
\* the metadata gives.
CheckInline ==
  /\ Ready({"inline"})
  /\ CASE ~IsFile(Next1) -> Stop("not a file")
       [] IsFile(Next1) /\ Containing(Next1) = {} -> Stop("outside")
       [] IsFile(Next1) /\ Containing(Next1) # {}
            /\ (onDisk[Next1].size > Larger(MaxText, MaxImage) \/ TotalOver) -> Stop("size")
       [] OTHER -> read' = [read EXCEPT !.open = Next1, !.over = Containing(Next1),
                                        !.total = @ + onDisk[Next1].size]
  /\ SameTree

\* read_contained_file, of a generation's input.
CheckMedia ==
  /\ Ready({"media"})
  /\ CASE ~IsFile(Next1) -> Stop("not a file")
       [] IsFile(Next1) /\ Containing(Next1) = {} -> Stop("outside")
       [] IsFile(Next1) /\ Containing(Next1) # {} /\ onDisk[Next1].size > MaxImage -> Stop("size")
       [] OTHER -> Opened(Containing(Next1))
  /\ SameTree

\* resolve_consult_attachments: the boundary is the call's root alone.  A picture,
\* and a file too long for what is left, are only named.
CheckConsult ==
  /\ Ready({"consult", "sweep"})
  /\ CASE ~IsFile(Next1) -> Stop("not a file")
       [] IsFile(Next1) /\ ~Inside(Next1, read.base) -> Stop("outside")
       [] IsFile(Next1) /\ Inside(Next1, read.base) /\ onDisk[Next1].holds = "image" -> Noted("image")
       [] IsFile(Next1) /\ Inside(Next1, read.base) /\ onDisk[Next1].holds # "image"
            /\ onDisk[Next1].size > read.left -> Noted("oversize")
       [] OTHER -> Opened({read.base})
  /\ SameTree

\* resolve_in_workspace, and a project's own context file: one that is missing is
\* no error.
CheckView ==
  /\ Ready({"view", "rules"})
  /\ CASE Next1 \notin Files /\ read.kind = "rules" ->
            read' = [read EXCEPT !.names = Tail(@)]
       [] Next1 \notin Files /\ read.kind = "view" -> Stop("not a file")
       [] Next1 \in Files /\ ~Inside(Next1, read.base) -> Stop("outside")
       [] OTHER -> Opened({read.base})
  /\ SameTree

\* classify.
ReadInline ==
  LET f == onDisk[read.open] IN
  /\ Reading({"inline"})
  /\ CASE f.holds = "gone" -> Stop("gone")
       [] f.holds = "binary" -> Stop("binary")
       [] f.holds = "image" /\ f.size > MaxImage -> Stop("size")
       [] f.holds = "text" /\ f.size > MaxText -> Stop("size")
       [] OTHER -> Took(f.holds, f.size)
  /\ SameTree

ReadMedia ==
  LET f == onDisk[read.open] IN
  /\ Reading({"media"})
  /\ CASE f.holds = "gone" -> Stop("gone")
       [] f.size > MaxImage -> Stop("size")
       [] OTHER -> Took("bytes", f.size)
  /\ SameTree

\* What was read is looked at again: it may not be what was stat-ed.
ReadConsult ==
  LET f == onDisk[read.open] IN
  /\ Reading({"consult", "sweep"})
  /\ CASE f.holds = "gone" -> Stop("gone")
       [] f.holds = "image" -> Took("image", 0)
       [] f.holds \in {"text", "binary"} /\ f.size > read.left -> Took("oversize", 0)
       [] f.holds = "binary" /\ f.size <= read.left -> Stop("binary")
       [] OTHER -> Took("text", f.size)
  /\ SameTree

ReadView ==
  LET f == onDisk[read.open] IN
  /\ Reading({"view"})
  /\ CASE f.holds = "gone" -> Stop("gone")
       [] f.size > MaxImage -> Stop("size")
       [] f.holds # "image" -> Stop("not an image")
       [] OTHER -> Took("image", f.size)
  /\ SameTree

\* A context file is read whole.
ReadRules ==
  LET f == onDisk[read.open] IN
  /\ Reading({"rules"})
  /\ IF f.holds # "text" THEN Stop("unreadable") ELSE Took("text", f.size)
  /\ SameTree

\* A survey refuses pictures once the list is through.
FinishSweep ==
  /\ Taking({"sweep"}) /\ read.names = << >> /\ read.open = None
  /\ \E n \in DOMAIN read.out : read.out[n].as = "image"
  /\ Stop("image")
  /\ SameTree

BoundaryNext ==
  \/ Start
  \/ \E r \in DOMAIN Registrations, wt \in Places : AddWorktree(r, wt)
  \/ \E wt \in Places, what \in Gits : ReplaceDotGit(wt, what)
  \/ \E r \in DOMAIN Registrations : Forget(r)
  \/ \E f \in Files, size \in Sizes, holds \in {"text", "image", "binary", "gone"} :
       Rewrite(f, size, holds)
  \/ \E kind \in ReadKinds, path \in Paths \cup {None}, names \in Lists :
       Begin(kind, path, names)
  \/ CheckInline \/ CheckMedia \/ CheckConsult \/ CheckView
  \/ ReadInline \/ ReadMedia \/ ReadConsult \/ ReadView \/ ReadRules
  \/ FinishSweep

BoundarySpec == BoundaryInit /\ [][BoundaryNext]_boundaryVars

----
(* Properties *)

\* git and the worktree agree, in a repository that the tree is in and agrees with.
Mutual(wt, main) == \E r \in DOMAIN Registrations :
  Registrations[r] = main /\ registered[r] = wt /\ dotgit[wt] = r
Followed(wt, tree) ==
  \E main \in Dirs :
    /\ tree = main \/ Mutual(tree, main)
    /\ wt = main \/ Mutual(wt, main)
    /\ ~Inside(tree, wt)
Authorised(path) ==
  LET named == {Canon[p] : p \in NamedTrees(config)} IN
  \/ \E tree \in named : Inside(path, tree)
  \/ /\ config.root = None /\ config.infer /\ Inside(path, config.cwd)
     /\ config.cwd # << >> /\ ~Inside(Home, config.cwd)
  \/ config.follow /\ \E tree \in allowed, wt \in Dirs : Inside(path, wt) /\ Followed(wt, tree)

\* No call opens a file, or takes a root to work in, outside the trees the operator
\* named, a launch directory that does not hold the home directory, and the worktrees
\* that git and the worktree itself both vouch for at that moment.
BoundaryHolds ==
  [][/\ read.kind = "none" /\ read'.kind \in {"consult", "sweep", "view", "rules"}
          /\ read'.why = "none" => Authorised(read'.base)
     /\ read'.kind # "none" /\ read'.open # None /\ read.open = None =>
          IF read'.kind \in {"inline", "media"} THEN Authorised(read'.open)
                                               ELSE Inside(read'.open, read.base)]_boundaryVars

\* The trees the config resource lists are the trees a call is served from.
ListedIsServed ==
  Running => \A d \in Dirs :
    (Containing(d) # {}) <=> \E tree \in allowed \cup FollowedWorktrees : Inside(d, tree)

InlinedBytes ==
  LET sum[n \in 0..Len(read.out)] == IF n = 0 THEN 0 ELSE sum[n - 1] + read.out[n].size
  IN sum[Len(read.out)]

\* A consult inlines no more than its budget and a survey nothing, whatever becomes
\* of a file between its being measured and its being read.
InlinedFits ==
  read.kind \in {"consult", "sweep"} =>
    InlinedBytes <= (IF read.kind = "consult" THEN Budget ELSE 0)

\* Together: no call opens a file, or works in a root, outside the trees the operator
\* named and the worktrees vouched for; the trees listed are the trees served; and a
\* consult inlines no more than its budget.
TreesHold == BoundaryHolds /\ [](ListedIsServed /\ InlinedFits)
=============================================================================

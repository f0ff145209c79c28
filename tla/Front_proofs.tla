---------------------------- MODULE Front_proofs ----------------------------
(***************************************************************************)
(* Proofs about the doors of kaibo: the boundary of the file tools           *)
(* (Boundary), for every tree of directories, configuration and set of       *)
(* worktrees; decide (Decide), for all questions and limits; generate        *)
(* (Generate), for every provider, answer and store; the lanes of a batch    *)
(* (BatchLanes), for any number of prompts; the settings (Layers); and the    *)
(* casts, with what a call on one sends (Casts).                             *)
(***************************************************************************)
EXTENDS Boundary, Decide, Generate, BatchLanes, Layers, Casts, SequenceTheorems, FiniteSums, TLAPS

-----------------------------------------------------------------------------
(* Paths. *)

LEMMA PrefixIsPointwise ==
  ASSUME NEW a \in Seq(STRING), NEW b \in Seq(STRING)
  PROVE  IsPrefix(a, b) <=> Len(a) <= Len(b) /\ \A i \in 1..Len(a) : a[i] = b[i]
<1>1. Len(a) \in Nat /\ Len(b) \in Nat
  BY LenProperties
<1>2. CASE Len(a) <= Len(b)
  <2>1. /\ SubSeq(a, 1, Len(a)) \in Seq(STRING) /\ Len(SubSeq(a, 1, Len(a))) = Len(a)
        /\ \A i \in 1..Len(a) : SubSeq(a, 1, Len(a))[i] = a[i]
    BY <1>1
  <2>2. /\ SubSeq(b, 1, Len(a)) \in Seq(STRING) /\ Len(SubSeq(b, 1, Len(a))) = Len(a)
        /\ \A i \in 1..Len(a) : SubSeq(b, 1, Len(a))[i] = b[i]
    BY <1>1, <1>2
  <2>3. SubSeq(a, 1, Len(a)) = SubSeq(b, 1, Len(a)) <=> \A i \in 1..Len(a) : a[i] = b[i]
    BY <2>1, <2>2, SeqEqual
  <2>4. QED
    BY <1>2, <2>3 DEF IsPrefix
<1>3. QED
  BY <1>1, <1>2 DEF IsPrefix

\* What is in a tree that is in another is in the other.
LEMMA InsideIsTransitive ==
  ASSUME NEW a \in Seq(STRING), NEW b \in Seq(STRING), NEW c \in Seq(STRING),
         Inside(a, b), Inside(b, c)
  PROVE  Inside(a, c)
<1>1. Len(c) <= Len(b) /\ \A i \in 1..Len(c) : c[i] = b[i]
  BY PrefixIsPointwise DEF Inside
<1>2. Len(b) <= Len(a) /\ \A i \in 1..Len(b) : b[i] = a[i]
  BY PrefixIsPointwise DEF Inside
<1>3. Len(a) \in Nat /\ Len(b) \in Nat /\ Len(c) \in Nat
  BY LenProperties
<1>4. Len(c) <= Len(a) /\ \A i \in 1..Len(c) : c[i] = a[i]
  BY <1>1, <1>2, <1>3
<1>5. QED
  BY <1>4, PrefixIsPointwise DEF Inside

-----------------------------------------------------------------------------
(* The trees. *)

Named == {Canon[p] : p \in NamedTrees(config)}

\* A tree is allowed because it was named, or was adopted with cause.
Granted(tree) ==
  \/ tree \in Named
  \/ /\ config.root = None /\ config.infer /\ tree = config.cwd
     /\ (\E t \in Named \cap Dirs : Inside(tree, t)) \/ ~HoldsHome(tree)

Held == {"text", "image", "binary", "gone"}

TreesInv ==
  /\ config \in Configs /\ allowed \subseteq Dirs
  /\ \A tree \in allowed : Granted(tree)
  /\ root.at = "set" => root.path \in Dirs /\ \E tree \in allowed : Inside(root.path, tree)
  /\ onDisk \in [Files -> [size : Nat, holds : Held]]

LEMMA TreesInit == BoundaryInit => TreesInv
<1> SUFFICES ASSUME BoundaryInit PROVE TreesInv
  OBVIOUS
<1>1. config \in Configs /\ allowed = {} /\ root.at = "starting"
  BY DEF BoundaryInit
<1>2. onDisk \in [Files -> [size : Nat, holds : Held]]
  <2>1. [size |-> 1, holds |-> "text"] \in [size : Nat, holds : Held]
    BY DEF Held
  <2>2. QED
    BY <2>1 DEF BoundaryInit
<1>3. QED
  BY <1>1, <1>2 DEF TreesInv

LEMMA InsideItself == ASSUME NEW d \in Dirs PROVE Inside(d, d)
BY PathsAssumption, PrefixIsPointwise, LenProperties DEF Inside

LEMMA StartGrants == ASSUME TreesInv, Start PROVE TreesInv'
<1> DEFINE cwd == config.cwd
           within == \E tree \in Named : Inside(cwd, tree)
           adopt == within \/ ~HoldsHome(cwd)
           refused == ~(Named \subseteq Dirs)
<1>1. /\ root' = CASE refused -> [at |-> "refused"]
                   [] ~refused /\ config.root # None ->
                        [at |-> "set", path |-> Canon[config.root], inferred |-> FALSE]
                   [] ~refused /\ config.root = None /\ config.infer /\ adopt ->
                        [at |-> "set", path |-> cwd, inferred |-> TRUE]
                   [] OTHER -> [at |-> "unset"]
      /\ allowed' = IF refused THEN {}
                    ELSE Named \cup IF root'.at = "set" /\ root'.inferred /\ ~within
                                      THEN {cwd} ELSE {}
      /\ UNCHANGED <<config, dotgit, registered, onDisk, read, changes>>
  BY DEF Start, Named
<1>2. Named' = Named
  BY <1>1 DEF Named, NamedTrees
<1>3. cwd \in Dirs /\ config \in Configs
  BY PathsAssumption DEF TreesInv
<1>4. onDisk' \in [Files -> [size : Nat, holds : Held]] /\ config' \in Configs
  BY <1>1, <1>3 DEF TreesInv
<1>5. CASE refused
  <2>1. allowed' = {} /\ root'.at = "refused"
    BY <1>1, <1>5
  <2>2. QED
    BY <1>4, <2>1 DEF TreesInv
<1>6. CASE ~refused /\ config.root # None
  <2>1. Canon[config.root] \in Named
    BY <1>6 DEF Named, NamedTrees
  <2>2. allowed' = Named /\ root'.path = Canon[config.root]
    BY <1>1, <1>6
  <2>3. root'.path \in Dirs /\ Inside(root'.path, root'.path)
    BY <1>6, <2>1, <2>2, InsideItself
  <2>4. QED
    BY <1>2, <1>4, <1>6, <2>1, <2>2, <2>3 DEF TreesInv, Granted, Inside
<1>7. CASE ~refused /\ config.root = None /\ config.infer /\ adopt
  <2>1. root'.path = cwd /\ allowed' = IF within THEN Named ELSE Named \cup {cwd}
    BY <1>1, <1>7
  <2>2. \A tree \in allowed' : Granted(tree)'
    BY <1>1, <1>2, <1>7, <2>1 DEF Granted, HoldsHome, Inside
  <2>3. \E tree \in allowed' : Inside(cwd, tree)
    BY <1>3, <2>1, InsideItself
  <2>4. QED
    BY <1>3, <1>4, <1>7, <2>1, <2>2, <2>3 DEF TreesInv, Inside
<1>8. CASE ~refused /\ config.root = None /\ ~(config.infer /\ adopt)
  <2>1. allowed' = Named /\ root'.at = "unset"
    BY <1>1, <1>8
  <2>2. QED
    BY <1>2, <1>4, <1>8, <2>1 DEF TreesInv, Granted
<1>9. QED
  BY <1>5, <1>6, <1>7, <1>8

LEMMA FilesChange ==
  ASSUME TreesInv, NEW f \in Files, NEW size \in Sizes,
         NEW holds \in {"text", "image", "binary", "gone"}, Rewrite(f, size, holds)
  PROVE  TreesInv'
<1>1. /\ UNCHANGED <<config, allowed, root>>
      /\ onDisk' = [onDisk EXCEPT ![f] = [size |-> size, holds |-> holds]]
  BY DEF Rewrite
<1>2. onDisk' \in [Files -> [size : Nat, holds : Held]]
  <2>1. [size |-> size, holds |-> holds] \in [size : Nat, holds : Held]
    BY SizesAssumption DEF Held
  <2>2. QED
    BY <1>1, <2>1 DEF TreesInv
<1>3. QED
  BY <1>1, <1>2 DEF TreesInv, Granted, Named, NamedTrees

LEMMA TreesStep == TreesInv /\ [BoundaryNext]_boundaryVars => TreesInv'
<1> SUFFICES ASSUME TreesInv, [BoundaryNext]_boundaryVars PROVE TreesInv'
  OBVIOUS
<1>1. ASSUME UNCHANGED <<config, allowed, root, onDisk>> PROVE TreesInv'
  BY <1>1 DEF TreesInv, Granted, Named, NamedTrees
<1>2. CASE Start
  BY <1>2, StartGrants
<1>3. CASE \E f \in Files, size \in Sizes, holds \in {"text", "image", "binary", "gone"} :
             Rewrite(f, size, holds)
  BY <1>3, FilesChange
<1>4. CASE \/ \E r \in DOMAIN Registrations, wt \in Places : AddWorktree(r, wt)
           \/ \E wt \in Places, what \in Gits : ReplaceDotGit(wt, what)
           \/ \E r \in DOMAIN Registrations : Forget(r)
  BY <1>1, <1>4 DEF AddWorktree, ReplaceDotGit, Forget
<1>5. CASE \E kind \in ReadKinds, path \in Paths \cup {None}, names \in Lists :
             Begin(kind, path, names)
  BY <1>1, <1>5 DEF Begin
<1>6. CASE \/ CheckInline \/ CheckMedia \/ CheckConsult \/ CheckView
           \/ ReadInline \/ ReadMedia \/ ReadConsult \/ ReadView \/ ReadRules
           \/ FinishSweep
  BY <1>1, <1>6 DEF CheckInline, CheckMedia, CheckConsult, CheckView, ReadInline, ReadMedia,
                    ReadConsult, ReadView, ReadRules, FinishSweep, SameTree
<1>7. CASE UNCHANGED boundaryVars
  BY <1>1, <1>7 DEF boundaryVars
<1>8. QED
  BY <1>2, <1>3, <1>4, <1>5, <1>6, <1>7 DEF BoundaryNext

-----------------------------------------------------------------------------
(* Worktrees: those git and the worktree both vouch for. *)

LEMMA VouchedIsMutual ==
  ASSUME NEW common \in Dirs, NEW wt \in Vouched(common)
  PROVE  wt \in Dirs /\ (wt = common \/ Mutual(wt, common))
<1>1. CASE wt = common
  BY <1>1
<1>2. CASE wt # common
  <2>1. PICK q \in DOMAIN Registrations :
          /\ wt = registered[q] /\ Registrations[q] = common
          /\ registered[q] \in Dirs /\ dotgit[registered[q]] = q
    BY <1>2 DEF Vouched
  <2>2. QED
    BY <2>1 DEF Mutual
<1>3. QED
  BY <1>1, <1>2

LEMMA ReachableIsFollowed ==
  ASSUME NEW tree \in Dirs, NEW wt \in WorktreesReachableFrom(tree)
  PROVE  wt \in Dirs /\ (wt = tree \/ Followed(wt, tree))
<1> DEFINE common == CommonGitDir(tree)
<1>1. /\ common # None /\ tree \in Vouched(common) /\ wt \in Vouched(common)
      /\ wt = tree \/ ~Inside(tree, wt)
  BY DEF WorktreesReachableFrom
<1>2. common \in Dirs
  <2>1. CASE dotgit[tree] = "dir" /\ dotgit[tree] \notin DOMAIN Registrations
    BY <2>1 DEF CommonGitDir
  <2>2. CASE dotgit[tree] \in DOMAIN Registrations
    BY <2>2, PathsAssumption DEF CommonGitDir
  <2>3. CASE dotgit[tree] # "dir" /\ dotgit[tree] \notin DOMAIN Registrations
    BY <1>1, <2>3 DEF CommonGitDir
  <2>4. QED
    BY <2>1, <2>2, <2>3
<1> HIDE DEF common
<1>3. /\ tree = common \/ Mutual(tree, common)
      /\ wt \in Dirs /\ (wt = common \/ Mutual(wt, common))
  BY <1>1, <1>2, VouchedIsMutual
<1>4. QED
  BY <1>1, <1>2, <1>3 DEF Followed

\* What a tree served contains is the operator's, the launch directory's or a followed
\* worktree's.
LEMMA ContainedIsAuthorised ==
  ASSUME TreesInv, NEW path \in Dirs \cup Files, Containing(path) # {}
  PROVE  Authorised(path)
<1>1. path \in Seq(STRING) /\ Dirs \subseteq Seq(STRING)
  BY PathsAssumption
<1>2. ASSUME NEW tree \in allowed, Inside(path, tree) PROVE Authorised(path)
  <2>1. tree \in Dirs /\ Granted(tree)
    BY <1>2 DEF TreesInv
  <2>2. CASE tree \in Named
    BY <1>2, <2>2 DEF Authorised, Named
  <2>3. CASE /\ config.root = None /\ config.infer /\ tree = config.cwd /\ ~HoldsHome(tree)
    BY <1>2, <2>3 DEF Authorised, HoldsHome
  <2>4. ASSUME NEW t \in Named \cap Dirs, Inside(tree, t) PROVE Authorised(path)
    <3>1. Inside(path, t)
      BY <1>1, <1>2, <2>1, <2>4, InsideIsTransitive
    <3>2. QED
      BY <3>1 DEF Authorised, Named
  <2>5. QED
    BY <2>1, <2>2, <2>3, <2>4 DEF Granted
<1>3. CASE ~\E tree \in allowed : Inside(path, tree)
  <2>1. PICK tree \in allowed : \E wt \in WorktreesReachableFrom(tree) :
          config.follow /\ Inside(path, wt)
    BY <1>3 DEF Containing
  <2> PICK wt \in WorktreesReachableFrom(tree) : config.follow /\ Inside(path, wt)
    BY <2>1
  <2>2. tree \in Dirs
    BY DEF TreesInv
  <2>3. wt # tree
    BY <1>3, <2>1
  <2>4. QED
    BY <2>1, <2>2, <2>3, ReachableIsFollowed DEF Authorised
<1>4. QED
  BY <1>2, <1>3

\* What is listed is what is served.
LEMMA ListedIsServedThen == TreesInv => ListedIsServed
<1> SUFFICES ASSUME TreesInv, NEW d \in Dirs
             PROVE  Containing(d) # {} <=>
                      \E tree \in allowed \cup FollowedWorktrees : Inside(d, tree)
  BY DEF ListedIsServed
<1> DEFINE reached == UNION {WorktreesReachableFrom(tree) : tree \in allowed}
<1>1. allowed \subseteq Dirs /\ reached \subseteq Dirs
  BY ReachableIsFollowed DEF TreesInv
<1>2. Dirs \subseteq Seq(STRING)
  BY PathsAssumption
<1>3. CASE \E tree \in allowed : Inside(d, tree)
  BY <1>3 DEF Containing
<1>4. CASE ~\E tree \in allowed : Inside(d, tree)
  <2>1. Containing(d) = {wt \in (IF config.follow THEN reached ELSE {}) : Inside(d, wt)}
    BY <1>4 DEF Containing
  <2>2. FollowedWorktrees =
          IF config.follow THEN {wt \in reached : \A tree \in allowed : ~Inside(wt, tree)}
                           ELSE {}
    BY DEF FollowedWorktrees
  <2>3. ASSUME NEW wt \in reached, Inside(d, wt), NEW tree \in allowed PROVE ~Inside(wt, tree)
    BY <1>1, <1>2, <1>4, <2>3, InsideIsTransitive
  <2> HIDE DEF reached
  <2>4. QED
    BY <1>4, <2>1, <2>2, <2>3
<1>5. QED
  BY <1>3, <1>4

-----------------------------------------------------------------------------
(* The call that reads. *)

Items == [file : Files, as : Held \cup {"bytes", "oversize"}, size : Nat, from : SUBSET Dirs]
Fields == {"kind", "base", "names", "out", "why", "left", "total", "open", "over"}

\* The running sum of the sizes of the items of l.
IsSum(sum, l) == sum = [n \in 0..Len(l) |-> IF n = 0 THEN 0 ELSE sum[n - 1] + l[n].size]

\* What is left of the budget is what was not inlined.
Spent(out, left, all) ==
  /\ left \in Nat
  /\ \E sum : IsSum(sum, out) /\ sum[Len(out)] \in Nat /\ sum[Len(out)] + left = all

Inlining == {"consult", "sweep"}
Inlinable(kind) == IF kind = "consult" THEN Budget ELSE 0

\* A call that goes on has a root that is a directory, and opened a file.
Rooted(call) ==
  call.why = "none" =>
    /\ call.kind \in {"consult", "sweep", "view", "rules"} => call.base \in Dirs
    /\ call.open # None => call.open \in Files /\ call.over \subseteq Dirs

Call(call) ==
  /\ DOMAIN call = Fields /\ call.kind \in ReadKinds
  /\ call.out \in Seq(Items)
  /\ call.kind \in Inlining => Spent(call.out, call.left, Inlinable(call.kind))
  /\ Rooted(call)

CallInv == read = [kind |-> "none", open |-> None] \/ Call(read)

LEMMA NothingSpent == Spent(<<>>, Budget, Budget) /\ Spent(<<>>, 0, 0)
<1> DEFINE none == [n \in {0} |-> 0]
<1>1. 0..Len(<<>>) = {0}
  OBVIOUS
<1>2. IsSum(none, <<>>)
  BY <1>1 DEF IsSum
<1>3. none[Len(<<>>)] = 0
  OBVIOUS
<1> HIDE DEF none
<1>4. \A n \in Nat : none[Len(<<>>)] \in Nat /\ none[Len(<<>>)] + n = n
  BY <1>3
<1>5. QED
  BY <1>2, <1>4, SizesAssumption DEF Spent

\* A sum is extended by the item that is added.
LEMMA SumGrows ==
  ASSUME NEW l \in Seq(Items), NEW e \in Items, NEW sum, IsSum(sum, l)
  PROVE  \E longer : /\ IsSum(longer, Append(l, e))
                     /\ longer[Len(Append(l, e))] = sum[Len(l)] + e.size
<1> DEFINE m == Append(l, e)
           n == Len(l)
           longer == [i \in 0..n + 1 |-> IF i <= n THEN sum[i] ELSE sum[n] + e.size]
<1>1. /\ n \in Nat /\ Len(m) = n + 1 /\ m[n + 1] = e
      /\ \A i \in 1..n : m[i] = l[i]
  OBVIOUS
<1>2. \A i \in 0..n : sum[i] = IF i = 0 THEN 0 ELSE sum[i - 1] + l[i].size
  BY DEF IsSum
<1> HIDE DEF m, n
<1>3. ASSUME NEW i \in 0..n + 1
      PROVE  longer[i] = IF i = 0 THEN 0 ELSE longer[i - 1] + m[i].size
  <2>1. CASE i = 0
    BY <1>1, <1>2, <2>1
  <2>2. CASE i \in 1..n
    <3>1. longer[i] = sum[i] /\ longer[i - 1] = sum[i - 1] /\ m[i] = l[i]
      BY <1>1, <2>2
    <3>2. sum[i] = sum[i - 1] + l[i].size
      BY <1>1, <1>2, <2>2
    <3>3. QED
      BY <1>1, <2>2, <3>1, <3>2
  <2>3. CASE i = n + 1
    BY <1>1, <2>3
  <2>4. QED
    BY <1>1, <2>1, <2>2, <2>3
<1>4. longer = [i \in 0..Len(m) |-> IF i = 0 THEN 0 ELSE longer[i - 1] + m[i].size]
  <2> HIDE DEF longer
  <2>1. longer = [i \in 0..n + 1 |-> longer[i]]
    BY DEF longer
  <2>2. QED
    BY <1>1, <1>3, <2>1
<1>5. IsSum(longer, m)
  BY <1>4, Zenon DEF IsSum
<1>6. longer[Len(m)] = sum[n] + e.size
  BY <1>1
<1>7. QED
  BY <1>5, <1>6 DEF m, n

\* There is one running sum.
LEMMA SumIsOne ==
  ASSUME NEW l \in Seq(Items), NEW f, IsSum(f, l), NEW g, IsSum(g, l)
  PROVE  f[Len(l)] = g[Len(l)]
<1> DEFINE n == Len(l)
           bad == {i \in 0..n : f[i] # g[i]}
<1>1. n \in Nat
  BY LenProperties
<1>2. /\ \A i \in 0..n : f[i] = IF i = 0 THEN 0 ELSE f[i - 1] + l[i].size
      /\ \A i \in 0..n : g[i] = IF i = 0 THEN 0 ELSE g[i - 1] + l[i].size
  BY DEF IsSum
<1> HIDE DEF n
<1>3. SUFFICES ASSUME bad # {} PROVE FALSE
  BY <1>1 DEF n
<1>4. PICK i \in bad : \A k \in bad : i <= k
  <2>1. bad \subseteq Nat
    BY <1>1
  <2>2. QED
    BY <1>3, <2>1, LeastNumber
<1>5. i # 0
  BY <1>1, <1>2
<1>6. i - 1 \in 0..n /\ i - 1 \notin bad
  BY <1>1, <1>4, <1>5
<1>7. QED
  BY <1>1, <1>2, <1>5, <1>6

\* What is added to a call's answer fits what is left, or is not counted.
LEMMA TakingSpends ==
  ASSUME NEW out \in Seq(Items), NEW left \in Nat, NEW all, Spent(out, left, all),
         NEW e \in Items, NEW size \in 0..left, e.size = size
  PROVE  Spent(Append(out, e), left - size, all)
<1>1. PICK sum : IsSum(sum, out) /\ sum[Len(out)] \in Nat /\ sum[Len(out)] + left = all
  BY DEF Spent
<1>2. PICK longer : /\ IsSum(longer, Append(out, e))
                    /\ longer[Len(Append(out, e))] = sum[Len(out)] + e.size
  BY <1>1, SumGrows
<1>3. left - size \in Nat /\ sum[Len(out)] + e.size \in Nat
      /\ (sum[Len(out)] + e.size) + (left - size) = all
  BY <1>1
<1>4. QED
  BY <1>2, <1>3 DEF Spent

LEMMA InlinedFitsThen == CallInv => InlinedFits
<1> SUFFICES ASSUME CallInv, read.kind \in Inlining
             PROVE  InlinedBytes <= Inlinable(read.kind)
  BY DEF InlinedFits, Inlining, Inlinable
<1> DEFINE out == read.out
<1>1. /\ out \in Seq(Items) /\ Inlinable(read.kind) \in Nat
      /\ Spent(out, read.left, Inlinable(read.kind))
  BY SizesAssumption DEF CallInv, Call, Inlining, Inlinable
<1>2. PICK sum : /\ IsSum(sum, out) /\ sum[Len(out)] \in Nat
                 /\ sum[Len(out)] + read.left = Inlinable(read.kind) /\ read.left \in Nat
  BY <1>1 DEF Spent
<1> DEFINE f == CHOOSE f : IsSum(f, out)
<1>3. IsSum(f, out)
  BY <1>2
<1>4. InlinedBytes = f[Len(out)]
  BY DEF InlinedBytes, IsSum
<1> HIDE DEF f, out
<1>5. f[Len(out)] = sum[Len(out)]
  BY <1>1, <1>2, <1>3, SumIsOne
<1>6. QED
  BY <1>1, <1>2, <1>4, <1>5

-----------------------------------------------------------------------------
(* The steps of a call. *)

\* What a step may do to a call: it goes on or stops, with a file opened or one taken.
Opens(over) ==
  /\ read.open = None /\ Next1 \in Files /\ over \subseteq Dirs
  /\ read'.open = Next1 /\ read'.over = over
  /\ DOMAIN read' = Fields
  /\ read'.kind = read.kind /\ read'.base = read.base /\ read'.why = read.why
  /\ read'.out = read.out /\ read'.left = read.left

LEMMA OpeningKeeps ==
  ASSUME Call(read), read.why = "none", NEW over, Opens(over)
  PROVE  Call(read')
BY DEF Call, Opens, Rooted

\* A call that stops keeps what it has.
LEMMA StoppingKeeps ==
  ASSUME Call(read), NEW why, why # "none", Stop(why)
  PROVE  Call(read')
<1>1. /\ DOMAIN read' = Fields /\ read'.kind = read.kind /\ read'.why = why
      /\ read'.out = read.out /\ read'.left = read.left
  BY DEF Call, Stop, Fields
<1>2. QED
  BY <1>1 DEF Call, Rooted

\* An item is taken: of a text that is inlined, its size is taken from what is left.
Takes(item, left) ==
  /\ read'.out = Append(read.out, item) /\ read'.left = left
  /\ DOMAIN read' = Fields
  /\ read'.kind = read.kind /\ read'.base = read.base /\ read'.why = read.why
  /\ read'.open = None

LEMMA TakingKeeps ==
  ASSUME Call(read), read.why = "none", NEW item \in Items, NEW left, Takes(item, left),
         read.kind \in Inlining => item.size \in 0..read.left /\ left = read.left - item.size
  PROVE  Call(read')
<1>1. read'.out \in Seq(Items)
  BY DEF Call, Takes
<1>2. ASSUME read.kind \in Inlining
      PROVE  Spent(read'.out, read'.left, Inlinable(read.kind))
  <2>1. read.left \in Nat /\ Spent(read.out, read.left, Inlinable(read.kind))
    BY <1>2 DEF Call, Spent
  <2>2. QED
    BY <1>2, <2>1, TakingSpends DEF Call, Takes
<1>3. Rooted(read')
  BY DEF Call, Rooted, Takes
<1>4. QED
  BY <1>1, <1>2, <1>3 DEF Call, Takes

\* Took is that, of the file that is open; Noted of the next.
LEMMA TookTakes ==
  ASSUME Call(read), read.why = "none", read.open # None,
         NEW as \in Held \cup {"bytes", "oversize"}, NEW size \in Nat, Took(as, size),
         read.kind \in Inlining => IF as = "text" THEN size <= read.left ELSE size = 0
  PROVE  Call(read')
<1> DEFINE item == [file |-> read.open, as |-> as, size |-> size, from |-> read.over]
           left == IF as = "text" /\ read.kind \in {"consult", "sweep"}
                     THEN read.left - size ELSE read.left
<1>1. item \in Items
  BY DEF Call, Rooted, Items
<1>2. Takes(item, left)
  BY DEF Took, Takes, Call, Fields
<1>3. read.kind \in Inlining => item.size \in 0..read.left /\ left = read.left - item.size
  <2>1. item.size = size
    OBVIOUS
  <2>2. read.kind \in Inlining => read.left \in Nat
    BY DEF Call, Spent
  <2>3. ASSUME read.kind \in Inlining
        PROVE  size \in 0..read.left /\ left = read.left - size
    <3>1. left = IF as = "text" THEN read.left - size ELSE read.left
      BY <2>3 DEF Inlining
    <3>2. read.left \in Nat
      BY <2>2, <2>3
    <3> HIDE DEF left
    <3>3. CASE as = "text"
      BY <2>3, <3>1, <3>2, <3>3
    <3>4. CASE as # "text"
      BY <2>3, <3>1, <3>2, <3>4
    <3>5. QED
      BY <3>3, <3>4
  <2>4. QED
    BY <2>1, <2>3
<1> HIDE DEF item, left
<1>4. QED
  BY <1>1, <1>2, <1>3, TakingKeeps

LEMMA NotedTakes ==
  ASSUME Call(read), read.why = "none", read.kind \in Inlining, Next1 \in Files,
         NEW as \in Held \cup {"bytes", "oversize"}, Noted(as)
  PROVE  Call(read')
<1> DEFINE item == [file |-> Next1, as |-> as, size |-> 0, from |-> {read.base}]
<1>1. item \in Items
  BY DEF Call, Rooted, Items, Inlining
<1>2. Takes(item, read.left)
  BY DEF Noted, Takes, Call, Fields
<1>3. item.size \in 0..read.left /\ read.left = read.left - item.size
  <2>1. item.size = 0 /\ read.left \in Nat
    BY DEF Call, Spent
  <2> HIDE DEF item
  <2>2. QED
    BY <2>1
<1> HIDE DEF item
<1>4. QED
  BY <1>1, <1>2, <1>3, TakingKeeps

LEMMA BeginCalls ==
  ASSUME TreesInv, NEW kind \in ReadKinds, NEW path \in Paths \cup {None}, NEW names \in Lists,
         Begin(kind, path, names)
  PROVE  /\ Call(read') /\ read'.kind = kind /\ read'.open = None
         /\ kind \in {"consult", "sweep", "view", "rules"} /\ read'.why = "none" =>
              Authorised(read'.base)
<1> DEFINE base == IF path # None THEN Canon[path]
                   ELSE IF root.at = "set" THEN root.path ELSE None
           why == CASE kind \notin {"inline", "media"} /\ RootRefuses(path) -> "root"
                    [] kind \in {"inline", "consult", "sweep"} /\ Len(names) > MaxCount -> "count"
                    [] OTHER -> "none"
<1>1. /\ Running /\ DOMAIN read' = Fields
      /\ read'.kind = kind /\ read'.base = base /\ read'.why = why /\ read'.out = <<>>
      /\ read'.left = (IF kind = "consult" THEN Budget ELSE 0) /\ read'.open = None
  BY DEF Begin, Fields
<1>2. ASSUME kind \in {"consult", "sweep", "view", "rules"}, why = "none"
      PROVE  base \in Dirs /\ Authorised(base)
  <2>1. ~RootRefuses(path)
    BY <1>2
  <2>2. CASE path # None
    BY <2>1, <2>2, ContainedIsAuthorised DEF RootRefuses
  <2>3. CASE path = None
    <3>1. root.at = "set"
      BY <1>1, <2>1, <2>3 DEF RootRefuses, Running
    <3>2. base = root.path /\ base \in Dirs /\ \E tree \in allowed : Inside(base, tree)
      BY <2>3, <3>1 DEF TreesInv
    <3>3. Containing(base) # {}
      BY <3>2 DEF Containing
    <3>4. QED
      BY <3>2, <3>3, ContainedIsAuthorised
  <2>4. QED
    BY <2>2, <2>3
<1> HIDE DEF base, why
<1>3. <<>> \in Seq(Items)
  OBVIOUS
<1>4. kind \in Inlining => Spent(<<>>, read'.left, Inlinable(kind))
  BY <1>1, NothingSpent DEF Inlining, Inlinable
<1>5. Call(read')
  BY <1>1, <1>2, <1>3, <1>4 DEF Call, Rooted
<1>6. QED
  BY <1>1, <1>2, <1>5

\* The look before a file is opened: it is opened in the boundary of its kind of read.
Fits(kind, entry, base) ==
  IF kind \in {"inline", "media"} THEN Authorised(entry) ELSE Inside(entry, base)

LEMMA OpenedOpens ==
  ASSUME Call(read), read.open = None, Next1 \in Files, NEW over \in SUBSET Dirs, Opened(over)
  PROVE  Opens(over)
BY DEF Opened, Opens, Call, Fields

LEMMA ContainingIsDirs == ASSUME TreesInv, NEW path PROVE Containing(path) \subseteq Dirs
<1>1. \A tree \in allowed : WorktreesReachableFrom(tree) \subseteq Dirs
  BY ReachableIsFollowed DEF TreesInv
<1>2. QED
  BY <1>1 DEF Containing, TreesInv

LEMMA CheckKeeps ==
  ASSUME TreesInv, CallInv, CheckInline \/ CheckMedia \/ CheckConsult \/ CheckView
  PROVE  /\ Call(read')
         /\ read'.open # None => Fits(read'.kind, read'.open, read.base)
<1>1. /\ read.kind \in ReadKinds /\ read.why = "none" /\ read.open = None /\ Call(read)
  <2>1. /\ read.kind \in {"inline", "media", "consult", "sweep", "view", "rules"}
        /\ read.why = "none" /\ read.open = None
    BY DEF CheckInline, CheckMedia, CheckConsult, CheckView, Ready, Taking
  <2>2. read # [kind |-> "none", open |-> None]
    BY <2>1
  <2>3. QED
    BY <2>1, <2>2 DEF CallInv, ReadKinds
<1>2. ASSUME NEW why, why # "none", Stop(why)
      PROVE  Call(read') /\ read'.open = None
  <2>1. read'.open = None
    BY <1>1, <1>2 DEF Stop, Call, Fields
  <2>2. QED
    BY <1>1, <1>2, <2>1, StoppingKeeps
<1>3. ASSUME NEW over \in SUBSET Dirs, Next1 \in Files, Opened(over), Fits(read.kind, Next1, read.base)
      PROVE  Call(read') /\ Fits(read'.kind, read'.open, read.base)
  <2>1. Opens(over)
    BY <1>1, <1>3, OpenedOpens
  <2>2. QED
    BY <1>1, <1>3, <2>1, OpeningKeeps DEF Opens
<1>4. CASE CheckInline
  <2>1. read.kind = "inline"
    BY <1>4 DEF CheckInline, Ready, Taking
  <2>2. CASE ~IsFile(Next1)
    BY <1>2, <1>4, <2>2 DEF CheckInline
  <2>3. CASE IsFile(Next1) /\ Containing(Next1) = {}
    BY <1>2, <1>4, <2>3 DEF CheckInline
  <2>4. CASE IsFile(Next1) /\ Containing(Next1) # {}
    <3>1. Next1 \in Files /\ Authorised(Next1)
      BY <2>4, ContainedIsAuthorised DEF IsFile
    <3>2. CASE Stop("size")
      BY <1>2, <3>2
    <3>3. CASE read' = [read EXCEPT !.open = Next1, !.over = Containing(Next1),
                                    !.total = @ + onDisk[Next1].size]
      <4>1. Opens(Containing(Next1))
        BY <1>1, <3>1, <3>3, ContainingIsDirs DEF Opens, Call, Fields
      <4>2. QED
        BY <1>1, <2>1, <3>1, <4>1, OpeningKeeps DEF Opens, Fits
    <3>4. QED
      BY <1>4, <2>4, <3>2, <3>3 DEF CheckInline
  <2>5. QED
    BY <2>2, <2>3, <2>4
<1>5. CASE CheckMedia
  <2>1. read.kind = "media"
    BY <1>5 DEF CheckMedia, Ready, Taking
  <2>2. CASE ~IsFile(Next1)
    BY <1>2, <1>5, <2>2 DEF CheckMedia
  <2>3. CASE IsFile(Next1) /\ Containing(Next1) = {}
    BY <1>2, <1>5, <2>3 DEF CheckMedia
  <2>4. CASE IsFile(Next1) /\ Containing(Next1) # {}
    <3>1. Next1 \in Files /\ Authorised(Next1) /\ Fits(read.kind, Next1, read.base)
      BY <2>1, <2>4, ContainedIsAuthorised DEF IsFile, Fits
    <3>2. Stop("size") \/ Opened(Containing(Next1))
      BY <1>5, <2>4 DEF CheckMedia
    <3>3. QED
      BY <1>2, <1>3, <3>1, <3>2, ContainingIsDirs
  <2>5. QED
    BY <2>2, <2>3, <2>4
<1>6. CASE CheckConsult
  <2>1. read.kind \in Inlining /\ read.base \in Dirs
    BY <1>1, <1>6 DEF CheckConsult, Ready, Taking, Inlining, Call, Rooted
  <2>2. CASE ~IsFile(Next1)
    BY <1>2, <1>6, <2>2 DEF CheckConsult
  <2>3. CASE IsFile(Next1) /\ ~Inside(Next1, read.base)
    BY <1>2, <1>6, <2>3 DEF CheckConsult
  <2>4. CASE IsFile(Next1) /\ Inside(Next1, read.base)
    <3>1. Next1 \in Files /\ Fits(read.kind, Next1, read.base)
      BY <2>1, <2>4 DEF IsFile, Fits, Inlining
    <3>2. Noted("image") \/ Noted("oversize") \/ Opened({read.base})
      BY <1>6, <2>4 DEF CheckConsult
    <3>3. ASSUME NEW as \in Held \cup {"bytes", "oversize"}, Noted(as) PROVE Call(read') /\ read'.open = None
      <4>1. Call(read')
        BY <1>1, <2>1, <3>1, <3>3, NotedTakes
      <4>2. read'.open = None
        BY <1>1, <3>3 DEF Noted, Call, Fields
      <4>3. QED
        BY <4>1, <4>2
    <3>4. QED
      BY <1>3, <2>1, <3>1, <3>2, <3>3 DEF Held
  <2>5. QED
    BY <2>2, <2>3, <2>4
<1>7. CASE CheckView
  <2>1. read.kind \in {"view", "rules"} /\ read.base \in Dirs
    BY <1>1, <1>7 DEF CheckView, Ready, Taking, Call, Rooted
  <2>2. CASE Next1 \notin Files /\ read.kind = "rules"
    <3>1. read' = [read EXCEPT !.names = Tail(@)]
      BY <1>7, <2>2 DEF CheckView
    <3>2. QED
      BY <1>1, <2>1, <3>1 DEF Call, Fields, Rooted, Inlining
  <2>3. CASE Next1 \notin Files /\ read.kind = "view"
    BY <1>2, <1>7, <2>3 DEF CheckView
  <2>4. CASE Next1 \in Files /\ ~Inside(Next1, read.base)
    BY <1>2, <1>7, <2>4 DEF CheckView
  <2>5. CASE Next1 \in Files /\ Inside(Next1, read.base)
    <3>1. Opened({read.base}) /\ Fits(read.kind, Next1, read.base)
      BY <1>7, <2>1, <2>5 DEF CheckView, Fits
    <3>2. QED
      BY <1>3, <2>1, <2>5, <3>1
  <2>6. QED
    BY <2>1, <2>2, <2>3, <2>4, <2>5
<1>8. QED
  BY <1>4, <1>5, <1>6, <1>7

\* The look at what was read.
LEMMA ReadKeeps ==
  ASSUME TreesInv, CallInv, ReadInline \/ ReadMedia \/ ReadConsult \/ ReadView \/ ReadRules
  PROVE  Call(read')
<1> DEFINE f == onDisk[read.open]
<1>1. /\ read.kind \in ReadKinds /\ read.why = "none" /\ read.open # None /\ Call(read)
  <2>1. /\ read.kind \in {"inline", "media", "consult", "sweep", "view", "rules"}
        /\ read.why = "none" /\ read.open # None
    BY DEF ReadInline, ReadMedia, ReadConsult, ReadView, ReadRules, Reading, Taking
  <2>2. read # [kind |-> "none", open |-> None]
    BY <2>1
  <2>3. QED
    BY <2>1, <2>2 DEF CallInv, ReadKinds
<1>2. f.size \in Nat /\ f.holds \in Held
  BY <1>1 DEF Call, Rooted, TreesInv
<1>3. ASSUME NEW why, why # "none", Stop(why) PROVE Call(read')
  BY <1>1, <1>3, StoppingKeeps
<1>4. ASSUME NEW as \in Held \cup {"bytes", "oversize"}, NEW size \in Nat, Took(as, size),
             read.kind \in Inlining => IF as = "text" THEN size <= read.left ELSE size = 0
      PROVE  Call(read')
  BY <1>1, <1>4, TookTakes
<1> HIDE DEF f
<1>5. CASE ReadInline
  <2>1. read.kind \notin Inlining
    BY <1>5 DEF ReadInline, Reading, Taking, Inlining
  <2>2. Stop("gone") \/ Stop("binary") \/ Stop("size") \/ Took(f.holds, f.size)
    BY <1>2, <1>5 DEF ReadInline, f, Held
  <2>3. QED
    BY <1>2, <1>3, <1>4, <2>1, <2>2
<1>6. CASE ReadMedia
  <2>1. read.kind \notin Inlining
    BY <1>6 DEF ReadMedia, Reading, Taking, Inlining
  <2>2. Stop("gone") \/ Stop("size") \/ Took("bytes", f.size)
    BY <1>2, <1>6 DEF ReadMedia, f
  <2>3. QED
    BY <1>2, <1>3, <1>4, <2>1, <2>2
<1>7. CASE ReadConsult
  <2>1. read.left \in Nat
    BY <1>1, <1>7 DEF ReadConsult, Reading, Taking, Inlining, Call, Spent
  <2>2. \/ Stop("gone") \/ Stop("binary") \/ Took("image", 0) \/ Took("oversize", 0)
        \/ f.size <= read.left /\ Took("text", f.size)
    BY <1>2, <1>7, <2>1 DEF ReadConsult, f, Held
  <2>3. QED
    BY <1>2, <1>3, <1>4, <2>2 DEF Held
<1>8. CASE ReadView
  <2>1. read.kind \notin Inlining
    BY <1>8 DEF ReadView, Reading, Taking, Inlining
  <2>2. Stop("gone") \/ Stop("size") \/ Stop("not an image") \/ Took("image", f.size)
    BY <1>2, <1>8 DEF ReadView, f
  <2>3. QED
    BY <1>2, <1>3, <1>4, <2>1, <2>2 DEF Held
<1>9. CASE ReadRules
  <2>1. read.kind \notin Inlining
    BY <1>9 DEF ReadRules, Reading, Taking, Inlining
  <2>2. Stop("unreadable") \/ Took("text", f.size)
    BY <1>9 DEF ReadRules, f
  <2>3. QED
    BY <1>2, <1>3, <1>4, <2>1, <2>2 DEF Held
<1>10. QED
  BY <1>5, <1>6, <1>7, <1>8, <1>9

\* What a step of the boundary shows, in the words of BoundaryHolds.
StepHolds ==
  /\ read.kind = "none" /\ read'.kind \in {"consult", "sweep", "view", "rules"}
       /\ read'.why = "none" => Authorised(read'.base)
  /\ read'.kind # "none" /\ read'.open # None /\ read.open = None =>
       IF read'.kind \in {"inline", "media"} THEN Authorised(read'.open)
                                            ELSE Inside(read'.open, read.base)

LEMMA CallStep ==
  ASSUME TreesInv, CallInv, [BoundaryNext]_boundaryVars
  PROVE  CallInv' /\ [StepHolds]_boundaryVars
<1>1. ASSUME UNCHANGED read PROVE CallInv' /\ StepHolds
  <2>1. CallInv'
    BY <1>1 DEF CallInv
  <2>2. StepHolds
    BY <1>1 DEF StepHolds
  <2>3. QED
    BY <2>1, <2>2
<1>2. CASE \/ Start
           \/ \E r \in DOMAIN Registrations, wt \in Places : AddWorktree(r, wt)
           \/ \E wt \in Places, what \in Gits : ReplaceDotGit(wt, what)
           \/ \E r \in DOMAIN Registrations : Forget(r)
           \/ \E f \in Files, size \in Sizes, holds \in {"text", "image", "binary", "gone"} :
                Rewrite(f, size, holds)
  BY <1>1, <1>2 DEF Start, AddWorktree, ReplaceDotGit, Forget, Rewrite
<1>3. ASSUME NEW kind \in ReadKinds, NEW path \in Paths \cup {None}, NEW names \in Lists,
             Begin(kind, path, names)
      PROVE  CallInv' /\ StepHolds
  <2>1. /\ Call(read') /\ read'.kind = kind /\ read'.open = None
        /\ kind \in {"consult", "sweep", "view", "rules"} /\ read'.why = "none" =>
             Authorised(read'.base)
    BY <1>3, BeginCalls
  <2>2. CallInv'
    BY <2>1 DEF CallInv, Call, Rooted
  <2>3. QED
    BY <2>1, <2>2 DEF StepHolds
<1>4. CASE CheckInline \/ CheckMedia \/ CheckConsult \/ CheckView
  <2>1. /\ Call(read')
        /\ read'.open # None => Fits(read'.kind, read'.open, read.base)
    BY <1>4, CheckKeeps
  <2>2. read.kind # "none"
    BY <1>4 DEF CheckInline, CheckMedia, CheckConsult, CheckView, Ready, Taking
  <2>3. CallInv'
    BY <2>1 DEF CallInv, Call, Rooted
  <2>4. QED
    BY <2>1, <2>2, <2>3 DEF StepHolds, Fits
<1>5. CASE ReadInline \/ ReadMedia \/ ReadConsult \/ ReadView \/ ReadRules
  <2>1. Call(read')
    BY <1>5, ReadKeeps
  <2>2. read.kind # "none" /\ read.open # None
    BY <1>5 DEF ReadInline, ReadMedia, ReadConsult, ReadView, ReadRules, Reading, Taking
  <2>3. CallInv'
    BY <2>1 DEF CallInv, Call, Rooted
  <2>4. QED
    BY <2>2, <2>3 DEF StepHolds
<1>6. CASE FinishSweep
  <2>1. read.kind = "sweep" /\ read.open = None /\ Stop("image")
    BY <1>6 DEF FinishSweep, Taking
  <2>2. Call(read)
    BY <2>1 DEF CallInv
  <2>3. Call(read') /\ read'.open = None
    BY <2>1, <2>2, StoppingKeeps DEF Stop, Call, Fields
  <2>4. CallInv'
    BY <2>3 DEF CallInv, Call, Rooted
  <2>5. QED
    BY <2>1, <2>3, <2>4 DEF StepHolds
<1>7. CASE UNCHANGED boundaryVars
  BY <1>1, <1>7 DEF boundaryVars
<1>8. QED
  BY <1>2, <1>3, <1>4, <1>5, <1>6, <1>7 DEF BoundaryNext

-----------------------------------------------------------------------------
\* Whatever becomes of the worktrees and the files meanwhile, a call opens nothing and
\* works nowhere but in the trees the operator named, the launch directory he lets kaibo
\* adopt and the worktrees both sides vouch for at that moment; the config resource
\* lists the trees that are served; and a consult inlines no more than its budget.
THEOREM TreesAlwaysHold == BoundarySpec => TreesHold
<1>1. BoundaryInit => TreesInv /\ CallInv
  BY TreesInit DEF BoundaryInit, CallInv
<1>2. TreesInv /\ CallInv /\ [BoundaryNext]_boundaryVars =>
        [/\ read.kind = "none" /\ read'.kind \in {"consult", "sweep", "view", "rules"}
              /\ read'.why = "none" => Authorised(read'.base)
         /\ read'.kind # "none" /\ read'.open # None /\ read.open = None =>
              IF read'.kind \in {"inline", "media"} THEN Authorised(read'.open)
                                                   ELSE Inside(read'.open, read.base)]_boundaryVars
  BY CallStep DEF StepHolds
<1>3. TreesInv /\ CallInv /\ [BoundaryNext]_boundaryVars => CallInv'
  BY CallStep
<1>4. TreesInv /\ CallInv => ListedIsServed /\ InlinedFits
  BY ListedIsServedThen, InlinedFitsThen
<1>5. QED
  BY <1>1, <1>2, <1>3, <1>4, TreesStep, PTL DEF BoundarySpec, TreesHold, BoundaryHolds

-----------------------------------------------------------------------------
(* decide *)

\* What went out is what was asked, once every question was valid; and answers are told
\* only of a reply that was held against it.
DecideInv ==
  /\ IF sent.questions = NoQuestions
       THEN stage \in {"asked", "ended"} /\ result \in {"none", "no questions", "invalid question"}
       ELSE /\ sent.questions = asked /\ sent.deny = deny /\ stage # "asked"
            /\ \A i \in DOMAIN asked : Validate(asked[i])
  /\ result = "answers" => stage = "ended" /\ CheckAgainst(modelReply, asked)

LEMMA DecideStep == DecideInv /\ [DecideNext]_decideVars => DecideInv'
<1> SUFFICES ASSUME DecideInv, [DecideNext]_decideVars PROVE DecideInv'
  OBVIOUS
<1>1. CASE SendQuestions
  <2>1. stage = "asked" /\ sent.questions = NoQuestions /\ result # "answers"
    BY <1>1 DEF SendQuestions, DecideInv
  <2>2. UNCHANGED <<asked, deny, modelReply>>
    BY <1>1 DEF SendQuestions
  <2>3. CASE /\ DOMAIN asked # {} /\ \A i \in DOMAIN asked : Validate(asked[i])
    <3>1. /\ sent' = [questions |-> asked, deny |-> deny]
          /\ stage' = "waiting" /\ result' = result
      BY <1>1, <2>3 DEF SendQuestions
    <3>2. asked # NoQuestions
      BY <2>3 DEF NoQuestions
    <3>3. QED
      BY <2>1, <2>2, <2>3, <3>1, <3>2 DEF DecideInv, Validate
  <2>4. CASE DOMAIN asked = {} \/ \E i \in DOMAIN asked : ~Validate(asked[i])
    <3>1. stage' = "ended" /\ result' \in {"no questions", "invalid question"} /\ sent' = sent
      BY <1>1, <2>4 DEF SendQuestions, Finish
    <3>2. QED
      BY <2>1, <2>2, <3>1 DEF DecideInv, NoQuestions
  <2>5. QED
    BY <2>3, <2>4
<1>2. CASE Reply
  BY <1>2 DEF Reply, DecideInv, NoQuestions, Validate
<1>3. CASE Fail
  BY <1>3 DEF Fail, Finish, DecideInv, NoQuestions, Validate
<1>4. CASE Decide
  <2>1. /\ stage = "replied" /\ sent.questions = asked
        /\ UNCHANGED <<asked, deny, sent, modelReply>>
    BY <1>4 DEF Decide, DecideInv
  <2>2. /\ stage' = "ended"
        /\ result' = "answers" => CheckAgainst(modelReply, asked)
        /\ result' \in {"answers", "mismatch"}
    BY <1>4, <2>1 DEF Decide, Finish
  <2>3. /\ sent.questions # NoQuestions /\ sent.deny = deny
        /\ \A i \in DOMAIN asked : Validate(asked[i])
    BY <2>1 DEF DecideInv
  <2>4. /\ sent'.questions # NoQuestions' /\ sent'.questions = asked' /\ sent'.deny = deny'
        /\ (\A i \in DOMAIN asked : Validate(asked[i]))'
    BY <2>1, <2>3 DEF NoQuestions
  <2>5. result' = "answers" => CheckAgainst(modelReply', asked')
    BY <2>1, <2>2
  <2>6. QED
    BY <2>1, <2>2, <2>4, <2>5, Zenon DEF DecideInv
<1>5. CASE UNCHANGED decideVars
  BY <1>5 DEF decideVars, DecideInv, NoQuestions, Validate, CheckAgainst
<1>6. QED
  BY <1>1, <1>2, <1>3, <1>4, <1>5 DEF DecideNext

LEMMA AnsweredThen == DecideInv => AnsweredAsAsked
<1> SUFFICES ASSUME DecideInv PROVE AnsweredAsAsked
  OBVIOUS
<1>1. result = "answers" =>
        /\ DOMAIN modelReply = DOMAIN asked
        /\ \A i \in DOMAIN modelReply : modelReply[i].fits /\ modelReply[i].kind = asked[i].kind
  BY DEF DecideInv, CheckAgainst
<1>2. sent.questions # NoQuestions =>
        /\ sent.deny = deny
        /\ \A i \in DOMAIN asked :
             asked[i].kind = "noul" \/ (asked[i].criteria.size > 1 /\ ~asked[i].criteria.blank)
  BY DEF DecideInv, Validate
<1>3. sent.questions = NoQuestions => NextStep \in {"none", "fix"}
  BY DEF DecideInv, NextStep
<1>4. QED
  BY <1>1, <1>2, <1>3 DEF AnsweredAsAsked

\* A caller is given the model's answers only when they are, name for name, answers to
\* what it asked, each of its question's kind; no question goes out that could have only
\* one answer, or none with a meaning; the operator's data policy rides on every request;
\* and a request that never went out is not one to send again.
THEOREM AnswersAreAsAsked == DecideSpec => []AnsweredAsAsked
<1>1. DecideInit => DecideInv
  BY DEF DecideInit, DecideInv
<1>2. QED
  BY <1>1, DecideStep, AnsweredThen, PTL DEF DecideSpec

-----------------------------------------------------------------------------
(* generate *)

\* What a request must be to have been accepted.
Accepted == ArmBuilds(gAsked) /\ ~Reserved(gAsked)

\* Where nothing has been collected yet, and where nobody has been told of a job.
Collecting == {"asked", "refused", "generate", "inline", "poll", "cancelled"}
Untold == {"asked", "generate", "inline"}

NamedJob == gTold \cap {"job", "waiting"} # {}

\* Nothing is held before it was collected, and nothing collected from a job is empty;
\* nothing is kept but of a whole list of the right medium, of a request that was sent.
GenerateInv ==
  /\ kept \in Seq(Contents)
  /\ gAt \in Collecting => kept = <<>> /\ held = <<>>
  /\ gAt \in Untold => gTold = {}
  /\ gAt \notin {"asked", "refused"} => Accepted
  /\ gAt \in {"inline", "poll", "store"} => RequestOf(gAsked) # NotSent
  /\ gAt = "store" /\ NamedJob => held # <<>>
  /\ kept # <<>> => /\ held # <<>> /\ \A i \in DOMAIN held : Storable(held[i])
                    /\ Accepted /\ RequestOf(gAsked) # NotSent
  /\ gAt = "done" => Len(kept) = Len(held)
  /\ gAt \in {"done", "failed"} => /\ Range(kept) \subseteq gTold
                                   /\ NamedJob /\ held = <<>> => "provider job" \in gTold

\* A job that is done gives something.
LEMMA PollGives ==
  ASSUME NEW a, NEW url, NEW r, NEW out, out.is = "complete",
         out = PollOnce(url, a) \/ out = StabilityPoll(r, a)
  PROVE  out.mimes # <<>>
<1>1. Failed.is # "complete" /\ Pending.is # "complete"
  BY DEF Failed, Pending
<1>2. \A m : Complete(<<m>>).mimes # <<>>
  BY DEF Complete
<1>3. CASE out = PollOnce(url, a)
  <2>1. out \in {Failed, Pending, FetchArtifact(a.sample)}
    BY <1>3, Zenon DEF PollOnce
  <2>2. out = FetchArtifact(a.sample)
    BY <1>1, <2>1
  <2>3. out = Complete(<<a.sample>>)
    BY <1>1, <2>2 DEF FetchArtifact
  <2>4. QED
    BY <1>2, <2>3
<1>4. CASE out = StabilityPoll(r, a)
  <2>1. out \in {Failed, Pending} \/ \E b : out = ParseArtifact(a, b)
    BY <1>4, Zenon DEF StabilityPoll
  <2>2. PICK b : out = ParseArtifact(a, b)
    BY <1>1, <2>1
  <2>3. out = Failed \/ out = Complete(<<a.type>>)
    BY <2>2, Zenon DEF ParseArtifact
  <2>4. QED
    BY <1>1, <1>2, <2>3
<1>5. QED
  BY <1>3, <1>4

\* The request that is sent runs the model the record will name, for kaibo's own prompt.
LEMMA SentAsRecorded ==
  ASSUME NEW r, ArmBuilds(r), ~Reserved(r), RequestOf(r) # NotSent
  PROVE  RequestOf(r).model = RecordedModel(r) /\ RequestOf(r).prompt # "caller"
<1>1. r.field # "prompt" /\ r.field # "model"
  BY DEF Reserved
<1>2. \A own : Replaced(r, "model", own) = own /\ Replaced(r, "prompt", own) = own
  BY <1>1 DEF Replaced
<1>3. \A route, model, prompt : /\ AsSent(route, model, prompt).model = model
                                /\ AsSent(route, model, prompt).prompt = prompt
  BY DEF AsSent
<1> DEFINE As(ran, model, prompts) == \E route : \E p \in prompts : ran = AsSent(route, model, p)
<1>4. ASSUME NEW ran, NEW model, NEW prompts, "caller" \notin prompts,
             As(ran, model, prompts)
      PROVE  ran.model = model /\ ran.prompt # "caller"
  BY <1>3, <1>4
<1>5. CASE r.kind = "stability"
  <2>1. RequestOf(r) = StabilityRequest(r)
    BY <1>5, Zenon DEF RequestOf
  <2>2. RecordedModel(r) = r.model
    BY <1>5 DEF RecordedModel
  <2>3. CASE r.output = "audio"
    <3>1. AudioRequest(r) # NotSent /\ RequestOf(r) = AudioRequest(r)
      BY <2>1, <2>3 DEF StabilityRequest
    <3>2. As(AudioRequest(r), r.model, {"asked"})
      BY <1>2, <3>1 DEF AudioRequest
    <3>3. QED
      BY <1>4, <2>2, <3>1, <3>2
  <2>4. CASE r.output # "audio"
    <3>1. StableImageRequest(r) # NotSent /\ RequestOf(r) = StableImageRequest(r)
      BY <2>1, <2>4 DEF StabilityRequest
    <3>2. As(StableImageRequest(r), r.model, {"asked", "unsent"})
      BY <1>2, <3>1 DEF StableImageRequest
    <3>3. QED
      BY <1>4, <2>2, <3>1, <3>2
  <2>5. QED
    BY <2>3, <2>4
<1>6. CASE r.kind = "openai-images"
  <2>1. RequestOf(r) = ImagesRequest(r) /\ RecordedModel(r) = r.model
    BY <1>6, Zenon DEF RequestOf, RecordedModel
  <2>2. ImagesPrompt(r) \in {"unsent", "asked"}
    BY <1>2 DEF ImagesPrompt
  <2>3. As(ImagesRequest(r), r.model, {"asked", "unsent"})
    BY <1>2, <2>1, <2>2 DEF ImagesRequest
  <2>4. QED
    BY <1>4, <2>1, <2>3
<1>7. CASE r.kind = "gemini-media"
  <2>1. RequestOf(r) = GeminiRequest(r) /\ RecordedModel(r) = r.model
    BY <1>7, Zenon DEF RequestOf, RecordedModel
  <2>2. As(GeminiRequest(r), r.model, {"asked"})
    BY <2>1 DEF GeminiRequest
  <2>3. QED
    BY <1>4, <2>1, <2>2
<1>8. CASE r.kind = "dashscope"
  <2>1. RequestOf(r) = DashScopeRequest(r) /\ RecordedModel(r) = r.model
    BY <1>8, Zenon DEF RequestOf, RecordedModel
  <2>2. As(DashScopeRequest(r), r.model, {"asked"})
    BY DEF DashScopeRequest
  <2>3. QED
    BY <1>4, <2>1, <2>2
<1>9. CASE r.kind = "bfl"
  <2>1. RequestOf(r) = BflRequest(r) /\ RecordedModel(r) = BflOperation(r)
    BY <1>9, Zenon DEF RequestOf, RecordedModel
  <2>2. As(BflRequest(r), BflOperation(r), {"asked", "input"})
    BY <1>2, <2>1 DEF BflRequest
  <2>3. QED
    BY <1>4, <2>1, <2>2
<1>10. QED
  BY <1>5, <1>6, <1>7, <1>8, <1>9 DEF ArmBuilds, ArmKinds

\* What is told is only ever added to.
LEMMA RangeOfNone == Range(<<>>) = {}
BY DEF Range

LEMMA AppendedRange ==
  ASSUME NEW s \in Seq(Contents), NEW d \in Contents
  PROVE  /\ Append(s, d) \in Seq(Contents) /\ Append(s, d) # <<>>
         /\ Range(Append(s, d)) = Range(s) \cup {d}
<1>1. /\ Append(s, d) \in Seq(Contents) /\ Len(Append(s, d)) = Len(s) + 1
      /\ \A i \in 1..Len(s) : Append(s, d)[i] = s[i]
      /\ Append(s, d)[Len(s) + 1] = d
  BY AppendProperties
<1>2. Len(s) \in Nat /\ DOMAIN s = 1..Len(s) /\ DOMAIN Append(s, d) = 1..(Len(s) + 1)
  BY <1>1, LenProperties
<1>3. 1..(Len(s) + 1) = 1..Len(s) \cup {Len(s) + 1}
  BY <1>2
<1>4. QED
  BY <1>1, <1>2, <1>3 DEF Range

\* A step that ends the call where nothing was collected, and tells no more than names.
LEMMA EndsEmpty ==
  ASSUME GenerateInv, gAt \in Collecting \ {"refused"}, NEW how \in {"refused", "failed", "cancelled"},
         gAt = "asked" => how = "refused",
         NEW names, Ends(how, names), NamedJob /\ how = "failed" => "provider job" \in names,
         names \cap {"job", "waiting"} = {},
         UNCHANGED <<gAsked, held, kept>>
  PROVE  GenerateInv'
<1>1. kept = <<>> /\ held = <<>> /\ gAt' = how /\ gTold' = gTold \cup names
  BY DEF GenerateInv, Ends, Reaches, Tells
<1>2. Range(kept) = {}
  BY <1>1, RangeOfNone
<1>3. Accepted' = Accepted /\ Range(kept') = {}
  BY <1>2 DEF Accepted
<1>4. how # "refused" => Accepted
  BY DEF GenerateInv, Collecting
<1>5. NamedJob' => NamedJob
  BY <1>1 DEF NamedJob
<1>6. how \notin Untold /\ how \notin {"inline", "poll", "store"} /\ how # "asked" /\ how # "done"
  BY DEF Untold
<1>7. how = "failed" /\ NamedJob' => "provider job" \in gTold'
  BY <1>1, <1>5
<1>8. kept' \in Seq(Contents) /\ kept' = <<>> /\ held' = <<>>
  BY <1>1 DEF GenerateInv
<1>9. QED
  BY <1>1, <1>3, <1>4, <1>6, <1>7, <1>8 DEF GenerateInv

\* A step that collects what was made.
LEMMA CollectsKeeps ==
  ASSUME GenerateInv, gAt \in {"generate", "inline", "poll"}, RequestOf(gAsked) # NotSent,
         NEW mimes, Collects(mimes), NamedJob => mimes # <<>>, UNCHANGED <<gAsked, kept>>
  PROVE  GenerateInv'
<1>1. kept = <<>> /\ gAt' = "store" /\ held' = mimes /\ UNCHANGED gTold
  BY DEF GenerateInv, Collects, Reaches, Collecting
<1>2. Accepted
  BY DEF GenerateInv
<1>3. Accepted' /\ NamedJob' = NamedJob /\ (RequestOf(gAsked) # NotSent)'
  BY <1>1, <1>2 DEF Accepted, NamedJob
<1>4. QED
  BY <1>1, <1>3 DEF GenerateInv, Collecting, Untold

\* A step to a job, which is told of by one name or the other.
LEMMA DefersKeeps ==
  ASSUME GenerateInv, gAt \in {"generate", "inline"}, RequestOf(gAsked) # NotSent,
         NEW url, Deferring(url), UNCHANGED <<gAsked, kept>>
  PROVE  GenerateInv'
<1>1. kept = <<>> /\ held = <<>> /\ gAt' = "poll" /\ held' = held
  BY DEF GenerateInv, Deferring, Reaches, Collecting
<1>2. Accepted
  BY DEF GenerateInv
<1>3. Accepted' /\ (RequestOf(gAsked) # NotSent)'
  BY <1>1, <1>2 DEF Accepted
<1>4. QED
  BY <1>1, <1>3 DEF GenerateInv, Collecting, Untold

LEMMA GenerateStep == GenerateInv /\ [GenerateNext]_generateVars => GenerateInv'
<1> SUFFICES ASSUME GenerateInv, [GenerateNext]_generateVars PROVE GenerateInv'
  OBVIOUS
<1>1. CASE RefuseRequest
  <2>1. gAt = "asked" /\ Ends("refused", {}) /\ UNCHANGED <<gAsked, held, kept>>
    BY <1>1 DEF RefuseRequest
  <2>2. QED
    BY <2>1, EndsEmpty DEF Collecting
<1>2. CASE Accept
  <2>1. gAt = "asked" /\ gAt' = "generate" /\ UNCHANGED <<gAsked, held, kept, gTold>> /\ Accepted
    BY <1>2 DEF Accept, Reaches, Accepted
  <2>2. Accepted'
    BY <2>1 DEF Accepted
  <2>3. QED
    BY <2>1, <2>2 DEF GenerateInv, Collecting, Untold
<1>3. CASE RefuseToSend
  <2>1. gAt = "generate" /\ Ends("failed", {}) /\ UNCHANGED <<gAsked, held, kept>>
    BY <1>3 DEF RefuseToSend
  <2>2. ~NamedJob
    BY <2>1 DEF GenerateInv, Untold, NamedJob
  <2>3. QED
    BY <2>1, <2>2, EndsEmpty DEF Collecting
<1>4. CASE Send
  <2>1. gAt = "generate" /\ RequestOf(gAsked) # NotSent /\ UNCHANGED <<gAsked, kept>>
    BY <1>4 DEF Send
  <2>2. ~NamedJob
    BY <2>1 DEF GenerateInv, Untold, NamedJob
  <2>3. \/ \E mimes : Collects(mimes)
        \/ \E url : Deferring(url)
        \/ Ends("failed", {}) /\ UNCHANGED held
    BY <1>4, Zenon DEF Send
  <2>4. CASE \E mimes : Collects(mimes)
    BY <2>1, <2>2, <2>4, CollectsKeeps
  <2>5. CASE \E url : Deferring(url)
    BY <2>1, <2>5, DefersKeeps
  <2>6. CASE Ends("failed", {}) /\ UNCHANGED held
    BY <2>1, <2>2, <2>6, EndsEmpty DEF Collecting
  <2>7. QED
    BY <2>3, <2>4, <2>5, <2>6
<1>5. CASE Create
  <2>1. /\ gAt = "generate" /\ RequestOf(gAsked) # NotSent /\ UNCHANGED <<gAsked, held, kept>>
        /\ (gAt' = "inline" /\ UNCHANGED gTold) \/ Ends("failed", {})
    BY <1>5, Zenon DEF Create, Reaches
  <2>2. ~NamedJob
    BY <2>1 DEF GenerateInv, Untold, NamedJob
  <2>3. CASE Ends("failed", {})
    BY <2>1, <2>2, <2>3, EndsEmpty DEF Collecting
  <2>4. CASE gAt' = "inline" /\ UNCHANGED gTold
    <3>1. Accepted
      BY <2>1 DEF GenerateInv
    <3>2. Accepted' /\ (RequestOf(gAsked) # NotSent)'
      BY <2>1, <3>1 DEF Accepted
    <3>3. QED
      BY <2>1, <2>4, <3>2 DEF GenerateInv, Collecting, Untold
  <2>5. QED
    BY <2>1, <2>3, <2>4
<1>6. CASE InlineStep
  <2>1. gAt = "inline" /\ RequestOf(gAsked) # NotSent /\ UNCHANGED <<gAsked, kept>>
    BY <1>6 DEF InlineStep, GenerateInv
  <2>2. ~NamedJob
    BY <2>1 DEF GenerateInv, Untold, NamedJob
  <2>3. \/ \E mimes : Collects(mimes)
        \/ \E url : Deferring(url)
        \/ UNCHANGED <<gAt, held, gTold>>
        \/ Ends("failed", {}) /\ UNCHANGED held
    BY <1>6, Zenon DEF InlineStep
  <2>4. CASE \E mimes : Collects(mimes)
    BY <2>1, <2>2, <2>4, CollectsKeeps
  <2>5. CASE \E url : Deferring(url)
    BY <2>1, <2>5, DefersKeeps
  <2>6. CASE Ends("failed", {}) /\ UNCHANGED held
    BY <2>1, <2>2, <2>6, EndsEmpty DEF Collecting
  <2>7. CASE UNCHANGED <<gAt, held, gTold>>
    BY <2>1, <2>7 DEF GenerateInv, Accepted, NamedJob, Storable
  <2>8. QED
    BY <2>3, <2>4, <2>5, <2>6, <2>7
<1>7. CASE PollProvider
  <2>1. gAt = "poll" /\ RequestOf(gAsked) # NotSent /\ UNCHANGED <<gAsked, kept>>
    BY <1>7 DEF PollProvider, GenerateInv
  <2>2. PICK a : LET out == Polled(a) IN
          \/ out.is = "complete" /\ Collects(out.mimes)
          \/ UNCHANGED <<gAt, held, gTold>>
          \/ Ends("failed", {"provider job"}) /\ UNCHANGED held
    BY <1>7, Zenon DEF PollProvider
  <2>3. CASE Polled(a).is = "complete" /\ Collects(Polled(a).mimes)
    <3>1. Polled(a).mimes # <<>>
      BY <2>3, PollGives DEF Polled
    <3>2. QED
      BY <2>1, <2>3, <3>1, CollectsKeeps
  <2>4. CASE UNCHANGED <<gAt, held, gTold>>
    BY <2>1, <2>4 DEF GenerateInv, Accepted, NamedJob, Storable
  <2>5. CASE Ends("failed", {"provider job"}) /\ UNCHANGED held
    BY <2>1, <2>5, EndsEmpty DEF Collecting
  <2>6. QED
    BY <2>2, <2>3, <2>4, <2>5
<1>8. CASE Cancel
  <2>1. gAt = "poll" /\ Ends("cancelled", {}) /\ UNCHANGED <<gAsked, held, kept>>
    BY <1>8 DEF Cancel
  <2>2. QED
    BY <2>1, EndsEmpty DEF Collecting
<1>9. CASE RefuseWhole
  <2>1. /\ gAt = "store" /\ kept = <<>> /\ gAt' = "failed" /\ gTold' = gTold \cup {"nothing"}
        /\ UNCHANGED <<gAsked, held, kept>>
    BY <1>9 DEF RefuseWhole, Ends, Reaches, Tells
  <2>2. Range(kept') = {} /\ NamedJob' = NamedJob
    BY <2>1 DEF Range, NamedJob
  <2>3. Accepted /\ Accepted' = Accepted
    BY <2>1 DEF GenerateInv, Accepted
  <2>4. QED
    BY <2>1, <2>2, <2>3 DEF GenerateInv, Collecting, Untold
<1>10. ASSUME gAt = "store", Len(kept) < Len(held) \/ kept # <<>>,
              \A i \in DOMAIN held : Storable(held[i]), UNCHANGED <<gAsked, held>>
       PROVE  /\ Accepted' /\ (RequestOf(gAsked) # NotSent)' /\ held' # <<>>
              /\ \A i \in DOMAIN held' : Storable(held[i])'
  <2>1. Len(kept) \in Nat
    BY LenProperties DEF GenerateInv
  <2>2. held # <<>>
    BY <1>10, <2>1 DEF GenerateInv
  <2>3. Accepted /\ RequestOf(gAsked) # NotSent
    BY <1>10 DEF GenerateInv
  <2>4. Accepted' /\ (RequestOf(gAsked) # NotSent)'
    BY <1>10, <2>3 DEF Accepted
  <2>5. \A i \in DOMAIN held' : Storable(held[i])'
    BY <1>10 DEF Storable
  <2>6. QED
    BY <1>10, <2>2, <2>4, <2>5
<1>11. CASE StoreOne
  <2>1. /\ gAt = "store" /\ Len(kept) < Len(held) /\ UNCHANGED <<gAsked, gAt, held, gTold>>
        /\ \A i \in DOMAIN held : Storable(held[i])
    BY <1>11 DEF StoreOne
  <2>2. PICK d \in Contents : kept' = Append(kept, d)
    BY <1>11 DEF StoreOne
  <2>3. kept' \in Seq(Contents)
    BY <2>2, AppendedRange DEF GenerateInv
  <2>4. /\ Accepted' /\ (RequestOf(gAsked) # NotSent)' /\ held' # <<>>
        /\ \A i \in DOMAIN held' : Storable(held[i])'
    BY <1>10, <2>1
  <2>5. QED
    BY <2>1, <2>3, <2>4 DEF GenerateInv, Collecting, Untold
<1>12. CASE StoreFails
  <2>1. /\ gAt = "store" /\ Len(kept) < Len(held) /\ UNCHANGED <<gAsked, held, kept>>
        /\ \A i \in DOMAIN held : Storable(held[i])
        /\ gAt' = "failed"
        /\ gTold' = gTold \cup IF kept = <<>> THEN {"nothing"} ELSE Range(kept)
    BY <1>12 DEF StoreFails, Ends, Reaches, Tells
  <2>2. Range(kept') \subseteq gTold'
    BY <2>1, RangeOfNone
  <2>3. /\ Accepted' /\ (RequestOf(gAsked) # NotSent)' /\ held' # <<>>
        /\ \A i \in DOMAIN held' : Storable(held[i])'
    BY <1>10, <2>1
  <2>4. gAt' = "failed" /\ kept' \in Seq(Contents)
    BY <2>1 DEF GenerateInv
  <2>5. QED
    BY <2>2, <2>3, <2>4 DEF GenerateInv, Collecting, Untold
<1>13. CASE StoreUndescribed
  <2>1. /\ gAt = "store" /\ Len(kept) < Len(held) /\ UNCHANGED <<gAsked, held>>
        /\ \A i \in DOMAIN held : Storable(held[i])
    BY <1>13 DEF StoreUndescribed
  <2>2. PICK d \in Contents : /\ kept' = Append(kept, d) /\ gAt' = "failed"
          /\ gTold' = gTold \cup ({d} \cup IF kept = <<>> THEN {"nothing"} ELSE Range(kept))
    BY <1>13 DEF StoreUndescribed, Ends, Reaches, Tells
  <2>3. kept' \in Seq(Contents) /\ Range(kept') = Range(kept) \cup {d}
    BY <2>2, AppendedRange DEF GenerateInv
  <2>4. kept = <<>> => Range(kept) = {}
    BY DEF Range
  <2>5. Range(kept') \subseteq gTold'
    BY <2>2, <2>3, <2>4
  <2>6. QED
    BY <1>10, <2>1, <2>2, <2>3, <2>5 DEF GenerateInv, Collecting, Untold
<1>14. CASE FinishGenerate
  <2>1. /\ gAt = "store" /\ Len(kept) = Len(held) /\ kept # <<>> /\ UNCHANGED <<gAsked, held, kept>>
        /\ gAt' = "done" /\ gTold' = gTold \cup Range(kept)
    BY <1>14 DEF FinishGenerate, Ends, Reaches, Tells
  <2>2. \A i \in DOMAIN held : Storable(held[i])
    BY <2>1 DEF GenerateInv
  <2>3. Range(kept') \subseteq gTold'
    BY <2>1
  <2>4. QED
    BY <1>10, <2>1, <2>2, <2>3 DEF GenerateInv, Collecting, Untold
<1>15. CASE UNCHANGED generateVars
  BY <1>15 DEF generateVars, GenerateInv, Accepted, NamedJob, Storable
<1>16. QED
  BY <1>1, <1>2, <1>3, <1>4, <1>5, <1>6, <1>7, <1>8, <1>9, <1>11, <1>12, <1>13, <1>14, <1>15
     DEF GenerateNext

LEMMA MediaThen == GenerateInv => MediaIsAccounted
<1> SUFFICES ASSUME GenerateInv PROVE MediaIsAccounted
  OBVIOUS
<1>1. PaidIsNamed
  BY DEF GenerateInv, PaidIsNamed, NamedJob
<1>2. WrongMediaStoresNothing
  BY DEF GenerateInv, WrongMediaStoresNothing
<1>3. RecordIsWhatRan
  <2>1. CASE kept # <<>>
    <3>1. ArmBuilds(gAsked) /\ ~Reserved(gAsked) /\ RequestOf(gAsked) # NotSent
      BY <2>1 DEF GenerateInv, Accepted
    <3>2. QED
      BY <3>1, SentAsRecorded DEF RecordIsWhatRan
  <2>2. QED
    BY <2>1 DEF RecordIsWhatRan
<1>4. QED
  BY <1>1, <1>2, <1>3 DEF MediaIsAccounted

\* Whatever is asked of whichever provider, whatever it answers and however long it takes,
\* and wherever the store fails: a call that ends names all it paid for, a record names
\* the model and the prompt that ran, and nothing of the wrong medium is stored.
THEOREM MediaIsAlwaysAccounted == GenerateSpec => []MediaIsAccounted
<1>1. GenerateInit => GenerateInv
  <2> SUFFICES ASSUME GenerateInit PROVE GenerateInv
    OBVIOUS
  <2>1. gAt = "asked" /\ held = <<>> /\ kept = <<>> /\ gTold = {}
    BY DEF GenerateInit
  <2>2. kept \in Seq(Contents)
    BY <2>1, EmptySeq
  <2>3. QED
    BY <2>1, <2>2 DEF GenerateInv, Collecting, Untold, NamedJob
<1>2. QED
  BY <1>1, GenerateStep, MediaThen, PTL DEF GenerateSpec

-----------------------------------------------------------------------------
(* The batch lanes *)

EndedLines == [id : Nat, how : {"answered", "failed"}]
LineIds(lines) == {lines[n].id : n \in DOMAIN lines}
OneEach(lines) == \A m, n \in DOMAIN lines : lines[m].id = lines[n].id => m = n

\* Items each under its own index.
Carried(items) ==
  \E n \in Nat : DOMAIN items = 1..n /\ \A k \in 1..n : items[k].id = k - 1

\* An item the wire takes, as deep as its slot and the floor ask.
Suits(kind, s, item) ==
  /\ WireTakes(kind, item.model, item.effort)
  /\ item.effort = "none" <=> s.levelled /\ s.effort = "none"
  /\ item.effort # "low"
AllSuit(items) == \A n \in DOMAIN items : Suits(backend.kind, synthSlot, items[n])

\* As many distinct ids as lines.
LEMMA AsManyIds ==
  ASSUME NEW lines, NEW S, IsFiniteSet(S), NEW T, T = {lines[n].id : n \in S},
         \A m, n \in S : lines[m].id = lines[n].id => m = n
  PROVE  IsFiniteSet(T) /\ Cardinality(T) = Cardinality(S)
<1> DEFINE g == [n \in S |-> lines[n].id]
<1>1. g \in Bijection(S, T)
  BY DEF Bijection, Injection, Surjection, IsInjective
<1>2. ExistsBijection(S, T)
  BY <1>1 DEF ExistsBijection
<1>3. QED
  BY <1>2, FS_Bijection

\* Put back by index, each answer stands at its prompt's place.
LEMMA OrderedByIndex ==
  ASSUME NEW lines, NEW len \in Nat, DOMAIN lines = 1..len, OneEach(lines),
         NEW N \in Nat, LineIds(lines) = 0..(N - 1)
  PROVE  /\ DOMAIN OrderByIndex(lines) = 1..N
         /\ \A k \in 1..N : OrderByIndex(lines)[k].id = k - 1
<1>1. /\ IsFiniteSet(1..len) /\ Cardinality(1..len) = len
      /\ \A m \in Nat : IsFiniteSet(0..(m - 1)) /\ Cardinality(0..(m - 1)) = m
  <2>1. IsFiniteSet(1..len) /\ Cardinality(1..len) = len
    BY FS_Interval
  <2>2. ASSUME NEW m \in Nat PROVE IsFiniteSet(0..(m - 1)) /\ Cardinality(0..(m - 1)) = m
    <3>1. 0 \in Int /\ m - 1 \in Int
      OBVIOUS
    <3>2. IsFiniteSet(0..(m - 1)) /\ Cardinality(0..(m - 1)) = IF 0 > m - 1 THEN 0 ELSE m - 1 - 0 + 1
      BY <3>1, FS_Interval, Zenon
    <3>3. QED
      BY <3>2
  <2>3. QED
    BY <2>1, <2>2
<1>2. len = N
  <2>1. IsFiniteSet(DOMAIN lines) /\ Cardinality(DOMAIN lines) = len
    BY <1>1
  <2>2. Cardinality(LineIds(lines)) = Cardinality(DOMAIN lines)
    BY <2>1, AsManyIds DEF LineIds, OneEach
  <2>3. QED
    BY <1>1, <2>1, <2>2
<1> DEFINE at(id) == Cardinality({n \in DOMAIN lines : lines[n].id < id}) + 1
<1>3. ASSUME NEW id \in 0..(N - 1) PROVE at(id) = id + 1
  <2> DEFINE S == {n \in DOMAIN lines : lines[n].id < id}
  <2>1. {lines[n].id : n \in S} = 0..(id - 1)
    <3>1. ASSUME NEW i \in 0..(id - 1) PROVE i \in {lines[n].id : n \in S}
      <4>1. i \in 0..(N - 1) /\ i < id
        BY <1>3, <3>1
      <4>2. PICK n \in DOMAIN lines : lines[n].id = i
        BY <4>1 DEF LineIds
      <4>3. n \in S
        BY <4>1, <4>2
      <4>4. QED
        BY <4>2, <4>3
    <3>2. ASSUME NEW n \in S PROVE lines[n].id \in 0..(id - 1)
      <4>1. lines[n].id \in 0..(N - 1) /\ lines[n].id < id
        BY DEF LineIds
      <4>2. QED
        BY <1>3, <4>1
    <3>3. QED
      BY <3>1, <3>2
  <2>2. IsFiniteSet(S)
    BY <1>1, FS_Subset
  <2>3. \A m, n \in S : lines[m].id = lines[n].id => m = n
    BY DEF OneEach
  <2> HIDE DEF S
  <2>4. Cardinality({lines[n].id : n \in S}) = Cardinality(S)
    BY <2>2, <2>3, AsManyIds
  <2>5. Cardinality(S) = id
    <3>1. id \in Nat
      BY <1>3
    <3>2. Cardinality(0..(id - 1)) = id
      BY <1>1, <3>1
    <3>3. QED
      BY <2>1, <2>4, <3>2
  <2>6. QED
    BY <2>5 DEF S
<1>4. OrderByIndex(lines) = [k \in DOMAIN lines |-> lines[CHOOSE n \in DOMAIN lines : at(lines[n].id) = k]]
  BY Zenon DEF OrderByIndex
<1> HIDE DEF at
<1>5. ASSUME NEW k \in 1..N PROVE OrderByIndex(lines)[k].id = k - 1
  <2> DEFINE n == CHOOSE n \in DOMAIN lines : at(lines[n].id) = k
  <2>1. k - 1 \in 0..(N - 1)
    BY <1>5
  <2>2. PICK m \in DOMAIN lines : lines[m].id = k - 1
    BY <2>1 DEF LineIds
  <2>3. at(lines[m].id) = k
    BY <1>3, <1>5, <2>1, <2>2
  <2>4. n \in DOMAIN lines /\ at(lines[n].id) = k
    BY <2>3
  <2> HIDE DEF n
  <2>5. lines[n].id \in 0..(N - 1)
    BY <2>4 DEF LineIds
  <2>6. lines[n].id = k - 1
    <3>1. lines[n].id + 1 = k
      BY <1>3, <2>4, <2>5
    <3>2. QED
      BY <2>5, <3>1
  <2>7. OrderByIndex(lines)[k] = lines[n]
    BY <1>2, <1>4, <1>5 DEF n
  <2>8. QED
    BY <2>6, <2>7
<1>6. QED
  BY <1>2, <1>4, <1>5

\* The counts of what was answered and what failed are those of the lines.
LEMMA CountsAdd ==
  ASSUME NEW lines \in Seq(EndedLines), OneEach(lines), NEW done, NEW failed,
         done = {n \in DOMAIN lines : lines[n].how = "answered"},
         failed = {n \in DOMAIN lines : lines[n].how = "failed"}
  PROVE  /\ IsFiniteSet(LineIds(lines)) /\ Cardinality(LineIds(lines)) \in Nat
         /\ Cardinality(done) + Cardinality(failed) = Cardinality(LineIds(lines))
<1>1. DOMAIN lines = 1..Len(lines) /\ Len(lines) \in Nat
  BY LenProperties
<1>2. IsFiniteSet(DOMAIN lines)
  BY <1>1, FS_Interval
<1>3. \A n \in DOMAIN lines : lines[n].how \in {"answered", "failed"}
  <2>1. \A n \in DOMAIN lines : lines[n] \in EndedLines
    BY <1>1, ElementOfSeq
  <2>2. QED
    BY <2>1 DEF EndedLines
<1>4. done \cup failed = DOMAIN lines /\ done \cap failed = {}
  BY <1>3
<1>5. IsFiniteSet(done) /\ IsFiniteSet(failed)
  BY <1>2, FS_Subset
<1>6. Cardinality(done \cap failed) = 0
  BY <1>4, FS_EmptySet
<1>7. Cardinality(DOMAIN lines) = Cardinality(done) + Cardinality(failed) - 0
  BY <1>4, <1>5, <1>6, FS_Union
<1>8. Cardinality(done) \in Nat /\ Cardinality(failed) \in Nat
  BY <1>5, FS_CardinalityType
<1>9. IsFiniteSet(LineIds(lines)) /\ Cardinality(LineIds(lines)) = Cardinality(DOMAIN lines)
  BY <1>2, AsManyIds DEF LineIds, OneEach
<1>10. QED
  BY <1>7, <1>8, <1>9

\* One line more, under an id that had none.
LEMMA OneLineMore ==
  ASSUME NEW lines \in Seq(EndedLines), OneEach(lines), NEW l \in EndedLines,
         l.id \notin LineIds(lines)
  PROVE  /\ Append(lines, l) \in Seq(EndedLines) /\ OneEach(Append(lines, l))
         /\ LineIds(Append(lines, l)) = LineIds(lines) \cup {l.id}
<1>1. /\ Append(lines, l) \in Seq(EndedLines) /\ Len(Append(lines, l)) = Len(lines) + 1
      /\ \A i \in 1..Len(lines) : Append(lines, l)[i] = lines[i]
      /\ Append(lines, l)[Len(lines) + 1] = l
  BY AppendProperties
<1>2. Len(lines) \in Nat /\ DOMAIN lines = 1..Len(lines) /\ DOMAIN Append(lines, l) = 1..(Len(lines) + 1)
  BY <1>1, LenProperties
<1>3. 1..(Len(lines) + 1) = 1..Len(lines) \cup {Len(lines) + 1}
  BY <1>2
<1>4. \A m \in 1..Len(lines) : lines[m].id # l.id
  BY <1>2 DEF LineIds
<1>5. OneEach(Append(lines, l))
  <2> SUFFICES ASSUME NEW m \in DOMAIN Append(lines, l), NEW n \in DOMAIN Append(lines, l),
                      Append(lines, l)[m].id = Append(lines, l)[n].id
               PROVE  m = n
    BY DEF OneEach
  <2>1. CASE m \in 1..Len(lines) /\ n \in 1..Len(lines)
    BY <1>1, <1>2, <2>1 DEF OneEach
  <2>2. CASE m = Len(lines) + 1 /\ n \in 1..Len(lines)
    BY <1>1, <1>4, <2>2
  <2>3. CASE n = Len(lines) + 1 /\ m \in 1..Len(lines)
    BY <1>1, <1>4, <2>3
  <2>4. QED
    BY <1>2, <1>3, <2>1, <2>2, <2>3
<1>6. LineIds(Append(lines, l)) = LineIds(lines) \cup {l.id}
  BY <1>1, <1>2, <1>3 DEF LineIds
<1>7. QED
  BY <1>1, <1>5, <1>6

\* Two files are read as one.
LEMMA FilesJoined ==
  ASSUME NEW a \in Seq(EndedLines), NEW b \in Seq(EndedLines), OneEach(a), OneEach(b),
         LineIds(a) \cap LineIds(b) = {}
  PROVE  /\ a \o b \in Seq(EndedLines) /\ OneEach(a \o b)
         /\ LineIds(a \o b) = LineIds(a) \cup LineIds(b)
<1>1. /\ a \o b \in Seq(EndedLines) /\ Len(a \o b) = Len(a) + Len(b)
      /\ \A i \in 1..(Len(a) + Len(b)) : (a \o b)[i] = IF i <= Len(a) THEN a[i] ELSE b[i - Len(a)]
  BY ConcatProperties
<1>2. /\ Len(a) \in Nat /\ Len(b) \in Nat /\ DOMAIN a = 1..Len(a) /\ DOMAIN b = 1..Len(b)
      /\ DOMAIN (a \o b) = 1..(Len(a) + Len(b))
  BY <1>1, LenProperties
<1>3. \A i \in 1..Len(a) : i \in DOMAIN (a \o b) /\ (a \o b)[i] = a[i]
  BY <1>1, <1>2
<1>4. \A i \in 1..Len(b) : i + Len(a) \in DOMAIN (a \o b) /\ (a \o b)[i + Len(a)] = b[i]
  BY <1>1, <1>2
<1>5. \A i \in DOMAIN (a \o b) : i \in 1..Len(a) \/ \E j \in 1..Len(b) : i = j + Len(a)
  <2> SUFFICES ASSUME NEW i \in DOMAIN (a \o b), i \notin 1..Len(a)
               PROVE  \E j \in 1..Len(b) : i = j + Len(a)
    OBVIOUS
  <2>1. i - Len(a) \in 1..Len(b) /\ i = (i - Len(a)) + Len(a)
    BY <1>2
  <2>2. QED
    BY <2>1
<1>6. \A i \in 1..Len(a), j \in 1..Len(b) : a[i].id # b[j].id
  <2> SUFFICES ASSUME NEW i \in 1..Len(a), NEW j \in 1..Len(b) PROVE a[i].id # b[j].id
    OBVIOUS
  <2>1. a[i].id \in LineIds(a) /\ b[j].id \in LineIds(b)
    BY <1>2 DEF LineIds
  <2>2. QED
    BY <2>1
<1>7. OneEach(a \o b)
  <2> SUFFICES ASSUME NEW m \in DOMAIN (a \o b), NEW n \in DOMAIN (a \o b),
                      (a \o b)[m].id = (a \o b)[n].id
               PROVE  m = n
    BY DEF OneEach
  <2>1. CASE m \in 1..Len(a) /\ n \in 1..Len(a)
    BY <1>2, <1>3, <2>1 DEF OneEach
  <2>2. CASE m \in 1..Len(a) /\ n \notin 1..Len(a)
    <3>1. PICK j \in 1..Len(b) : n = j + Len(a)
      BY <1>5, <2>2
    <3>2. (a \o b)[m] = a[m] /\ (a \o b)[n] = b[j]
      BY <1>3, <1>4, <2>2, <3>1
    <3>3. QED
      BY <1>6, <2>2, <3>2
  <2>3. CASE m \notin 1..Len(a) /\ n \in 1..Len(a)
    <3>1. PICK j \in 1..Len(b) : m = j + Len(a)
      BY <1>5, <2>3
    <3>2. (a \o b)[n] = a[n] /\ (a \o b)[m] = b[j]
      BY <1>3, <1>4, <2>3, <3>1
    <3>3. QED
      BY <1>6, <2>3, <3>2
  <2>4. CASE m \notin 1..Len(a) /\ n \notin 1..Len(a)
    <3>1. PICK i \in 1..Len(b), j \in 1..Len(b) : m = i + Len(a) /\ n = j + Len(a)
      BY <1>5, <2>4
    <3>2. (a \o b)[m] = b[i] /\ (a \o b)[n] = b[j]
      BY <1>4, <3>1
    <3>3. i = j
      BY <1>2, <3>2 DEF OneEach
    <3>4. QED
      BY <3>1, <3>3
  <2>5. QED
    BY <2>1, <2>2, <2>3, <2>4
<1>8. LineIds(a \o b) = LineIds(a) \cup LineIds(b)
  <2>1. ASSUME NEW x \in LineIds(a \o b) PROVE x \in LineIds(a) \cup LineIds(b)
    BY <1>2, <1>3, <1>4, <1>5, <2>1 DEF LineIds
  <2>2. LineIds(a) \subseteq LineIds(a \o b)
    BY <1>2, <1>3 DEF LineIds
  <2>3. LineIds(b) \subseteq LineIds(a \o b)
    BY <1>2, <1>4 DEF LineIds
  <2>4. QED
    BY <2>1, <2>2, <2>3
<1>9. QED
  BY <1>1, <1>7, <1>8

\* A slot of its own is none of the clients' that have none.
LEMMA SlotsAreSlots ==
  ASSUME NEW s \in SynthSlots
  PROVE  s # NoSlot /\ s.id \in ModelIds \ {NoModel} /\ s.effort \in Depths /\ s.levelled \in BOOLEAN
<1>1. s.id \in ModelIds \ {NoModel} /\ s.effort \in Depths /\ s.levelled \in BOOLEAN
  BY DEF SynthSlots
<1>2. NoSlot.id = NoModel
  BY DEF NoSlot
<1>3. QED
  BY <1>1, <1>2

\* The floor leaves off alone and nothing below it.
LEMMA DepthIsFloored ==
  ASSUME NEW s \in SynthSlots
  PROVE  /\ EffortSent(s) = "none" <=> s.levelled /\ s.effort = "none"
         /\ EffortSent(s) # "low"
         /\ ~s.levelled => EffortSent(s) = "absent"
         /\ s.levelled => EffortSent(s) = BatchDepth(s.effort)
<1>1. CASE s.levelled
  <2>1. EffortSent(s) = BatchDepth(s.effort)
    BY <1>1, Zenon DEF EffortSent
  <2>2. (BatchDepth(s.effort) = "none" <=> s.effort = "none") /\ BatchDepth(s.effort) # "low"
    BY DEF BatchDepth
  <2>3. QED
    BY <1>1, <2>1, <2>2
<1>2. CASE ~s.levelled
  <2>1. EffortSent(s) = "absent"
    BY <1>2, Zenon DEF EffortSent
  <2>2. QED
    BY <1>2, <2>1
<1>3. QED
  BY <1>1, <1>2

\* A name loses its suffix once and for all.
LEMMA NamesAreBare ==
  ASSUME NEW id \in ModelIds
  PROVE  /\ BatchModel(id).named => ~BatchModel(id).suffixed
         /\ BatchModel(BatchModel(id)) = BatchModel(id)
<1>1. /\ DOMAIN id = {"named", "suffixed"} /\ id = [named |-> id.named, suffixed |-> id.suffixed]
      /\ id.named \in BOOLEAN /\ id.suffixed \in BOOLEAN
  BY DEF ModelIds
<1> DEFINE bare == [id EXCEPT !.suffixed = FALSE]
<1>2. bare.named = id.named /\ bare.suffixed = FALSE /\ [bare EXCEPT !.suffixed = FALSE] = bare
  BY <1>1
<1> HIDE DEF bare
<1>3. CASE id.named
  <2>1. BatchModel(id) = bare
    BY <1>3, Zenon DEF BatchModel, bare
  <2>2. bare.named
    BY <1>2, <1>3, Zenon
  <2>3. BatchModel(bare) = [bare EXCEPT !.suffixed = FALSE]
    BY <2>2, Zenon DEF BatchModel
  <2>4. ~bare.suffixed
    BY <1>2, Zenon
  <2>5. QED
    BY <1>2, <2>1, <2>3, <2>4, Zenon
<1>4. CASE ~id.named
  <2>1. BatchModel(id) = id
    BY <1>4, Zenon DEF BatchModel
  <2>2. QED
    BY <1>4, <2>1, Zenon
<1>5. QED
  BY <1>3, <1>4

\* What a client's items carry for a model.
SentModel(kind, c) == IF kind = "openrouter" THEN BatchModel(c.model) ELSE c.model

\* Nothing but a lane's own slot is refused, and that for what its wire would refuse.
Judged(b, s) ==
  /\ SubmitterOf(b, s).role \in {"submitter", "refused"} /\ PollerOf(b).role \in {"poller", "refused"}
  /\ SubmitterOf(b, s).role = "submitter" =>
       /\ HasLane(b) /\ PollerOf(b).role = "poller"
       /\ SubmitterOf(b, s).effort = EffortSent(s)
       /\ WireTakes(b.kind, SentModel(b.kind, SubmitterOf(b, s)), EffortSent(s))
  /\ HasLane(b) /\ b.keyed =>
       /\ PollerOf(b).role = "poller"
       /\ SubmitterOf(b, s).role = "refused" => ~WireTakes(b.kind, BatchModel(s.id), EffortSent(s))

\* A client is there to submit, to poll, or not at all.
LEMMA ClientsAre ==
  ASSUME NEW b, NEW s \in SynthSlots, NEW id
  PROVE  /\ ClientFor(s, id).role = "submitter" /\ ClientFor(s, id).model = id
         /\ ClientFor(s, id).effort = EffortSent(s)
         /\ ClientFor(NoSlot, id).role = "poller" /\ RefusedClient(b).role = "refused"
<1>1. s # NoSlot
  BY SlotsAreSlots
<1>2. QED
  BY <1>1 DEF ClientFor, RefusedClient

\* A lane, from what its two clients are.
LEMMA LaneJudges ==
  ASSUME NEW b, NEW s \in SynthSlots, NEW id, NEW none, HasLane(b),
         b.keyed => PollerOf(b) = ClientFor(NoSlot, none),
         ~b.keyed => PollerOf(b) = RefusedClient(b) /\ SubmitterOf(b, s) = RefusedClient(b),
         b.keyed =>
           \/ /\ SubmitterOf(b, s) = ClientFor(s, id)
              /\ WireTakes(b.kind, IF b.kind = "openrouter" THEN BatchModel(id) ELSE id, EffortSent(s))
           \/ /\ SubmitterOf(b, s) = RefusedClient(b)
              /\ ~WireTakes(b.kind, BatchModel(s.id), EffortSent(s))
  PROVE  Judged(b, s)
<1>1. /\ ClientFor(s, id).role = "submitter" /\ ClientFor(s, id).model = id
      /\ ClientFor(s, id).effort = EffortSent(s)
      /\ ClientFor(NoSlot, none).role = "poller" /\ RefusedClient(b).role = "refused"
  BY ClientsAre
<1>2. "submitter" # "refused"
  OBVIOUS
<1>3. CASE b.keyed /\ SubmitterOf(b, s) = ClientFor(s, id)
  <2>1. SentModel(b.kind, SubmitterOf(b, s)) = IF b.kind = "openrouter" THEN BatchModel(id) ELSE id
    BY <1>1, <1>3, Zenon DEF SentModel
  <2>2. WireTakes(b.kind, SentModel(b.kind, SubmitterOf(b, s)), EffortSent(s))
    BY <1>1, <1>2, <1>3, <2>1, Zenon
  <2>3. /\ SubmitterOf(b, s).role = "submitter" /\ SubmitterOf(b, s).effort = EffortSent(s)
        /\ PollerOf(b).role = "poller"
    BY <1>1, <1>3, Zenon
  <2>4. QED
    BY <1>2, <2>2, <2>3, Zenon DEF Judged
<1>4. CASE b.keyed /\ SubmitterOf(b, s) # ClientFor(s, id)
  <2>1. /\ SubmitterOf(b, s).role = "refused" /\ PollerOf(b).role = "poller"
        /\ ~WireTakes(b.kind, BatchModel(s.id), EffortSent(s))
    BY <1>1, <1>4, Zenon
  <2>2. QED
    BY <1>2, <2>1, Zenon DEF Judged
<1>5. CASE ~b.keyed
  <2>1. SubmitterOf(b, s).role = "refused" /\ PollerOf(b).role = "refused"
    BY <1>1, <1>5, Zenon
  <2>2. QED
    BY <1>2, <1>5, <2>1, Zenon DEF Judged
<1>6. QED
  BY <1>3, <1>4, <1>5

\* A lane refuses a slot just when its wire would refuse what the slot becomes.
LEMMA SubmittersHaveLanes ==
  ASSUME NEW b, NEW s \in SynthSlots
  PROVE  Judged(b, s)
<1>1. s # NoSlot /\ s.id \in ModelIds /\ s.id # NoModel /\ s.effort \in Depths
  BY SlotsAreSlots
<1>2. ~NoSlot.levelled
  BY DEF NoSlot
<1>3. CASE b.kind = "anthropic"
  <2> DEFINE refused == EffortRefused("anthropic", s, s.effort)
  <2>1. /\ b.keyed => PollerOf(b) = ClientFor(NoSlot, NoSlot.id)
        /\ ~b.keyed => PollerOf(b) = RefusedClient(b) /\ SubmitterOf(b, s) = RefusedClient(b)
        /\ b.keyed /\ ~refused => SubmitterOf(b, s) = ClientFor(s, s.id)
        /\ b.keyed /\ refused => SubmitterOf(b, s) = RefusedClient(b)
    BY <1>3, <1>2, Zenon DEF SubmitterOf, PollerOf, AnthropicClient, Client, EffortRefused
  <2>2. refused <=> s.levelled /\ s.effort = "none"
    BY DEF EffortRefused
  <2>3. \A id : WireTakes(b.kind, id, EffortSent(s)) <=> EffortSent(s) # "none"
    BY <1>3 DEF WireTakes
  <2>4. HasLane(b)
    BY <1>3 DEF HasLane
  <2>5. refused <=> EffortSent(s) = "none"
    BY <2>2, DepthIsFloored
  <2> HIDE DEF refused
  <2>6. QED
    BY <2>1, <2>3, <2>4, <2>5, LaneJudges, Zenon
<1>4. CASE b.kind = "gemini"
  <2> DEFINE refused == \E effort \in {s.effort, BatchDepth(s.effort)} : EffortRefused("gemini", s, effort)
  <2>1. /\ b.keyed => PollerOf(b) = ClientFor(NoSlot, NoSlot.id)
        /\ ~b.keyed => PollerOf(b) = RefusedClient(b) /\ SubmitterOf(b, s) = RefusedClient(b)
        /\ b.keyed /\ ~refused => SubmitterOf(b, s) = ClientFor(s, s.id)
        /\ b.keyed /\ refused => SubmitterOf(b, s) = RefusedClient(b)
    BY <1>4, <1>2, Zenon DEF SubmitterOf, PollerOf, GeminiClient, Client, EffortRefused
  <2>2. \A id : WireTakes(b.kind, id, EffortSent(s)) <=> EffortSent(s) \in {"absent", "low", "high"}
    BY <1>4 DEF WireTakes
  <2>3. HasLane(b)
    BY <1>4 DEF HasLane
  <2>4. refused <=> EffortSent(s) \notin {"absent", "low", "high"}
    <3>1. CASE ~s.levelled
      <4>1. ~refused
        BY <3>1, Zenon DEF EffortRefused
      <4>2. EffortSent(s) = "absent"
        BY <3>1, DepthIsFloored
      <4>3. QED
        BY <4>1, <4>2
    <3>2. CASE s.levelled
      <4>1. refused <=> ~(s.effort \in {"low", "high"} /\ BatchDepth(s.effort) \in {"low", "high"})
        BY <3>2 DEF EffortRefused
      <4>2. EffortSent(s) = BatchDepth(s.effort)
        BY <3>2, DepthIsFloored
      <4>3. /\ s.effort \in {"low", "high"} => BatchDepth(s.effort) = "high"
            /\ s.effort \in {"none", "max"} => BatchDepth(s.effort) = s.effort
        BY DEF BatchDepth
      <4>4. s.effort \in {"low", "high"} \/ s.effort \in {"none", "max"}
        BY <1>1 DEF Depths
      <4>5. QED
        BY <4>1, <4>2, <4>3, <4>4
    <3>3. QED
      BY <3>1, <3>2
  <2> HIDE DEF refused
  <2>5. QED
    BY <2>1, <2>2, <2>3, <2>4, LaneJudges, Zenon
<1>5. CASE b.kind = "openrouter"
  <2> DEFINE refused == ~BatchModel(s.id).named
  <2>1. /\ b.keyed => PollerOf(b) = ClientFor(NoSlot, BatchModel(NoSlot.id))
        /\ ~b.keyed => PollerOf(b) = RefusedClient(b) /\ SubmitterOf(b, s) = RefusedClient(b)
        /\ b.keyed /\ ~refused => SubmitterOf(b, s) = ClientFor(s, BatchModel(s.id))
        /\ b.keyed /\ refused => SubmitterOf(b, s) = RefusedClient(b)
    BY <1>5, <1>1, <1>2, Zenon DEF SubmitterOf, PollerOf, OpenrouterClient, Client, EffortRefused
  <2>2. \A id : WireTakes(b.kind, id, EffortSent(s)) <=> id.named /\ ~id.suffixed
    BY <1>5 DEF WireTakes
  <2>3. HasLane(b)
    BY <1>5 DEF HasLane
  <2>4. /\ BatchModel(s.id).named => ~BatchModel(s.id).suffixed
        /\ BatchModel(BatchModel(s.id)) = BatchModel(s.id)
    BY <1>1, NamesAreBare
  <2> HIDE DEF refused
  <2>5. /\ ~refused => WireTakes(b.kind, IF b.kind = "openrouter" THEN BatchModel(BatchModel(s.id))
                                         ELSE BatchModel(s.id), EffortSent(s))
        /\ refused => ~WireTakes(b.kind, BatchModel(s.id), EffortSent(s))
    BY <2>2, <2>4, Zenon DEF refused
  <2>6. QED
    BY <2>1, <2>3, <2>5, LaneJudges, Zenon
<1>6. CASE b.kind = "openai" /\ b.hosted
  <2>1. /\ b.keyed => PollerOf(b) = ClientFor(NoSlot, NoSlot.id)
        /\ ~b.keyed => PollerOf(b) = RefusedClient(b) /\ SubmitterOf(b, s) = RefusedClient(b)
        /\ b.keyed => SubmitterOf(b, s) = ClientFor(s, s.id)
    BY <1>6, Zenon DEF SubmitterOf, PollerOf, OpenaiClient, Client
  <2>2. \A id : WireTakes(b.kind, id, EffortSent(s))
    BY <1>6 DEF WireTakes
  <2>3. HasLane(b)
    BY <1>6 DEF HasLane
  <2>4. QED
    BY <2>1, <2>2, <2>3, LaneJudges, Zenon
<1>7. CASE b.kind \notin {"anthropic", "gemini", "openrouter"} /\ ~(b.kind = "openai" /\ b.hosted)
  <2>1. SubmitterOf(b, s) = RefusedClient(b) /\ PollerOf(b) = RefusedClient(b)
    BY <1>7, Zenon DEF SubmitterOf, PollerOf
  <2>2. ~HasLane(b)
    BY <1>7 DEF HasLane
  <2>3. SubmitterOf(b, s).role = "refused" /\ PollerOf(b).role = "refused"
    BY <2>1 DEF RefusedClient
  <2>4. "submitter" # "refused"
    OBVIOUS
  <2>5. QED
    BY <2>2, <2>3, <2>4, Zenon DEF Judged
<1>8. QED
  BY <1>3, <1>4, <1>5, <1>6, <1>7

\* Each lane's body has every item under its index, with what its client carries.
LEMMA BodiesCarry ==
  ASSUME NEW b, NEW s \in SynthSlots, SubmitterOf(b, s).role = "submitter",
         NEW n \in Nat, NEW ids, ids = [k \in 1..n |-> k - 1], NEW items,
         items = Submission(b.kind, SubmitterOf(b, s), ids)
  PROVE  Carried(items) /\ \A k \in DOMAIN items : Suits(b.kind, s, items[k])
<1> DEFINE c == SubmitterOf(b, s)
<1>1. Judged(b, s)
  BY SubmittersHaveLanes
<1>2. HasLane(b) /\ c.effort = EffortSent(s) /\ WireTakes(b.kind, SentModel(b.kind, c), EffortSent(s))
  BY <1>1, Zenon DEF Judged
<1> HIDE DEF c
<1>3. /\ DOMAIN items = DOMAIN ids
      /\ \A k \in DOMAIN ids : \E w : items[k] = Item(ids[k], SentModel(b.kind, c), c.effort, w)
  <2>1. CASE b.kind = "anthropic"
    <3>1. SentModel(b.kind, c) = c.model
      BY <2>1 DEF SentModel
    <3>2. items = AnthropicBody(c, ids)
      BY <2>1, Zenon DEF Submission, c
    <3>3. QED
      BY <3>1, <3>2 DEF AnthropicBody, AnthropicContent
  <2>2. CASE b.kind = "gemini"
    <3>1. SentModel(b.kind, c) = c.model
      BY <2>2 DEF SentModel
    <3>2. items = GeminiBody(c, ids)
      BY <2>2, Zenon DEF Submission, c
    <3>3. QED
      BY <3>1, <3>2 DEF GeminiBody, GeminiParts
  <2>3. CASE b.kind = "openai"
    <3>1. SentModel(b.kind, c) = c.model
      BY <2>3 DEF SentModel
    <3>2. items = OpenaiJsonl(c, ids)
      BY <2>3, Zenon DEF Submission, c
    <3>3. QED
      BY <3>1, <3>2 DEF OpenaiJsonl, OpenaiInput
  <2>4. CASE b.kind = "openrouter"
    <3>1. SentModel(b.kind, c) = BatchModel(c.model)
      BY <2>4 DEF SentModel
    <3>2. items = OpenrouterBody(c, ids)
      BY <2>4, Zenon DEF Submission, c
    <3> DEFINE m == BatchModel(c.model)
    <3>3. items = [k \in DOMAIN ids |-> Item(ids[k], m, c.effort, OpenrouterContent(ids[k]))]
      BY <3>2, Zenon DEF OpenrouterBody
    <3> HIDE DEF m
    <3>4. SentModel(b.kind, c) = m
      BY <3>1, Zenon DEF m
    <3>5. QED
      BY <3>3, <3>4
  <2>5. QED
    BY <1>2, <2>1, <2>2, <2>3, <2>4 DEF HasLane
<1>5. DOMAIN items = 1..n /\ DOMAIN ids = 1..n
  BY <1>3
<1>6. ASSUME NEW k \in 1..n
      PROVE  /\ items[k].id = k - 1 /\ items[k].model = SentModel(b.kind, c)
             /\ items[k].effort = EffortSent(s)
  <2>1. PICK w : items[k] = Item(k - 1, SentModel(b.kind, c), c.effort, w)
    BY <1>3, <1>5
  <2>2. QED
    BY <1>2, <2>1 DEF Item
<1>7. Carried(items)
  BY <1>5, <1>6 DEF Carried
<1>8. ASSUME NEW k \in DOMAIN items PROVE Suits(b.kind, s, items[k])
  <2>1. items[k].model = SentModel(b.kind, c) /\ items[k].effort = EffortSent(s)
    BY <1>5, <1>6
  <2>2. WireTakes(b.kind, items[k].model, items[k].effort)
    BY <1>2, <2>1, Zenon
  <2>3. /\ EffortSent(s) = "none" <=> s.levelled /\ s.effort = "none"
        /\ EffortSent(s) # "low"
    BY DepthIsFloored
  <2>4. QED
    BY <2>1, <2>2, <2>3, Zenon DEF Suits
<1>9. QED
  BY <1>7, <1>8

\* Nobody submits without a lane that can be polled, and for another slot; a lane with its
\* key refused the slot its wire would have.
SlotInv ==
  /\ client.role = "submitter" =>
       /\ HasLane(backend) /\ PollerOf(backend).role = "poller"
       /\ synthSlot \in SynthSlots /\ client = SubmitterOf(backend, synthSlot)
  /\ client.role = "none" => submission = << >> /\ upload = << >>
  /\ client.role = "refused" /\ HasLane(backend) /\ backend.keyed =>
       ~WireTakes(backend.kind, BatchModel(synthSlot.id), EffortSent(synthSlot))

\* What was submitted, or waits for it, is what the slot asks and the wire takes; a provider
\* ends each item once.
LaneInv ==
  /\ SlotInv
  /\ Carried(submission) /\ Carried(upload) /\ AllSuit(submission) /\ AllSuit(upload)
  /\ submission # Unsent => HasLane(backend)
  /\ output \in Seq(EndedLines) /\ faults \in Seq(EndedLines)
  /\ OneEach(output) /\ OneEach(faults) /\ LineIds(output) \cap LineIds(faults) = {}
  /\ backend.kind # "openai" => faults = << >>
  /\ LineIds(output) \cup LineIds(faults) \subseteq Ids
  /\ submission = Unsent => answers = << >> /\ progress = <<0, 0>>
  /\ backend.kind \in {"openai", "openrouter"} =>
       \A k \in DOMAIN answers : answers[k].id = submission[k].id
  /\ progress # <<0, 0>> =>
       progress[1] \in Nat /\ progress[2] = Cardinality(Ids) /\ progress[1] <= Cardinality(Settled)

\* The ids of a batch are its indices.
LEMMA IdsAreIndices ==
  ASSUME NEW items, Carried(items)
  PROVE  \E n \in Nat : /\ DOMAIN items = 1..n /\ {items[k].id : k \in DOMAIN items} = 0..(n - 1)
                        /\ \A k \in 1..n : items[k].id = k - 1
<1>1. PICK n \in Nat : DOMAIN items = 1..n /\ \A k \in 1..n : items[k].id = k - 1
  BY DEF Carried
<1>3. {items[k].id : k \in DOMAIN items} = 0..(n - 1)
  <2>1. ASSUME NEW x \in 0..(n - 1) PROVE x \in {items[k].id : k \in DOMAIN items}
    <3>1. x + 1 \in 1..n /\ (x + 1) - 1 = x
      BY <2>1
    <3>2. QED
      BY <1>1, <3>1
  <2>2. ASSUME NEW k \in DOMAIN items PROVE items[k].id \in 0..(n - 1)
    <3>1. k \in 1..n /\ items[k].id = k - 1
      BY <1>1, <2>2
    <3>2. k - 1 \in 0..(n - 1)
      BY <3>1
    <3>3. QED
      BY <3>1, <3>2
  <2>3. QED
    BY <2>1, <2>2
<1>4. QED
  BY <1>1, <1>3

\* What has been ended so far, each item once.
LEMMA LinesAreOneEach ==
  ASSUME LaneInv
  PROVE  /\ Lines \in Seq(EndedLines) /\ OneEach(Lines) /\ LineIds(Lines) = Settled
         /\ Settled = LineIds(output) \cup LineIds(faults) /\ Settled \subseteq Ids
         /\ IsFiniteSet(Ids) /\ Cardinality(Ids) \in Nat
         /\ IsFiniteSet(Settled) /\ Cardinality(Settled) \in Nat
         /\ Cardinality(Settled) <= Cardinality(Ids)
<1>1. LineIds(<< >>) = {}
  BY DEF LineIds
<1>2. /\ Lines \in Seq(EndedLines) /\ OneEach(Lines)
      /\ LineIds(Lines) = LineIds(output) \cup LineIds(faults)
  <2>1. CASE backend.kind = "openai"
    BY <2>1, FilesJoined DEF LaneInv, Lines
  <2>2. CASE backend.kind # "openai"
    BY <1>1, <2>2 DEF LaneInv, Lines
  <2>3. QED
    BY <2>1, <2>2
<1>3. LineIds(Lines) = Settled
  BY DEF Settled, LineIds
<1>4. Settled \subseteq Ids
  BY <1>2, <1>3 DEF LaneInv
<1>5. IsFiniteSet(Ids)
  <2>1. PICK n \in Nat : Ids = 0..(n - 1)
    BY IdsAreIndices DEF Ids, LaneInv
  <2>2. 0 \in Int /\ n - 1 \in Int
    OBVIOUS
  <2>3. QED
    BY <2>1, <2>2, FS_Interval
<1>6. IsFiniteSet(Settled) /\ Cardinality(Settled) <= Cardinality(Ids)
  BY <1>4, <1>5, FS_Subset
<1>7. QED
  BY <1>2, <1>3, <1>4, <1>5, <1>6, FS_CardinalityType

\* The three ways of counting agree: what ended, of all that was submitted.
LEMMA CountsAreTheBatch ==
  ASSUME LaneInv, NEW counts \in {CountsOf, GeminiProgress, OpenaiCounts}
  PROVE  counts = <<Cardinality(Settled), Cardinality(Ids)>>
<1>1. Cardinality(Having("answered")) + Cardinality(Having("failed")) = Cardinality(Settled)
  BY LinesAreOneEach, CountsAdd DEF Having
<1>2. Cardinality(Settled) + Cardinality(Ids \ Settled) = Cardinality(Ids)
  <2>1. /\ Settled \cup (Ids \ Settled) = Ids /\ Settled \cap (Ids \ Settled) = {}
        /\ IsFiniteSet(Settled) /\ IsFiniteSet(Ids \ Settled)
    BY LinesAreOneEach, FS_Subset
  <2>2. Cardinality(Settled \cap (Ids \ Settled)) = 0
    BY <2>1, FS_EmptySet
  <2>3. Cardinality(Ids) = Cardinality(Settled) + Cardinality(Ids \ Settled) - 0
    BY <2>1, <2>2, FS_Union
  <2>4. Cardinality(Settled) \in Nat /\ Cardinality(Ids \ Settled) \in Nat
    BY <2>1, FS_CardinalityType
  <2>5. QED
    BY <2>3, <2>4
<1>3. CountsOf = <<Cardinality(Settled), Cardinality(Ids)>>
  BY <1>1, <1>2 DEF CountsOf
<1>4. GeminiProgress = <<Cardinality(Settled), Cardinality(Ids)>>
  BY <1>1 DEF GeminiProgress
<1>5. OpenaiCounts = <<Cardinality(Settled), Cardinality(Ids)>>
  BY <1>1 DEF OpenaiCounts
<1>6. QED
  BY <1>3, <1>4, <1>5

\* What is known of the slot stays while slot and client do.
LEMMA SlotStays ==
  ASSUME SlotInv, AllSuit(submission), AllSuit(upload),
         UNCHANGED <<backend, synthSlot, client, submission, upload>>
  PROVE  SlotInv' /\ AllSuit(submission)' /\ AllSuit(upload)'
<1>1. /\ backend' = backend /\ synthSlot' = synthSlot /\ client' = client
      /\ submission' = submission /\ upload' = upload
  OBVIOUS
<1>2. SlotInv'
  BY <1>1, Zenon DEF SlotInv
<1>3. AllSuit(submission)' /\ AllSuit(upload)'
  BY <1>1, Zenon DEF AllSuit
<1>4. QED
  BY <1>2, <1>3

\* A step that adds nothing to the lines nor to the batch.
LEMMA SameBatch ==
  ASSUME LaneInv, UNCHANGED <<backend, submission, upload, output, faults>>,
         SlotInv', AllSuit(submission)', AllSuit(upload)',
         \/ UNCHANGED progress
         \/ submission # Unsent /\ progress' = <<Cardinality(Settled), Cardinality(Ids)>>,
         \/ UNCHANGED answers
         \/ /\ submission # Unsent
            /\ backend.kind \in {"openai", "openrouter"} =>
                 \A k \in DOMAIN answers' : answers'[k].id = submission[k].id
  PROVE  LaneInv'
<1>1. Ids' = Ids /\ Settled' = Settled
  BY DEF Ids, Settled, Lines
<1>3. progress' # <<0, 0>> => /\ progress'[1] \in Nat /\ progress'[2] = Cardinality(Ids)
                              /\ progress'[1] <= Cardinality(Settled)
  BY LinesAreOneEach DEF LaneInv
<1>4. backend.kind \in {"openai", "openrouter"} =>
        \A k \in DOMAIN answers' : answers'[k].id = submission[k].id
  BY DEF LaneInv
<1>5. submission = Unsent => answers' = << >> /\ progress' = <<0, 0>>
  BY DEF LaneInv
<1>6. HasLane(backend') = HasLane(backend)
  BY Zenon
<1>7. QED
  BY <1>1, <1>3, <1>4, <1>5, <1>6 DEF LaneInv

\* A submission, of what its lane's body carries.
LEMMA Submits ==
  ASSUME LaneInv, submission = Unsent, client.role = "submitter", Carried(submission'),
         UNCHANGED <<backend, synthSlot, client, output, faults, progress, answers>>, Carried(upload'),
         AllSuit(submission)', AllSuit(upload)'
  PROVE  LaneInv'
<1>1. Ids = {}
  BY DEF Ids, Unsent
<1>2. Settled = {} /\ LineIds(output) = {} /\ LineIds(faults) = {}
  BY <1>1, LinesAreOneEach
<1>3. HasLane(backend')
  BY DEF LaneInv, SlotInv
<1>4. answers' = << >> /\ progress' = <<0, 0>>
  BY DEF LaneInv
<1>5. LineIds(output)' = {} /\ LineIds(faults)' = {}
  BY <1>2
<1>6. SlotInv'
  <2>1. backend' = backend /\ synthSlot' = synthSlot /\ client' = client
    OBVIOUS
  <2>2. client.role # "none" /\ client.role # "refused"
    OBVIOUS
  <2>3. QED
    BY <2>1, <2>2, Zenon DEF LaneInv, SlotInv
<1>7. QED
  BY <1>3, <1>4, <1>5, <1>6 DEF LaneInv

LEMMA LaneStep == LaneInv /\ [LaneNext]_laneVars => LaneInv'
<1> SUFFICES ASSUME LaneInv, [LaneNext]_laneVars PROVE LaneInv'
  OBVIOUS
<1>0. SlotInv /\ AllSuit(submission) /\ AllSuit(upload)
  BY DEF LaneInv
<1>1. CASE BuildSubmitter
  <2>1. /\ client.role = "none" /\ synthSlot' \in SynthSlots /\ client' = SubmitterOf(backend, synthSlot')
        /\ UNCHANGED <<backend, submission, upload, output, faults, progress, answers>>
    BY <1>1 DEF BuildSubmitter
  <2>2. Judged(backend, synthSlot')
    BY <2>1, SubmittersHaveLanes
  <2>3. submission' = << >> /\ upload' = << >>
    BY <1>0, <2>1 DEF SlotInv
  <2>4. AllSuit(submission)' /\ AllSuit(upload)'
    BY <2>3 DEF AllSuit
  <2>5. backend' = backend
    BY <2>1
  <2>6. SlotInv'
    BY <2>1, <2>2, <2>3, <2>5, Zenon DEF Judged, SlotInv
  <2>7. QED
    BY <2>1, <2>4, <2>6, SameBatch
<1>2. CASE BuildPoller
  <2>1. /\ client.role # "refused" /\ client' = PollerOf(backend)
        /\ UNCHANGED <<backend, synthSlot, submission, upload, output, faults, progress, answers>>
    BY <1>2 DEF BuildPoller
  <2>2. PICK s : s \in SynthSlots
    <3>1. [id |-> [named |-> TRUE, suffixed |-> FALSE], levelled |-> TRUE, effort |-> "high"] \in SynthSlots
      <4>1. [named |-> TRUE, suffixed |-> FALSE] \in ModelIds
        BY DEF ModelIds
      <4>2. [named |-> TRUE, suffixed |-> FALSE].named # NoModel.named
        BY DEF NoModel
      <4>3. [named |-> TRUE, suffixed |-> FALSE] # NoModel
        BY <4>2
      <4>4. QED
        BY <4>1, <4>3 DEF SynthSlots, Depths
    <3>2. QED
      BY <3>1
  <2>3. Judged(backend, s)
    BY <2>2, SubmittersHaveLanes
  <2>4. /\ PollerOf(backend).role \in {"poller", "refused"}
        /\ HasLane(backend) /\ backend.keyed => PollerOf(backend).role = "poller"
    BY <2>3, Zenon DEF Judged
  <2>5. /\ client'.role # "submitter" /\ client'.role # "none"
        /\ ~(client'.role = "refused" /\ HasLane(backend) /\ backend.keyed)
    BY <2>1, <2>4
  <2>6. SlotInv'
    <3>1. backend' = backend /\ synthSlot' = synthSlot
      BY <2>1
    <3>2. QED
      BY <2>5, <3>1, Zenon DEF SlotInv
  <2>7. AllSuit(submission)' /\ AllSuit(upload)'
    <3>1. backend' = backend /\ synthSlot' = synthSlot /\ submission' = submission /\ upload' = upload
      BY <2>1
    <3>2. QED
      BY <1>0, <3>1, Zenon DEF AllSuit
  <2>8. QED
    BY <2>1, <2>6, <2>7, SameBatch
<1>3. CASE UploadInput
  <2>1. PICK n \in 1..MaxPrompts : /\ CanSubmit([k \in 1..n |-> k - 1])
                                   /\ upload' = OpenaiJsonl(client, [k \in 1..n |-> k - 1])
    BY <1>3, Zenon DEF UploadInput
  <2>2. /\ UNCHANGED <<backend, synthSlot, client, submission, output, faults, progress, answers>>
        /\ backend.kind = "openai"
    BY <1>3 DEF UploadInput
  <2>3. n \in Nat /\ client.role = "submitter"
    BY <2>1, LaneAssumption DEF CanSubmit
  <2>4. synthSlot \in SynthSlots /\ client = SubmitterOf(backend, synthSlot)
    BY <1>0, <2>3 DEF SlotInv
  <2>5. upload' = Submission(backend.kind, SubmitterOf(backend, synthSlot), [k \in 1..n |-> k - 1])
    BY <2>1, <2>2, <2>4 DEF Submission
  <2>6. Carried(upload') /\ \A k \in DOMAIN upload' : Suits(backend.kind, synthSlot, upload'[k])
    BY <2>3, <2>4, <2>5, BodiesCarry, Zenon
  <2>7. Ids' = Ids /\ Settled' = Settled /\ LineIds(output)' = LineIds(output) /\ LineIds(faults)' = LineIds(faults)
    BY <2>2 DEF Ids, Settled, Lines
  <2>8. SlotInv' /\ AllSuit(submission)' /\ AllSuit(upload)'
    <3>1. backend' = backend /\ synthSlot' = synthSlot /\ submission' = submission /\ client' = client
      BY <2>2
    <3>2. client.role # "none" /\ client.role # "refused"
      BY <2>3
    <3>3. SlotInv'
      BY <1>0, <3>1, <3>2, Zenon DEF SlotInv
    <3>4. QED
      BY <1>0, <2>6, <3>1, <3>3, Zenon DEF AllSuit
  <2>9. HasLane(backend') = HasLane(backend)
    BY <2>2, Zenon
  <2>10. QED
    BY <2>2, <2>6, <2>7, <2>8, <2>9 DEF LaneInv
<1>4. CASE SubmitOpenai
  <2>1. /\ client.role = "submitter" /\ submission = Unsent
        /\ submission' = upload /\ upload' = << >>
        /\ UNCHANGED <<backend, synthSlot, client, output, faults, progress, answers>>
    BY <1>4 DEF SubmitOpenai, CanSubmit, NoUpload
  <2>2. Carried(submission')
    BY <2>1 DEF LaneInv
  <2>3. Carried(upload')
    <3>1. DOMAIN upload' = 1..0 /\ \A k \in 1..0 : upload'[k].id = k - 1
      BY <2>1
    <3>2. QED
      BY <3>1 DEF Carried
  <2>4. AllSuit(submission)' /\ AllSuit(upload)'
    <3>1. backend' = backend /\ synthSlot' = synthSlot /\ submission' = upload
      BY <2>1
    <3>2. AllSuit(submission)'
      BY <1>0, <3>1, Zenon DEF AllSuit
    <3>3. AllSuit(upload)'
      BY <2>1 DEF AllSuit
    <3>4. QED
      BY <3>2, <3>3
  <2>5. QED
    BY <2>1, <2>2, <2>3, <2>4, Submits
<1>5. CASE SubmitInline
  <2>1. PICK n \in 1..MaxPrompts :
          LET ids == [k \in 1..n |-> k - 1] IN CanSubmit(ids) /\ submission' = Submission(backend.kind, client, ids)
    BY <1>5, Zenon DEF SubmitInline
  <2>2. client.role = "submitter" /\ submission = Unsent /\ n \in Nat
    BY <2>1, LaneAssumption DEF CanSubmit
  <2>3. UNCHANGED <<backend, synthSlot, client, upload, output, faults, progress, answers>>
    BY <1>5 DEF SubmitInline
  <2>4. synthSlot \in SynthSlots /\ client = SubmitterOf(backend, synthSlot)
    BY <1>0, <2>2 DEF SlotInv
  <2>5. Carried(submission') /\ \A k \in DOMAIN submission' : Suits(backend.kind, synthSlot, submission'[k])
    BY <2>1, <2>2, <2>4, BodiesCarry, Zenon
  <2>6. Carried(upload')
    BY <2>3 DEF LaneInv
  <2>7. AllSuit(submission)' /\ AllSuit(upload)'
    <3>1. backend' = backend /\ synthSlot' = synthSlot /\ upload' = upload
      BY <2>3
    <3>2. QED
      BY <1>0, <2>5, <3>1, Zenon DEF AllSuit
  <2>8. QED
    BY <2>2, <2>3, <2>5, <2>6, <2>7, Submits
<1>6. CASE Run
  <2>1. PICK id \in Ids \ Settled, how \in {"answered", "failed"} :
          IF backend.kind = "openai" /\ how = "failed"
            THEN faults' = Append(faults, EndedLine(id, how)) /\ UNCHANGED output
            ELSE output' = Append(output, EndedLine(id, how)) /\ UNCHANGED faults
    BY <1>6 DEF Run
  <2>2. UNCHANGED <<backend, synthSlot, client, submission, upload, progress, answers>>
    BY <1>6 DEF Run
  <2>3. id \notin LineIds(output) /\ id \notin LineIds(faults)
    BY <2>1, LinesAreOneEach
  <2>4. EndedLine(id, how) \in EndedLines /\ EndedLine(id, how).id = id
    <3>1. PICK n \in Nat : Ids = 0..(n - 1)
      BY IdsAreIndices DEF Ids, LaneInv
    <3>2. id \in Nat
      BY <2>1, <3>1
    <3>3. QED
      BY <2>1, <3>2 DEF EndedLine, EndedLines
  <2>5. /\ output' \in Seq(EndedLines) /\ faults' \in Seq(EndedLines)
        /\ OneEach(output') /\ OneEach(faults') /\ LineIds(output') \cap LineIds(faults') = {}
        /\ LineIds(output') \cup LineIds(faults') = LineIds(output) \cup LineIds(faults) \cup {id}
        /\ backend.kind # "openai" => faults' = << >>
    <3>1. /\ output \in Seq(EndedLines) /\ faults \in Seq(EndedLines)
          /\ OneEach(output) /\ OneEach(faults) /\ LineIds(output) \cap LineIds(faults) = {}
          /\ backend.kind # "openai" => faults = << >>
      BY DEF LaneInv
    <3>2. CASE backend.kind = "openai" /\ how = "failed"
      <4>1. faults' = Append(faults, EndedLine(id, how)) /\ output' = output
        BY <2>1, <3>2
      <4>2. /\ faults' \in Seq(EndedLines) /\ OneEach(faults')
            /\ LineIds(faults') = LineIds(faults) \cup {id}
        BY <2>3, <2>4, <3>1, <4>1, OneLineMore
      <4>3. QED
        BY <2>3, <3>1, <3>2, <4>1, <4>2
    <3>3. CASE ~(backend.kind = "openai" /\ how = "failed")
      <4>1. output' = Append(output, EndedLine(id, how)) /\ faults' = faults
        BY <2>1, <3>3
      <4>2. /\ output' \in Seq(EndedLines) /\ OneEach(output')
            /\ LineIds(output') = LineIds(output) \cup {id}
        BY <2>3, <2>4, <3>1, <4>1, OneLineMore
      <4>3. QED
        BY <2>3, <3>1, <4>1, <4>2
    <3>4. QED
      BY <3>2, <3>3
  <2>6. Ids' = Ids /\ id \in Ids
    BY <2>1, <2>2 DEF Ids
  <2>7. LineIds(output') \cup LineIds(faults') \subseteq Ids
    BY <2>5, <2>6 DEF LaneInv
  <2>8. Settled' = LineIds(output') \cup LineIds(faults')
    <3>1. Lines' = IF backend.kind = "openai" THEN output' \o faults' ELSE output'
      BY <2>2 DEF Lines
    <3>2. CASE backend.kind = "openai"
      <4>1. LineIds(Lines') = LineIds(output') \cup LineIds(faults')
        BY <2>5, <3>1, <3>2, FilesJoined
      <4>2. QED
        BY <4>1 DEF Settled, LineIds
    <3>3. CASE backend.kind # "openai"
      <4>1. Lines' = output' /\ faults' = << >>
        BY <2>5, <3>1, <3>3
      <4>2. QED
        BY <4>1 DEF Settled, LineIds
    <3>4. QED
      BY <3>2, <3>3
  <2>9. submission # Unsent
    BY <2>6 DEF Ids, Unsent
  <2>10. Cardinality(Settled) <= Cardinality(Settled') /\ Cardinality(Settled) \in Nat /\ Cardinality(Settled') \in Nat
    <3>1. IsFiniteSet(Ids) /\ Settled \subseteq Settled' /\ Settled' \subseteq Ids
      BY <2>5, <2>7, <2>8, LinesAreOneEach
    <3>2. IsFiniteSet(Settled') /\ IsFiniteSet(Settled)
      BY <3>1, FS_Subset
    <3>3. QED
      BY <3>1, <3>2, FS_Subset, FS_CardinalityType
  <2>11. progress' # <<0, 0>> => /\ progress'[1] \in Nat /\ progress'[2] = Cardinality(Ids')
                                /\ progress'[1] <= Cardinality(Settled')
    BY <2>2, <2>6, <2>10 DEF LaneInv
  <2>12. HasLane(backend') = HasLane(backend) /\ PollerOf(backend') = PollerOf(backend)
    BY <2>2, Zenon
  <2>13. LineIds(output)' = LineIds(output') /\ LineIds(faults)' = LineIds(faults')
    OBVIOUS
  <2>14. SlotInv' /\ AllSuit(submission)' /\ AllSuit(upload)'
    BY <2>2, SlotStays DEF LaneInv
  <2>15. QED
    BY <2>2, <2>5, <2>6, <2>7, <2>9, <2>11, <2>12, <2>13, <2>14 DEF LaneInv
<1>7. CASE PollBatch
  <2>1. PollCounts \in {CountsOf, GeminiProgress, OpenaiCounts}
    BY Zenon DEF PollCounts
  <2>2. /\ submission # Unsent /\ progress' = PollCounts
        /\ UNCHANGED <<backend, synthSlot, client, submission, upload, output, faults, answers>>
    BY <1>7 DEF PollBatch
  <2>3. progress' = <<Cardinality(Settled), Cardinality(Ids)>>
    BY <2>1, <2>2, CountsAreTheBatch
  <2>4. SlotInv' /\ AllSuit(submission)' /\ AllSuit(upload)'
    BY <1>0, <2>2, SlotStays
  <2>5. QED
    BY <2>2, <2>3, <2>4, SameBatch
<1>8. CASE ListBatches
  <2>1. Listed \in {CountsOf, GeminiProgress, OpenaiCounts}
    BY Zenon DEF Listed, AnthropicListed, GeminiListed, OpenaiListed
  <2>2. /\ submission # Unsent /\ progress' = Listed
        /\ UNCHANGED <<backend, synthSlot, client, submission, upload, output, faults, answers>>
    BY <1>8 DEF ListBatches
  <2>3. progress' = <<Cardinality(Settled), Cardinality(Ids)>>
    BY <2>1, <2>2, CountsAreTheBatch
  <2>4. SlotInv' /\ AllSuit(submission)' /\ AllSuit(upload)'
    BY <1>0, <2>2, SlotStays
  <2>5. QED
    BY <2>2, <2>3, <2>4, SameBatch
<1>9. CASE Collect
  <2>1. /\ submission # Unsent /\ Ids = Settled
        /\ UNCHANGED <<backend, synthSlot, client, submission, upload, output, faults, progress>>
        /\ backend.kind \in {"openai", "openrouter"} => answers' = OrderByIndex(Lines)
    BY <1>9 DEF Collect
  <2>2. PICK n \in Nat : /\ Ids = 0..(n - 1)
                         /\ \A k \in 1..n : submission[k].id = k - 1
    BY IdsAreIndices DEF Ids, LaneInv
  <2>3. DOMAIN Lines = 1..Len(Lines) /\ Len(Lines) \in Nat
    BY LinesAreOneEach, LenProperties
  <2>4. /\ DOMAIN OrderByIndex(Lines) = 1..n
        /\ \A k \in 1..n : OrderByIndex(Lines)[k].id = k - 1
    BY <2>1, <2>2, <2>3, LinesAreOneEach, OrderedByIndex
  <2>5. backend.kind \in {"openai", "openrouter"} =>
          \A k \in DOMAIN answers' : answers'[k].id = submission[k].id
    BY <2>1, <2>2, <2>4
  <2>6. SlotInv' /\ AllSuit(submission)' /\ AllSuit(upload)'
    BY <1>0, <2>1, SlotStays
  <2>7. QED
    BY <2>1, <2>5, <2>6, SameBatch
<1>10. CASE UNCHANGED laneVars
  <2>1. UNCHANGED <<backend, synthSlot, client, submission, upload, output, faults, progress, answers>>
    BY <1>10 DEF laneVars
  <2>2. SlotInv' /\ AllSuit(submission)' /\ AllSuit(upload)'
    BY <1>0, <2>1, SlotStays
  <2>3. QED
    BY <2>1, <2>2, SameBatch
<1>11. QED
  BY <1>1, <1>2, <1>3, <1>4, <1>5, <1>6, <1>7, <1>8, <1>9, <1>10 DEF LaneNext

LEMMA LanesThen == LaneInv => LanesHold
<1> SUFFICES ASSUME LaneInv PROVE LanesHold
  OBVIOUS
<1>1. SubmittedIsPollable
  BY Zenon DEF LaneInv, SlotInv, SubmittedIsPollable
<1>2. ItemsAreTaken
  BY DEF LaneInv, AllSuit, Suits, ItemsAreTaken
<1>3. AnswersAreTheirs
  BY DEF LaneInv, AnswersAreTheirs
<1>4. QED
  BY <1>1, <1>2, <1>3 DEF LanesHold

\* Whichever provider's lane, whatever slot, however many prompts, and in whatever order the
\* items end: who submits can be polled for, a slot is refused just when the wire would have
\* refused its items and none of those is sent, an answer told under an id is that prompt's,
\* and the counts told add up to the batch.
THEOREM LanesAlwaysHold == LaneSpec => []LanesHold
<1>1. LaneInit => LaneInv
  <2> SUFFICES ASSUME LaneInit PROVE LaneInv
    OBVIOUS
  <2>1. /\ submission = << >> /\ submission = Unsent /\ upload = << >>
        /\ output = << >> /\ faults = << >> /\ progress = <<0, 0>> /\ answers = << >>
    BY DEF LaneInit, Unsent, NoUpload
  <2>2. client.role = "none"
    BY DEF LaneInit, Nobody
  <2>3. SlotInv
    <3>1. "none" # "submitter" /\ "none" # "refused"
      OBVIOUS
    <3>2. QED
      BY <2>1, <2>2, <3>1, Zenon DEF SlotInv
  <2>4. Carried(<< >>)
    <3>1. DOMAIN << >> = 1..0 /\ \A k \in 1..0 : << >>[k].id = k - 1
      OBVIOUS
    <3>2. QED
      BY <3>1 DEF Carried
  <2>5. << >> \in Seq(EndedLines) /\ OneEach(<< >>) /\ LineIds(<< >>) = {}
    BY EmptySeq DEF OneEach, LineIds
  <2>6. AllSuit(submission) /\ AllSuit(upload)
    BY <2>1 DEF AllSuit
  <2>7. QED
    BY <2>1, <2>3, <2>4, <2>5, <2>6 DEF LaneInv
<1>2. QED
  BY <1>1, LaneStep, LanesThen, PTL DEF LaneSpec

-----------------------------------------------------------------------------
(* The settings *)

\* The settings the properties speak of.
Consents == {"telemetry", "capture_content", "artifacts"}
Special == {"follow_worktrees", "infer_cwd", "persistence", "metrics_endpoint", "capture"}
             \cup Consents

SpecialSettings ==
  {Switch("follow_worktrees", "off", "off", "true"), Switch("infer_cwd", "off", "off", "true"),
   Switch("persistence", "off", "off", "true"), Switch("telemetry", "loose", "none", "false"),
   Switch("capture_content", "loose", "none", "false"),
   Switch("artifacts", "strict", "on", "false"), Word("metrics_endpoint", "set", "none", {}),
   Word("capture", "none", "none", {})}

LEMMA KeysOfSettings ==
  /\ \A key, env, flag, default : Switch(key, env, flag, default).key = key
  /\ \A key, env, flag, refused : Number(key, env, flag, refused).key = key
  /\ \A key, refused : Ratio(key, refused).key = key
  /\ \A key, env, flag, refused : Word(key, env, flag, refused).key = key
  /\ \A key, env, flag, default : Place(key, env, flag, default).key = key
BY DEF Switch, Number, Ratio, Word, Place

LEMMA OneSettingEach ==
  ASSUME NEW s \in OtherSettings, s.key \in Special
  PROVE  s \in SpecialSettings
<1>1. \/ s \in ServerSettings \/ s \in DefaultsSettings \/ s \in TelemetrySettings
      \/ s \in PersistenceSettings \/ s \in CasSettings \/ s \in ArtifactsSettings
      \/ s \in ContextSettings \/ s \in PromptSettings \/ s \in OrientationSettings
      \/ s \in SandboxSettings \/ s \in KaishSettings
  BY Zenon DEF OtherSettings
<1>2. CASE s \in ServerSettings
  BY <1>2, KeysOfSettings DEF ServerSettings, Special, Consents, SpecialSettings
<1>3. CASE s \in DefaultsSettings
  BY <1>3, KeysOfSettings DEF DefaultsSettings, Turns, Capacities, Special, Consents
<1>4. CASE s \in TelemetrySettings
  BY <1>4, KeysOfSettings DEF TelemetrySettings, Special, Consents, SpecialSettings
<1>5. CASE s \in PersistenceSettings
  BY <1>5, KeysOfSettings DEF PersistenceSettings, Special, Consents, SpecialSettings
<1>6. CASE s \in CasSettings
  BY <1>6, KeysOfSettings DEF CasSettings, Special, Consents, SpecialSettings
<1>7. CASE s \in ArtifactsSettings
  BY <1>7, KeysOfSettings DEF ArtifactsSettings, Special, Consents, SpecialSettings
<1>8. CASE s \in ContextSettings
  BY <1>8, KeysOfSettings DEF ContextSettings, Special, Consents, SpecialSettings
<1>9. CASE s \in PromptSettings
  BY <1>9, KeysOfSettings DEF PromptSettings, Special, Consents, SpecialSettings
<1>10. CASE s \in OrientationSettings
  BY <1>10, KeysOfSettings DEF OrientationSettings, Special, Consents, SpecialSettings
<1>11. CASE s \in SandboxSettings
  BY <1>11, KeysOfSettings DEF SandboxSettings, Special, Consents, SpecialSettings
<1>12. CASE s \in KaishSettings
  BY <1>12, KeysOfSettings DEF KaishSettings, Special, Consents, SpecialSettings
<1>13. QED
  BY <1>1, <1>2, <1>3, <1>4, <1>5, <1>6, <1>7, <1>8, <1>9, <1>10, <1>11, <1>12

\* The switches that may be turned off on the way up.
OffKeys == GatedTools \cup {"follow_worktrees", "infer_cwd", "persistence"}

LEMMA SpecialAreSettings ==
  /\ SpecialSettings \subseteq OtherSettings
  /\ \A s \in SpecialSettings : s.key \notin GatedTools
<1>1. SpecialSettings \subseteq UNION {ServerSettings, TelemetrySettings, PersistenceSettings, ArtifactsSettings}
  BY DEF SpecialSettings, ServerSettings, TelemetrySettings, PersistenceSettings, ArtifactsSettings
<1>2. SpecialSettings \subseteq OtherSettings
  BY <1>1, Zenon DEF OtherSettings
<1>3. QED
  BY <1>2, ToolsAssumption

\* Settings that are neither a tool nor a switch to turn off.
LEMMA OffKeysAreApart ==
  OffKeys \cap {"telemetry", "capture_content", "artifacts", "metrics_endpoint", "endpoint",
                "logs_endpoint", "state_db", "cas_dir", "metrics", "slow_chat_secs",
                "allow_paths"} = {}
<1>1. {Word("endpoint", "set", "none", {}), Word("logs_endpoint", "set", "none", {}),
       Word("metrics_endpoint", "set", "none", {}),
       Switch("telemetry", "loose", "none", "false"), Switch("metrics", "loose", "none", "true"),
       Switch("capture_content", "loose", "none", "false")} \subseteq TelemetrySettings
  BY DEF TelemetrySettings
<1>2. Switch("artifacts", "strict", "on", "false") \in ArtifactsSettings
  BY DEF ArtifactsSettings
<1>3. Place("state_db", "set", "set", "plain") \in PersistenceSettings
  BY DEF PersistenceSettings
<1>4. Place("cas_dir", "set", "set", "plain") \in CasSettings
  BY DEF CasSettings
<1>5. Number("slow_chat_secs", "set", "none", {}) \in DefaultsSettings
  BY DEF DefaultsSettings
<1>6. Place("allow_paths", "list", "list", Unsaid) \in ServerSettings
  BY DEF ServerSettings
<1>7. ServerSettings \cup TelemetrySettings \cup ArtifactsSettings \cup PersistenceSettings \cup CasSettings
        \cup DefaultsSettings \subseteq OtherSettings
  BY Zenon DEF OtherSettings
<1>8. \A s \in OtherSettings : s.key \notin GatedTools
  BY ToolsAssumption
<1>9. {"telemetry", "capture_content", "artifacts", "metrics_endpoint", "endpoint",
       "logs_endpoint", "state_db", "cas_dir", "metrics", "slow_chat_secs",
       "allow_paths"} \cap GatedTools = {}
  BY <1>1, <1>2, <1>3, <1>4, <1>5, <1>7, <1>8, <1>6, KeysOfSettings
<1>10. QED
  BY <1>9 DEF OffKeys

\* A key has one setting.
LEMMA SpecialSetting ==
  ASSUME NEW s \in SpecialSettings
  PROVE  Setting(s.key) = s /\ s.key \in Keys
<1>1. s \in Settings /\ s.key \notin GatedTools /\ s.key \in Special
  BY SpecialAreSettings, KeysOfSettings DEF Settings, SpecialSettings, Special, Consents
<1>2. ASSUME NEW other \in Settings, other.key = s.key
      PROVE  other = s
  <2>1. other \notin ToolSettings
    BY <1>1, <1>2, KeysOfSettings DEF ToolSettings
  <2>2. other \in SpecialSettings
    BY <1>1, <1>2, <2>1, OneSettingEach DEF Settings
  <2>3. QED
    BY <1>2, <2>2, KeysOfSettings DEF SpecialSettings
<1>3. QED
  BY <1>1, <1>2 DEF Setting, Keys

LEMMA ToolSetting ==
  ASSUME NEW tool \in GatedTools
  PROVE  Setting(tool) = Switch(tool, "off", "off", "true") /\ tool \in Keys
<1>1. Switch(tool, "off", "off", "true") \in Settings
  BY DEF ToolSettings, Settings
<1>2. ASSUME NEW other \in Settings, other.key = tool
      PROVE  other = Switch(tool, "off", "off", "true")
  <2>1. other \in ToolSettings
    BY <1>2, ToolsAssumption DEF Settings
  <2>2. QED
    BY <1>2, <2>1, KeysOfSettings DEF ToolSettings
<1>3. QED
  BY <1>1, <1>2, KeysOfSettings DEF Setting, Keys

\* The rows of the table that the properties speak of.
LEMMA Table ==
  /\ \A key \in OffKeys :
       key \in Keys /\ Setting(key) = Switch(key, "off", "off", "true")
  /\ {"telemetry", "capture_content", "artifacts", "metrics_endpoint", "capture"} \subseteq Keys
  /\ Setting("telemetry") = Switch("telemetry", "loose", "none", "false")
  /\ Setting("capture_content") = Switch("capture_content", "loose", "none", "false")
  /\ Setting("artifacts") = Switch("artifacts", "strict", "on", "false")
  /\ Setting("metrics_endpoint") = Word("metrics_endpoint", "set", "none", {})
  /\ Setting("capture") = Word("capture", "none", "none", {})
BY SpecialSetting, ToolSetting, KeysOfSettings DEF OffKeys, SpecialSettings

-----------------------------------------------------------------------------
(* What the layers say of them *)

LEMMA WhatIsSaid ==
  ASSUME NEW layer \in {"file", "env", "flag"}, NEW said \in Speeches(layer), NEW key \in topic
  PROVE  said[key] = Unsaid \/ said[key] \in Layer(layer, Setting(key))
BY Zenon DEF Speeches

LEMMA OffWords ==
  ASSUME NEW key \in OffKeys
  PROVE  /\ Layer("file", Setting(key)) = {"true", "false"}
         /\ Layer("flag", Setting(key)) = {"raised"}
<1>1. Setting(key).kind = "switch" /\ Setting(key).flag = "off"
  BY Table DEF Switch
<1>2. Words(Setting(key)) = {"true", "false"}
  BY <1>1, Zenon DEF Words
<1>3. FlagWords(Setting(key)) = {"raised"}
  BY <1>1 DEF FlagWords
<1>4. QED
  BY <1>1, <1>2, <1>3 DEF Layer

LEMMA ConsentWords ==
  ASSUME NEW key \in Consents
  PROVE  /\ Layer("file", Setting(key)) = {"true", "false"}
         /\ Layer("env", Setting(key)) = {"true", "false", "garbled"}
         /\ key # "artifacts" => Layer("flag", Setting(key)) = {}
         /\ key = "artifacts" => Layer("flag", Setting(key)) = {"raised"}
<1>1. /\ Setting(key).kind = "switch" /\ Setting(key).env \in {"loose", "strict"}
      /\ key # "artifacts" => Setting(key).flag = "none"
      /\ key = "artifacts" => Setting(key).flag = "on"
  BY Table DEF Switch, Consents
<1>2. Words(Setting(key)) = {"true", "false"}
  BY <1>1, Zenon DEF Words
<1>3. Texts(Setting(key)) = {"true", "false", "garbled"}
  BY <1>1, <1>2 DEF Texts
<1>4. QED
  BY <1>1, <1>2, <1>3 DEF Layer, FlagWords

LEMMA CollectorWords ==
  Layer("file", Setting("metrics_endpoint")) = {"given"}
<1>1. Setting("metrics_endpoint") = [key |-> "metrics_endpoint", kind |-> "word", env |-> "set",
                                     flag |-> "none", default |-> "default", refused |-> {}]
  BY Table DEF Word
<1>2. QED
  BY <1>1 DEF Layer, Words

\* Only the file lists attributes.
LEMMA ListedWords ==
  /\ Layer("env", Setting("capture")) = {} /\ Layer("flag", Setting("capture")) = {}
  /\ Setting("capture").kind = "word" /\ Setting("capture").default = "default"
BY Table DEF Word, Layer

Layered == {"file", "env", "flag"}

\* What has been said stays said.
LEMMA Hearing ==
  ASSUME DOMAIN spoken = Layered, NEW layer \in Layered, NEW said,
         Hears(layer, said), topic' = topic
  PROVE  /\ DOMAIN spoken' = Layered
         /\ \A key : Said(layer, key)' = IF key \in topic THEN said[key] ELSE Unsaid
         /\ \A other \in Layered \ {layer} : \A key : Said(other, key)' = Said(other, key)
         /\ \A other \in Layered \ {layer} : spoken'[other] = spoken[other]
BY DEF Hears, Said, Layered

LEMMA QuietLayer ==
  ASSUME UNCHANGED <<spoken, topic>>
  PROVE  \A other, key : Said(other, key)' = Said(other, key)
BY DEF Said

-----------------------------------------------------------------------------
(* The inductive invariant *)

\* A layer that has not been read has said nothing.
Unread ==
  /\ DOMAIN spoken = Layered
  /\ layerAt \in {"file", "env"} => \A key : Said("env", key) = Unsaid
  /\ layerAt \in {"file", "env", "merge", "flags"} => \A key : Said("flag", key) = Unsaid

Down(key) == Raised(Said("env", key)) \/ Said("flag", key) = "raised"

\* A switch is down if it was turned down, and only if it was or the file has it so.
DownIsKept(key) ==
  /\ settings[key] \in {Unsaid, "true", "false"}
  /\ layerAt \notin {"env", "merge"} => settings[key] # Unsaid
  /\ Down(key) => settings[key] = "false"
  /\ settings[key] = "false" => Down(key) \/ Said("file", key) = "false"

ExportsWanted == \/ Names("telemetry", {"true", "garbled"})
                 \/ otel \cap {"base", "traces", "metrics"} # {}
                 \/ Names("metrics_endpoint", {"given"})
ArtifactsWanted == Names("artifacts", {"true", "raised"})

\* A consent is given only if somebody gave it.
ConsentIsGiven ==
  /\ settings["telemetry"] \in {Unsaid, "true", "false"}
  /\ settings["telemetry"] = "true" => ExportsWanted
  /\ layerAt # "env" /\ "disabled" \in otel => settings["telemetry"] = "false"
  /\ settings["capture_content"] \in {Unsaid, "true", "false"}
  /\ settings["capture_content"] = "true" => ContentAsked
  /\ settings["capture"] = "content" => Said("file", "capture") = "content"
  /\ settings["artifacts"] \in {Unsaid, "true", "false"}
  /\ settings["artifacts"] = "true" => ArtifactsWanted
  /\ layerAt = "env" => settings["metrics_endpoint"] \in {Unsaid, Said("file", "metrics_endpoint")}
  /\ Said("file", "metrics_endpoint") \in {Unsaid, "given"}

SettingsInv ==
  layerAt \notin {"file", "refused"} =>
    (\A key \in OffKeys : DownIsKept(key)) /\ ConsentIsGiven

\* What serving holds is what the settings say.
OpenedInv ==
  /\ \E a, b, c, d : opened = [sessions |-> a, media |-> b, exports |-> c, content |-> d]
  /\ layerAt \in {"start", "store", "media", "serving"} =>
       /\ opened.exports = Exported
       /\ opened.content = ContentAllowed
       /\ ~TelemetryFails
  /\ layerAt \in {"media", "serving"} =>
       /\ opened.sessions \in {"persistent", "memory"}
       /\ opened.sessions = "persistent" => On("persistence")
  /\ Serving => opened.media = CasMode(opened.sessions = "persistent")

StartPlaces == {"file", "env", "merge", "flags", "telemetry", "start", "store", "media", "serving",
           "refused"}

LayersInv == layerAt \in StartPlaces /\ Unread /\ SettingsInv /\ OpenedInv

-----------------------------------------------------------------------------
(* The invariant carries the property *)

LEMMA SwitchesThen == LayersInv => SwitchesHold
<1> SUFFICES ASSUME LayersInv, Serving PROVE SwitchesHold
  BY Zenon DEF SwitchesHold, OffIsOff, OptInsAreExplicit, ShownIsTrue
<1>1. /\ \A key \in OffKeys : DownIsKept(key)
      /\ ConsentIsGiven /\ layerAt = "serving"
  BY DEF LayersInv, SettingsInv, Serving
<1>2. /\ opened.exports = Exported /\ opened.content = ContentAllowed /\ ~TelemetryFails
      /\ opened.sessions \in {"persistent", "memory"}
      /\ opened.sessions = "persistent" => On("persistence")
      /\ opened.media = CasMode(opened.sessions = "persistent")
  BY <1>1, Zenon DEF LayersInv, OpenedInv, Serving
<1>3. \A key \in OffKeys : TurnedOff(key) <=> Down(key)
  BY Table DEF TurnedOff, Down, Switch
<1>4. \A key \in OffKeys : settings[key] \in {"true", "false"}
  BY <1>1, Zenon DEF DownIsKept
<1>5. opened.media = "disk" => opened.sessions = "persistent" /\ On("cas")
  BY <1>2 DEF CasMode
<1>6. OffIsOff
  <2>1. \A key \in OffKeys : TurnedOff(key) => settings[key] = "false"
    BY <1>1, <1>3 DEF DownIsKept
  <2>2. ASSUME TurnedOff("persistence") PROVE opened.sessions = "memory" /\ opened.media # "disk"
    <3>1. settings["persistence"] = "false"
      BY <2>1, <2>2 DEF OffKeys
    <3>2. ~On("persistence")
      BY <3>1 DEF On
    <3>3. QED
      BY <3>2, <1>2, <1>5
  <2>3. ASSUME "disabled" \in otel PROVE opened.exports = {}
    <3>1. settings["telemetry"] = "false"
      BY <1>1, <2>3 DEF ConsentIsGiven
    <3>2. QED
      BY <3>1, <1>2 DEF Exported, On
  <2>4. QED
    BY <2>1, <2>2, <2>3, <1>5 DEF OffIsOff, OffKeys
<1>7. OptInsAreExplicit
  <2>1. ASSUME opened.exports # {} PROVE ExportsWanted
    <3>1. On("telemetry")
      BY <2>1, <1>2 DEF Exported
    <3>2. settings["telemetry"] = "true"
      BY <3>1, <1>1 DEF On, ConsentIsGiven, Unsaid
    <3>3. QED
      BY <3>2, <1>1 DEF ConsentIsGiven
  <2>2. /\ "prompts" \in opened.content => ContentAsked
        /\ "responses" \in opened.content => ContentAsked \/ Said("file", "capture") = "content"
    <3>1. On("capture_content") => ContentAsked
      BY <1>1 DEF On, ConsentIsGiven, Unsaid
    <3>2. settings["capture"] = "content" => Said("file", "capture") = "content"
      BY <1>1 DEF ConsentIsGiven
    <3>3. QED
      BY <3>1, <3>2, <1>2 DEF ContentAllowed
  <2>3. On("artifacts") => ArtifactsWanted
    <3>1. On("artifacts") => settings["artifacts"] = "true"
      BY <1>1 DEF On, ConsentIsGiven, Unsaid
    <3>2. QED
      BY <3>1, <1>1 DEF ConsentIsGiven
  <2>4. QED
    BY <2>1, <2>2, <2>3 DEF OptInsAreExplicit, ExportsWanted, ArtifactsWanted
<1>8. ShownIsTrue
  <2>1. /\ Shown.telemetry = On("telemetry") /\ Shown.content = On("capture_content")
        /\ Shown.captured = settings["capture"]
        /\ Shown.addressed = {signal \in {"traces", "logs", "metrics"} :
                                /\ On(signal)
                                /\ signal = "logs" => Derivable("logs_endpoint")
                                /\ signal = "metrics" => Derivable("metrics_endpoint")}
        /\ Shown.tools = {tool \in GatedTools : settings[tool] = "true"}
        /\ Shown.persistence.enabled = On("persistence")
        /\ Shown.persistence.active = (opened.sessions = "persistent")
        /\ Shown.media.enabled = On("cas") /\ Shown.media.mode = opened.media
    BY Zenon DEF Shown
  <2>2. ASSUME On("telemetry") PROVE Shown.addressed = opened.exports
    <3>1. On("logs") => Derivable("logs_endpoint")
      BY <2>2, <1>2 DEF TelemetryFails
    <3>2. QED
      BY <3>1, <2>1, <2>2, <1>2 DEF Exported
  <2>3. ~On("telemetry") => opened.exports = {}
    BY <1>2 DEF Exported
  <2>4. Shown.persistence.active => Shown.persistence.enabled
    BY <2>1, <1>2
  <2>5. Shown.media.mode = "disk" => Shown.media.enabled /\ Shown.persistence.active
    BY <2>1, <1>5
  <2>6. ASSUME NEW tool \in GatedTools \ Shown.tools
        PROVE  TurnedOff(tool) \/ Said("file", tool) = "false"
    <3>1. settings[tool] = "false"
      BY <2>1, <1>4 DEF OffKeys
    <3>2. QED
      BY <3>1, <1>1, <1>3 DEF DownIsKept, OffKeys
  <2>7. /\ Shown.content => opened.content = ContentAttributes
        /\ opened.content # {} => Shown.content \/ Shown.captured = "content"
    BY <2>1, <1>2 DEF ContentAllowed
  <2>8. QED
    BY <2>1, <2>2, <2>3, <2>4, <2>5, <2>6, <2>7, Zenon DEF ShownIsTrue
<1>9. QED
  BY <1>6, <1>7, <1>8 DEF SwitchesHold

-----------------------------------------------------------------------------
(* The steps *)

LEMMA OnIsKept ==
  ASSUME UNCHANGED settings
  PROVE  /\ \A key : On(key)' = On(key)
         /\ Exported' = Exported /\ TelemetryFails' = TelemetryFails
         /\ ContentAllowed' = ContentAllowed
         /\ \A persistent : CasMode(persistent)' = CasMode(persistent)
<1>1. \A key : On(key)' = On(key)
  BY DEF On
<1>2. \A key : Derivable(key)' = Derivable(key)
  BY DEF Derivable
<1>3. Exported' = Exported
  BY <1>1, <1>2, Zenon DEF Exported
<1>4. TelemetryFails' = TelemetryFails
  BY <1>1, <1>2, Zenon DEF TelemetryFails
<1>5. \A persistent : CasMode(persistent)' = CasMode(persistent)
  BY <1>1, Zenon DEF CasMode
<1>6. ContentAllowed' = ContentAllowed
  BY <1>1, Zenon DEF ContentAllowed, ContentAttributes
<1>7. QED
  BY <1>1, <1>3, <1>4, <1>5, <1>6

\* A step that neither hears nor settles anything.
LEMMA QuietStep ==
  ASSUME LayersInv, UNCHANGED <<spoken, topic, otel, homeless, settings>>,
         layerAt \notin {"file", "env", "merge", "flags"}, layerAt # "refused",
         layerAt' \in StartPlaces \ {"file", "env", "merge", "flags"}
  PROVE  (layerAt \in StartPlaces /\ Unread /\ SettingsInv)'
<1>1. \A other, key : Said(other, key)' = Said(other, key)
  BY QuietLayer
<1>2. Unread'
  BY DEF LayersInv, Unread
<1>3. ASSUME NEW key \in OffKeys PROVE DownIsKept(key)'
  <2>1. DownIsKept(key)
    BY DEF LayersInv, SettingsInv
  <2>2. Down(key)' = Down(key)
    BY <1>1, Zenon DEF Down, Raised
  <2>3. QED
    BY <2>1, <2>2, <1>1 DEF DownIsKept
<1>4. ConsentIsGiven'
  <2>1. \A key, words : Names(key, words)' = Names(key, words)
    BY <1>1, Zenon DEF Names
  <2>2. /\ ExportsWanted' = ExportsWanted /\ ContentAsked' = ContentAsked
        /\ ArtifactsWanted' = ArtifactsWanted
    BY <2>1, Zenon DEF ExportsWanted, ContentAsked, ArtifactsWanted
  <2>3. ConsentIsGiven
    BY DEF LayersInv, SettingsInv
  <2>4. QED
    BY <2>2, <2>3, <1>1 DEF ConsentIsGiven, StartPlaces
<1>5. QED
  BY <1>2, <1>3, <1>4, Zenon DEF SettingsInv, OffKeys

LEMMA RefusedKeeps ==
  ASSUME LayersInv, Refused, UNCHANGED spoken \/ (\E layer \in Layered : \E said : Hears(layer, said))
  PROVE  LayersInv'
<1>1. layerAt' = "refused" /\ UNCHANGED <<topic, opened>>
  BY DEF Refused, Goes, Inputs
<1>2. DOMAIN spoken' = Layered
  BY <1>1, Hearing DEF LayersInv, Unread
<1>3. QED
  BY <1>1, <1>2 DEF LayersInv, Unread, SettingsInv, OpenedInv, Serving, StartPlaces

\* Before telemetry nothing is open that the settings must answer for.
LEMMA NothingOpen ==
  ASSUME OpenedInv, UNCHANGED opened, layerAt' \in {"file", "env", "merge", "flags", "telemetry"}
  PROVE  OpenedInv'
BY DEF OpenedInv, Serving

\* What is named stays named.
LEMMA NamedStays ==
  ASSUME Unread, NEW layer \in Layered, NEW said, Hears(layer, said), UNCHANGED <<topic, otel>>,
         \A key : Said(layer, key) = Unsaid
  PROVE  /\ ExportsWanted => ExportsWanted'
         /\ ContentAsked => ContentAsked'
         /\ ArtifactsWanted => ArtifactsWanted'
<1>1. ASSUME NEW key, NEW words, Unsaid \notin words, Names(key, words)
      PROVE  Names(key, words)'
  <2>1. PICK other \in Layered : Said(other, key) \in words
    BY <1>1 DEF Names, Layered
  <2>2. other # layer
    BY <1>1, <2>1
  <2>3. Said(other, key)' = Said(other, key)
    BY <2>2, Hearing DEF Unread
  <2>4. QED
    BY <2>1, <2>3 DEF Names, Layered
<1>2. /\ Unsaid \notin {"true", "garbled"} /\ Unsaid \notin {"given"}
      /\ Unsaid \notin {"true", "raised"}
  BY DEF Unsaid
<1>3. QED
  BY <1>1, <1>2, Zenon DEF ExportsWanted, ContentAsked, ArtifactsWanted

LEMMA ReadFileKeeps ==
  ASSUME LayersInv, ReadFile
  PROVE  LayersInv'
<1>1. CASE Refused /\ UNCHANGED spoken
  BY <1>1, RefusedKeeps
<1>2. ASSUME NEW said \in Speeches("file"), Hears("file", said),
             settings' = [key \in Keys |-> IF key \in topic THEN said[key] ELSE Unsaid],
             Goes("env"), UNCHANGED <<Inputs, opened>>
      PROVE  LayersInv'
  <2>1. layerAt = "file" /\ layerAt' = "env" /\ UNCHANGED <<topic, otel>>
    BY <1>2 DEF ReadFile, Goes, Inputs
  <2>2. /\ DOMAIN spoken' = Layered
        /\ \A key : Said("file", key)' = IF key \in topic THEN said[key] ELSE Unsaid
        /\ \A key : Said("env", key)' = Said("env", key)
        /\ \A key : Said("flag", key)' = Said("flag", key)
    BY <1>2, <2>1, Hearing DEF LayersInv, Unread, Layered
  <2>3. \A key : Said("env", key)' = Unsaid /\ Said("flag", key)' = Unsaid
    BY <2>1, <2>2 DEF LayersInv, Unread
  <2>4. Unread'
    BY <2>1, <2>2, <2>3 DEF Unread
  <2>5. \A key \in Keys : settings'[key] = Said("file", key)'
    BY <1>2, <2>2
  <2>6. ASSUME NEW key \in OffKeys PROVE DownIsKept(key)'
    <3>1. Said("file", key)' \in {Unsaid, "true", "false"}
      BY <2>2, WhatIsSaid, OffWords
    <3>2. ~Down(key)'
      BY <2>3 DEF Down, Raised, Unsaid
    <3>3. QED
      BY <2>1, <2>5, <3>1, <3>2, Table DEF DownIsKept, Unsaid
  <2>7. ConsentIsGiven'
    <3>1. \A key \in Consents : Said("file", key)' \in {Unsaid, "true", "false"}
      BY <2>2, WhatIsSaid, ConsentWords
    <3>2. \A key, words : Said("file", key)' \in words => Names(key, words)'
      BY DEF Names
    <3>3. Said("file", "metrics_endpoint")' \in {Unsaid, "given"}
      BY <2>2, WhatIsSaid, CollectorWords
    <3>4. \A key \in Consents : settings'[key] = Said("file", key)'
      BY <2>5, Table DEF Consents
    <3>5. /\ settings'["telemetry"] = "true" => ExportsWanted'
          /\ settings'["capture_content"] = "true" => ContentAsked'
          /\ settings'["artifacts"] = "true" => ArtifactsWanted'
      BY <3>2, <3>4 DEF ExportsWanted, ContentAsked, ArtifactsWanted, Consents
    <3>6. settings'["metrics_endpoint"] = Said("file", "metrics_endpoint")'
      BY <2>5, Table
    <3>7. settings'["capture"] = Said("file", "capture")'
      BY <2>5, Table
    <3>8. QED
      BY <2>1, <3>1, <3>3, <3>4, <3>5, <3>6, <3>7 DEF ConsentIsGiven, Consents
  <2>8. OpenedInv'
    BY <1>2, <2>1, NothingOpen DEF LayersInv
  <2>9. QED
    BY <2>1, <2>4, <2>6, <2>7, <2>8, Zenon DEF LayersInv, SettingsInv, OffKeys, StartPlaces
<1>3. QED
  BY <1>1, <1>2 DEF ReadFile

\* What the environment makes of a switch, and of a consent.
LEMMA EnvironmentOfOff ==
  ASSUME NEW said, NEW key \in OffKeys
  PROVE  FromEnvironment(said)[key] =
           IF key \in topic /\ Raised(said[key]) THEN "false" ELSE settings[key]
<1>1. key \in Keys /\ Setting(key) = Switch(key, "off", "off", "true")
  BY Table
<1>2. Setting(key).key = key /\ Setting(key).env = "off"
  BY <1>1 DEF Switch
<1>3. key \notin DOMAIN OtelFills
  BY OffKeysAreApart DEF OtelFills
<1>4. key # "telemetry"
  BY OffKeysAreApart
<1>5. \A text : text # Unsaid =>
        FromEnv(Setting(key), text) = IF Raised(text) THEN "false" ELSE settings[key]
  BY <1>2, OffKeysAreApart, Zenon DEF FromEnv, Raised
<1>6. QED
  BY <1>1, <1>3, <1>4, <1>5 DEF FromEnvironment, Raised

Spoken(said, key) == IF key \in topic THEN said[key] ELSE Unsaid

LEMMA OtelFillsAre ==
  /\ DOMAIN OtelFills = {"endpoint", "logs_endpoint", "metrics_endpoint", "telemetry", "capture_content"}
  /\ OtelFills["telemetry"] =
       Fills("telemetry", IF \/ OtelEndpoint # Unsaid
                             \/ Fills("metrics_endpoint", OtelMetrics) # Unsaid
                            THEN "true" ELSE Unsaid)
  /\ OtelFills["capture_content"] =
       Fills("capture_content", IF "capture" \in otel THEN "true" ELSE Unsaid)
BY DEF OtelFills

LEMMA EnvironmentOfConsents ==
  ASSUME NEW said
  PROVE  /\ FromEnvironment(said)["telemetry"] =
              IF "disabled" \in otel THEN "false"
              ELSE IF Spoken(said, "telemetry") = Unsaid THEN OtelFills["telemetry"]
              ELSE IF Raised(Spoken(said, "telemetry")) THEN "true" ELSE "false"
         /\ FromEnvironment(said)["capture_content"] =
              IF Spoken(said, "capture_content") = Unsaid THEN OtelFills["capture_content"]
              ELSE IF Raised(Spoken(said, "capture_content")) THEN "true" ELSE "false"
         /\ FromEnvironment(said)["artifacts"] =
              IF Spoken(said, "artifacts") = Unsaid THEN settings["artifacts"]
              ELSE Spoken(said, "artifacts")
<1>1. \A key \in Consents : Setting(key).key = key /\ key \in Keys
  BY Table DEF Consents, Switch
<1>2. /\ Setting("telemetry").env = "loose" /\ Setting("capture_content").env = "loose"
      /\ Setting("artifacts").env = "strict"
  BY Table DEF Switch
<1>3. \A key \in {"telemetry", "capture_content"} : \A text : text # Unsaid =>
        FromEnv(Setting(key), text) = IF Raised(text) THEN "true" ELSE "false"
  BY <1>1, <1>2 DEF FromEnv, Consents
<1>4. \A text : text # Unsaid => FromEnv(Setting("artifacts"), text) = text
  BY <1>1, <1>2 DEF FromEnv, Consents
<1>5. \A key \in Keys :
        FromEnvironment(said)[key] =
          IF key = "telemetry" /\ "disabled" \in otel THEN "false"
          ELSE IF Spoken(said, key) = Unsaid
                 THEN IF key \in DOMAIN OtelFills THEN OtelFills[key] ELSE settings[key]
          ELSE FromEnv(Setting(key), Spoken(said, key))
  BY Zenon DEF FromEnvironment, Spoken
<1>6. QED
  BY <1>1, <1>3, <1>4, <1>5, OtelFillsAre DEF Consents

LEMMA ApplyRawEnvKeeps ==
  ASSUME LayersInv, ApplyRawEnv
  PROVE  LayersInv'
<1>1. CASE Refused /\ UNCHANGED spoken
  BY <1>1, RefusedKeeps
<1>2. ASSUME NEW said \in Speeches("env"), Hears("env", said), Refused
      PROVE  LayersInv'
  BY <1>2, RefusedKeeps DEF Layered
<1>3. ASSUME NEW said \in Speeches("env"), Hears("env", said),
             ~ \E key \in topic : EnvRefuses(Setting(key), said[key]),
             settings' = FromEnvironment(said), Goes("merge"), UNCHANGED <<Inputs, opened>>
      PROVE  LayersInv'
  <2>1. layerAt = "env" /\ layerAt' = "merge" /\ UNCHANGED <<topic, otel>>
    BY <1>3 DEF ApplyRawEnv, Goes, Inputs
  <2>2. /\ DOMAIN spoken' = Layered
        /\ \A key : Said("env", key)' = Spoken(said, key)
        /\ \A key : Said("file", key)' = Said("file", key)
        /\ \A key : Said("flag", key)' = Said("flag", key)
    BY <1>3, <2>1, Hearing DEF LayersInv, Unread, Layered, Spoken
  <2>3. \A key : Said("flag", key)' = Unsaid /\ Said("env", key) = Unsaid
    BY <2>1, <2>2 DEF LayersInv, Unread
  <2>4. Unread'
    BY <2>1, <2>2, <2>3 DEF Unread
  <2>5. /\ ConsentIsGiven /\ \A key \in OffKeys : DownIsKept(key)
    BY <2>1 DEF LayersInv, SettingsInv
  <2>6. ASSUME NEW key \in OffKeys PROVE DownIsKept(key)'
    <3>1. settings'[key] = IF Raised(Spoken(said, key)) THEN "false" ELSE settings[key]
      BY <1>3, EnvironmentOfOff DEF Spoken, Raised
    <3>2. Down(key)' <=> Raised(Spoken(said, key))
      BY <2>2, <2>3 DEF Down, Raised, Unsaid
    <3>3. ~Down(key)
      BY <2>1, <2>3 DEF Down, Raised, Unsaid, LayersInv, Unread
    <3>4. QED
      BY <2>1, <2>2, <2>5, <3>1, <3>2, <3>3 DEF DownIsKept, Unsaid
  <2>7. /\ ExportsWanted => ExportsWanted'
        /\ ContentAsked => ContentAsked'
        /\ ArtifactsWanted => ArtifactsWanted'
    BY <1>3, <2>1, <2>3, NamedStays DEF LayersInv, Layered
  <2>8. \A key, words : Spoken(said, key) \in words => Names(key, words)'
    BY <2>2 DEF Names
  <2>9. \A key \in Consents : Spoken(said, key) \in {Unsaid, "true", "false", "garbled"}
    BY WhatIsSaid, ConsentWords DEF Spoken
  <2>10. \/ settings'["telemetry"] = "false"
         \/ settings'["telemetry"] = "true" /\ ExportsWanted' /\ "disabled" \notin otel
         \/ settings'["telemetry"] = Unsaid /\ "disabled" \notin otel
    <3>1. CASE "disabled" \in otel
      BY <3>1, <1>3, EnvironmentOfConsents
    <3>2. CASE "disabled" \notin otel /\ Spoken(said, "telemetry") # Unsaid
      <4>1. settings'["telemetry"] = IF Raised(Spoken(said, "telemetry")) THEN "true" ELSE "false"
        BY <3>2, <1>3, EnvironmentOfConsents
      <4>2. Raised(Spoken(said, "telemetry")) => Spoken(said, "telemetry") \in {"true", "garbled"}
        BY <2>9 DEF Raised, Consents
      <4>3. QED
        BY <3>2, <4>1, <4>2, <2>8 DEF ExportsWanted
    <3>3. CASE "disabled" \notin otel /\ Spoken(said, "telemetry") = Unsaid
      <4>1. settings'["telemetry"] =
              Fills("telemetry", IF \/ OtelEndpoint # Unsaid
                                    \/ Fills("metrics_endpoint", OtelMetrics) # Unsaid
                                   THEN "true" ELSE Unsaid)
        BY <3>3, <1>3, EnvironmentOfConsents, OtelFillsAre
      <4>2. OtelEndpoint # Unsaid => ExportsWanted
        BY DEF OtelEndpoint, ExportsWanted
      <4>3. Fills("metrics_endpoint", OtelMetrics) # Unsaid => ExportsWanted
        <5>1. OtelMetrics # Unsaid => ExportsWanted
          BY DEF OtelMetrics, ExportsWanted
        <5>2. settings["metrics_endpoint"] # Unsaid => Said("file", "metrics_endpoint") = "given"
          BY <2>1, <2>5 DEF ConsentIsGiven
        <5>3. Said("file", "metrics_endpoint") = "given" => ExportsWanted
          BY DEF ExportsWanted, Names
        <5>4. QED
          BY <5>1, <5>2, <5>3 DEF Fills
      <4>4. QED
        BY <4>1, <4>2, <4>3, <2>5, <2>7, <3>3 DEF Fills, ConsentIsGiven
    <3>4. QED
      BY <3>1, <3>2, <3>3
  <2>11. \/ settings'["capture_content"] \in {Unsaid, "false"}
         \/ settings'["capture_content"] = "true" /\ ContentAsked'
    <3>1. CASE Spoken(said, "capture_content") # Unsaid
      <4>1. settings'["capture_content"] =
              IF Raised(Spoken(said, "capture_content")) THEN "true" ELSE "false"
        BY <3>1, <1>3, EnvironmentOfConsents
      <4>2. Raised(Spoken(said, "capture_content")) =>
              Spoken(said, "capture_content") \in {"true", "garbled"}
        BY <2>9 DEF Raised, Consents
      <4>3. QED
        BY <4>1, <4>2, <2>8 DEF ContentAsked
    <3>2. CASE Spoken(said, "capture_content") = Unsaid
      <4>1. settings'["capture_content"] =
              Fills("capture_content", IF "capture" \in otel THEN "true" ELSE Unsaid)
        BY <3>2, <1>3, EnvironmentOfConsents, OtelFillsAre
      <4>2. "capture" \in otel => ContentAsked
        BY DEF ContentAsked
      <4>3. QED
        BY <4>1, <4>2, <2>5, <2>7 DEF Fills, ConsentIsGiven
    <3>3. QED
      BY <3>1, <3>2
  <2>12. \/ settings'["artifacts"] \in {Unsaid, "false"}
         \/ settings'["artifacts"] = "true" /\ ArtifactsWanted'
    <3>1. CASE Spoken(said, "artifacts") # Unsaid
      <4>1. settings'["artifacts"] = Spoken(said, "artifacts")
        BY <3>1, <1>3, EnvironmentOfConsents
      <4>2. Spoken(said, "artifacts") # "garbled"
        <5>1. Setting("artifacts").env = "strict"
          BY Table DEF Switch
        <5>2. "artifacts" \in topic => said["artifacts"] # "garbled"
          BY <1>3, <5>1 DEF EnvRefuses
        <5>3. QED
          BY <5>2, <3>1 DEF Spoken
      <4>3. QED
        BY <4>1, <4>2, <2>8, <2>9, <3>1 DEF ArtifactsWanted, Consents
    <3>2. CASE Spoken(said, "artifacts") = Unsaid
      BY <3>2, <1>3, <2>5, <2>7, EnvironmentOfConsents DEF ConsentIsGiven
    <3>3. QED
      BY <3>1, <3>2
  <2>13. settings'["capture"] = settings["capture"]
    <3>1. Spoken(said, "capture") = Unsaid
      BY WhatIsSaid, ListedWords DEF Spoken
    <3>2. "capture" \in Keys /\ "capture" \notin DOMAIN OtelFills
      BY Table, OtelFillsAre
    <3>3. QED
      BY <1>3, <3>1, <3>2, Zenon DEF FromEnvironment, Spoken
  <2>14. ConsentIsGiven'
    BY <2>1, <2>2, <2>5, <2>10, <2>11, <2>12, <2>13 DEF ConsentIsGiven, Unsaid
  <2>15. OpenedInv'
    BY <1>3, <2>1, NothingOpen DEF LayersInv
  <2>16. QED
    BY <2>1, <2>4, <2>6, <2>14, <2>15, Zenon DEF LayersInv, SettingsInv, OffKeys, StartPlaces
<1>4. QED
  BY <1>1, <1>2, <1>3 DEF ApplyRawEnv

LEMMA MergeKeeps ==
  ASSUME LayersInv, Merge
  PROVE  LayersInv'
<1>1. CASE Refused
  BY <1>1, RefusedKeeps DEF Merge
<1>2. ASSUME settings' = [key \in Keys |-> Resolved(key)], Goes("flags"),
             UNCHANGED <<Inputs, opened>>
      PROVE  LayersInv'
  <2>1. layerAt = "merge" /\ layerAt' = "flags" /\ UNCHANGED <<topic, otel, spoken>>
    BY <1>2 DEF Merge, Goes, Inputs
  <2>2. \A other, key : Said(other, key)' = Said(other, key)
    BY <2>1, QuietLayer
  <2>3. Unread'
    BY <2>1, <2>2 DEF LayersInv, Unread
  <2>4. /\ ConsentIsGiven /\ \A key \in OffKeys : DownIsKept(key)
    BY <2>1 DEF LayersInv, SettingsInv
  <2>5. ASSUME NEW key \in OffKeys PROVE DownIsKept(key)'
    <3>1. /\ key \in Keys /\ Setting(key).kind = "switch" /\ Setting(key).default = "true"
      BY Table DEF Switch
    <3>2. DefaultOf(key) = "true"
      BY <3>1, OffKeysAreApart, Zenon DEF DefaultOf
    <3>3. settings'[key] = IF settings[key] = Unsaid THEN "true" ELSE settings[key]
      BY <1>2, <3>1, <3>2, OffKeysAreApart DEF Resolved
    <3>4. Down(key)' = Down(key)
      BY <2>2, Zenon DEF Down, Raised
    <3>5. QED
      BY <2>2, <2>4, <3>3, <3>4 DEF DownIsKept, Unsaid
  <2>6. \A key \in Consents :
          settings'[key] = IF settings[key] = Unsaid THEN "false" ELSE settings[key]
    <3> SUFFICES ASSUME NEW key \in Consents
                 PROVE  settings'[key] = IF settings[key] = Unsaid THEN "false" ELSE settings[key]
      OBVIOUS
    <3>1. /\ key \in Keys /\ Setting(key).kind = "switch" /\ Setting(key).default = "false"
      BY Table DEF Switch, Consents
    <3>2. DefaultOf(key) = "false"
      BY <3>1 DEF DefaultOf, Consents
    <3>3. QED
      BY <1>2, <3>1, <3>2 DEF Resolved, Consents
  <2>7. ConsentIsGiven'
    <3>1. \A key, words : Names(key, words)' = Names(key, words)
      BY <2>2, Zenon DEF Names
    <3>2. /\ ExportsWanted' = ExportsWanted /\ ContentAsked' = ContentAsked
          /\ ArtifactsWanted' = ArtifactsWanted
      BY <2>1, <3>1, Zenon DEF ExportsWanted, ContentAsked, ArtifactsWanted
    <3>3. settings'["capture"] = IF settings["capture"] = Unsaid THEN "default" ELSE settings["capture"]
      <4>1. "capture" \in Keys
        BY Table
      <4>2. DefaultOf("capture") = "default"
        BY ListedWords DEF DefaultOf
      <4>3. QED
        BY <1>2, <4>1, <4>2, ListedWords DEF Resolved
    <3>4. QED
      BY <2>1, <2>2, <2>4, <2>6, <3>2, <3>3 DEF ConsentIsGiven, Consents, Unsaid
  <2>8. OpenedInv'
    BY <1>2, <2>1, NothingOpen DEF LayersInv
  <2>9. QED
    BY <2>1, <2>3, <2>5, <2>7, <2>8, Zenon DEF LayersInv, SettingsInv, OffKeys, StartPlaces
<1>3. QED
  BY <1>1, <1>2 DEF Merge

LEMMA ApplyCliKeeps ==
  ASSUME LayersInv, ApplyCli
  PROVE  LayersInv'
<1>1. PICK said \in Speeches("flag") :
        /\ Hears("flag", said)
        /\ settings' = [key \in Keys |-> IF key \in topic THEN FromFlag(Setting(key), said[key])
                                                          ELSE settings[key]]
  BY DEF ApplyCli
<1>2. layerAt = "flags" /\ layerAt' = "telemetry" /\ UNCHANGED <<topic, otel, opened>>
  BY DEF ApplyCli, Goes, Inputs
<1>3. /\ DOMAIN spoken' = Layered
      /\ \A key : Said("flag", key)' = Spoken(said, key)
      /\ \A key : Said("file", key)' = Said("file", key)
      /\ \A key : Said("env", key)' = Said("env", key)
  BY <1>1, <1>2, Hearing DEF LayersInv, Unread, Layered, Spoken
<1>4. \A key : Said("flag", key) = Unsaid
  BY <1>2 DEF LayersInv, Unread
<1>5. Unread'
  BY <1>2, <1>3 DEF Unread
<1>6. /\ ConsentIsGiven /\ \A key \in OffKeys : DownIsKept(key)
  BY <1>2 DEF LayersInv, SettingsInv
<1>7. ASSUME NEW key \in OffKeys PROVE DownIsKept(key)'
  <2>1. key \in Keys /\ Setting(key).key = key /\ Setting(key).flag = "off"
    BY Table DEF Switch
  <2>2. settings'[key] = IF Spoken(said, key) = Unsaid THEN settings[key] ELSE "false"
    BY <1>1, <2>1 DEF FromFlag, Spoken
  <2>3. Spoken(said, key) \in {Unsaid, "raised"}
    BY WhatIsSaid, OffWords DEF Spoken
  <2>4. Down(key)' <=> Down(key) \/ Spoken(said, key) = "raised"
    BY <1>3, <1>4 DEF Down, Raised, Unsaid
  <2>5. QED
    BY <1>2, <1>3, <1>6, <2>2, <2>3, <2>4 DEF DownIsKept, Unsaid
<1>8. ConsentIsGiven'
  <2>1. /\ ExportsWanted => ExportsWanted'
        /\ ContentAsked => ContentAsked'
        /\ ArtifactsWanted => ArtifactsWanted'
    BY <1>1, <1>2, <1>4, NamedStays DEF LayersInv, Layered
  <2>2. /\ Spoken(said, "telemetry") = Unsaid /\ Spoken(said, "capture_content") = Unsaid
        /\ Spoken(said, "artifacts") \in {Unsaid, "raised"}
    BY WhatIsSaid, ConsentWords DEF Spoken, Consents
  <2>3. \A key \in Consents : key \in Keys /\ Setting(key).key = key
    BY Table DEF Switch, Consents
  <2>4. Setting("artifacts").flag = "on"
    BY Table DEF Switch
  <2>5. /\ settings'["telemetry"] = settings["telemetry"]
        /\ settings'["capture_content"] = settings["capture_content"]
        /\ settings'["artifacts"] =
             IF Spoken(said, "artifacts") = Unsaid THEN settings["artifacts"] ELSE "true"
    BY <1>1, <2>2, <2>3, <2>4 DEF FromFlag, Spoken, Consents
  <2>6. Spoken(said, "artifacts") = "raised" => ArtifactsWanted'
    BY <1>3 DEF ArtifactsWanted, Names
  <2>7. settings'["capture"] = settings["capture"]
    <3>1. Spoken(said, "capture") = Unsaid
      BY WhatIsSaid, ListedWords DEF Spoken
    <3>2. "capture" \in Keys /\ Setting("capture").key = "capture"
      BY Table DEF Word
    <3>3. QED
      BY <1>1, <3>1, <3>2 DEF FromFlag, Spoken
  <2>8. QED
    BY <1>2, <1>3, <1>6, <2>1, <2>2, <2>5, <2>6, <2>7 DEF ConsentIsGiven, Unsaid
<1>9. OpenedInv'
  BY <1>2, NothingOpen DEF LayersInv
<1>10. QED
  BY <1>2, <1>5, <1>7, <1>8, <1>9, Zenon DEF LayersInv, SettingsInv, OffKeys, StartPlaces

\* The steps from telemetry on leave the settings as they are.
LEMMA StartingKeeps ==
  ASSUME LayersInv, InitTelemetry \/ CheckStart \/ OpenSessions \/ FinalizeMediaStore
  PROVE  LayersInv'
<1>1. CASE Refused
  BY <1>1, RefusedKeeps DEF InitTelemetry, CheckStart, OpenSessions, FinalizeMediaStore
<1>2. ASSUME ~Refused, UNCHANGED <<spoken, Inputs, settings>> PROVE LayersInv'
  <2>1. UNCHANGED <<spoken, topic, otel, homeless, settings>>
    BY <1>2 DEF Inputs
  <2>2. /\ \A key : On(key)' = On(key)
        /\ Exported' = Exported /\ TelemetryFails' = TelemetryFails
        /\ ContentAllowed' = ContentAllowed
        /\ \A persistent : CasMode(persistent)' = CasMode(persistent)
    BY <2>1, OnIsKept
  <2>3. PICK a, b, c, d : opened = [sessions |-> a, media |-> b, exports |-> c, content |-> d]
    BY DEF LayersInv, OpenedInv
  <2>4. CASE InitTelemetry
    <3>1. /\ layerAt = "telemetry" /\ layerAt' = "start" /\ ~TelemetryFails
          /\ opened' = [opened EXCEPT !.exports = Exported, !.content = ContentAllowed]
      BY <1>2, <2>4 DEF InitTelemetry, Goes
    <3>2. opened' = [sessions |-> a, media |-> b, exports |-> Exported,
                     content |-> ContentAllowed]
      BY <2>3, <3>1
    <3>3. OpenedInv'
      BY <2>2, <3>1, <3>2, Zenon DEF OpenedInv, Serving
    <3>4. QED
      BY <2>1, <3>1, <3>3, QuietStep DEF LayersInv, StartPlaces
  <2>5. CASE CheckStart
    <3>1. layerAt = "start" /\ layerAt' = "store" /\ UNCHANGED opened
      BY <1>2, <2>5 DEF CheckStart, Goes
    <3>2. OpenedInv'
      BY <2>2, <3>1, Zenon DEF LayersInv, OpenedInv, Serving
    <3>3. QED
      BY <2>1, <3>1, <3>2, QuietStep DEF LayersInv, StartPlaces
  <2>6. CASE OpenSessions
    <3>1. /\ layerAt = "store" /\ layerAt' = "media"
      BY <1>2, <2>6 DEF OpenSessions, Goes
    <3>2. PICK sessions \in IF On("persistence") THEN {"persistent", "memory"} ELSE {"memory"} :
            opened' = [opened EXCEPT !.sessions = sessions]
      BY <1>2, <2>6 DEF OpenSessions
    <3>3. opened' = [sessions |-> sessions, media |-> b, exports |-> c, content |-> d]
      BY <2>3, <3>2
    <3>4. OpenedInv'
      <4>1. opened.exports = Exported /\ opened.content = ContentAllowed /\ ~TelemetryFails
        BY <3>1, Zenon DEF LayersInv, OpenedInv
      <4>2. opened'.exports = opened.exports /\ opened'.content = opened.content
            /\ opened'.sessions = sessions
        BY <2>3, <3>3, Zenon
      <4>3. sessions \in {"persistent", "memory"} /\ (sessions = "persistent" => On("persistence"))
        BY <3>2
      <4>4. QED
        BY <2>2, <3>1, <3>3, <4>1, <4>2, <4>3, Zenon DEF OpenedInv, Serving
    <3>5. QED
      BY <2>1, <3>1, <3>4, QuietStep DEF LayersInv, StartPlaces
  <2>7. CASE FinalizeMediaStore
    <3>1. /\ layerAt = "media" /\ layerAt' = "serving"
          /\ opened' = [opened EXCEPT !.media = CasMode(opened.sessions = "persistent")]
      BY <1>2, <2>7 DEF FinalizeMediaStore, Goes
    <3>2. opened' = [sessions |-> a, media |-> CasMode(opened.sessions = "persistent"),
                     exports |-> c, content |-> d]
      BY <2>3, <3>1
    <3>3. /\ opened'.exports = opened.exports /\ opened'.content = opened.content
          /\ opened'.sessions = opened.sessions
          /\ opened'.media = CasMode(opened.sessions = "persistent")
      BY <2>3, <3>2, Zenon
    <3>4. OpenedInv'
      <4>1. /\ opened.exports = Exported /\ opened.content = ContentAllowed
            /\ ~TelemetryFails /\ opened.sessions \in {"persistent", "memory"}
            /\ opened.sessions = "persistent" => On("persistence")
        BY <3>1, Zenon DEF LayersInv, OpenedInv
      <4>2. QED
        BY <2>2, <3>1, <3>2, <3>3, <4>1, Zenon DEF OpenedInv, Serving
    <3>5. QED
      BY <2>1, <3>1, <3>4, QuietStep DEF LayersInv, StartPlaces
  <2>8. QED
    BY <2>4, <2>5, <2>6, <2>7
<1>3. QED
  BY <1>1, <1>2 DEF InitTelemetry, CheckStart, OpenSessions, FinalizeMediaStore

\* Whatever the layers say, in files and variables and flags: once it serves, what was
\* turned off is off, what leaves the machine was asked for, and the config resource
\* shows what runs.
THEOREM SwitchesAlwaysHold == LayersSpec => []SwitchesHold
<1>1. LayersInit => LayersInv
  <2> SUFFICES ASSUME LayersInit PROVE LayersInv
    OBVIOUS
  <2>1. /\ DOMAIN spoken = Layered /\ spoken["env"] = Silence /\ spoken["flag"] = Silence
    BY DEF LayersInit, Layered
  <2>2. \A key : Said("env", key) = Unsaid /\ Said("flag", key) = Unsaid
    BY <2>1 DEF Said, Silence
  <2>3. layerAt = "file"
    BY DEF LayersInit
  <2>4. OpenedInv
    BY <2>3, Zenon DEF LayersInit, OpenedInv, Serving
  <2>5. QED
    BY <2>1, <2>2, <2>3, <2>4 DEF LayersInv, Unread, SettingsInv, StartPlaces
<1>2. LayersInv /\ [LayersNext]_layerVars => LayersInv'
  <2>1. ASSUME LayersInv, UNCHANGED layerVars PROVE LayersInv'
    <3>1. UNCHANGED <<topic, spoken, homeless, otel, layerAt, settings, opened>>
      BY <2>1 DEF layerVars
    <3>2. \A other, key : Said(other, key)' = Said(other, key)
      BY <3>1, QuietLayer
    <3>3. \A key : On(key)' = On(key)
      BY <3>1, OnIsKept
    <3>4. Exported' = Exported /\ TelemetryFails' = TelemetryFails
          /\ ContentAllowed' = ContentAllowed
          /\ \A persistent : CasMode(persistent)' = CasMode(persistent)
      BY <3>1, OnIsKept
    <3>5. Unread'
      BY <2>1, <3>1, <3>2 DEF LayersInv, Unread
    <3>6. OpenedInv'
      BY <2>1, <3>1, <3>3, <3>4, Zenon DEF LayersInv, OpenedInv, Serving
    <3>7. \A key : Down(key)' = Down(key)
      BY <3>2, Zenon DEF Down, Raised
    <3>8. \A key : DownIsKept(key)' = DownIsKept(key)
      BY <3>1, <3>2, <3>7, Zenon DEF DownIsKept
    <3>9. \A key, words : Names(key, words)' = Names(key, words)
      BY <3>2, Zenon DEF Names
    <3>10. /\ ExportsWanted' = ExportsWanted /\ ContentAsked' = ContentAsked
           /\ ArtifactsWanted' = ArtifactsWanted
      BY <3>1, <3>9, Zenon DEF ExportsWanted, ContentAsked, ArtifactsWanted
    <3>11. ConsentIsGiven' = ConsentIsGiven
      BY <3>1, <3>2, <3>10, Zenon DEF ConsentIsGiven
    <3>12. SettingsInv'
      BY <2>1, <3>1, <3>8, <3>11, Zenon DEF LayersInv, SettingsInv, OffKeys
    <3>13. QED
      BY <2>1, <3>1, <3>5, <3>6, <3>12 DEF LayersInv
  <2>2. QED
    BY <2>1, ReadFileKeeps, ApplyRawEnvKeeps, MergeKeeps, ApplyCliKeeps, StartingKeeps
       DEF LayersNext
<1>3. QED
  BY <1>1, <1>2, SwitchesThen, PTL DEF LayersSpec

-----------------------------------------------------------------------------
(* Casts: what stays while the file and the tables read from it do. *)

LEMMA SaysStays ==
  ASSUME file' = file
  PROVE  \A table, name, key : /\ Of(table, name, key)' = Of(table, name, key)
                               /\ Says(table, name, key)' = Says(table, name, key)
BY DEF Of, Says

LEMMA ReadingStays ==
  ASSUME file' = file, backends' = backends
  PROVE  /\ \A role, slot : Tunables(role, slot)' = Tunables(role, slot)
         /\ \A b : HostedOpenai(b)' = HostedOpenai(b)
         /\ \A b : UsesResponsesWire(b)' = UsesResponsesWire(b)
         /\ \A b : BatchSupported(b)' = BatchSupported(b)
         /\ \A b, role, slot : StarvesAnswer(b, role, slot)' = StarvesAnswer(b, role, slot)
<1>1. \A role, slot : Tunables(role, slot)' = Tunables(role, slot)
  BY SaysStays DEF Tunables, DefaultWord
<1>2. \A b : HostedOpenai(b)' = HostedOpenai(b)
  BY SaysStays DEF HostedOpenai, Url
<1>3. \A b : UsesResponsesWire(b)' = UsesResponsesWire(b)
  BY SaysStays DEF UsesResponsesWire, Url
<1>4. \A b : BatchSupported(b)' = BatchSupported(b)
  BY <1>2 DEF BatchSupported
<1>5. \A b, role, slot : StarvesAnswer(b, role, slot)' = StarvesAnswer(b, role, slot)
  BY <1>1 DEF StarvesAnswer, Shape
<1>6. QED
  BY <1>1, <1>2, <1>3, <1>4, <1>5

LEMMA CastsStay ==
  ASSUME file' = file, backends' = backends
  PROVE  /\ \A cast : CastRefuses(cast)' = CastRefuses(cast)
         /\ \A cast : Usable(cast)' = Usable(cast)
         /\ \A cast : Broken(cast)' = Broken(cast)
<1>1. \A role, slot : SlotRefuses(role, slot)' = SlotRefuses(role, slot)
  BY ReadingStays DEF SlotRefuses
<1>2. \A cast : CastRefuses(cast)' = CastRefuses(cast)
  BY <1>1 DEF CastRefuses
<1>3. QED
  BY <1>2 DEF Usable, Broken

LEMMA RequestsStay ==
  ASSUME file' = file, backends' = backends, casts' = casts
  PROVE  /\ \A role, slot : ArmRequest(role, slot)' = ArmRequest(role, slot)
         /\ \A role, slot : Disposition(role, slot)' = Disposition(role, slot)
         /\ \A cast, role : EffortWritten(cast, role)' = EffortWritten(cast, role)
         /\ \A cast, role : InertTunables(cast, role)' = InertTunables(cast, role)
<1>1. \A role, slot : ArmRequest(role, slot)' = ArmRequest(role, slot)
  BY ReadingStays DEF ArmRequest, Shape
<1>2. \A role, slot : Disposition(role, slot)' = Disposition(role, slot)
  BY ReadingStays DEF Disposition, Shape
<1>3. \A cast, role : EffortWritten(cast, role)' = EffortWritten(cast, role)
  BY SaysStays DEF EffortWritten, WrittenRoles, DefaultWord
<1>4. \A cast, role : InertTunables(cast, role)' = InertTunables(cast, role)
  BY <1>2, <1>3, ReadingStays DEF InertTunables, Shape
<1>5. QED
  BY <1>1, <1>2, <1>3, <1>4

LEMMA ToldStays ==
  ASSUME file' = file, backends' = backends, casts' = casts
  PROVE  /\ \A r : EffortIsTold(r)' = EffortIsTold(r)
         /\ \A cast, r : InertIsTold(cast, r)' = InertIsTold(cast, r)
         /\ \A r : KeepsPolicy(r)' = KeepsPolicy(r)
         /\ \A tool : EligibleCasts(tool)' = EligibleCasts(tool)
         /\ LiveTools' = LiveTools
         /\ Unstaffable' = Unstaffable
<1>1. \A r : EffortIsTold(r)' = EffortIsTold(r)
  BY RequestsStay DEF EffortIsTold
<1>2. \A cast, r : InertIsTold(cast, r)' = InertIsTold(cast, r)
  BY RequestsStay, ReadingStays DEF InertIsTold, SlotDoc, BackendDoc
<1>3. \A r : KeepsPolicy(r)' = KeepsPolicy(r)
  BY DEF KeepsPolicy
<1>4. \A tool : EligibleCasts(tool)' = EligibleCasts(tool)
  BY CastsStay DEF EligibleCasts
<1>5. LiveTools' = LiveTools /\ Unstaffable' = Unstaffable
  BY <1>4 DEF LiveTools, Unstaffable
<1>6. QED
  BY <1>1, <1>2, <1>3, <1>4, <1>5

-----------------------------------------------------------------------------
(* What a request of a slot carries. *)

\* The effort of a batch is raised or left, and none and what is absent are left.
LEMMA BatchEffortIs ==
  \A effort : /\ BatchEffort(effort) \in {"high", effort}
              /\ BatchEffort("none") = "none"
BY DEF BatchEffort, Ranked, Rungs, EffortLadder

LEMMA ArmFields ==
  \A role, slot : /\ ArmRequest(role, slot).role = role /\ ArmRequest(role, slot).slot = slot
                  /\ ArmRequest(role, slot).tokens = Tunables(role, slot).tokens
                  /\ ArmRequest(role, slot).budget =
                       IF SinksBudget(Shape(backends[slot.backend], slot, Tunables(role, slot)))
                         THEN Tunables(role, slot).budget ELSE 0
                  /\ ArmRequest(role, slot).effort =
                       IF UsesResponsesWire(backends[slot.backend])
                         THEN ResponsesEffort(slot.id, Tunables(role, slot).style, Tunables(role, slot).effort)
                         ELSE WrittenEffort(Shape(backends[slot.backend], slot, Tunables(role, slot)),
                                            Tunables(role, slot).effort)
                  /\ ArmRequest(role, slot).denies <=>
                       /\ backends[slot.backend].kind = "openrouter"
                       /\ backends[slot.backend].collection = "deny"
<1> SUFFICES ASSUME NEW role, NEW slot
             PROVE  /\ ArmRequest(role, slot).role = role /\ ArmRequest(role, slot).slot = slot
                    /\ ArmRequest(role, slot).tokens = Tunables(role, slot).tokens
                    /\ ArmRequest(role, slot).budget =
                         IF SinksBudget(Shape(backends[slot.backend], slot, Tunables(role, slot)))
                           THEN Tunables(role, slot).budget ELSE 0
                    /\ ArmRequest(role, slot).effort =
                         IF UsesResponsesWire(backends[slot.backend])
                           THEN ResponsesEffort(slot.id, Tunables(role, slot).style, Tunables(role, slot).effort)
                           ELSE WrittenEffort(Shape(backends[slot.backend], slot, Tunables(role, slot)),
                                              Tunables(role, slot).effort)
                    /\ ArmRequest(role, slot).denies <=>
                         /\ backends[slot.backend].kind = "openrouter"
                         /\ backends[slot.backend].collection = "deny"
  OBVIOUS
<1> DEFINE b == backends[slot.backend]
           t == Tunables(role, slot)
           effort == IF UsesResponsesWire(b) THEN ResponsesEffort(slot.id, t.style, t.effort)
                     ELSE WrittenEffort(Shape(b, slot, t), t.effort)
           budget == IF SinksBudget(Shape(b, slot, t)) THEN t.budget ELSE 0
           denies == b.kind = "openrouter" /\ b.collection = "deny"
<1>1. ArmRequest(role, slot) =
        [role |-> role, slot |-> slot, effort |-> effort, budget |-> budget, tokens |-> t.tokens,
         denies |-> denies]
  BY DEF ArmRequest, Request, Denies
<1> HIDE DEF effort, budget, denies
<1>2. /\ ArmRequest(role, slot).role = role /\ ArmRequest(role, slot).slot = slot
      /\ ArmRequest(role, slot).tokens = t.tokens /\ ArmRequest(role, slot).budget = budget
      /\ ArmRequest(role, slot).effort = effort
  BY <1>1
<1>3. ArmRequest(role, slot).denies = denies
  BY <1>1
<1>4. QED
  BY <1>2, <1>3 DEF effort, budget, denies

LEMMA BatchFields ==
  \A slot : /\ BatchRequest(slot).role = "synth" /\ BatchRequest(slot).slot = slot
            /\ BatchRequest(slot).tokens = BatchTokens(Tunables("synth", slot))
            /\ BatchRequest(slot).budget =
                 IF SinksBudget(Shape(backends[slot.backend], slot, Tunables("synth", slot)))
                   THEN BatchBudget(Tunables("synth", slot)) ELSE 0
            /\ BatchRequest(slot).effort =
                 IF backends[slot.backend].kind = "openai"
                   THEN ResponsesEffort(slot.id, Tunables("synth", slot).style,
                                        BatchEffort(Tunables("synth", slot).effort))
                   ELSE WrittenEffort(Shape(backends[slot.backend], slot, Tunables("synth", slot)),
                                      BatchEffort(Tunables("synth", slot).effort))
            /\ BatchRequest(slot).denies <=>
                 /\ backends[slot.backend].kind = "openrouter"
                 /\ backends[slot.backend].collection = "deny"
BY DEF BatchRequest, Request, Denies

\* What a slot's tunables are.
LEMMA TunablesAre ==
  ASSUME NEW role, NEW slot, IsSlot(slot)
  PROVE  /\ Tunables(role, slot).tokens \in Nat \ {0} /\ Tunables(role, slot).budget \in Nat \ {0}
         /\ slot.budget # 0 => Tunables(role, slot).budget = slot.budget
         /\ slot.style # Unset => Tunables(role, slot).style = slot.style
BY DEF Tunables, IsSlot, Or

\* Without a line that says so, no effort is the word for none sent.
LEMMA EffortsAreSent ==
  ASSUME file \subseteq Edits \cup UNION Bases, NEW role, NEW slot, IsSlot(slot)
  PROVE  Tunables(role, slot).effort # "absent"
<1>1. Says("defaults", "all", "effort") # "absent"
  <2>1. CASE Of("defaults", "all", "effort") = {}
    BY <2>1 DEF Says, Unset
  <2>2. CASE Of("defaults", "all", "effort") # {}
    <3>1. PICK l \in Of("defaults", "all", "effort") : Says("defaults", "all", "effort") = l.word
      BY <2>2, Zenon DEF Says
    <3>2. l \in Edits \cup UNION Bases /\ l.key = "effort"
      BY DEF Of
    <3>3. QED
      BY <3>1, <3>2, LinesAssumption
  <2>3. QED
    BY <2>1, <2>2
<1>2. QED
  BY <1>1 DEF Tunables, IsSlot, Or, DefaultWord

-----------------------------------------------------------------------------
(* The effort a slot's request carries is the one told. *)

LEMMA ArmEffortIsTold ==
  ASSUME NEW role, NEW slot, slot.lane # "batch"
  PROVE  EffortIsTold(ArmRequest(role, slot))
<1> DEFINE t == Tunables(role, slot)
           b == backends[slot.backend]
<1>1. Disposition(role, slot) =
        IF IF UsesResponsesWire(b) THEN t.style # "off" /\ AcceptsReasoning(slot.id)
                                   ELSE SinksEffort(Shape(b, slot, t))
          THEN [fate |-> IF t.effort = "none" THEN "off"
                         ELSE IF Ranked(t.effort) THEN "sent" ELSE "unranked",
                sent |-> t.effort]
          ELSE [fate |-> "no-sink", sent |-> "absent"]
  BY DEF Disposition
<1>2. QED
  BY <1>1, ArmFields DEF EffortIsTold, ResponsesEffort, WrittenEffort

LEMMA BatchEffortIsTold ==
  ASSUME NEW slot, slot.lane = "batch", BatchSupported(backends[slot.backend])
  PROVE  EffortIsTold(BatchRequest(slot))
<1> DEFINE t == Tunables("synth", slot)
           b == backends[slot.backend]
           shipped == BatchEffort(t.effort)
<1>1. b.kind = "openai" <=> HostedOpenai(b)
  BY DEF BatchSupported, HostedOpenai
<1>2. Disposition("synth", slot) =
        IF IF b.kind = "openai" THEN t.style # "off" /\ AcceptsReasoning(slot.id)
                                ELSE SinksEffort(Shape(b, slot, t))
          THEN [fate |-> IF shipped # t.effort THEN "lifted"
                         ELSE IF t.effort = "none" THEN "off"
                         ELSE IF Ranked(t.effort) THEN "sent" ELSE "unranked",
                sent |-> shipped]
          ELSE [fate |-> "no-sink", sent |-> "absent"]
  BY <1>1 DEF Disposition
<1>3. shipped \in {"high", t.effort} /\ (t.effort = "none" => shipped = "none")
  BY BatchEffortIs
<1> HIDE DEF shipped
<1>4. BatchRequest(slot).effort =
        IF b.kind = "openai" THEN ResponsesEffort(slot.id, t.style, shipped)
                             ELSE WrittenEffort(Shape(b, slot, t), shipped)
  BY BatchFields DEF shipped
<1>5. QED
  BY <1>2, <1>3, <1>4, BatchFields DEF EffortIsTold, ResponsesEffort, WrittenEffort

-----------------------------------------------------------------------------
(* What is called inert is. *)

LEMMA ThoseAre ==
  \A budget, effort, style \in BOOLEAN :
    /\ "thinking_budget" \in Those(budget, effort, style) <=> budget
    /\ "effort" \in Those(budget, effort, style) <=> effort
    /\ "thinking_style" \in Those(budget, effort, style) <=> style
BY DEF Those

LEMMA InertAre ==
  ASSUME NEW cast, NEW role \in Reasoning, NEW slot, slot = casts[cast].slots[role]
  PROVE  LET b == backends[slot.backend]
             t == Tunables(role, slot)
             inert == SlotDoc(cast, role).inert IN
         /\ "thinking_budget" \in inert <=> slot.budget # 0 /\ ~SinksBudget(Shape(b, slot, t))
         /\ "effort" \in inert <=> EffortWritten(cast, role)
                                   /\ Disposition(role, slot).fate \in {"no-sink", "lifted"}
         /\ "thinking_style" \in inert <=> t.style \in {"adaptive", "budget"} /\ b.kind # "anthropic"
<1> DEFINE b == backends[slot.backend]
           t == Tunables(role, slot)
           budget == slot.budget # 0 /\ ~SinksBudget(Shape(b, slot, t))
           effort == EffortWritten(cast, role) /\ Disposition(role, slot).fate \in {"no-sink", "lifted"}
           style == t.style \in {"adaptive", "budget"} /\ b.kind # "anthropic"
<1>1. SlotDoc(cast, role).inert = Those(budget, effort, style)
  BY DEF SlotDoc, InertTunables
<1>2. budget \in BOOLEAN /\ effort \in BOOLEAN /\ style \in BOOLEAN
  OBVIOUS
<1>3. /\ "thinking_budget" \in Those(budget, effort, style) <=> budget
      /\ "effort" \in Those(budget, effort, style) <=> effort
      /\ "thinking_style" \in Those(budget, effort, style) <=> style
  BY <1>2, ThoseAre
<1>4. QED
  BY <1>1, <1>3

\* Off apart, a style changes the shape of no kind but one.
LEMMA StylesShapeOneKind ==
  \A kind, id, style : kind # "anthropic" /\ style # "off" =>
    ThinkingStyle(kind, id, style) = ThinkingStyle(kind, id, "auto")
BY DEF ThinkingStyle

\* A slot that says which style it is to have has the request of one that does not.
LEMMA StyleIsInert ==
  ASSUME NEW role, NEW slot, IsSlot(slot), slot.style \in {"adaptive", "budget"},
         backends[slot.backend].kind # "anthropic"
  PROVE  [ArmRequest(role, [slot EXCEPT !.style = "auto"]) EXCEPT !.slot = slot] = ArmRequest(role, slot)
<1> DEFINE auto == [slot EXCEPT !.style = "auto"]
           b == backends[slot.backend]
           t == Tunables(role, slot)
           u == Tunables(role, auto)
<1>1. /\ auto.backend = slot.backend /\ auto.id = slot.id /\ auto.effort = slot.effort
      /\ auto.budget = slot.budget /\ auto.tokens = slot.tokens /\ auto.style = "auto"
  BY DEF IsSlot
<1>2. /\ t.style = slot.style /\ u.style = "auto" /\ u.effort = t.effort
      /\ u.budget = t.budget /\ u.tokens = t.tokens
  BY <1>1 DEF Tunables, Or, Unset
<1> HIDE DEF auto
<1>3. Shape(b, auto, u) = Shape(b, slot, t)
  BY <1>1, <1>2, StylesShapeOneKind DEF Shape
<1>4. u.style # "off" /\ t.style # "off"
  BY <1>2
<1> DEFINE effort == IF UsesResponsesWire(b) THEN ResponsesEffort(slot.id, t.style, t.effort)
                     ELSE WrittenEffort(Shape(b, slot, t), t.effort)
           budget == IF SinksBudget(Shape(b, slot, t)) THEN t.budget ELSE 0
           denies == Denies(b, effort)
           of(s) == [role |-> role, slot |-> s, effort |-> effort, budget |-> budget,
                     tokens |-> t.tokens, denies |-> denies]
<1>5. ArmRequest(role, slot) = of(slot)
  BY DEF ArmRequest, Request
<1>6. effort = IF UsesResponsesWire(b) THEN ResponsesEffort(auto.id, u.style, u.effort)
               ELSE WrittenEffort(Shape(b, auto, u), u.effort)
  BY <1>1, <1>2, <1>3, <1>4 DEF ResponsesEffort
<1>7. budget = IF SinksBudget(Shape(b, auto, u)) THEN u.budget ELSE 0
  BY <1>2, <1>3
<1>8. ArmRequest(role, auto) = of(auto)
  <2> HIDE DEF effort, budget, t
  <2>1. ArmRequest(role, auto) =
          Request(role, auto, effort, budget, u.tokens, Denies(b, effort))
    BY <1>1, <1>6, <1>7, Zenon DEF ArmRequest
  <2>2. QED
    BY <2>1, <1>2 DEF Request, t
<1> HIDE DEF effort, budget, denies
<1>9. [of(auto) EXCEPT !.slot = slot] = of(slot)
  OBVIOUS
<1>10. QED
  BY <1>5, <1>8, <1>9 DEF auto

LEMMA ArmInertIsTold ==
  ASSUME file \subseteq Edits \cup UNION Bases, NEW cast, NEW role \in Reasoning, NEW slot,
         IsSlot(slot), slot = casts[cast].slots[role], slot.lane # "batch"
  PROVE  InertIsTold(cast, ArmRequest(role, slot))
<1> DEFINE r == ArmRequest(role, slot)
           b == backends[slot.backend]
           t == Tunables(role, slot)
           inert == SlotDoc(cast, role).inert
<1>1. /\ r.role = role /\ r.slot = slot /\ (r.denies <=> b.kind = "openrouter" /\ b.collection = "deny")
      /\ r.budget = IF SinksBudget(Shape(b, slot, t)) THEN t.budget ELSE 0
      /\ r.effort = IF UsesResponsesWire(b) THEN ResponsesEffort(slot.id, t.style, t.effort)
                    ELSE WrittenEffort(Shape(b, slot, t), t.effort)
  BY ArmFields
<1>2. /\ t.budget \in Nat \ {0} /\ t.effort # "absent"
      /\ slot.style # Unset => t.style = slot.style
  BY TunablesAre, EffortsAreSent
<1>3. /\ "thinking_budget" \in inert <=> slot.budget # 0 /\ ~SinksBudget(Shape(b, slot, t))
      /\ "effort" \in inert <=> EffortWritten(cast, role)
                                /\ Disposition(role, slot).fate \in {"no-sink", "lifted"}
      /\ "thinking_style" \in inert <=> t.style \in {"adaptive", "budget"} /\ b.kind # "anthropic"
  BY InertAre
<1>4. slot.budget # 0 => ("thinking_budget" \in inert <=> r.budget = 0)
  BY <1>1, <1>2, <1>3
<1>5. EffortWritten(cast, role) =>
        ("effort" \in inert <=>
           r.effort \notin {t.effort} \cup (IF t.effort = "none" THEN {"disabled"} ELSE {}))
  <2>1. Disposition(role, slot).fate \in {"no-sink", "lifted"} <=>
          ~IF UsesResponsesWire(b) THEN t.style # "off" /\ AcceptsReasoning(slot.id)
                                   ELSE SinksEffort(Shape(b, slot, t))
    BY DEF Disposition
  <2>2. QED
    BY <1>1, <1>2, <1>3, <2>1 DEF ResponsesEffort, WrittenEffort
<1>6. "thinking_style" \in inert =>
        (slot.style # Unset /\ slot.lane = Unset =>
           [ArmRequest(role, [slot EXCEPT !.style = "auto"]) EXCEPT !.slot = slot] = r)
  BY <1>2, <1>3, StyleIsInert
<1>7. b.kind = "openrouter" => (BackendDoc(b).collection = "deny" <=> r.denies)
  BY <1>1 DEF BackendDoc
<1> HIDE DEF r, inert, t, b
<1>8. r.slot.budget # 0 => ("thinking_budget" \in SlotDoc(cast, r.role).inert <=> r.budget = 0)
  BY <1>1, <1>4 DEF inert
<1>9. EffortWritten(cast, r.role) =>
        ("effort" \in SlotDoc(cast, r.role).inert <=>
           r.effort \notin {Tunables(r.role, r.slot).effort}
                           \cup (IF Tunables(r.role, r.slot).effort = "none" THEN {"disabled"} ELSE {}))
  BY <1>1, <1>5 DEF inert, t
<1>10. "thinking_style" \in SlotDoc(cast, r.role).inert =>
         (r.slot.style # Unset /\ r.slot.lane = Unset =>
            [ArmRequest(r.role, [r.slot EXCEPT !.style = "auto"]) EXCEPT !.slot = r.slot] = r)
  BY <1>1, <1>6 DEF inert
<1>11. backends[r.slot.backend].kind = "openrouter" =>
         (BackendDoc(backends[r.slot.backend]).collection = "deny" <=> r.denies)
  BY <1>1, <1>7 DEF b
<1>12. QED
  BY <1>8, <1>9, <1>10, <1>11, Zenon DEF InertIsTold, r

LEMMA BatchInertIsTold ==
  ASSUME file \subseteq Edits \cup UNION Bases, NEW cast, NEW slot,
         IsSlot(slot), slot = casts[cast].slots["synth"], slot.lane = "batch",
         BatchSupported(backends[slot.backend])
  PROVE  InertIsTold(cast, BatchRequest(slot))
<1> DEFINE r == BatchRequest(slot)
           b == backends[slot.backend]
           t == Tunables("synth", slot)
           inert == SlotDoc(cast, "synth").inert
           shipped == BatchEffort(t.effort)
<1>1. /\ r.role = "synth" /\ r.slot = slot /\ (r.denies <=> b.kind = "openrouter" /\ b.collection = "deny")
      /\ r.budget = IF SinksBudget(Shape(b, slot, t)) THEN BatchBudget(t) ELSE 0
      /\ r.effort = IF b.kind = "openai" THEN ResponsesEffort(slot.id, t.style, shipped)
                    ELSE WrittenEffort(Shape(b, slot, t), shipped)
  BY BatchFields
<1>2. /\ t.budget \in Nat \ {0} /\ t.tokens \in Nat \ {0} /\ t.effort # "absent"
  BY TunablesAre, EffortsAreSent
<1>3. /\ "thinking_budget" \in inert <=> slot.budget # 0 /\ ~SinksBudget(Shape(b, slot, t))
      /\ "effort" \in inert <=> EffortWritten(cast, "synth")
                                /\ Disposition("synth", slot).fate \in {"no-sink", "lifted"}
      /\ "thinking_style" \in inert <=> t.style \in {"adaptive", "budget"} /\ b.kind # "anthropic"
  BY InertAre DEF Reasoning
<1>4. slot.budget # 0 => ("thinking_budget" \in inert <=> r.budget = 0)
  <2>1. BatchBudget(t) # 0
    BY <1>2 DEF BatchBudget, BatchTokens
  <2>2. QED
    BY <1>1, <1>3, <2>1
<1>5. EffortWritten(cast, "synth") =>
        ("effort" \in inert <=>
           r.effort \notin {t.effort} \cup (IF t.effort = "none" THEN {"disabled"} ELSE {}))
  <2>1. shipped \in {"high", t.effort} /\ (t.effort = "none" => shipped = "none")
    BY BatchEffortIs
  <2>2. b.kind = "openai" <=> HostedOpenai(b)
    BY DEF BatchSupported, HostedOpenai
  <2>3. Disposition("synth", slot).fate \in {"no-sink", "lifted"} <=>
          \/ ~IF b.kind = "openai" THEN t.style # "off" /\ AcceptsReasoning(slot.id)
                                   ELSE SinksEffort(Shape(b, slot, t))
          \/ shipped # t.effort
    BY <2>2 DEF Disposition
  <2> HIDE DEF shipped
  <2>4. QED
    BY <1>1, <1>2, <1>3, <2>1, <2>3 DEF ResponsesEffort, WrittenEffort
<1>7. b.kind = "openrouter" => (BackendDoc(b).collection = "deny" <=> r.denies)
  BY <1>1 DEF BackendDoc
<1> HIDE DEF r, inert, t, b
<1>8. r.slot.budget # 0 => ("thinking_budget" \in SlotDoc(cast, r.role).inert <=> r.budget = 0)
  BY <1>1, <1>4 DEF inert
<1>9. EffortWritten(cast, r.role) =>
        ("effort" \in SlotDoc(cast, r.role).inert <=>
           r.effort \notin {Tunables(r.role, r.slot).effort}
                           \cup (IF Tunables(r.role, r.slot).effort = "none" THEN {"disabled"} ELSE {}))
  BY <1>1, <1>5 DEF inert, t
<1>10. "thinking_style" \in SlotDoc(cast, r.role).inert =>
         (r.slot.style # Unset /\ r.slot.lane = Unset =>
            [ArmRequest(r.role, [r.slot EXCEPT !.style = "auto"]) EXCEPT !.slot = r.slot] = r)
  BY <1>1 DEF Unset
<1>11. backends[r.slot.backend].kind = "openrouter" =>
         (BackendDoc(backends[r.slot.backend]).collection = "deny" <=> r.denies)
  BY <1>1, <1>7 DEF b
<1>12. QED
  BY <1>8, <1>9, <1>10, <1>11, Zenon DEF InertIsTold, r

-----------------------------------------------------------------------------
(* The policy every request keeps. *)

LEMMA ArmKeepsPolicy ==
  ASSUME NEW role, NEW slot, IsSlot(slot), ArmRefuses(role, slot) = "none"
  PROVE  KeepsPolicy(ArmRequest(role, slot))
<1> DEFINE t == Tunables(role, slot)
           b == backends[slot.backend]
<1>1. ~StarvesAnswer(b, role, slot)
  BY DEF ArmRefuses
<1>2. SinksBudget(Shape(b, slot, t)) => t.budget < t.tokens
  BY <1>1, TunablesAre DEF StarvesAnswer
<1>3. QED
  BY <1>2, ArmFields DEF KeepsPolicy

LEMMA BatchKeepsPolicy ==
  ASSUME NEW slot, IsSlot(slot)
  PROVE  KeepsPolicy(BatchRequest(slot))
<1> DEFINE t == Tunables("synth", slot)
<1>1. BatchBudget(t) < BatchTokens(t)
  BY TunablesAre DEF BatchBudget, BatchTokens
<1>2. QED
  BY <1>1, BatchFields DEF KeepsPolicy

-----------------------------------------------------------------------------
(* What a call sends. *)

LEMMA FirstIsNone == \A a, b : First(a, b) = "none" <=> a = "none" /\ b = "none"
BY DEF First

LEMMA ArmedIsThere ==
  \A cast, role : Armed(cast, role) = "none" <=>
    role \in DOMAIN cast.slots /\ ArmRefuses(role, cast.slots[role]) = "none"
BY DEF Armed, Has

\* A request that goes out is one of a slot nothing was said against.
OfArm(tool, cast, lane, r) ==
  \E role \in Reasoning \cap DOMAIN cast.slots :
    /\ r = ArmRequest(role, cast.slots[role]) /\ ArmRefuses(role, cast.slots[role]) = "none"
    /\ role = "synth" => tool \in {"consult", "consult_submit", "oneshot"} \/ lane # "batch"
OfBatch(tool, cast, lane, r) ==
  /\ r = BatchRequest(cast.slots["synth"]) /\ BatchRefuses(cast.slots["synth"]) = "none"
  /\ tool = "batch_submit" \/ (tool = "deliberate" /\ lane = "batch")
OfDecision(r) ==
  r.role = "decision" /\ r.budget = 0 /\ (r.denies <=> backends[r.slot.backend].collection = "deny")

LEMMA SentAre ==
  ASSUME NEW tool \in CastTools \ {"generate"}, NEW cast, NEW over, NEW lane, NEW image \in BOOLEAN,
         TeamRefusal(tool, cast, over, lane, image) = "none",
         cast.consult \in {"solo", "team", Unset}, cast.consult = "team" => Has(cast, "explorer"),
         NEW r \in Sent(tool, cast, lane)
  PROVE  OfArm(tool, cast, lane, r) \/ OfBatch(tool, cast, lane, r) \/ OfDecision(r)
<1> DEFINE arm(role) == ArmRequest(role, cast.slots[role])
<1>1. CASE tool \in {"consult", "consult_submit"}
  <2>1. /\ ConsultExplorer(cast, over) = "none" /\ Armed(cast, "synth") = "none"
        /\ r = arm("synth") \/ (~ConsultSolo(cast) /\ r = arm("explorer"))
    BY <1>1, FirstIsNone DEF TeamRefusal, Sent
  <2>2. CASE r = arm("synth")
    BY <1>1, <2>1, <2>2, ArmedIsThere DEF OfArm, Reasoning
  <2>3. CASE ~ConsultSolo(cast) /\ r = arm("explorer")
    <3>1. Armed(cast, "explorer") = "none"
      BY <2>1, <2>3 DEF ConsultSolo, ConsultExplorer, Unset
    <3>2. QED
      BY <2>3, <3>1, ArmedIsThere DEF OfArm, Reasoning
  <2>4. QED
    BY <2>1, <2>2, <2>3
<1>2. CASE tool = "oneshot"
  <2>1. Armed(cast, "synth") = "none" /\ r = arm("synth")
    BY <1>2, FirstIsNone DEF TeamRefusal, Sent
  <2>2. QED
    BY <1>2, <2>1, ArmedIsThere DEF OfArm, Reasoning
<1>3. CASE tool = "explore"
  <2>1. Armed(cast, "explorer") = "none" /\ r = arm("explorer")
    BY <1>3, FirstIsNone DEF TeamRefusal, Sent
  <2>2. QED
    BY <1>3, <2>1, ArmedIsThere DEF OfArm, Reasoning
<1>4. CASE tool = "deliberate"
  <2>1. /\ Armed(cast, "explorer") = "none"
        /\ IF lane = "batch" THEN BatchRefuses(cast.slots["synth"]) = "none"
                             ELSE Armed(cast, "synth") = "none"
        /\ r = arm("explorer") \/ r = IF lane = "batch" THEN BatchRequest(cast.slots["synth"]) ELSE arm("synth")
    BY <1>4, FirstIsNone DEF TeamRefusal, Sent
  <2>2. CASE r = arm("explorer")
    BY <1>4, <2>1, <2>2, ArmedIsThere DEF OfArm, Reasoning
  <2>3. CASE r = IF lane = "batch" THEN BatchRequest(cast.slots["synth"]) ELSE arm("synth")
    BY <1>4, <2>1, <2>3, ArmedIsThere DEF OfArm, OfBatch, Reasoning
  <2>4. QED
    BY <2>1, <2>2, <2>3
<1>5. CASE tool = "batch_submit"
  BY <1>5, FirstIsNone DEF TeamRefusal, Sent, OfBatch
<1>6. CASE tool = "decide"
  <2> DEFINE slot == cast.slots["decision"]
             denies == backends[slot.backend].collection = "deny"
  <2>1. r = [role |-> "decision", slot |-> slot, effort |-> "absent", budget |-> 0, tokens |-> 0,
             denies |-> denies]
    BY <1>6 DEF Sent, Request
  <2> HIDE DEF denies
  <2>2. r.role = "decision" /\ r.slot = slot /\ r.budget = 0 /\ r.denies = denies
    BY <2>1
  <2>3. QED
    BY <2>2 DEF OfDecision, denies
<1>7. QED
  BY <1>1, <1>2, <1>3, <1>4, <1>5, <1>6 DEF CastTools

LEMMA SomethingIsSent ==
  \A tool \in CastTools \ {"generate"} : \A cast, lane : Sent(tool, cast, lane) # {}
<1> SUFFICES ASSUME NEW tool \in CastTools \ {"generate"}, NEW cast, NEW lane
             PROVE  Sent(tool, cast, lane) # {}
  OBVIOUS
<1>1. tool \in {"consult", "consult_submit", "oneshot", "explore", "deliberate", "batch_submit", "decide"}
  BY DEF CastTools
<1>2. QED
  BY <1>1 DEF Sent

-----------------------------------------------------------------------------
(* A tool that is offered is staffed. *)

LEMMA KeysAreFound ==
  \A b : KeyStatus(b) # "missing" /\ ResolveKey(b) = "fails" =>
    b.file = "empty" \/ b.cmd \notin {Unset, "good"}
BY DEF KeyStatus, ResolveKey

\* What may yet be refused of a slot that was loaded and has a key.
OnlyItsKeyOrEffort(why, cast) == why \in {"none", "effort"} \/ (why = "key" /\ Broken(cast))

LEMMA SlotIsBroken ==
  ASSUME NEW cast, Usable(cast), NEW role \in DOMAIN cast.slots,
         ResolveKey(backends[cast.slots[role].backend]) = "fails"
  PROVE  Broken(cast)
BY KeysAreFound DEF Usable, Broken

LEMMA ArmIsStaffed ==
  ASSUME NEW cast, ~CastRefuses(cast), Usable(cast), NEW role \in Reasoning, Has(cast, role)
  PROVE  OnlyItsKeyOrEffort(Armed(cast, role), cast)
<1>1. ~SlotRefuses(role, cast.slots[role])
  BY DEF CastRefuses, Has
<1>2. ~StarvesAnswer(backends[cast.slots[role].backend], role, cast.slots[role])
      /\ backends[cast.slots[role].backend].kind \notin MediaKinds
  BY <1>1 DEF SlotRefuses
<1>3. QED
  BY <1>2, SlotIsBroken DEF Armed, Has, ArmRefuses, OnlyItsKeyOrEffort

LEMMA BatchIsStaffed ==
  ASSUME NEW cast, ~CastRefuses(cast), Usable(cast), SynthLane(cast) = "batch"
  PROVE  OnlyItsKeyOrEffort(BatchRefuses(cast.slots["synth"]), cast)
<1>1. "synth" \in DOMAIN cast.slots /\ cast.slots["synth"].lane = "batch"
  BY DEF SynthLane, Has, Unset
<1>2. BatchSupported(backends[cast.slots["synth"].backend])
  BY <1>1 DEF CastRefuses, SlotRefuses
<1>3. QED
  BY <1>1, <1>2, SlotIsBroken DEF BatchRefuses, OnlyItsKeyOrEffort

LEMMA OfferedIsStaffed ==
  ASSUME NEW tool \in CastTools \ {"generate"}, NEW name \in EligibleCasts(tool),
         ~CastRefuses(casts[name]), NEW over, over.role = "none"
  PROVE  OnlyItsKeyOrEffort(First(CastRefusal(tool, casts[name]),
                                  TeamRefusal(tool, casts[name], over, SynthLane(casts[name]), FALSE)),
                            casts[name])
<1> DEFINE cast == casts[name]
           team == TeamRefusal(tool, cast, over, SynthLane(cast), FALSE)
<1>1. Usable(cast) /\ Eligible(tool, cast) /\ ~CastRefuses(cast)
  BY DEF EligibleCasts
<1> HIDE DEF cast
<1>2. \A role \in Reasoning : Has(cast, role) => OnlyItsKeyOrEffort(Armed(cast, role), cast)
  BY <1>1, ArmIsStaffed
<1>3. SynthLane(cast) = "batch" => OnlyItsKeyOrEffort(BatchRefuses(cast.slots["synth"]), cast)
  BY <1>1, BatchIsStaffed
<1>4. \A a, b : OnlyItsKeyOrEffort(a, cast) /\ OnlyItsKeyOrEffort(b, cast) =>
                  OnlyItsKeyOrEffort(First(a, b), cast)
  BY DEF OnlyItsKeyOrEffort, First
<1>5. OnlyItsKeyOrEffort("none", cast) /\ \A slot : Blind(FALSE, slot) = "none"
  BY DEF OnlyItsKeyOrEffort, Blind
<1>6. CASE tool \in {"consult", "consult_submit"}
  <2>1. Has(cast, "synth") /\ ~SynthOffline(cast)
    BY <1>1, <1>6 DEF Eligible
  <2>2. CastRefusal(tool, cast) = "none"
    BY <1>6, <2>1 DEF CastRefusal, Interactive
  <2>3. OnlyItsKeyOrEffort(ConsultExplorer(cast, over), cast)
    BY <1>2, <1>5 DEF ConsultExplorer, Reasoning
  <2>4. team = First(ConsultExplorer(cast, over), First(Armed(cast, "synth"), "none"))
    BY <1>5, <1>6 DEF TeamRefusal
  <2>5. OnlyItsKeyOrEffort(Armed(cast, "synth"), cast)
    BY <1>2, <2>1 DEF Reasoning
  <2> HIDE DEF team
  <2>6. OnlyItsKeyOrEffort(team, cast)
    BY <1>4, <1>5, <2>3, <2>4, <2>5, Zenon
  <2>7. QED
    BY <1>4, <1>5, <2>2, <2>6 DEF cast, team
<1>7. CASE tool = "oneshot"
  <2>1. Has(cast, "synth") /\ ~SynthOffline(cast)
    BY <1>1, <1>7 DEF Eligible
  <2>2. CastRefusal(tool, cast) = "none"
    BY <1>7, <2>1 DEF CastRefusal, Interactive
  <2>3. team = First(Armed(cast, "synth"), "none")
    BY <1>5, <1>7 DEF TeamRefusal
  <2>4. OnlyItsKeyOrEffort(Armed(cast, "synth"), cast)
    BY <1>2, <2>1 DEF Reasoning
  <2> HIDE DEF team
  <2>5. OnlyItsKeyOrEffort(team, cast)
    BY <1>4, <1>5, <2>3, <2>4, Zenon
  <2>6. QED
    BY <1>4, <1>5, <2>2, <2>5 DEF cast, team
<1>8. CASE tool = "explore"
  <2>1. Has(cast, "explorer") /\ CastRefusal(tool, cast) = "none"
    BY <1>1, <1>8 DEF Eligible, CastRefusal
  <2>2. team = First(Armed(cast, "explorer"), "none")
    BY <1>8 DEF TeamRefusal
  <2>3. OnlyItsKeyOrEffort(Armed(cast, "explorer"), cast)
    BY <1>2, <2>1 DEF Reasoning
  <2> HIDE DEF team
  <2>4. OnlyItsKeyOrEffort(team, cast)
    BY <1>4, <1>5, <2>2, <2>3, Zenon
  <2>5. QED
    BY <1>4, <1>5, <2>1, <2>4 DEF cast, team
<1>9. CASE tool = "deliberate"
  <2>1. Has(cast, "explorer") /\ SynthOffline(cast) /\ CastRefusal(tool, cast) = "none"
    BY <1>1, <1>9 DEF Eligible, CastRefusal
  <2> DEFINE synth == IF SynthLane(cast) = "batch" THEN BatchRefuses(cast.slots["synth"])
                                                   ELSE Armed(cast, "synth")
  <2>2. team = First(Armed(cast, "explorer"), First("none", synth))
    BY <1>9 DEF TeamRefusal
  <2>3. Has(cast, "synth")
    BY <2>1 DEF SynthOffline, SynthLane
  <2>4. OnlyItsKeyOrEffort(Armed(cast, "explorer"), cast) /\ OnlyItsKeyOrEffort(synth, cast)
    BY <1>2, <1>3, <2>1, <2>3 DEF Reasoning
  <2> HIDE DEF team, synth
  <2>5. OnlyItsKeyOrEffort(team, cast)
    BY <1>4, <1>5, <2>2, <2>4, Zenon
  <2>6. QED
    BY <1>4, <1>5, <2>1, <2>5 DEF cast, team
<1>10. CASE tool = "batch_submit"
  <2>1. SynthLane(cast) = "batch"
    BY <1>1, <1>10 DEF Eligible
  <2>2. CastRefusal(tool, cast) = "none"
    BY <1>10, <2>1 DEF CastRefusal
  <2>3. team = First("none", BatchRefuses(cast.slots["synth"]))
    BY <1>5, <1>10 DEF TeamRefusal
  <2>4. OnlyItsKeyOrEffort(BatchRefuses(cast.slots["synth"]), cast)
    BY <1>3, <2>1
  <2> HIDE DEF team
  <2>5. OnlyItsKeyOrEffort(team, cast)
    BY <1>4, <1>5, <2>3, <2>4, Zenon
  <2>6. QED
    BY <1>4, <1>5, <2>2, <2>5 DEF cast, team
<1>11. CASE tool = "decide"
  <2>1. Has(cast, "decision") /\ CastRefusal(tool, cast) = "none"
    BY <1>1, <1>11 DEF Eligible, CastRefusal
  <2>2. OnlyItsKeyOrEffort(team, cast)
    BY <1>1, <1>11, <2>1, SlotIsBroken DEF TeamRefusal, Has, OnlyItsKeyOrEffort
  <2> HIDE DEF team
  <2>3. QED
    BY <1>4, <1>5, <2>1, <2>2 DEF cast, team
<1>12. QED
  BY <1>6, <1>7, <1>8, <1>9, <1>10, <1>11 DEF CastTools

-----------------------------------------------------------------------------
(* The invariant. *)

\* The slots and modes of the casts are ones the code has.
CastsFit ==
  \A name \in DOMAIN casts :
    /\ casts[name] = [slots |-> casts[name].slots, consult |-> casts[name].consult]
    /\ casts[name].consult \in {"solo", "team", Unset}
    /\ \A role \in DOMAIN casts[name].slots : IsSlot(casts[name].slots[role])

CastsLoaded == \A name \in DOMAIN casts : ~CastRefuses(casts[name])

ToolsOffered ==
  offered = [tool \in LiveTools |-> IF tool \in CastTools THEN EligibleCasts(tool) ELSE {}]

CastsInv ==
  /\ file \subseteq Edits \cup UNION Bases
  /\ castsAt \in {"casts", "loaded", "serving", "answered"} => CastsFit
  /\ castsAt \in {"loaded", "serving", "answered"} =>
       CastsLoaded /\ DefaultCast \in DOMAIN casts
  /\ castsAt \in {"serving", "answered"} => ToolsOffered
  /\ CastsHold

LEMMA CastsAreNamed ==
  \A name : CastNamed(name) # "unknown" => CastNamed(name) \in DOMAIN casts
<1> SUFFICES ASSUME NEW name, CastNamed(name) # "unknown", name \notin DOMAIN casts
             PROVE  CastNamed(name) \in DOMAIN casts
  BY DEF CastNamed, Canonical
<1>1. PICK a \in Aliases("casts", DOMAIN casts) : CastNamed(name) = a[2]
  BY Zenon DEF CastNamed, Canonical
<1>2. QED
  BY <1>1 DEF Aliases

\* A bare slot is one, whatever is set of it.
LEMMA SlotsAreMade ==
  \A host, id, effort, lane, vision : \A tokens \in Nat : effort # "absent" =>
    IsSlot([backend |-> host, id |-> id, effort |-> effort, style |-> Unset, lane |-> lane,
            budget |-> 0, tokens |-> tokens, vision |-> vision, heat |-> "some"])
BY DEF IsSlot

LEMMA BareIs ==
  \A host, id :
    Bare(host, id) =
      [backend |-> host, id |-> id, effort |-> Unset, style |-> Unset, lane |-> Unset,
       budget |-> 0, tokens |-> 0, vision |-> FALSE, heat |-> "some"]
BY Zenon DEF Bare

LEMMA BareIsSlot == \A host, id : IsSlot(Bare(host, id))
BY SlotsAreMade, BareIs DEF Unset

LEMMA SlotsMayChange ==
  ASSUME NEW slot, IsSlot(slot)
  PROVE  /\ \A lane : IsSlot([slot EXCEPT !.lane = lane])
         /\ \A tokens \in Nat : IsSlot([slot EXCEPT !.tokens = tokens])
         /\ \A vision : IsSlot([slot EXCEPT !.vision = vision])
         /\ \A effort : effort # "absent" => IsSlot([slot EXCEPT !.effort = effort])
BY DEF IsSlot

\* A slot of a merged cast is one the code has.
LEMMA RawCastsFit ==
  ASSUME file \subseteq Edits \cup UNION Bases, NEW cast, ~RawCastRefuses(cast)
  PROVE  /\ RawCast(cast).consult \in {"solo", "team", Unset}
         /\ \A role \in DOMAIN RawCast(cast).slots : IsSlot(RawCast(cast).slots[role])
<1>1. RawCast(cast).consult \in {"solo", "team", Unset}
  BY DEF RawCast, RawCastRefuses, ConsultModes, Or, BuiltinMode
<1>2. \A role : IsSlot(BuiltinSlot(cast, role))
  <2> SUFFICES ASSUME NEW role PROVE IsSlot(BuiltinSlot(cast, role))
    OBVIOUS
  <2>1. \A host, id : IsSlot([Bare(host, id) EXCEPT !.lane = "batch"])
    BY BareIsSlot, SlotsMayChange
  <2>2. \A host, id : \A tokens \in Nat : IsSlot([Bare(host, id) EXCEPT !.tokens = tokens])
    BY BareIsSlot, SlotsMayChange
  <2>3. CASE cast \in {"gemini-batch", "anthropic-batch"}
    BY <2>1, <2>3 DEF BuiltinSlot
  <2>4. CASE cast = "anthropic"
    BY <2>2, <2>4 DEF BuiltinSlot
  <2>5. CASE cast = "deepseek"
    <3> DEFINE tokens == IF role = "synth" THEN 131072 ELSE 0
               effort == IF role = "synth" THEN "max" ELSE Unset
    <3>1. BuiltinSlot(cast, role) = [Bare(cast, "deepseek-flash") EXCEPT !.tokens = tokens, !.effort = effort]
      BY <2>5 DEF BuiltinSlot
    <3>2. tokens \in Nat /\ effort # "absent"
      BY DEF Unset
    <3> HIDE DEF tokens, effort
    <3>3. IsSlot([Bare(cast, "deepseek-flash") EXCEPT !.tokens = tokens, !.effort = effort])
      BY <3>2, BareIsSlot, SlotsMayChange
    <3>4. QED
      BY <3>1, <3>3
  <2>6. CASE cast = "openrouter"
    <3> DEFINE tokens == IF role = "synth" THEN 65536 ELSE 0
               vision == role = "explorer"
    <3>1. BuiltinSlot(cast, role) = [Bare(cast, "other") EXCEPT !.tokens = tokens, !.vision = vision]
      BY <2>6 DEF BuiltinSlot
    <3>2. tokens \in Nat
      OBVIOUS
    <3> HIDE DEF tokens, vision
    <3>3. IsSlot([Bare(cast, "other") EXCEPT !.tokens = tokens, !.vision = vision])
      BY <3>2, BareIsSlot, SlotsMayChange
    <3>4. QED
      BY <3>1, <3>3
  <2>7. CASE cast \notin {"gemini-batch", "anthropic-batch", "anthropic", "deepseek", "openrouter"}
    BY <2>2, <2>7 DEF BuiltinSlot
  <2>8. QED
    BY <2>3, <2>4, <2>5, <2>6, <2>7
<1>3. \A role \in WrittenRoles(cast) : IsSlot(WrittenSlot(cast, role))
  <2> SUFFICES ASSUME NEW role \in WrittenRoles(cast) PROVE IsSlot(WrittenSlot(cast, role))
    OBVIOUS
  <2>1. PICK l \in Of("casts", cast, role) : WrittenSlot(cast, role) = l.slot
    BY Zenon DEF WrittenSlot, WrittenRoles
  <2>2. QED
    BY <2>1, LinesAssumption DEF Of
<1>4. \A slot, lane : IsSlot(slot) => IsSlot([slot EXCEPT !.lane = lane])
  BY DEF IsSlot
<1>5. \A role : IsSlot(RawSlot(cast, role))
  BY <1>2, <1>3, <1>4 DEF RawSlot
<1>6. \A role : IsSlot(WithBatch(cast, role, RawSlot(cast, role)))
  BY <1>4, <1>5 DEF WithBatch
<1>7. QED
  BY <1>1, <1>6 DEF RawCast

LEMMA TablesStay ==
  ASSUME file' = file, backends' = backends, casts' = casts
  PROVE  /\ CastsFit' = CastsFit
         /\ CastsLoaded' = CastsLoaded
         /\ DefaultCast' = DefaultCast
         /\ offered' = offered => ToolsOffered' = ToolsOffered
<1>1. \A name : CastNamed(name)' = CastNamed(name)
  <2>1. Aliases("casts", DOMAIN casts)' = Aliases("casts", DOMAIN casts)
    BY SaysStays DEF Aliases
  <2>2. QED
    BY <2>1 DEF CastNamed, Canonical
<1>2. DefaultCast' = DefaultCast
  BY <1>1, SaysStays DEF DefaultCast
<1>3. QED
  BY <1>2, CastsStay, ToldStays DEF CastsFit, CastsLoaded, ToolsOffered

-----------------------------------------------------------------------------
(* Loading a configuration. *)

LEMMA MergeCastsFits ==
  ASSUME file \subseteq Edits \cup UNION Bases, MergeCasts, castsAt' = "casts"
  PROVE  CastsFit'
<1> DEFINE real(slot) == [slot EXCEPT !.backend = Canonical("backends", DOMAIN backends, @)]
           names == BuiltinCasts \cup Tables("casts")
           realSlots(raw) == [role \in DOMAIN raw.slots |-> real(raw.slots[role])]
           merged == [name \in names |-> [RawCast(name) EXCEPT !.slots = realSlots(RawCast(name))]]
<1>1. casts' = merged /\ \A name \in names : ~RawCastRefuses(name)
  BY DEF MergeCasts, Refuse, Turn
<1>2. \A slot : IsSlot(slot) => IsSlot(real(slot))
  BY DEF IsSlot
<1> HIDE DEF real
<1>3. ASSUME NEW name \in names
      PROVE  /\ merged[name] = [slots |-> merged[name].slots, consult |-> merged[name].consult]
             /\ merged[name].consult \in {"solo", "team", Unset}
             /\ \A role \in DOMAIN merged[name].slots : IsSlot(merged[name].slots[role])
  <2> DEFINE raw == RawCast(name)
  <2>1. /\ raw.consult \in {"solo", "team", Unset}
        /\ \A role \in DOMAIN raw.slots : IsSlot(raw.slots[role])
    BY <1>1, RawCastsFit
  <2>2. raw = [slots |-> raw.slots, consult |-> raw.consult]
    BY DEF RawCast
  <2>3. merged[name] = [raw EXCEPT !.slots = realSlots(raw)]
    OBVIOUS
  <2> HIDE DEF raw, merged, realSlots
  <2>4. /\ merged[name].consult = raw.consult /\ merged[name].slots = realSlots(raw)
        /\ merged[name] = [slots |-> merged[name].slots, consult |-> merged[name].consult]
    BY <2>2, <2>3
  <2>5. QED
    BY <1>2, <2>1, <2>4 DEF realSlots
<1> HIDE DEF merged
<1>4. DOMAIN merged = names
  BY DEF merged
<1>5. QED
  BY <1>1, <1>3, <1>4 DEF CastsFit

-----------------------------------------------------------------------------
(* A call. *)

LEMMA ACastIsChosen ==
  ASSUME DefaultCast \in DOMAIN casts, NEW tool, NEW named,
         named = Unset \/ CastNamed(named) # "unknown"
  PROVE  Chosen(tool, named) \in DOMAIN casts
<1> DEFINE deciders == {name \in DOMAIN casts : Has(casts[name], "decision")}
<1>1. CASE named # Unset
  BY <1>1, CastsAreNamed DEF Chosen
<1>2. CASE named = Unset
  <2>1. Chosen(tool, named) = DefaultCast
        \/ (Cardinality(deciders) = 1 /\ Chosen(tool, named) = CHOOSE name \in deciders : TRUE)
    BY <1>2 DEF Chosen
  <2>2. Cardinality(deciders) = 1 => \E name \in deciders : TRUE
    BY FS_EmptySet
  <2> HIDE DEF deciders
  <2>3. Cardinality(deciders) = 1 => (CHOOSE name \in deciders : TRUE) \in deciders
    BY <2>2, Zenon
  <2>4. QED
    BY <2>1, <2>3 DEF deciders
<1>3. QED
  BY <1>1, <1>2

\* An override puts a bare slot in the place of one, or beside the others.
LEMMA OverriddenFits ==
  ASSUME CastsFit, CastsLoaded, NEW name \in DOMAIN casts, NEW over
  PROVE  LET cast == OverrideModel(casts[name], over) IN
         /\ cast.consult \in {"solo", "team", Unset}
         /\ cast.consult = "team" => Has(cast, "explorer")
         /\ \A role \in DOMAIN cast.slots : IsSlot(cast.slots[role])
         /\ DOMAIN casts[name].slots \subseteq DOMAIN cast.slots
<1> DEFINE base == casts[name]
           cast == OverrideModel(base, over)
           host == IF over.backend = Unset THEN base.slots[over.role].backend
                      ELSE Canonical("backends", DOMAIN backends, over.backend)
           slots == [role \in DOMAIN base.slots \cup {over.role} |->
                       IF role = over.role THEN Bare(host, over.id) ELSE base.slots[role]]
<1>1. cast = [base EXCEPT !.slots = slots]
  BY DEF OverrideModel
<1>2. base = [slots |-> base.slots, consult |-> base.consult]
  BY DEF CastsFit
<1>3. /\ base.consult \in {"solo", "team", Unset}
      /\ base.consult = "team" => Has(base, "explorer")
      /\ \A role \in DOMAIN base.slots : IsSlot(base.slots[role])
  BY DEF CastsFit, CastsLoaded, CastRefuses
<1>4. IsSlot(Bare(host, over.id))
  BY BareIsSlot
<1> HIDE DEF base, cast, host
<1>5. DOMAIN slots = DOMAIN base.slots \cup {over.role} /\ \A role \in DOMAIN slots : IsSlot(slots[role])
  BY <1>3, <1>4
<1> HIDE DEF slots
<1>6. cast.consult = base.consult /\ cast.slots = slots
  BY <1>1, <1>2
<1>7. QED
  <2>1. cast.consult \in {"solo", "team", Unset}
    BY <1>3, <1>6
  <2>2. DOMAIN base.slots \subseteq DOMAIN cast.slots
    BY <1>5, <1>6, Zenon
  <2>3. cast.consult = "team" => Has(cast, "explorer")
    BY <1>3, <1>6, <2>2 DEF Has
  <2>4. \A role \in DOMAIN cast.slots : IsSlot(cast.slots[role])
    BY <1>5, <1>6
  <2>5. QED
    BY <2>1, <2>2, <2>3, <2>4 DEF base, cast

LEMMA PlainRequestsAreTold ==
  ASSUME file \subseteq Edits \cup UNION Bases, CastsFit, CastsLoaded,
         NEW name \in DOMAIN casts, NEW tool \in CastTools \ {"generate"},
         CastRefusal(tool, casts[name]) = "none", NEW r,
         \/ OfArm(tool, casts[name], SynthLane(casts[name]), r)
         \/ OfBatch(tool, casts[name], SynthLane(casts[name]), r)
  PROVE  EffortIsTold(r) /\ InertIsTold(name, r)
<1> DEFINE cast == casts[name]
           lane == SynthLane(cast)
<1>1. /\ \A role \in DOMAIN cast.slots : IsSlot(cast.slots[role]) /\ ~SlotRefuses(role, cast.slots[role])
  BY DEF CastsFit, CastsLoaded, CastRefuses
<1>2. tool \in {"consult", "consult_submit", "oneshot"} => lane = Unset
  BY DEF CastRefusal, Interactive, SynthOffline
<1>3. tool = "batch_submit" => lane = "batch"
  BY DEF CastRefusal
<1>4. "synth" \in DOMAIN cast.slots => lane = cast.slots["synth"].lane
  BY DEF SynthLane, Has
<1>5. CASE OfArm(tool, cast, lane, r)
  <2>1. PICK role \in Reasoning \cap DOMAIN cast.slots :
          /\ r = ArmRequest(role, cast.slots[role])
          /\ role = "synth" => tool \in {"consult", "consult_submit", "oneshot"} \/ lane # "batch"
    BY <1>5 DEF OfArm
  <2>2. role = "explorer" => cast.slots[role].lane = Unset
    BY <1>1 DEF SlotRefuses
  <2>3. cast.slots[role].lane # "batch"
    BY <1>2, <1>4, <2>1, <2>2 DEF Reasoning, Unset
  <2>4. QED
    BY <1>1, <2>1, <2>3, ArmEffortIsTold, ArmInertIsTold
<1>6. CASE OfBatch(tool, cast, lane, r)
  <2>1. r = BatchRequest(cast.slots["synth"]) /\ BatchRefuses(cast.slots["synth"]) = "none" /\ lane = "batch"
    BY <1>3, <1>6 DEF OfBatch
  <2>2. "synth" \in DOMAIN cast.slots
    BY <2>1 DEF SynthLane, Has, Unset
  <2>3. BatchSupported(backends[cast.slots["synth"].backend])
    BY <2>1 DEF BatchRefuses
  <2>4. QED
    BY <1>1, <1>4, <2>1, <2>2, <2>3, BatchEffortIsTold, BatchInertIsTold
<1>7. QED
  BY <1>5, <1>6

LEMMA EveryRequestKeepsPolicy ==
  ASSUME NEW cast, \A role \in DOMAIN cast.slots : IsSlot(cast.slots[role]),
         NEW tool, NEW lane, NEW r, OfArm(tool, cast, lane, r) \/ OfBatch(tool, cast, lane, r) \/ OfDecision(r),
         OfBatch(tool, cast, lane, r) => Has(cast, "synth")
  PROVE  KeepsPolicy(r)
<1>1. CASE OfArm(tool, cast, lane, r)
  BY <1>1, ArmKeepsPolicy DEF OfArm
<1>2. CASE OfBatch(tool, cast, lane, r)
  BY <1>2, BatchKeepsPolicy DEF OfBatch, Has
<1>3. CASE OfDecision(r)
  BY <1>3 DEF OfDecision, KeepsPolicy
<1>4. QED
  BY <1>1, <1>2, <1>3

LEMMA ConsultDocIsTrue ==
  ASSUME NEW cast, CastRefusal("consult", cast) = "none", NEW lane
  PROVE  ConsultDoc(cast) = "team" <=> \E r \in Sent("consult", cast, lane) : r.role = "explorer"
<1>1. Has(cast, "synth") /\ ~SynthOffline(cast)
  BY DEF CastRefusal, Interactive
<1>2. ConsultDoc(cast) = "team" <=> ~ConsultSolo(cast)
  BY <1>1 DEF ConsultDoc
<1>3. Sent("consult", cast, lane) =
        {ArmRequest("synth", cast.slots["synth"])}
          \cup IF ConsultSolo(cast) THEN {} ELSE {ArmRequest("explorer", cast.slots["explorer"])}
  BY DEF Sent
<1>4. \A role, slot : ArmRequest(role, slot).role = role
  BY ArmFields
<1>5. QED
  BY <1>2, <1>3, <1>4

\* What a call is told is true of what it sends.
LEMMA CallHolds == ASSUME CastsInv, CallTool PROVE CastsHold'
<1>1. /\ castsAt = "serving" /\ castsAt' = "answered"
      /\ file' = file /\ backends' = backends /\ casts' = casts /\ offered' = offered
  BY DEF CallTool, Turn
<1>2. /\ file \subseteq Edits \cup UNION Bases /\ CastsFit /\ CastsLoaded
      /\ DefaultCast \in DOMAIN casts /\ ToolsOffered /\ ResourceIsTrue
  BY <1>1 DEF CastsInv, CastsHold
<1>3. PICK tool \in (DOMAIN offered) \cap (CastTools \ {"generate"}), named \in Asked \cup {Unset},
           over \in Overrides \cup {NoOverride}, image \in BOOLEAN :
        /\ named = Unset \/ CastNamed(named) # "unknown"
        /\ reply' = ReplyTo(tool, named, over, image)
  BY DEF CallTool
<1> DEFINE name == Chosen(tool, named)
           asks == over.role # "none"
           lane == SynthLane(casts[name])
           cast == IF asks THEN OverrideModel(casts[name], over) ELSE casts[name]
           team == TeamRefusal(tool, cast, over, lane, image)
           why == First(CastRefusal(tool, casts[name]),
                        IF asks /\ OverrideRefuses(casts[name], over) THEN "override" ELSE team)
           plain == ~asks /\ ~image
           out == IF why = "none" THEN Sent(tool, cast, lane) ELSE {}
<1>4. /\ named = Unset \/ CastNamed(named) # "unknown"
      /\ reply' = [tool |-> tool, cast |-> name, plain |-> plain, why |-> why, sent |-> out]
  BY <1>3, Zenon DEF ReplyTo
<1>5. name \in DOMAIN casts
  BY <1>2, <1>4, ACastIsChosen
<1>6. plain => cast = casts[name] /\ image = FALSE /\ over.role = "none"
  OBVIOUS
<1>7. plain => why = First(CastRefusal(tool, casts[name]), TeamRefusal(tool, casts[name], over, lane, FALSE))
  BY <1>6
<1>8. /\ cast.consult \in {"solo", "team", Unset}
      /\ cast.consult = "team" => Has(cast, "explorer")
      /\ \A role \in DOMAIN cast.slots : IsSlot(cast.slots[role])
      /\ DOMAIN casts[name].slots \subseteq DOMAIN cast.slots
  <2>1. CASE asks
    BY <1>2, <1>5, <2>1, OverriddenFits
  <2>2. CASE ~asks
    BY <1>2, <1>5, <2>2 DEF CastsFit, CastsLoaded, CastRefuses
  <2>3. QED
    BY <2>1, <2>2
<1>9. why = "none" => CastRefusal(tool, casts[name]) = "none" /\ team = "none"
  BY FirstIsNone
<1>10. out # {} => why = "none" /\ out = Sent(tool, cast, lane)
  OBVIOUS
<1> HIDE DEF name, cast, team, why, plain, out, lane
<1>11. /\ reply'.tool = tool /\ reply'.cast = name /\ reply'.plain = plain
       /\ reply'.why = why /\ reply'.sent = out
  BY <1>4
<1>12. \A r \in out : OfArm(tool, cast, lane, r) \/ OfBatch(tool, cast, lane, r) \/ OfDecision(r)
  <2> SUFFICES ASSUME NEW r \in out
               PROVE  OfArm(tool, cast, lane, r) \/ OfBatch(tool, cast, lane, r) \/ OfDecision(r)
    OBVIOUS
  <2>1. r \in Sent(tool, cast, lane) /\ TeamRefusal(tool, cast, over, lane, image) = "none"
    BY <1>9, <1>10 DEF team
  <2>2. QED
    BY <1>8, <2>1, SentAre
<1>13. \A r \in out : OfBatch(tool, cast, lane, r) => Has(cast, "synth")
  <2> SUFFICES ASSUME NEW r \in out, OfBatch(tool, cast, lane, r) PROVE Has(cast, "synth")
    OBVIOUS
  <2>1. CastRefusal(tool, casts[name]) = "none"
    BY <1>9, <1>10
  <2>2. lane = "batch"
    BY <2>1 DEF OfBatch, CastRefusal, lane
  <2>3. Has(casts[name], "synth")
    BY <2>2 DEF lane, SynthLane, Unset
  <2>4. QED
    BY <1>8, <2>3 DEF Has
<1>14. AdvertisedIsStaffed'
  <2>1. plain /\ name \in offered[tool] =>
          \/ why = "none" /\ out # {}
          \/ why = "effort"
          \/ why = "key" /\ Broken(casts[name])
    <3> SUFFICES ASSUME plain, name \in offered[tool]
                 PROVE  \/ why = "none" /\ out # {}
                        \/ why = "effort"
                        \/ why = "key" /\ Broken(casts[name])
      OBVIOUS
    <3>1. name \in EligibleCasts(tool)
      BY <1>2 DEF ToolsOffered
    <3>2. ~CastRefuses(casts[name])
      BY <1>2, <1>5 DEF CastsLoaded
    <3>3. OnlyItsKeyOrEffort(why, casts[name])
      BY <1>6, <1>7, <3>1, <3>2, OfferedIsStaffed DEF lane
    <3>4. why = "none" => out # {}
      BY SomethingIsSent DEF out
    <3>5. QED
      BY <3>3, <3>4 DEF OnlyItsKeyOrEffort
  <2>2. \A c : Broken(c)' = Broken(c)
    BY <1>1, CastsStay
  <2>3. QED
    BY <1>1, <1>11, <2>1, <2>2 DEF AdvertisedIsStaffed
<1>15. plain => \A r \in out : r.role \in Reasoning => EffortIsTold(r) /\ InertIsTold(name, r)
  <2> SUFFICES ASSUME plain, NEW r \in out, r.role \in Reasoning
               PROVE  EffortIsTold(r) /\ InertIsTold(name, r)
    OBVIOUS
  <2>1. ~OfDecision(r)
    BY DEF OfDecision, Reasoning
  <2>2. CastRefusal(tool, casts[name]) = "none"
    BY <1>9, <1>10
  <2>3. OfArm(tool, casts[name], SynthLane(casts[name]), r)
        \/ OfBatch(tool, casts[name], SynthLane(casts[name]), r)
    BY <1>6, <1>12, <2>1 DEF lane
  <2>4. QED
    BY <1>2, <1>5, <2>2, <2>3, PlainRequestsAreTold
<1>16. DispositionIsTrue'
  BY <1>1, <1>11, <1>15, ToldStays DEF DispositionIsTrue
<1>17. ResourceIsTrue'
  <2>1. DOMAIN offered' \cap Unstaffable' = {}
    BY <1>1, <1>2, ToldStays DEF ResourceIsTrue
  <2>2. Answered' /\ reply'.plain =>
          \A r \in reply'.sent : r.role \in Reasoning => InertIsTold(reply.cast, r)'
    BY <1>1, <1>11, <1>15, ToldStays
  <2>3. plain /\ tool = "consult" /\ why = "none" =>
          (ConsultDoc(casts[name]) = "team" <=> \E r \in out : r.role = "explorer")
    BY <1>6, <1>9, ConsultDocIsTrue DEF out
  <2>4. QED
    BY <1>1, <1>11, <2>1, <2>2, <2>3 DEF ResourceIsTrue
<1>18. RequestsKeepPolicy'
  <2>1. \A r \in out : KeepsPolicy(r)
    BY <1>8, <1>12, <1>13, EveryRequestKeepsPolicy
  <2>2. QED
    BY <1>1, <1>11, <2>1, ToldStays DEF RequestsKeepPolicy
<1>19. QED
  BY <1>14, <1>16, <1>17, <1>18 DEF CastsHold

\* Nothing live is called unstaffable.
LEMMA LiveIsStaffed == LiveTools \cap Unstaffable = {}
BY DEF LiveTools, Unstaffable, CastTools, Followers

LEMMA CastsInvKept == ASSUME CastsInv, [CastsNext]_castVars PROVE CastsInv'
<1>1. CASE WriteLine
  <2>1. file' \subseteq Edits \cup UNION Bases
    BY <1>1 DEF WriteLine, CastsInv
  <2>2. castsAt' = "writing"
    BY <1>1 DEF WriteLine
  <2>3. CastsHold'
    BY <2>2 DEF CastsHold, AdvertisedIsStaffed, DispositionIsTrue, ResourceIsTrue, RequestsKeepPolicy, Answered
  <2>4. QED
    BY <2>1, <2>2, <2>3 DEF CastsInv
<1>2. CASE MergeBackends
  <2>1. file' = file /\ castsAt' \in {"backends", "refused"}
    BY <1>2 DEF MergeBackends, Refuse, Turn
  <2>2. CastsHold'
    BY <2>1 DEF CastsHold, AdvertisedIsStaffed, DispositionIsTrue, ResourceIsTrue, RequestsKeepPolicy, Answered
  <2>3. QED
    BY <2>1, <2>2 DEF CastsInv
<1>3. CASE MergeCasts
  <2>1. file' = file /\ castsAt' \in {"casts", "refused"}
    BY <1>3 DEF MergeCasts, Refuse, Turn
  <2>2. CastsHold'
    BY <2>1 DEF CastsHold, AdvertisedIsStaffed, DispositionIsTrue, ResourceIsTrue, RequestsKeepPolicy, Answered
  <2>3. castsAt' = "casts" => CastsFit'
    BY <1>3, MergeCastsFits DEF CastsInv
  <2>4. QED
    BY <2>1, <2>2, <2>3 DEF CastsInv
<1>4. CASE CheckCasts
  <2>1. /\ file' = file /\ backends' = backends /\ casts' = casts
        /\ castsAt = "casts" /\ castsAt' \in {"loaded", "refused"}
        /\ castsAt' = "loaded" => CastsLoaded /\ DefaultCast # "unknown"
    BY <1>4 DEF CheckCasts, Refuse, Turn, CastsLoaded
  <2>2. CastsHold'
    BY <2>1 DEF CastsHold, AdvertisedIsStaffed, DispositionIsTrue, ResourceIsTrue, RequestsKeepPolicy, Answered
  <2>3. CastsFit'
    BY <2>1 DEF CastsInv, CastsFit
  <2>4. castsAt' = "loaded" => CastsLoaded' /\ DefaultCast' \in DOMAIN casts'
    BY <2>1, TablesStay, CastsAreNamed DEF DefaultCast
  <2>5. QED
    BY <2>1, <2>2, <2>3, <2>4 DEF CastsInv
<1>5. CASE ServeTools
  <2>1. /\ file' = file /\ backends' = backends /\ casts' = casts
        /\ castsAt = "loaded" /\ castsAt' = "serving"
        /\ offered' = [tool \in LiveTools |-> IF tool \in CastTools THEN EligibleCasts(tool) ELSE {}]
    BY <1>5 DEF ServeTools, Turn
  <2>2. CastsFit' /\ CastsLoaded' /\ DefaultCast' \in DOMAIN casts'
    BY <2>1, TablesStay DEF CastsInv
  <2>3. ToolsOffered'
    BY <2>1, ToldStays DEF ToolsOffered
  <2>4. DOMAIN offered' \cap Unstaffable' = {}
    BY <2>1, ToldStays, LiveIsStaffed
  <2>5. CastsHold'
    BY <2>1, <2>4 DEF CastsHold, AdvertisedIsStaffed, DispositionIsTrue, ResourceIsTrue, RequestsKeepPolicy, Answered
  <2>6. QED
    BY <2>1, <2>2, <2>3, <2>5 DEF CastsInv
<1>6. CASE CallTool
  <2>1. /\ file' = file /\ backends' = backends /\ casts' = casts /\ offered' = offered
        /\ castsAt = "serving" /\ castsAt' = "answered"
    BY <1>6 DEF CallTool, Turn
  <2>2. CastsFit' /\ CastsLoaded' /\ DefaultCast' \in DOMAIN casts' /\ ToolsOffered'
    BY <2>1, TablesStay DEF CastsInv
  <2>3. QED
    BY <1>6, <2>1, <2>2, CallHolds DEF CastsInv
<1>7. CASE UNCHANGED castVars
  <2>1. /\ file' = file /\ backends' = backends /\ casts' = casts /\ offered' = offered
        /\ castsAt' = castsAt /\ reply' = reply
    BY <1>7 DEF castVars
  <2>2. CastsHold'
    <3>1. AdvertisedIsStaffed'
      BY <2>1, CastsStay DEF CastsInv, CastsHold, AdvertisedIsStaffed, Answered
    <3>2. DispositionIsTrue' /\ RequestsKeepPolicy'
      BY <2>1, ToldStays DEF CastsInv, CastsHold, DispositionIsTrue, RequestsKeepPolicy, Answered
    <3>3. ResourceIsTrue'
      BY <2>1, ToldStays DEF CastsInv, CastsHold, ResourceIsTrue, Answered
    <3>4. QED
      BY <3>1, <3>2, <3>3 DEF CastsHold
  <2>3. /\ CastsFit' = CastsFit /\ CastsLoaded' = CastsLoaded
        /\ DefaultCast' = DefaultCast /\ ToolsOffered' = ToolsOffered
    BY <2>1, TablesStay
  <2>4. QED
    BY <2>1, <2>2, <2>3 DEF CastsInv
<1>8. QED
  BY <1>1, <1>2, <1>3, <1>4, <1>5, <1>6, <1>7 DEF CastsNext

\* Whatever config.toml says, whichever keys there are, and whatever a caller asks of
\* which cast: a tool is offered only with casts that can staff it, what the config
\* resource tells of a cast is what its requests carry, and every request keeps the
\* data policy and leaves room for an answer (config.rs, shaping.rs, engine.rs, batch.rs).
THEOREM CastsAlwaysHold == CastsSpec => []CastsHold
<1>1. CastsInit => CastsInv
  BY DEF CastsInit, CastsInv, CastsHold, AdvertisedIsStaffed, DispositionIsTrue, ResourceIsTrue,
         RequestsKeepPolicy, Answered
<1>2. CastsInv /\ [CastsNext]_castVars => CastsInv'
  BY CastsInvKept
<1>3. CastsInv => CastsHold
  BY DEF CastsInv
<1>4. QED
  BY <1>1, <1>2, <1>3, PTL DEF CastsSpec
=============================================================================

\* One edit of a file of backends and casts; one thing wrong with a request and one turn
\* of the database; two changes of the worktrees and one of the files; two questions; one
\* poll after the first; three prompts in a batch.
CONSTANTS
  Bases <- MCBases
  Edits <- MCEdits
  MaxEdits = 1
  Asked <- MCAsked
  Overrides <- MCOverrides
  GatedTools = {"consult", "batch"}
  Topics <- MCTopics
  Verbs <- MCVerbs
  MaxWrong = 1
  MaxTurns = 1
  Dirs <- MCDirs
  Home <- MCHome
  Canon <- MCCanon
  Files <- MCFiles
  Registrations <- MCRegistrations
  Configs <- MCConfigs
  Lists <- MCLists
  Budget = 2
  MaxText = 2
  MaxImage = 3
  MaxTotal = 3
  MaxCount = 2
  Sizes = {2, 4}
  Paths <- MCPaths
  Places <- MCPlaces
  Gits = {"r1", "none", "module"}
  MaxGit = 2
  MaxRewrites = 1
  QuestionIds = {"a", "b"}
  MaxOptions = 3
  MaxLevels = 2
  Requested <- MCRequested
  Contents = {"g1", "g2"}
  InlineBudget = 1
  CallDeadline = 1
  MaxPrompts = 3
  Attached <- MCAttached
SPECIFICATION MCSpec
CHECK_DEADLOCK FALSE
INVARIANTS
  SwitchesHold
  CastsHold
  DoorsKeepFaith
  AnsweredAsAsked
  MediaIsAccounted
  LanesHold
PROPERTIES
  TreesHold

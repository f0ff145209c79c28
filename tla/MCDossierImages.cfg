\* SameEvidence: what server/mod.rs:2384 says of a reused dossier.
\* A phase of four turns; two attach calls for four files and two slots; a
\* consult with one sweep, two saves at a time and three in all; two
\* deliberations; one completion; four turns of two sessions in one slot.
CONSTANTS
  p1 = p1
  p2 = p2
  p3 = p3
  p4 = p4
  b1 = b1
  b2 = b2
  c1 = c1
  c2 = c2
  s1 = s1
  s2 = s2
  TurnCalls = 1
  PhaseTurns = 2
  CallsPerTurn = 2
  Capacity = 1
  Sessions = {s1, s2}
  AskedDelays = {0}
  MaxTurns = 3
  BreakOnToolImages = TRUE
  AttachPaths <- MCPaths
  AttachCallers = {c1, c2}
  MaxAttachments = 2
  AlreadyDelivered = {p4}
  ReaderSees = FALSE
  MaxAttachCalls = 1
  Blobs <- MCBlobs
  BlobBytes <- MCBytes
  BlobFormats = {"text", "jsonl"}
  Savers = {c1, c2}
  ArtifactBytesCap = 2
  ArtifactsPerCall = 2
  CallBytesCap = 3
  MaxSaves = 1
  Sweeps = {1}
  Deliberations = {"d1", "d2"}
  Callers = {"c1", "c2", "c3"}
  Scripts = {"reads", "goes", "stores", "binary", "hangs", "faults"}
  Start = "root"
  ScratchLimit = 1
  SlowChat = 2
  MaxChats = 1
  Projects <- MCProjects
  FileContents <- MCContents
  Quoted <- MCQuoted
  Enabled = TRUE
  FullListMaxFiles = 3
  TreeMaxDepth = 1
  ChunkSize = 1
  OutputLimit = 20
  MaxFailures = 1
  MaxEdits = 1
  Deliberations = {"d1", "d2"}
SPECIFICATION MCSpec
CHECK_DEADLOCK FALSE
INVARIANTS
  SameEvidence

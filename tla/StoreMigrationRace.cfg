\* Three processes that open one file, for one claim of migrate's comments.
CONSTANTS
  Processes = {mcp, cli1, cli2}
  InitialVersions = {0, 1, 2, 3}
  MaxOpens = 4
SPECIFICATION MigrationSpec
CHECK_DEADLOCK FALSE
INVARIANTS
  PopulatedReopens

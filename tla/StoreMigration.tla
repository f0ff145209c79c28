--------------------------- MODULE StoreMigration ---------------------------
(***************************************************************************)
(* Opening the state db (store.rs: SessionStore::open, migrate).  A process*)
(* reads user_version once, then for each version it is behind runs that   *)
(* arm's statements and writes the next version, each statement on its own *)
(* autocommit.  The MCP server and CLI calls open the same file at any     *)
(* time, and a process may be killed between two statements.               *)
(***************************************************************************)
EXTENDS Naturals, FiniteSets

CONSTANTS Processes,
          InitialVersions,  \* user_version values the file may already have
          MaxOpens          \* bound: opens in one run

SCHEMA_VERSION == 2
Tables == {"sessions", "turns", "idx_sessions_touch", "batch_handles"}
Column == "submitted_count"

\* What a file of each version holds; a newer binary keeps all this one knows.
SchemaOf(v) == CASE v = 0 -> {}
                 [] v = 1 -> Tables
                 [] OTHER -> Tables \cup {Column}

ASSUME MigrationAssumption == /\ InitialVersions \subseteq Nat
                              /\ MaxOpens \in Nat

VARIABLES userVersion,  \* the file's user_version pragma
          schema,       \* tables, index and column the file has
          place,        \* each process's place in open
          version,      \* migrate's local variable
          opens,        \* opens so far
          settled,      \* history: some open has succeeded
          late          \* history: processes whose open began after that

migrationVars == <<userVersion, schema, place, version, opens, settled, late>>

Places == {"closed", "reading", "applying", "bumping", "pruning", "open", "refused"}

MigrationTypeOK ==
  /\ userVersion \in Nat
  /\ schema \in SUBSET (Tables \cup {Column})
  /\ place \in [Processes -> Places]
  /\ version \in [Processes -> Nat]
  /\ opens \in 0..MaxOpens

MigrationInit ==
  /\ userVersion \in InitialVersions
  /\ schema = SchemaOf(userVersion)
  /\ place = [p \in Processes |-> "closed"]
  /\ version = [p \in Processes |-> 0]
  /\ opens = 0
  /\ settled = FALSE
  /\ late = {}
-----------------------------------------------------------------------------
Goto(p, to) == place' = [place EXCEPT ![p] = to]

\* The containment and file-system checks come first and touch nothing.
OpenBegin(p) ==
  /\ place[p] \in {"closed", "refused"}
  /\ opens < MaxOpens
  /\ opens' = opens + 1
  /\ Goto(p, "reading")
  /\ late' = IF settled THEN late \cup {p} ELSE late \ {p}
  /\ UNCHANGED <<userVersion, schema, version, settled>>

Behind(v) == v < SCHEMA_VERSION

ReadVersion(p) ==
  /\ place[p] = "reading"
  /\ version' = [version EXCEPT ![p] = userVersion]
  /\ Goto(p, IF Behind(userVersion) THEN "applying" ELSE "pruning")
  /\ UNCHANGED <<userVersion, schema, opens, settled, late>>

\* apply_v1: one CREATE ... IF NOT EXISTS at a time, and on to the version.
ApplyV1(p) ==
  /\ place[p] = "applying"
  /\ version[p] = 0
  /\ \/ \E t \in Tables \ schema : /\ schema' = schema \cup {t}
                                   /\ UNCHANGED place
     \/ /\ Tables \subseteq schema
        /\ Goto(p, "bumping")
        /\ UNCHANGED schema
  /\ UNCHANGED <<userVersion, version, opens, settled, late>>

\* apply_v2: ADD COLUMN fails when the column is there, and open with it.
ApplyV2(p) ==
  /\ place[p] = "applying"
  /\ version[p] = 1
  /\ IF Column \in schema
     THEN Goto(p, "refused") /\ UNCHANGED schema
     ELSE schema' = schema \cup {Column} /\ Goto(p, "bumping")
  /\ UNCHANGED <<userVersion, version, opens, settled, late>>

\* Mutant of BumpVersion: the file is marked migrated at once.
BumpToNewest(p) ==
  /\ place[p] = "bumping"
  /\ version' = [version EXCEPT ![p] = @ + 1]
  /\ userVersion' = SCHEMA_VERSION
  /\ Goto(p, IF Behind(version[p] + 1) THEN "applying" ELSE "pruning")
  /\ UNCHANGED <<schema, opens, settled, late>>

BumpVersion(p) ==
  /\ place[p] = "bumping"
  /\ version' = [version EXCEPT ![p] = @ + 1]
  /\ userVersion' = version[p] + 1
  /\ Goto(p, IF Behind(version[p] + 1) THEN "applying" ELSE "pruning")
  /\ UNCHANGED <<schema, opens, settled, late>>

\* prune_stale_batch_handles needs its table; then open returns the store.
Prune(p) ==
  /\ place[p] = "pruning"
  /\ Goto(p, IF "batch_handles" \in schema THEN "open" ELSE "refused")
  /\ settled' = (settled \/ "batch_handles" \in schema)
  /\ UNCHANGED <<userVersion, schema, version, opens, late>>

\* The process ends, or is killed, wherever it is.
Killed(p) ==
  /\ place[p] # "closed"
  /\ Goto(p, "closed")
  /\ UNCHANGED <<userVersion, schema, version, opens, settled, late>>

MigrationNext == \E p \in Processes :
  \/ OpenBegin(p) \/ ReadVersion(p) \/ ApplyV1(p) \/ ApplyV2(p)
  \/ BumpVersion(p) \/ Prune(p) \/ Killed(p)

MigrationSpec == MigrationInit /\ [][MigrationNext]_migrationVars
-----------------------------------------------------------------------------
(***************************************************************************)
(* Properties.                                                             *)
(***************************************************************************)

\* user_version never claims what the file does not have, whoever was killed
\* where: no later open can skip an arm it needs (migrate).
VersionNeverAhead == SchemaOf(userVersion) \subseteq schema

\* A store that open returned has every table and column its statements name,
\* whichever other process was migrating the file at the same time.
OpenMeansMigrated ==
  \A p \in Processes : place[p] = "open" => schema = Tables \cup {Column}

\* Together: an open store has the whole schema, and the version says no more than it has.
SchemaIsWhole == MigrationTypeOK /\ VersionNeverAhead /\ OpenMeansMigrated

\* "user_version persists in the db header across reopens, so a populated file
\* skips straight through without re-applying schema" (migrate): after an open
\* succeeded, no later one is refused for an arm that was already applied.
PopulatedReopens == \A p \in late : place[p] # "refused"
=============================================================================

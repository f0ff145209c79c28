------------------------------ MODULE MCStores ------------------------------
(***************************************************************************)
(* What outlives a call, for TLC: the sessions and the schema of the store   *)
(* file, the batch handles in it, and what is told of one batch.  They share no  *)
(* variable; part picks the one that moves, so that the run visits the sum of  *)
(* their states and not the product.                                          *)
(***************************************************************************)
EXTENDS SessionStore, StoreMigration, BatchHandles, BatchResults, TLC

CONSTANTS mcp, cli, cli1, cli2, s1, s2, s3, x1, x2

VARIABLE part

MCConns == {mcp, cli}
MCSessions == {s1, s2, s3}
\* The server and the CLI read the same file with different session_capacity.
MCCapacity == mcp :> 2 @@ cli :> 1
MCProcesses == {mcp, cli1, cli2}
MCBatchIds == {x1, x2}
MCBackendOf == (x1 :> "anthropic") @@ (x2 :> "openai")

SessionSymmetry == Permutations(MCSessions)

mcVars == <<part, vars, migrationVars, handleVars, resultVars>>

MCInit == /\ part \in {"sessions", "migration", "handles", "results"}
          /\ Init /\ MigrationInit /\ HandlesInit /\ ResultsInit
          /\ part # "migration" => userVersion = 0
          /\ part # "results" => lane = "openai"

MCNext ==
  /\ UNCHANGED part
  /\ \/ part = "sessions" /\ Next /\ UNCHANGED <<migrationVars, handleVars, resultVars>>
     \/ part = "migration" /\ MigrationNext /\ UNCHANGED <<vars, handleVars, resultVars>>
     \/ part = "handles" /\ HandlesNext /\ UNCHANGED <<vars, migrationVars, resultVars>>
     \/ part = "results" /\ ResultsNext /\ UNCHANGED <<vars, migrationVars, handleVars>>

MCSpec == MCInit /\ [][MCNext]_mcVars
=============================================================================

------------------------------ MODULE MCRecords ------------------------------
(* A small instance of DeploymentRecords for TLC: two runs, one of them      *)
(* forced, whose paths meet in different roles.                              *)
EXTENDS RecordsInvariant, TLC

CONSTANTS p, q

MCPaths == 1 .. 4

(* Each run's result, journal and signature; 2 and 3 belong to both. *)
MCOutput == [r \in Runs |-> IF r = p THEN 1 ELSE 3]
MCJournal == [r \in Runs |-> IF r = p THEN 2 ELSE 4]
MCBundle == [r \in Runs |-> IF r = p THEN 3 ELSE 2]
=============================================================================

--------------------------- MODULE MCContextLayer ---------------------------
(***************************************************************************)
(* Two runs over three deployments, two of which are releases of one       *)
(* application and share its name label.                                   *)
(***************************************************************************)
EXTENDS ContextLayer, TLC

MCDeployments == {"api", "db-blue", "db-green"}
MCOrder == <<"api", "db-blue", "db-green">>
MCServiceIdOf == [d \in MCDeployments |-> IF d = "api" THEN "api" ELSE "db"]

\* One deployment has two files at its important paths; the others have none, as
\* services nobody edits.
MCFilesOf ==
  [d \in MCDeployments |-> IF d = "db-blue" THEN {"app.py", "db.sql"} ELSE {}]

\* Runs and contents are only compared with each other.
ContextSymmetry == Permutations(Runs) \cup Permutations(Contents)
============================================================================

---------------------------- MODULE MCLifecycle ----------------------------
(***************************************************************************)
(* Container for TLC, twice over the same variables: as the cfg says, and  *)
(* without a restart policy or forced removals but with all other commands.*)
(***************************************************************************)
EXTENDS MCContainer

CONSTANT Variants  \* which of the two run, a subset of {"cfg", "unforced"}

VARIABLE variant

Unforced == INSTANCE Container WITH
    Commands <- {"init", "start", "stop", "kill", "pause", "unpause", "cleanup", "rm"},
    MaxCommands <- 4, MaxRuns <- 2, ExitCodes <- {0},
    RestartPolicy <- "no", RestartRetries <- 0

MCInit == /\ variant \in Variants
          /\ IF variant = "cfg" THEN Init ELSE Unforced!Init

MCNext == /\ IF variant = "cfg" THEN Next ELSE Unforced!Next
          /\ UNCHANGED variant

MCSpec == MCInit /\ [][MCNext]_<<vars, variant>>
=============================================================================

---------------------------- MODULE MCHealthcheck ----------------------------
(***************************************************************************)
(* Healthcheck for TLC: the startup check fails, and nothing else happens. *)
(***************************************************************************)
EXTENDS Healthcheck

MCRestarting ==
    {[startup |-> TRUE, Successes |-> 2, StartupRetries |-> 2, Retries |-> 1,
      period |-> FALSE, kube |-> FALSE, notify |-> FALSE, policy |-> FALSE,
      action |-> "stop", faults |-> {}]}
=============================================================================

------------------------------- MODULE MCExec -------------------------------
(***************************************************************************)
(* Exec for TLC: a terminal that is resized, and nothing else.             *)
(***************************************************************************)
EXTENDS Exec, TLC

CONSTANTS s1, s2

MCResize == {[kind |-> s1 :> "cli" @@ s2 :> "detached", faults |-> {"resize"}]}
=============================================================================

--------------------------- MODULE MCObjectLocks ---------------------------
(***************************************************************************)
(* ObjectLocks for TLC: two containers, the first with an anonymous        *)
(* volume, a pod, two processes and one lock less than there are objects.  *)
(***************************************************************************)
EXTENDS ObjectLocks, TLC

CONSTANTS c1, c2, p1, v1

MCAnonVolume == (c1 :> v1) @@ (c2 :> Nil)

\* No faults; those that are harmless; all of them.
MCFaultSets == {{}, {"die", "reboot", "evict"}, Faults}

\* rm of containers with busy exec bundles, and nothing else.
MCExecOnly == {{"exec"}}

MCSymmetry == Permutations(Locks) \cup Permutations(Procs)
=============================================================================

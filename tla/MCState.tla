------------------------------ MODULE MCState ------------------------------
(***************************************************************************)
(* The two database backends for TLC.  One of them is chosen initially and *)
(* is the one that runs.                                                   *)
(***************************************************************************)
EXTENDS Database, TLC

CONSTANTS c1, c2, p1, v1, n1, n2, n3, net1, s1

Cfg(n, p, d, v, k) == [name |-> n, pod |-> p, deps |-> d, vols |-> v, nets |-> k]

\* c1 is created with or without the volume (a restore may leave it out), in or
\* out of the pod; c2 depends on it.
MCConfigsOf ==
    (c1 :> {Cfg(n1, Nil, {}, {v1}, {net1}), Cfg(n1, Nil, {}, {}, {net1}),
            Cfg(n1, p1, {}, {}, {net1})}) @@
    (c2 :> {Cfg(n2, Nil, {c1}, {v1}, {}),
            Cfg(n2, p1, {c1}, {}, {})})
=============================================================================

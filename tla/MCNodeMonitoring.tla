-------------------------- MODULE MCNodeMonitoring ---------------------------
(* NodeMonitoring on small sets. *)
EXTENDS NodeMonitoring, TLC

CONSTANTS n1, n2, m1, m2, p1, a1, a2, c1

TwoMonitors == {m1, m2}

\* The container is one of the first node, which comes up under the address of the second.
MCNodeOf == c1 :> n1
MCFirstAddr == n1 :> a1 @@ n2 :> a2
MCMoves == {<<n1, a1, a2>>}

\* Monitors are interchangeable.
Symmetry == Permutations(TwoMonitors)
==============================================================================

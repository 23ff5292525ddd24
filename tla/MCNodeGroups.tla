---------------------------- MODULE MCNodeGroups -----------------------------
(* NodeGroups on small sets, for the run with several callers.  Only safety is
   checked, so symmetry is sound. *)
EXTENDS NodeGroups, TLC

CONSTANTS n1, n2, g1, g2, c1, c2

TwoNodes == {n1, n2}
TwoGroups == {g1, g2}
TwoCallers == {c1, c2}

Symmetry ==
  Permutations(TwoCallers) \cup Permutations(TwoGroups) \cup Permutations(TwoNodes)

\* What a caller has been told so far is left out: no action reads missed, late or reply.
Decisive == <<present, labels, adrift, op, id, want, pc, todo, later, held, current, err>>

\* Calls with the empty id, which change no node, and calls for several nodes are left to
\* the run with one caller.  The lists of DeleteGroup and of an update still have several.
SmallCalls ==
  \A c \in Callers : op[c] # NoOp => id[c] \in Groups /\ Cardinality(want[c]) <= 1
==============================================================================

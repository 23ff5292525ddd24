--------------------------- MODULE MCContainerStats ---------------------------
(* ContainerStats on small sets; containers are interchangeable. *)
EXTENDS ContainerStats, TLC

CONSTANTS c1, c2

TwoContainers == {c1, c2}

Symmetry == Permutations(TwoContainers)
==============================================================================

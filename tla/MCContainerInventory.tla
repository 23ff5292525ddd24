------------------------ MODULE MCContainerInventory -------------------------
(* ContainerInventory for one pod whose sandbox is replaced, and a second pod. *)
EXTENDS ContainerInventory, TLC

CONSTANTS s1, s2, s3, c1, c2, a, b

MCPodOf == s1 :> "p" @@ s2 :> "p" @@ s3 :> "q" @@ c1 :> "p" @@ c2 :> "q"

\* The pods have names of their own,
OwnNames == "p" :> a @@ "q" :> b

\* or have the same name in two namespaces.
SharedName == "p" :> a @@ "q" :> a
==============================================================================

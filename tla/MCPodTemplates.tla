--------------------------- MODULE MCPodTemplates ----------------------------
(* PodTemplates for one workload asked for in several ways and one of another client. *)
EXTENDS PodTemplates

CONSTANTS web, job, n1, n2, g1, x, y

Both(v) == [k \in Kinds |-> v]

Plain ==
  [Name |-> web, Path |-> "ops", Interface |-> x, Portmap |-> << >>, HostNetwork |-> 0,
   Env |-> [k \in {} |-> None], NodeName |-> None, GroupId |-> None,
   Volmap |-> [k \in {} |-> None], Cpu |-> Both(0), Memory |-> Both(0)]

Port(protocol, outer, inner) == [protocol |-> protocol, outer |-> outer, inner |-> inner]

\* A node, in the group that is asked for too or not; two ports, a fractional and a whole
\* number of cores, memory at and around the multiples of 125 MB.
Placed ==
  [Plain EXCEPT !.NodeName = n2, !.GroupId = g1,
                !.Portmap = <<Port("TCP", 3, 1), Port("TCP", 4, 1)>>,
                !.Cpu = [k \in Kinds |-> IF k = "Requests" THEN 500 ELSE 2000],
                !.Memory = [k \in Kinds |-> IF k = "Requests" THEN 512 ELSE 1000]]

\* A group; variables of the user, one in place of a registered one; the same path
\* twice once the name is put in; amounts too small to count.
Grouped ==
  [Plain EXCEPT !.GroupId = g1, !.HostNetwork = 1,
                !.Portmap = <<Port("TCP", 0, 2)>>,
                !.Env = [k \in {"INTERFACE", "MODE"} |-> y],
                !.Volmap = [p \in {<<"/srv", "{$appname}">>, <<"/srv", web>>} |->
                              IF p[2] = web THEN <<"/a">> ELSE <<"/b">>],
                !.Cpu = Both(10), !.Memory = Both(1)]

\* Anywhere; two volumes of its own; an amount that falls short and 1000 cores.
Anywhere ==
  [Plain EXCEPT !.Volmap = [p \in {<<"/srv", "{$appname}">>, <<"/etc", "conf">>} |->
                              IF p[1] = "/srv" THEN <<"/a">> ELSE <<"/b">>],
                !.Env = [k \in {"INSTALLTYPE", "MODE"} |-> y],
                !.Cpu = [k \in Kinds |-> IF k = "Requests" THEN 502 ELSE 1000000]]

\* Requests that end in an error: a malformed item, a port twice, a mount that is taken;
\* and one whose port is in range only after it has been narrowed.
Odd ==
  {[Plain EXCEPT !.Portmap = <<Port("TCP", 3, 1), Malformed>>],
   [Plain EXCEPT !.Portmap = <<Port("TCP", 3, 1), Port("TCP", 3, 2)>>],
   [Plain EXCEPT !.Volmap = [p \in {<<"/srv">>} |-> <<"/opt/app", "log">>]],
   [Plain EXCEPT !.Portmap = <<Port("TCP", 2 * HalfRange + 5, 5)>>]}

MCRequests == {Plain, Placed, Grouped, Anywhere} \cup Odd

\* The request of the finding: one port of another protocol.
UdpRequests == MCRequests \cup {[Plain EXCEPT !.Portmap = <<Port("UDP", 3, 3)>>]}

\* Workloads of other clients, with and without a volume of the host.
Theirs(hostPath) ==
  [ports |-> << >>, hostNetwork |-> FALSE, env |-> <<<<"MODE", x>>>>,
   volumes |-> <<[name |-> <<"v", 0>>, hostPath |-> hostPath, mount |-> <<"/d">>]>>,
   resources |-> Both([cpu |-> None, memory |-> None]), nodeName |-> None, nodeSelector |-> {}]

MCForeign == {Theirs(<<"/d">>), Theirs(None)}
=============================================================================

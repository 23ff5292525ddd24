---------------------------- MODULE PodTemplates -----------------------------
(***************************************************************************)
(* What a request for a workload becomes and how it is shown again:        *)
(* createPodTemplateSpec makes a pod template of the db.DeployInfo         *)
(* (k8s/deployment.go, k8s/utils.go), the API server completes and checks  *)
(* it, pods are made of it, and the two listings turn templates            *)
(* (PodTemplateSpecToApp) and pods (ListPod, k8s/pod.go) back into what    *)
(* the console shows.  The request travels twice, as the specification     *)
(* that Kubernetes acts on and as environment variables for the listing,   *)
(* and its maps are walked in Go's random order.                           *)
(*                                                                         *)
(* Deployments and DaemonSets share the code; the names here stand for     *)
(* either.  The order in which calls arrive is the subject of Workloads.   *)
(***************************************************************************)
EXTENDS Integers, FiniteSets, SequencesExt

CONSTANTS
  Apps,      \* names of workloads
  Requests,  \* the db.DeployInfo values that callers send
  Foreign,   \* templates that other clients of the server store
  Nodes,     \* cluster nodes
  Groups,    \* groups of nodes
  HalfRange, \* half the range of the signed port numbers of a PortInfo: 2^31 in the code
  MaxPort,   \* the highest port number: 65535 in Kubernetes
  Short,     \* amounts in thousandths whose floating-point product falls just short
  Malformed, \* an item of a Portmap that is not a protocol and two numbers
  None       \* an empty string, no template, no pod

ASSUME PortAssumption == MaxPort \in Nat /\ HalfRange \in Nat /\ MaxPort < HalfRange

VARIABLES
  store,  \* store[a]: the template of workload a
  asked,  \* asked[a]: the request it was made of, or None for another client's
  pods,   \* pods[a]: the pod that runs for a, with its template, its node and the groups
          \* that the node was in when it started
  members \* members[g]: the nodes of group g

vars == <<store, asked, pods, members>>

Kinds == {"Requests", "Limits"}

\* A Go map filled from a sequence of <<key, value>> pairs: the last one wins.
AsMap(pairs) ==
  [k \in {p[1] : p \in ToSet(pairs)} |->
     pairs[Max({i \in DOMAIN pairs : pairs[i][1] = k})][2]]

Lookup(map, k) == IF k \in DOMAIN map THEN map[k] ELSE None

----------------------------------------------------------------------------
(* utils.go *)

\* int32() of a number, at the width of the model.
Narrow(n) == ((n + HalfRange) % (2 * HalfRange)) - HalfRange

\* An item of a Portmap is a protocol and the numbers of the outer and inner port.  The
\* first malformed one ends the call with an error.
PortsOK(portmap) == Malformed \notin ToSet(portmap)

ParsePortInfo(portmap) ==
  [i \in DOMAIN portmap |->
     [Protocol |-> portmap[i].protocol,
      OuterPort |-> Narrow(portmap[i].outer), InnerPort |-> Narrow(portmap[i].inner)]]

\* POCCADDR comes from the environment of the process, one value for all.
RegistEnvVaria(r) ==
  << <<"POCCADDR", None>>, <<"SERVICE_ID", <<r.Path, r.Name>>>>,
     <<"INTERFACE", r.Interface>> >>

\* Seeded fault: the third default volume is not of the host.
SetDefatultVolumeEmptyDir(r) ==
  [i \in 1..3 |-> LET d == <<"data", "log", "trace">>[i] IN
     [name |-> <<"vmnamedefatult", i>>, mount |-> <<"/opt/app", d>>,
      hostPath |-> IF i = 3 THEN None ELSE <<"/opt/dzhyun", r.Name, d>>]]

\* Volumes, each with its host path and its mount.
SetDefatultVolume(r) ==
  [i \in 1..3 |-> LET d == <<"data", "log", "trace">>[i] IN
     [name |-> <<"vmnamedefatult", i>>, hostPath |-> <<"/opt/dzhyun", r.Name, d>>,
      mount |-> <<"/opt/app", d>>]]

\* int(Cpu*1000) of an amount of m thousandths.  The product of floating-point numbers
\* may be a little less than m, and what comes after the point is cut off: a float32 of
\* 0.502 gives 501.
Millis(m) == IF m \in Short THEN m - 1 ELSE m

\* An amount is kept if it is more than 0.01 cores, or more than 1 MB, and sent in
\* milli-cores and bytes.
GetResouce(r) ==
  [k \in Kinds |-> [cpu    |-> IF r.Cpu[k] > 10 THEN Millis(r.Cpu[k]) ELSE None,
                    memory |-> IF r.Memory[k] > 1 THEN r.Memory[k] * (1024 * 1024) ELSE None]]

----------------------------------------------------------------------------
(* createPodTemplateSpec, for one order of the maps Env and Volmap *)

\* "{$appname}" in a host path of Volmap is replaced by the name of the workload.
HostPath(key, r) == ReplaceAll(key, "{$appname}", r.Name)

\* Seeded fault: the group is looked at first.
PlacementEnvGroupFirst(r) ==
  CASE r.GroupId # None -> << <<"dzhyunNodeSelect", r.GroupId>> >>
    [] r.GroupId = None /\ r.NodeName # None -> << <<"dzhyunNodeName", r.NodeName>> >>
    [] OTHER -> << >>

\* The placement, for the listing to find it again: the node comes before the group.
PlacementEnv(r) ==
  CASE r.NodeName # None -> << <<"dzhyunNodeName", r.NodeName>> >>
    [] r.NodeName = None /\ r.GroupId # None -> << <<"dzhyunNodeSelect", r.GroupId>> >>
    [] OTHER -> << >>

TemplateEnv(r, envOrder) ==
  RegistEnvVaria(r) \o [i \in DOMAIN envOrder |-> <<envOrder[i], r.Env[envOrder[i]]>>]
                    \o PlacementEnv(r)

\* Seeded fault: the group is selected although a node is named.
NodeSelectorAlways(r) == IF r.GroupId # None THEN {r.GroupId} ELSE {}

NodeSelector(r) == IF r.NodeName = None /\ r.GroupId # None THEN {r.GroupId} ELSE {}

\* Seeded fault: two walks over Volmap, in different orders, for volumes and mounts.
UserVolumesTwice(r, volOrder) ==
  [i \in DOMAIN volOrder |->
     [name |-> <<"vmname", i>>, hostPath |-> HostPath(volOrder[i], r),
      mount |-> r.Volmap[volOrder[Len(volOrder) + 1 - i]]]]

UserVolumes(r, volOrder) ==
  [i \in DOMAIN volOrder |->
     [name |-> <<"vmname", i>>, hostPath |-> HostPath(volOrder[i], r),
      mount |-> r.Volmap[volOrder[i]]]]

\* The protocol is left to the server.
TemplatePort(p) == [hostPort |-> p.OuterPort, containerPort |-> p.InnerPort, protocol |-> None]

createPodTemplateSpec(r, envOrder, volOrder) ==
  LET ports == ParsePortInfo(r.Portmap)
  IN  [ports        |-> [i \in DOMAIN ports |-> TemplatePort(ports[i])],
       hostNetwork  |-> r.HostNetwork = 1,
       env          |-> TemplateEnv(r, envOrder),
       volumes      |-> SetDefatultVolume(r) \o UserVolumes(r, volOrder),
       resources    |-> GetResouce(r),
       nodeName     |-> r.NodeName,
       nodeSelector |-> NodeSelector(r)]

----------------------------------------------------------------------------
(* The API server *)

\* A port without a protocol is a TCP port; on the host's network, a port without a
\* host port has its own number there.
CompletedPort(p, hostNetwork) ==
  [hostPort      |-> IF hostNetwork /\ p.hostPort = 0 THEN p.containerPort ELSE p.hostPort,
   containerPort |-> p.containerPort,
   protocol      |-> IF p.protocol = None THEN "TCP" ELSE p.protocol]

Completed(t) ==
  [t EXCEPT !.ports = [i \in DOMAIN @ |-> CompletedPort(@[i], t.hostNetwork)]]

\* Port numbers are in range, agree on the host's network and are taken once; no two
\* volumes have one name and no two mounts one path.
Valid(t) ==
  /\ \A i \in DOMAIN t.ports :
       LET p == t.ports[i]
       IN  /\ p.containerPort \in 1..MaxPort /\ p.hostPort \in 0..MaxPort
           /\ t.hostNetwork => p.hostPort = p.containerPort
           /\ \A j \in DOMAIN t.ports \ {i} :
                ~ /\ p.hostPort = t.ports[j].hostPort /\ p.hostPort # 0
                  /\ p.protocol = t.ports[j].protocol
  /\ \A i, j \in DOMAIN t.volumes :
       i # j => /\ t.volumes[i].name # t.volumes[j].name
                /\ t.volumes[i].mount # t.volumes[j].mount

\* What may be stored for a request: the maps are walked in any order.
Templates(r) ==
  {Completed(createPodTemplateSpec(r, envOrder, volOrder)) :
     envOrder \in SetToSeqs(DOMAIN r.Env), volOrder \in SetToSeqs(DOMAIN r.Volmap)}

\* A request names its workload and at most one group (one that nobody made has no
\* nodes), and its maps are finite.
ASSUME RequestsAssumption ==
  \A r \in Requests :
    /\ r.Name \in Apps /\ r.GroupId \in Groups \cup {None}
    /\ IsFiniteSet(DOMAIN r.Env) /\ IsFiniteSet(DOMAIN r.Volmap)
    /\ \A k \in Kinds : r.Cpu[k] \in Int /\ r.Memory[k] \in Int

\* The server has completed and checked the templates of other clients.
ASSUME ForeignAssumption ==
  \A t \in Foreign : Valid(t) /\ \A i \in DOMAIN t.ports : t.ports[i].protocol # None

\* None is no request, template, number, protocol or path.
ASSUME NoneAssumption ==
  /\ None \notin Requests \cup Int \cup {"TCP"}
  /\ \A r \in Requests :
       /\ PortsOK(r.Portmap) => None \notin Templates(r)
       /\ \A k \in DOMAIN r.Volmap : HostPath(k, r) # None
       /\ \A d \in {"data", "log", "trace"} : <<"/opt/dzhyun", r.Name, d>> # None

----------------------------------------------------------------------------
(* The listings *)

\* A quantity as its String() writes it, with the largest suffix that leaves a whole
\* number: milli-cores with "m", cores, bytes.  Multiples of 1000 cores or bytes have "k"
\* or a larger suffix, which are one here: the readers below fail at each of them.
CpuText(m) == IF m % 1000 # 0 THEN [digits |-> m, suffix |-> "m"]
              ELSE IF m % (1000 * 1000) # 0 THEN [digits |-> m \div 1000, suffix |-> "none"]
              ELSE [digits |-> m \div (1000 * 1000), suffix |-> "k"]
MemText(b) == IF b % 1000 = 0 THEN [digits |-> b \div 1000, suffix |-> "k"]
               ELSE [digits |-> b, suffix |-> "none"]

\* In thousandths of a core, as the request is in the model.  Atoi fails at any suffix
\* but "m", and the figure stays 0.
convertCputofloat32(q) ==
  IF q.suffix = "m" THEN q.digits ELSE IF q.suffix = "none" THEN q.digits * 1000 ELSE 0

\* Seeded fault: the digits are read whatever comes after them.
convertDigitsToInt(q) == q.digits \div (1024 * 1024)

\* Atoi fails at a suffix and the figure stays 0.
convertMemtoInt(q) == IF q.suffix # "none" THEN 0 ELSE q.digits \div (1024 * 1024)

\* The host paths of the volumes that have one, each with its mount.
VolMap(t) ==
  AsMap([i \in DOMAIN t.volumes |-> <<t.volumes[i].hostPath, t.volumes[i].mount>>])

PortMap(t) ==
  [i \in DOMAIN t.ports |-> <<t.ports[i].protocol, t.ports[i].hostPort, t.ports[i].containerPort>>]

\* A volume without a host path, which PodTemplateSpecToApp follows a nil pointer for.
Panics(t) == \E i \in DOMAIN t.volumes : t.volumes[i].hostPath = None

Hidden == {"INSTALLTYPE", "dzhyunNodeName", "dzhyunNodeSelect"}

PodTemplateSpecToApp(t) ==
  LET env == AsMap(t.env)
  IN  [env         |-> [k \in DOMAIN env \ Hidden |-> env[k]],
       serviceId   |-> Lookup(env, "SERVICE_ID"),
       interface   |-> Lookup(env, "INTERFACE"),
       type        |-> Lookup(env, "INSTALLTYPE"),
       nodeName    |-> Lookup(env, "dzhyunNodeName"),
       groupId     |-> Lookup(env, "dzhyunNodeSelect"),
       portMap     |-> PortMap(t),
       vol         |-> VolMap(t),
       cpu         |-> [k \in Kinds |-> IF t.resources[k].cpu = None THEN 0
                          ELSE convertCputofloat32(CpuText(t.resources[k].cpu))],
       memory      |-> [k \in Kinds |-> IF t.resources[k].memory = None THEN 0
                          ELSE convertMemtoInt(MemText(t.resources[k].memory))],
       hostNetwork |-> t.hostNetwork]

\* Seeded fault: the first of two variables of one name is shown.
PodEnvFirst(t) ==
  [k \in {t.env[i][1] : i \in DOMAIN t.env} |->
     t.env[Min({i \in DOMAIN t.env : t.env[i][1] = k})][2]]

PodEnv(t) == AsMap(t.env)

\* What ListPod shows of a pod, with every variable and without volumes that are not of
\* the host.
ListPod(pod) ==
  LET t == pod.template
  IN  [env         |-> PodEnv(t),
       serviceId   |-> Lookup(PodEnv(t), "SERVICE_ID"),
       interface   |-> Lookup(PodEnv(t), "INTERFACE"),
       type        |-> Lookup(PodEnv(t), "INSTALLTYPE"),
       portMap     |-> PortMap(t),
       vol         |-> [h \in DOMAIN VolMap(t) \ {None} |-> VolMap(t)[h]],
       nodeName    |-> pod.node,
       hostNetwork |-> t.hostNetwork]

\* List and ListDaemonSet show each workload of the namespace, or panic at one of them.
List ==
  LET shown == {a \in Apps : store[a] # None}
  IN  [panics |-> \E a \in shown : Panics(store[a]),
       apps   |-> [a \in shown |-> PodTemplateSpecToApp(store[a])]]

----------------------------------------------------------------------------
(* Actions *)

\* A request creates or updates its workload, if its ports are well formed and the
\* server takes the template.
Submit(r) ==
  /\ PortsOK(r.Portmap)
  /\ \E t \in Templates(r) : Valid(t) /\ store' = [store EXCEPT ![r.Name] = t]
  /\ asked' = [asked EXCEPT ![r.Name] = r]
  /\ UNCHANGED <<pods, members>>

\* Another client of the server stores a workload.
SubmitForeign(a) ==
  /\ \E t \in Foreign : store' = [store EXCEPT ![a] = t]
  /\ asked' = [asked EXCEPT ![a] = None]
  /\ UNCHANGED <<pods, members>>

Delete(a) ==
  /\ store[a] # None
  /\ store' = [store EXCEPT ![a] = None]
  /\ asked' = [asked EXCEPT ![a] = None]
  /\ UNCHANGED <<pods, members>>

\* The controllers stop the pod of an older template.
StopPod(a) ==
  /\ pods[a] # None
  /\ pods[a].template # store[a]
  /\ pods' = [pods EXCEPT ![a] = None]
  /\ UNCHANGED <<store, asked, members>>

\* A new pod runs on the node its template names, or else on one with the labels that
\* it selects.
StartPod(a) ==
  /\ pods[a] = None /\ store[a] # None
  /\ \E n \in Nodes :
       /\ IF store[a].nodeName # None THEN n = store[a].nodeName
          ELSE \A g \in store[a].nodeSelector : n \in members[g]
       /\ pods' = [pods EXCEPT ![a] =
            [template |-> store[a], node |-> n, groups |-> {g \in Groups : n \in members[g]}]]
  /\ UNCHANGED <<store, asked, members>>

\* A node joins a group or leaves it, which is the subject of NodeGroups.  The pods stay
\* where they are.
Regroup(g, n) ==
  /\ members' = [members EXCEPT ![g] = IF n \in @ THEN @ \ {n} ELSE @ \cup {n}]
  /\ UNCHANGED <<store, asked, pods>>

Init ==
  /\ store = [a \in Apps |-> None]
  /\ asked = [a \in Apps |-> None]
  /\ pods = [a \in Apps |-> None]
  /\ members = [g \in Groups |-> {}]

Next ==
  \/ \E r \in Requests : Submit(r)
  \/ \E a \in Apps : SubmitForeign(a) \/ Delete(a) \/ StopPod(a) \/ StartPod(a)
  \/ \E g \in Groups, n \in Nodes : Regroup(g, n)

Spec == Init /\ [][Next]_vars

----------------------------------------------------------------------------
(* Properties *)

Own(a) == asked[a] # None
Shown(a) == PodTemplateSpecToApp(store[a])

\* The pod of a was made of its present template.
Settled(a) == pods[a] # None /\ pods[a].template = store[a]

\* What is stored has been completed and checked by the server; a template of this code
\* names a node or selects a group, never both.
TypeOK ==
  /\ \A a \in Apps :
       /\ store[a] # None => /\ Valid(store[a])
                             /\ \A i \in DOMAIN store[a].ports : store[a].ports[i].protocol # None
       /\ Own(a) => /\ asked[a] \in Requests /\ asked[a].Name = a
                    /\ store[a] # None
                    /\ store[a].nodeName # None => store[a].nodeSelector = {}
       /\ pods[a] # None => /\ Valid(pods[a].template)
                            /\ pods[a].node \in Nodes /\ pods[a].groups \subseteq Groups
  /\ members \in [Groups -> SUBSET Nodes]

\* The node or the group that the application list shows, which it reads from the
\* environment, is where the pods went, which follows from the specification: as asked,
\* the node before the group.  The group is the one of the time the pod started; its node
\* may have left since, and the pod stays.  Variables of the user with the reserved names would be
\* taken for a placement, so requests with such are left aside.
PlacementShown ==
  \A a \in Apps :
    Own(a) /\ Settled(a) /\ Hidden \cap DOMAIN asked[a].Env = {} =>
      LET node == ListPod(pods[a]).nodeName
      IN  /\ Shown(a).nodeName = asked[a].NodeName
          /\ Shown(a).nodeName # None => node = Shown(a).nodeName
          /\ Shown(a).groupId # None => Shown(a).groupId \in pods[a].groups
          /\ asked[a].GroupId # None => None # IF asked[a].NodeName = None
                                               THEN Shown(a).groupId ELSE Shown(a).nodeName

\* Whatever order Volmap is walked in, each host path asked for is shown with its own
\* mount, provided that no two paths became one when the name of the workload was put
\* into them: of such a pair the list shows either.
VolumesShown ==
  \A a \in Apps :
    Own(a) =>
      LET r == asked[a]
          paths == {HostPath(k, r) : k \in DOMAIN r.Volmap}
          defaults == {v.hostPath : v \in ToSet(SetDefatultVolume(r))}
      IN  Cardinality(paths) = Cardinality(DOMAIN r.Volmap) /\ paths \cap defaults = {} =>
            \A k \in DOMAIN r.Volmap : Shown(a).vol[HostPath(k, r)] = r.Volmap[k]

\* The list shows the numbers that were asked for, through the conversions of both
\* directions and the server between them.  Cores: as asked, or a thousandth less where
\* the product that is cut off falls short; from 1000 cores on, 0 where a suffix gets in
\* the way.  Memory: as asked, or 0 when its number of bytes is written with a suffix.
\* Neither is ever shown as another amount.  Ports that exist: in their order and the
\* outer one first.
NumbersShown ==
  \A a \in Apps :
    Own(a) =>
      /\ \A k \in Kinds :
           LET cpu == asked[a].Cpu[k]
               memory == asked[a].Memory[k]
           IN  /\ Shown(a).cpu[k] \in {0, cpu - 1, cpu}
               /\ cpu <= 10 => Shown(a).cpu[k] = 0
               /\ cpu > 10 /\ cpu < 1000 * 1000 =>
                    Shown(a).cpu[k] = IF cpu \in Short THEN cpu - 1 ELSE cpu
               /\ Shown(a).memory[k] \in {0, memory}
               /\ memory > 1 /\ memory % 125 # 0 => Shown(a).memory[k] = memory
      /\ \A i \in DOMAIN asked[a].Portmap :
           LET port == asked[a].Portmap[i]
               shown == Shown(a).portMap[i]
           IN  port.outer \in 1..MaxPort /\ port.inner \in 1..MaxPort =>
                 shown[2] = port.outer /\ shown[3] = port.inner

\* The list of pods and the list of applications, which are separate code, show the
\* same of a workload whose pod is up to date.
ListingsAgree ==
  \A a \in Apps :
    Own(a) /\ Settled(a) =>
      LET app == Shown(a)
          pod == ListPod(pods[a])
      IN  /\ app.serviceId = pod.serviceId
          /\ app.interface = pod.interface /\ app.type = pod.type
          /\ app.portMap = pod.portMap
          /\ app.vol = pod.vol
          /\ app.hostNetwork = pod.hostNetwork
          /\ app.env = [k \in DOMAIN pod.env \ Hidden |-> pod.env[k]]

\* The list of applications fails at once for all of them if one has a volume that is
\* not of the host; this code makes no such workload, only another client can.
OwnListable ==
  List.panics => \E a \in Apps : store[a] # None /\ ~Own(a)

\* A port is served with the protocol it was asked with ("format:
\* tcp:10800:10600,tcp:1:2", utils.go:21).
ProtocolKept ==
  \A a \in Apps :
    Own(a) =>
      \A i \in DOMAIN asked[a].Portmap :
        Shown(a).portMap[i][1] = asked[a].Portmap[i].protocol
=============================================================================

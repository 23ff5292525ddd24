-------------------------- MODULE PodTemplatesProofs ---------------------------
(* Theorems about PodTemplates, for any workloads, nodes, groups and requests, any    *)
(* templates of other clients and any range of port numbers.                          *)
EXTENDS PodTemplates, FiniteSetTheorems, TLAPS

\* What is stored of a request was made of it.
Faithful ==
  \A a \in Apps : Own(a) => PortsOK(asked[a].Portmap) /\ store[a] \in Templates(asked[a])

\* A pod runs where its template said when it was started.
PodsPlaced ==
  \A a \in Apps : pods[a] # None =>
    LET t == pods[a].template
    IN  IF t.nodeName # None THEN pods[a].node = t.nodeName
        ELSE t.nodeSelector \cap Groups \subseteq pods[a].groups

Domains == DOMAIN store = Apps /\ DOMAIN asked = Apps /\ DOMAIN pods = Apps

TemplatesInv == TypeOK /\ Domains /\ Faithful /\ PodsPlaced

----------------------------------------------------------------------------
(* Templates *)

\* A template in parts, as the server completes them.
LEMMA TemplateParts ==
  ASSUME NEW r \in Requests, NEW t \in Templates(r)
  PROVE  /\ t.nodeName = r.NodeName
         /\ t.nodeSelector = NodeSelector(r)
         /\ t.resources = GetResouce(r)
         /\ \E e \in SetToSeqs(DOMAIN r.Env) : t.env = TemplateEnv(r, e)
         /\ \E v \in SetToSeqs(DOMAIN r.Volmap) :
              t.volumes = SetDefatultVolume(r) \o UserVolumes(r, v)
<1>1. PICK e \in SetToSeqs(DOMAIN r.Env), v \in SetToSeqs(DOMAIN r.Volmap) :
        t = Completed(createPodTemplateSpec(r, e, v))
  BY DEF Templates
<1> DEFINE c == createPodTemplateSpec(r, e, v)
<1>2. /\ c.nodeName = r.NodeName /\ c.nodeSelector = NodeSelector(r)
      /\ c.resources = GetResouce(r) /\ c.env = TemplateEnv(r, e)
      /\ c.volumes = SetDefatultVolume(r) \o UserVolumes(r, v)
      /\ DOMAIN c = {"ports", "hostNetwork", "env", "volumes", "resources", "nodeName",
                    "nodeSelector"}
  BY DEF createPodTemplateSpec
<1> HIDE DEF c
<1>3. PICK ports : t = [c EXCEPT !.ports = ports]
  BY <1>1 DEF Completed, c
<1> QED
  BY <1>1, <1>2, <1>3

\* Its ports, each with a protocol.
LEMMA TemplatePorts ==
  ASSUME NEW r \in Requests, NEW t \in Templates(r)
  PROVE  /\ DOMAIN t.ports = DOMAIN r.Portmap
         /\ \A i \in DOMAIN r.Portmap :
              /\ t.ports[i].protocol = "TCP"
              /\ t.ports[i].containerPort = Narrow(r.Portmap[i].inner)
              /\ Narrow(r.Portmap[i].outer) # 0 =>
                   t.ports[i].hostPort = Narrow(r.Portmap[i].outer)
<1>1. PICK e, v : t = Completed(createPodTemplateSpec(r, e, v))
  BY DEF Templates
<1> DEFINE c == createPodTemplateSpec(r, e, v)
<1>2. /\ DOMAIN c.ports = DOMAIN r.Portmap
      /\ "ports" \in DOMAIN c
      /\ \A i \in DOMAIN r.Portmap :
           /\ c.ports[i].hostPort = Narrow(r.Portmap[i].outer)
           /\ c.ports[i].containerPort = Narrow(r.Portmap[i].inner)
           /\ c.ports[i].protocol = None
  BY DEF createPodTemplateSpec, ParsePortInfo, TemplatePort
<1> HIDE DEF c
<1>3. t.ports = [i \in DOMAIN c.ports |-> CompletedPort(c.ports[i], c.hostNetwork)]
  BY <1>1, <1>2 DEF Completed, c
<1>4. DOMAIN t.ports = DOMAIN r.Portmap
  BY <1>2, <1>3
<1>5. ASSUME NEW i \in DOMAIN r.Portmap
      PROVE  /\ t.ports[i].protocol = "TCP"
             /\ t.ports[i].containerPort = Narrow(r.Portmap[i].inner)
             /\ Narrow(r.Portmap[i].outer) # 0 =>
                  t.ports[i].hostPort = Narrow(r.Portmap[i].outer)
  <2>1. t.ports[i] = CompletedPort(c.ports[i], c.hostNetwork)
    BY <1>2, <1>3
  <2>2. /\ c.ports[i].hostPort = Narrow(r.Portmap[i].outer)
        /\ c.ports[i].containerPort = Narrow(r.Portmap[i].inner)
        /\ c.ports[i].protocol = None
    BY <1>2
  <2> QED
    BY <2>1, <2>2 DEF CompletedPort
<1> QED
  BY <1>4, <1>5

\* The type of what a request stores.
LEMMA TemplateType ==
  ASSUME NEW r \in Requests, PortsOK(r.Portmap), NEW t \in Templates(r)
  PROVE  /\ t # None
         /\ \A i \in DOMAIN t.ports : t.ports[i].protocol # None
         /\ t.nodeName # None => t.nodeSelector = {}
<1>1. t # None
  BY NoneAssumption
<1>2. \A i \in DOMAIN t.ports : t.ports[i].protocol # None
  BY TemplatePorts, NoneAssumption
<1>3. t.nodeName # None => t.nodeSelector = {}
  BY TemplateParts DEF NodeSelector
<1> QED
  BY <1>1, <1>2, <1>3

----------------------------------------------------------------------------
(* Invariance *)

LEMMA InitCorrect == Init => TemplatesInv
BY DEF Init, TemplatesInv, TypeOK, Domains, Faithful, PodsPlaced, Own

LEMMA SubmitCorrect ==
  ASSUME TemplatesInv, NEW r \in Requests, Submit(r)
  PROVE  TemplatesInv'
<1> USE DEF TemplatesInv
<1>1. PICK t \in Templates(r) :
        Valid(t) /\ store' = [store EXCEPT ![r.Name] = t]
  BY DEF Submit
<1>2. /\ PortsOK(r.Portmap) /\ asked' = [asked EXCEPT ![r.Name] = r]
      /\ pods' = pods /\ members' = members
  BY DEF Submit
<1>3. r.Name \in Apps /\ r # None
  BY RequestsAssumption, NoneAssumption
<1>4. Domains'
  BY <1>1, <1>2 DEF Domains
<1>5. store'[r.Name] = t /\ asked'[r.Name] = r
  BY <1>1, <1>2, <1>3 DEF Domains
<1>6. ASSUME NEW a \in Apps, a # r.Name
      PROVE  store'[a] = store[a] /\ asked'[a] = asked[a]
  BY <1>1, <1>2, <1>6 DEF Domains
<1>7. TypeOK'
  BY <1>1, <1>2, <1>3, <1>5, <1>6, TemplateType DEF TypeOK, Own
<1>8. Faithful'
  BY <1>1, <1>2, <1>5, <1>6 DEF Faithful, Own
<1>9. PodsPlaced'
  BY <1>2 DEF PodsPlaced
<1> QED
  BY <1>4, <1>7, <1>8, <1>9

LEMMA SubmitForeignCorrect ==
  ASSUME TemplatesInv, NEW b \in Apps, SubmitForeign(b)
  PROVE  TemplatesInv'
<1> USE DEF TemplatesInv
<1>1. PICK t \in Foreign : store' = [store EXCEPT ![b] = t]
  BY DEF SubmitForeign
<1>2. asked' = [asked EXCEPT ![b] = None] /\ pods' = pods /\ members' = members
  BY DEF SubmitForeign
<1>3. Domains'
  BY <1>1, <1>2 DEF Domains
<1>4. store'[b] = t /\ asked'[b] = None
  BY <1>1, <1>2 DEF Domains
<1>5. ASSUME NEW a \in Apps, a # b
      PROVE  store'[a] = store[a] /\ asked'[a] = asked[a]
  BY <1>1, <1>2, <1>5 DEF Domains
<1>6. TypeOK'
  BY <1>2, <1>4, <1>5, ForeignAssumption DEF TypeOK, Own
<1>7. Faithful'
  BY <1>4, <1>5 DEF Faithful, Own
<1>8. PodsPlaced'
  BY <1>2 DEF PodsPlaced
<1> QED
  BY <1>3, <1>6, <1>7, <1>8

LEMMA DeleteCorrect ==
  ASSUME TemplatesInv, NEW b \in Apps, Delete(b)
  PROVE  TemplatesInv'
<1> USE DEF TemplatesInv
<1>1. /\ store' = [store EXCEPT ![b] = None] /\ asked' = [asked EXCEPT ![b] = None]
      /\ pods' = pods /\ members' = members
  BY DEF Delete
<1>2. Domains'
  BY <1>1 DEF Domains
<1>3. store'[b] = None /\ asked'[b] = None
  BY <1>1 DEF Domains
<1>4. ASSUME NEW a \in Apps, a # b
      PROVE  store'[a] = store[a] /\ asked'[a] = asked[a]
  BY <1>1, <1>4 DEF Domains
<1>5. TypeOK'
  BY <1>1, <1>3, <1>4 DEF TypeOK, Own
<1>6. Faithful'
  BY <1>3, <1>4 DEF Faithful, Own
<1>7. PodsPlaced'
  BY <1>1 DEF PodsPlaced
<1> QED
  BY <1>2, <1>5, <1>6, <1>7

LEMMA StopPodCorrect ==
  ASSUME TemplatesInv, NEW b \in Apps, StopPod(b)
  PROVE  TemplatesInv'
<1> USE DEF TemplatesInv
<1>1. /\ pods' = [pods EXCEPT ![b] = None]
      /\ store' = store /\ asked' = asked /\ members' = members
  BY DEF StopPod
<1>2. ASSUME NEW a \in Apps
      PROVE  pods'[a] # None => pods'[a] = pods[a]
  BY <1>1 DEF Domains
<1>3. Domains' /\ Faithful'
  BY <1>1 DEF Domains, Faithful, Own
<1>4. TypeOK'
  BY <1>1, <1>2 DEF TypeOK, Own
<1>5. PodsPlaced'
  BY <1>2 DEF PodsPlaced
<1> QED
  BY <1>3, <1>4, <1>5

LEMMA StartPodCorrect ==
  ASSUME TemplatesInv, NEW b \in Apps, StartPod(b)
  PROVE  TemplatesInv'
<1> USE DEF TemplatesInv
<1> DEFINE pod(n) == [template |-> store[b], node |-> n,
                      groups |-> {g \in Groups : n \in members[g]}]
<1>1. PICK n \in Nodes :
        /\ IF store[b].nodeName # None THEN n = store[b].nodeName
           ELSE \A g \in store[b].nodeSelector : n \in members[g]
        /\ pods' = [pods EXCEPT ![b] = pod(n)]
  BY DEF StartPod
<1>2. store[b] # None /\ store' = store /\ asked' = asked /\ members' = members
  BY DEF StartPod
<1>3. pods'[b] = pod(n) /\ \A a \in Apps \ {b} : pods'[a] = pods[a]
  BY <1>1 DEF Domains
<1>4. Domains' /\ Faithful'
  BY <1>1, <1>2 DEF Domains, Faithful, Own
<1>5. TypeOK'
  <2>1. Valid(store[b])
    BY <1>2 DEF TypeOK
  <2>2. ASSUME NEW a \in Apps, pods'[a] # None
        PROVE  /\ Valid(pods'[a].template)
               /\ pods'[a].node \in Nodes /\ pods'[a].groups \subseteq Groups
    <3>1. CASE a = b
      BY <1>3, <2>1, <3>1
    <3>2. CASE a # b
      BY <1>3, <2>2, <3>2 DEF TypeOK
    <3> QED
      BY <3>1, <3>2
  <2> QED
    BY <1>2, <2>2 DEF TypeOK, Own
<1>6. PodsPlaced'
  <2> SUFFICES ASSUME NEW a \in Apps, pods'[a] # None
               PROVE  LET t == pods'[a].template
                      IN  IF t.nodeName # None THEN pods'[a].node = t.nodeName
                          ELSE t.nodeSelector \cap Groups \subseteq pods'[a].groups
    BY DEF PodsPlaced
  <2>1. CASE a = b
    BY <1>1, <1>3, <2>1
  <2>2. CASE a # b
    BY <1>3, <2>2 DEF PodsPlaced
  <2> QED
    BY <2>1, <2>2
<1> QED
  BY <1>4, <1>5, <1>6

LEMMA RegroupCorrect ==
  ASSUME TemplatesInv, NEW g \in Groups, NEW n \in Nodes, Regroup(g, n)
  PROVE  TemplatesInv'
<1>1. members' \in [Groups -> SUBSET Nodes]
  BY DEF Regroup, TemplatesInv, TypeOK
<1>2. store' = store /\ asked' = asked /\ pods' = pods
  BY DEF Regroup
<1> QED
  BY <1>1, <1>2 DEF TemplatesInv, TypeOK, Domains, Faithful, PodsPlaced, Own

LEMMA StepCorrect == TemplatesInv /\ [Next]_vars => TemplatesInv'
<1> SUFFICES ASSUME TemplatesInv, [Next]_vars
             PROVE  TemplatesInv'
  OBVIOUS
<1>1. CASE \E r \in Requests : Submit(r)
  BY <1>1, SubmitCorrect
<1>2. CASE \E a \in Apps : SubmitForeign(a) \/ Delete(a) \/ StopPod(a) \/ StartPod(a)
  BY <1>2, SubmitForeignCorrect, DeleteCorrect, StopPodCorrect, StartPodCorrect
<1>3. CASE \E g \in Groups, n \in Nodes : Regroup(g, n)
  BY <1>3, RegroupCorrect
<1>4. CASE UNCHANGED vars
  BY <1>4 DEF vars, TemplatesInv, TypeOK, Domains, Faithful, PodsPlaced, Own
<1> QED
  BY <1>1, <1>2, <1>3, <1>4 DEF Next

\* Every template that is stored is one of the request that is remembered with it, and
\* every pod is where its template wanted it (deployment.go:174-264).
THEOREM Invariance == Spec => []TemplatesInv
BY InitCorrect, StepCorrect, PTL DEF Spec

\* What is stored has been completed and checked by the server, and a template of this
\* code names a node or selects a group, never both (deployment.go:254-260).
THEOREM TypeCorrect == Spec => []TypeOK
<1>1. TemplatesInv => TypeOK
  BY DEF TemplatesInv
<1> QED
  BY <1>1, Invariance, PTL

----------------------------------------------------------------------------
(* Sequences of pairs *)

\* The concatenation of two functions on initial segments of the naturals.
LEMMA ConcatAt ==
  ASSUME NEW s, NEW t, NEW m \in Nat, NEW n \in Nat,
         s = [i \in 1..m |-> s[i]], t = [i \in 1..n |-> t[i]]
  PROVE  s \o t = [i \in 1..(m + n) |-> IF i <= m THEN s[i] ELSE t[i - m]]
<1> DEFINE S == {s[i] : i \in 1..m} \cup {t[i] : i \in 1..n}
<1>1. s \in Seq(S) /\ t \in Seq(S) /\ Len(s) = m /\ Len(t) = n
  <2>1. s \in [1..m -> S] /\ t \in [1..n -> S]
    OBVIOUS
  <2> QED
    BY <2>1
<1> QED
  BY <1>1

\* A key that one pair has is mapped to the value of that pair.
LEMMA AsMapAt ==
  ASSUME NEW pairs, DOMAIN pairs \subseteq Int, NEW i \in DOMAIN pairs,
         \A j \in DOMAIN pairs : pairs[j][1] = pairs[i][1] => j = i
  PROVE  AsMap(pairs)[pairs[i][1]] = pairs[i][2]
<1> DEFINE k == pairs[i][1]
<1>1. k \in {p[1] : p \in ToSet(pairs)}
  BY DEF ToSet
<1>2. {j \in DOMAIN pairs : pairs[j][1] = k} = {i}
  OBVIOUS
<1>3. Max({i}) = i
  BY DEF Max
<1> QED
  BY <1>1, <1>2, <1>3 DEF AsMap

\* The keys of the map are those of the pairs.
LEMMA AsMapDomain ==
  ASSUME NEW pairs
  PROVE  DOMAIN AsMap(pairs) = {pairs[i][1] : i \in DOMAIN pairs}
BY DEF AsMap, ToSet

LEMMA AsMapFunction ==
  ASSUME NEW pairs
  PROVE  AsMap(pairs) = [k \in DOMAIN AsMap(pairs) |-> AsMap(pairs)[k]]
BY DEF AsMap

\* The walks over the keys of a finite map, each of which meets every key once.
LEMMA Walks ==
  ASSUME NEW S, IsFiniteSet(S), NEW w \in SetToSeqs(S)
  PROVE  \E n \in Nat :
           /\ w \in [1..n -> S]
           /\ \A i, j \in 1..n : i # j => w[i] # w[j]
           /\ \A x \in S : \E i \in 1..n : w[i] = x
<1> DEFINE n == Cardinality(S)
<1>1. n \in Nat
  BY FS_CardinalityType
<1>2. w \in [1..n -> S] /\ \A i, j \in 1..n : i # j => w[i] # w[j]
  BY DEF SetToSeqs
<1>3. w \in Injection(1..n, S)
  BY <1>2 DEF Injection, IsInjective
<1>4. IsFiniteSet(1..n) /\ Cardinality(1..n) = n
  BY <1>1, FS_Interval
<1>5. w \in Surjection(1..n, S)
  BY <1>3, <1>4, FS_Injection
<1>6. \A x \in S : \E i \in 1..n : w[i] = x
  BY <1>5 DEF Surjection
<1> QED
  BY <1>1, <1>2, <1>6

----------------------------------------------------------------------------
(* The placement *)

\* The environment of a template: registered variables and those of the user, and then
\* the placement.
LEMMA EnvEntries ==
  ASSUME NEW r \in Requests, NEW t \in Templates(r)
  PROVE  \E n \in Nat :
           /\ DOMAIN t.env = 1..(n + Len(PlacementEnv(r)))
           /\ \A i \in 1..n :
                t.env[i][1] \in {"POCCADDR", "SERVICE_ID", "INTERFACE"} \cup DOMAIN r.Env
           /\ \A i \in 1..Len(PlacementEnv(r)) : t.env[n + i] = PlacementEnv(r)[i]
<1>1. PICK e \in SetToSeqs(DOMAIN r.Env) : t.env = TemplateEnv(r, e)
  BY TemplateParts
<1>2. PICK n \in Nat : e \in [1..n -> DOMAIN r.Env]
  BY Walks, RequestsAssumption
<1> DEFINE regist == RegistEnvVaria(r)
           user == [i \in DOMAIN e |-> <<e[i], r.Env[e[i]]>>]
           both == regist \o user
           p == PlacementEnv(r)
<1>3. regist = [i \in 1..3 |-> regist[i]]
  BY DEF RegistEnvVaria
<1>4. user = [i \in 1..n |-> user[i]]
  BY <1>2
<1>5. both = [i \in 1..(3 + n) |-> IF i <= 3 THEN regist[i] ELSE user[i - 3]]
  <2> HIDE DEF regist, user
  <2> QED
    BY <1>3, <1>4, ConcatAt
<1>6. Len(p) \in Nat /\ p = [i \in 1..Len(p) |-> p[i]]
  BY DEF PlacementEnv
<1>7. both = [i \in 1..(3 + n) |-> both[i]]
  BY <1>5
<1>8. t.env = [i \in 1..(3 + n + Len(p)) |-> IF i <= 3 + n THEN both[i] ELSE p[i - (3 + n)]]
  <2>1. t.env = both \o p
    BY <1>1 DEF TemplateEnv
  <2> HIDE DEF both, p
  <2> QED
    BY <2>1, <1>6, <1>7, ConcatAt
<1>9. ASSUME NEW i \in 1..(3 + n)
      PROVE  t.env[i][1] \in {"POCCADDR", "SERVICE_ID", "INTERFACE"} \cup DOMAIN r.Env
  <2>1. t.env[i] = IF i <= 3 THEN regist[i] ELSE user[i - 3]
    <3> HIDE DEF regist, user, p
    <3> QED
      BY <1>5, <1>6, <1>8
  <2>2. CASE i <= 3
    <3>1. i \in {1, 2, 3}
      BY <2>2
    <3> QED
      BY <2>1, <3>1 DEF RegistEnvVaria
  <2>3. CASE i > 3
    <3>1. i - 3 \in 1..n
      BY <2>3
    <3> QED
      BY <2>1, <2>3, <3>1, <1>2
  <2> QED
    BY <2>2, <2>3
<1>10. ASSUME NEW i \in 1..Len(p)
       PROVE  t.env[3 + n + i] = p[i]
  <2> HIDE DEF both, p
  <2>1. 3 + n + i \in 1..(3 + n + Len(p)) /\ ~(3 + n + i <= 3 + n) /\ (3 + n + i) - (3 + n) = i
    BY <1>6
  <2> QED
    BY <1>8, <2>1
<1>11. DOMAIN t.env = 1..(3 + n + Len(p))
  <2> HIDE DEF both, p
  <2> QED
    BY <1>8
<1> HIDE DEF p
<1>12. 3 + n \in Nat
  OBVIOUS
<1> QED
  BY <1>9, <1>10, <1>11, <1>12 DEF p

\* The listing reads from the environment of a template the node that was asked for or,
\* without one, the group.
LEMMA PlacementRead ==
  ASSUME NEW r \in Requests, NEW t \in Templates(r), Hidden \cap DOMAIN r.Env = {}
  PROVE  /\ PodTemplateSpecToApp(t).nodeName = r.NodeName
         /\ PodTemplateSpecToApp(t).groupId = IF r.NodeName = None THEN r.GroupId ELSE None
<1> DEFINE env == t.env
           p == PlacementEnv(r)
           placement == {"dzhyunNodeName", "dzhyunNodeSelect"}
<1>1. PICK n \in Nat :
        /\ DOMAIN env = 1..(n + Len(p))
        /\ \A i \in 1..n : env[i][1] \in {"POCCADDR", "SERVICE_ID", "INTERFACE"} \cup DOMAIN r.Env
        /\ \A i \in 1..Len(p) : env[n + i] = p[i]
  BY EnvEntries
<1>2. \A i \in 1..n : env[i][1] \notin placement
  BY <1>1 DEF Hidden
<1>3. /\ PodTemplateSpecToApp(t).nodeName = Lookup(AsMap(env), "dzhyunNodeName")
      /\ PodTemplateSpecToApp(t).groupId = Lookup(AsMap(env), "dzhyunNodeSelect")
  BY DEF PodTemplateSpecToApp
<1> HIDE DEF env
<1>4. ASSUME NEW k \in placement, NEW v, p = << <<k, v>> >>
      PROVE  \A l \in placement : Lookup(AsMap(env), l) = IF l = k THEN v ELSE None
  <2>1. Len(p) = 1 /\ p[1][1] = k /\ p[1][2] = v
    BY <1>4
  <2> HIDE DEF p
  <2>2. DOMAIN env = 1..(n + 1) /\ env[n + 1][1] = k /\ env[n + 1][2] = v
    BY <1>1, <2>1
  <2>3. \A i \in DOMAIN env : i = n + 1 \/ i \in 1..n
    BY <2>2
  <2>4. AsMap(env)[k] = v
    BY <1>2, <2>2, <2>3, AsMapAt
  <2>5. DOMAIN AsMap(env) = {env[i][1] : i \in DOMAIN env}
    BY AsMapDomain
  <2>6. \A l \in placement : l \in DOMAIN AsMap(env) <=> l = k
    BY <1>2, <2>2, <2>3, <2>5
  <2> QED
    BY <2>4, <2>6 DEF Lookup
<1>5. ASSUME p = << >>
      PROVE  \A l \in placement : Lookup(AsMap(env), l) = None
  <2>1. Len(p) = 0
    BY <1>5
  <2> HIDE DEF p
  <2>2. DOMAIN env = 1..n
    BY <1>1, <2>1
  <2>3. DOMAIN AsMap(env) = {env[i][1] : i \in DOMAIN env}
    BY AsMapDomain
  <2> QED
    BY <1>2, <2>2, <2>3 DEF Lookup
<1>6. CASE r.NodeName # None
  <2>1. p = << <<"dzhyunNodeName", r.NodeName>> >>
    BY <1>6 DEF PlacementEnv
  <2> HIDE DEF p
  <2> QED
    BY <1>3, <1>4, <1>6, <2>1
<1>7. CASE r.NodeName = None /\ r.GroupId # None
  <2>1. p = << <<"dzhyunNodeSelect", r.GroupId>> >>
    BY <1>7 DEF PlacementEnv
  <2> HIDE DEF p
  <2> QED
    BY <1>3, <1>4, <1>7, <2>1
<1>8. CASE r.NodeName = None /\ r.GroupId = None
  <2>1. p = << >>
    BY <1>8 DEF PlacementEnv
  <2> HIDE DEF p
  <2> QED
    BY <1>3, <1>5, <1>8, <2>1
<1> QED
  BY <1>6, <1>7, <1>8

\* The application list shows the placement that was asked for, and the pods are there:
\* what it reads from the environment (deployment.go:281-291) and what the scheduler reads
\* from the specification (:254-260) never differ, for any requests, nodes and groups.
THEOREM PlacementCorrect == Spec => []PlacementShown
<1>1. TemplatesInv => PlacementShown
  <2> SUFFICES ASSUME TemplatesInv, NEW a \in Apps,
                      Own(a), Settled(a), Hidden \cap DOMAIN asked[a].Env = {}
               PROVE  LET node == ListPod(pods[a]).nodeName
                      IN  /\ Shown(a).nodeName = asked[a].NodeName
                          /\ Shown(a).nodeName # None => node = Shown(a).nodeName
                          /\ Shown(a).groupId # None => Shown(a).groupId \in pods[a].groups
                          /\ asked[a].GroupId # None =>
                               None # IF asked[a].NodeName = None
                                      THEN Shown(a).groupId ELSE Shown(a).nodeName
    BY DEF PlacementShown
  <2> DEFINE r == asked[a]
  <2>1. r \in Requests /\ store[a] \in Templates(r)
    BY DEF TemplatesInv, TypeOK, Faithful
  <2>2. /\ Shown(a).nodeName = r.NodeName
        /\ Shown(a).groupId = IF r.NodeName = None THEN r.GroupId ELSE None
    BY <2>1, PlacementRead DEF Shown
  <2>3. store[a].nodeName = r.NodeName /\ store[a].nodeSelector = NodeSelector(r)
    BY <2>1, TemplateParts
  <2>4. ListPod(pods[a]).nodeName = pods[a].node
    BY DEF ListPod
  <2>5. IF r.NodeName # None THEN pods[a].node = r.NodeName
        ELSE NodeSelector(r) \cap Groups \subseteq pods[a].groups
    BY <2>3 DEF TemplatesInv, PodsPlaced, Settled
  <2>6. r.NodeName = None /\ r.GroupId # None => r.GroupId \in pods[a].groups
    BY <2>1, <2>5, RequestsAssumption DEF NodeSelector
  <2> HIDE DEF r
  <2> QED
    BY <2>2, <2>4, <2>5, <2>6 DEF r
<1> QED
  BY <1>1, Invariance, PTL

----------------------------------------------------------------------------
(* The volumes *)

\* The volumes of t are the default ones of r and then those of r's Volmap, walked in the
\* order v.
VolumesOf(r, t, n, v) ==
  /\ v \in [1..n -> DOMAIN r.Volmap]
  /\ \A i, j \in 1..n : i # j => v[i] # v[j]
  /\ \A k \in DOMAIN r.Volmap : \E i \in 1..n : v[i] = k
  /\ DOMAIN t.volumes = 1..(3 + n)
  /\ \A i \in 1..3 : t.volumes[i] = SetDefatultVolume(r)[i]
  /\ \A i \in 1..n : /\ t.volumes[3 + i].hostPath = HostPath(v[i], r)
                    /\ t.volumes[3 + i].mount = r.Volmap[v[i]]

\* A template has three volumes of its own and then each of the user's once, with its
\* mount, whatever the order.
LEMMA VolumeEntries ==
  ASSUME NEW r \in Requests, NEW t \in Templates(r)
  PROVE  \E n \in Nat : \E v : VolumesOf(r, t, n, v)
<1>1. PICK v \in SetToSeqs(DOMAIN r.Volmap) :
        t.volumes = SetDefatultVolume(r) \o UserVolumes(r, v)
  BY TemplateParts
<1>2. PICK n \in Nat :
        /\ v \in [1..n -> DOMAIN r.Volmap]
        /\ \A i, j \in 1..n : i # j => v[i] # v[j]
        /\ \A k \in DOMAIN r.Volmap : \E i \in 1..n : v[i] = k
  BY Walks, RequestsAssumption
<1> DEFINE default == SetDefatultVolume(r)
           user == UserVolumes(r, v)
<1>3. default = [i \in 1..3 |-> default[i]]
  BY DEF SetDefatultVolume
<1>4. user = [i \in 1..n |-> user[i]]
  BY <1>2 DEF UserVolumes
<1>5. ASSUME NEW i \in 1..n
      PROVE  user[i].hostPath = HostPath(v[i], r) /\ user[i].mount = r.Volmap[v[i]]
  BY <1>2 DEF UserVolumes
<1> HIDE DEF default, user
<1>6. t.volumes = [i \in 1..(3 + n) |-> IF i <= 3 THEN default[i] ELSE user[i - 3]]
  BY <1>1, <1>3, <1>4, ConcatAt DEF default, user
<1>7. \A i \in 1..3 : t.volumes[i] = default[i]
  BY <1>6
<1>8. ASSUME NEW i \in 1..n
      PROVE  t.volumes[3 + i] = user[i]
  <2>1. 3 + i \in 1..(3 + n) /\ ~(3 + i <= 3) /\ (3 + i) - 3 = i
    OBVIOUS
  <2> QED
    BY <1>6, <2>1
<1>9. DOMAIN t.volumes = 1..(3 + n)
  BY <1>6
<1>10. VolumesOf(r, t, n, v)
  BY <1>2, <1>5, <1>7, <1>8, <1>9 DEF VolumesOf, default
<1> QED
  BY <1>10

\* A volume of a template is of the host.
LEMMA VolumesOfHost ==
  ASSUME NEW r \in Requests, NEW t \in Templates(r), NEW i \in DOMAIN t.volumes
  PROVE  t.volumes[i].hostPath # None
<1>1. PICK n \in Nat : \E v : VolumesOf(r, t, n, v)
  BY VolumeEntries
<1>2. PICK v : VolumesOf(r, t, n, v)
  BY <1>1
<1>3. /\ v \in [1..n -> DOMAIN r.Volmap]
      /\ DOMAIN t.volumes = 1..(3 + n)
      /\ \A j \in 1..3 : t.volumes[j] = SetDefatultVolume(r)[j]
      /\ \A j \in 1..n : t.volumes[3 + j].hostPath = HostPath(v[j], r)
  BY <1>2 DEF VolumesOf
<1>4. CASE i <= 3
  <2>1. i \in {1, 2, 3}
    BY <1>3, <1>4
  <2>2. SetDefatultVolume(r)[i].hostPath \in
          {<<"/opt/dzhyun", r.Name, "data">>, <<"/opt/dzhyun", r.Name, "log">>,
           <<"/opt/dzhyun", r.Name, "trace">>}
    BY <2>1 DEF SetDefatultVolume
  <2>3. t.volumes[i] = SetDefatultVolume(r)[i]
    BY <1>3, <2>1
  <2> QED
    BY <2>2, <2>3, NoneAssumption
<1>5. CASE i > 3
  <2>1. i - 3 \in 1..n /\ i = 3 + (i - 3)
    BY <1>3, <1>5
  <2>2. v[i - 3] \in DOMAIN r.Volmap
    BY <1>3, <2>1
  <2>3. t.volumes[i].hostPath = HostPath(v[i - 3], r)
    BY <1>3, <2>1
  <2> QED
    BY <2>2, <2>3, NoneAssumption
<1> QED
  BY <1>3, <1>4, <1>5

\* Paths that are as many as the keys they are made of are different for different keys.
LEMMA PathsDiffer ==
  ASSUME NEW r \in Requests,
         Cardinality({HostPath(k, r) : k \in DOMAIN r.Volmap}) = Cardinality(DOMAIN r.Volmap),
         NEW k \in DOMAIN r.Volmap, NEW l \in DOMAIN r.Volmap, HostPath(k, r) = HostPath(l, r)
  PROVE  k = l
<1> DEFINE S == DOMAIN r.Volmap
           T == {HostPath(m, r) : m \in S}
           f == [m \in S |-> HostPath(m, r)]
<1>1. f \in Surjection(S, T)
  BY DEF Surjection
<1>2. IsFiniteSet(S) /\ Cardinality(S) = Cardinality(T)
  BY RequestsAssumption
<1>3. f \in Injection(S, T)
  <2> HIDE DEF S, T, f
  <2> QED
    BY <1>1, <1>2, FS_SurjSameCardinalityImpliesInj
<1>4. f[k] = f[l]
  OBVIOUS
<1> QED
  BY <1>3, <1>4 DEF Injection, IsInjective

\* Whatever order Volmap is walked in, each host path is shown with its own mount
\* (deployment.go:206-219 and :298-325).
THEOREM VolumesCorrect == Spec => []VolumesShown
<1>1. TemplatesInv => VolumesShown
  <2> SUFFICES ASSUME TemplatesInv, NEW a \in Apps, Own(a),
                      NEW r, r = asked[a],
                      Cardinality({HostPath(k, r) : k \in DOMAIN r.Volmap})
                        = Cardinality(DOMAIN r.Volmap),
                      {HostPath(k, r) : k \in DOMAIN r.Volmap}
                        \cap {v.hostPath : v \in ToSet(SetDefatultVolume(r))} = {},
                      NEW k \in DOMAIN r.Volmap
               PROVE  Shown(a).vol[HostPath(k, r)] = r.Volmap[k]
    BY DEF VolumesShown
  <2> DEFINE t == store[a]
             pairs == [i \in DOMAIN t.volumes |-> <<t.volumes[i].hostPath, t.volumes[i].mount>>]
  <2>1. r \in Requests /\ t \in Templates(r)
    BY DEF TemplatesInv, TypeOK, Faithful
  <2>2. PICK n \in Nat : \E v : VolumesOf(r, t, n, v)
    BY <2>1, VolumeEntries
  <2>3. PICK v : VolumesOf(r, t, n, v)
    BY <2>2
  <2> USE DEF VolumesOf
  <2>4. PICK m \in 1..n : v[m] = k
    BY <2>3
  <2>5. 3 + m \in DOMAIN pairs /\ pairs[3 + m] = <<HostPath(k, r), r.Volmap[k]>>
    BY <2>3, <2>4
  <2>6. ASSUME NEW j \in DOMAIN pairs, pairs[j][1] = HostPath(k, r)
        PROVE  j = 3 + m
    <3>1. j \in 1..(3 + n) /\ t.volumes[j].hostPath = HostPath(k, r)
      BY <2>3, <2>6
    <3>2. CASE j <= 3
      <4>1. j \in 1..3 /\ t.volumes[j] = SetDefatultVolume(r)[j]
        BY <2>3, <3>1, <3>2
      <4>2. t.volumes[j] \in ToSet(SetDefatultVolume(r))
        BY <4>1 DEF ToSet, SetDefatultVolume
      <4> QED
        BY <3>1, <4>2
    <3>3. CASE j > 3
      <4>1. j - 3 \in 1..n /\ j = 3 + (j - 3)
        BY <3>1, <3>3
      <4>2. HostPath(v[j - 3], r) = HostPath(k, r)
        BY <2>3, <3>1, <4>1
      <4>3. v[j - 3] \in DOMAIN r.Volmap
        BY <2>3, <4>1
      <4>4. v[j - 3] = k
        BY <2>1, <4>2, <4>3, PathsDiffer
      <4>5. j - 3 = m
        BY <2>3, <2>4, <4>1, <4>4
      <4> QED
        BY <4>1, <4>5
    <3> QED
      BY <3>1, <3>2, <3>3
  <2>7. DOMAIN pairs \subseteq Int
    BY <2>3
  <2>8. AsMap(pairs)[HostPath(k, r)] = r.Volmap[k]
    <3> HIDE DEF pairs
    <3> QED
      BY <2>5, <2>6, <2>7, AsMapAt
  <2> QED
    BY <2>8 DEF Shown, PodTemplateSpecToApp, VolMap
<1> QED
  BY <1>1, Invariance, PTL

\* The list of applications panics at none that this code has made: every volume it
\* makes is of the host (deployment.go:323).
THEOREM Listable == Spec => []OwnListable
<1>1. TemplatesInv => OwnListable
  <2> SUFFICES ASSUME TemplatesInv, NEW a \in Apps, store[a] # None, Panics(store[a]), Own(a)
               PROVE  FALSE
    BY DEF OwnListable, List
  <2>1. asked[a] \in Requests /\ store[a] \in Templates(asked[a])
    BY DEF TemplatesInv, TypeOK, Faithful
  <2> QED
    BY <2>1, VolumesOfHost DEF Panics
<1> QED
  BY <1>1, Invariance, PTL

\* The two listings, of applications and of pods, show the same of a workload whose pod is
\* up to date (deployment.go:266-332, pod.go:79-126).
THEOREM ListingsCorrect == Spec => []ListingsAgree
<1>1. TemplatesInv => ListingsAgree
  <2> SUFFICES ASSUME TemplatesInv, NEW a \in Apps, Own(a), Settled(a)
               PROVE  LET app == Shown(a)
                          pod == ListPod(pods[a])
                      IN  /\ app.serviceId = pod.serviceId
                          /\ app.interface = pod.interface /\ app.type = pod.type
                          /\ app.portMap = pod.portMap
                          /\ app.vol = pod.vol
                          /\ app.hostNetwork = pod.hostNetwork
                          /\ app.env = [k \in DOMAIN pod.env \ Hidden |-> pod.env[k]]
    BY DEF ListingsAgree
  <2> DEFINE t == store[a]
  <2>1. asked[a] \in Requests /\ t \in Templates(asked[a])
    BY DEF TemplatesInv, TypeOK, Faithful
  <2>2. pods[a].template = t
    BY DEF Settled
  <2>3. None \notin DOMAIN VolMap(t)
    <3> DEFINE pairs == [i \in DOMAIN t.volumes |-> <<t.volumes[i].hostPath, t.volumes[i].mount>>]
    <3>1. DOMAIN VolMap(t) = {pairs[i][1] : i \in DOMAIN pairs}
      BY AsMapDomain DEF VolMap
    <3> QED
      BY <2>1, <3>1, VolumesOfHost
  <2>4. VolMap(t) = [h \in DOMAIN VolMap(t) \ {None} |-> VolMap(t)[h]]
    <3>1. VolMap(t) = [h \in DOMAIN VolMap(t) |-> VolMap(t)[h]]
      BY AsMapFunction DEF VolMap
    <3> QED
      BY <2>3, <3>1
  <2> HIDE DEF t
  <2>5. Shown(a) = PodTemplateSpecToApp(t)
    BY DEF Shown, t
  <2> QED
    BY <2>2, <2>4, <2>5 DEF PodTemplateSpecToApp, ListPod, PodEnv
<1> QED
  BY <1>1, Invariance, PTL

----------------------------------------------------------------------------
(* The numbers *)

\* A port in range is not changed by the narrowing.
LEMMA NarrowPort ==
  ASSUME NEW n \in 1..MaxPort
  PROVE  Narrow(n) = n
<1> DEFINE m == n + HalfRange
           w == 2 * HalfRange
<1>1. m \in Nat /\ w \in Nat /\ m < w /\ n \in Nat /\ HalfRange \in Nat
  BY PortAssumption
<1>2. m % w = m
  <2> HIDE DEF m, w
  <2> QED
    BY <1>1
<1> QED
  BY <1>1, <1>2 DEF Narrow

\* An amount of memory in bytes is a multiple of 1000 only if it is one of 125 MB.
LEMMA ThousandOfMegabytes ==
  ASSUME NEW m \in Int, (m * (1024 * 1024)) % 1000 = 0
  PROVE  m % 125 = 0
<1> DEFINE q == (m * (1024 * 1024)) \div 1000
<1>1. q \in Int /\ m * (1024 * 1024) = 1000 * q
  OBVIOUS
<1> HIDE DEF q
<1>2. m = 125 * (33 * q - 34603 * m)
  BY <1>1
<1> QED
  BY <1>2

\* What comes back of a number of cores: nothing if it is a multiple of 1000 cores.
LEMMA CoresBack ==
  ASSUME NEW m \in Int
  PROVE  convertCputofloat32(CpuText(m)) = IF m % (1000 * 1000) = 0 THEN 0 ELSE m
<1>1. CASE m % 1000 = 0 /\ m % (1000 * 1000) # 0
  <2>1. (m \div 1000) * 1000 = m
    BY <1>1
  <2>2. CpuText(m) = [digits |-> m \div 1000, suffix |-> "none"]
    BY <1>1 DEF CpuText
  <2> QED
    BY <1>1, <2>1, <2>2 DEF convertCputofloat32
<1>2. CASE m % 1000 # 0
  <2>1. m % (1000 * 1000) # 0
    BY <1>2
  <2>2. CpuText(m) = [digits |-> m, suffix |-> "m"]
    BY <1>2 DEF CpuText
  <2> QED
    BY <2>1, <2>2 DEF convertCputofloat32
<1>3. CASE m % (1000 * 1000) = 0
  <2>1. m % 1000 = 0
    BY <1>3
  <2>2. CpuText(m) = [digits |-> m \div (1000 * 1000), suffix |-> "k"]
    BY <1>3, <2>1 DEF CpuText
  <2> QED
    BY <1>3, <2>2 DEF convertCputofloat32
<1> QED
  BY <1>1, <1>2, <1>3

\* What comes back of an amount of memory: nothing if its bytes are a multiple of 1000.
LEMMA MemoryBack ==
  ASSUME NEW m \in Int
  PROVE  convertMemtoInt(MemText(m * (1024 * 1024))) =
           IF (m * (1024 * 1024)) % 1000 = 0 THEN 0 ELSE m
<1>1. (m * (1024 * 1024)) \div (1024 * 1024) = m
  OBVIOUS
<1> QED
  BY <1>1 DEF MemText, convertMemtoInt

\* The list shows the ports that were asked for; under 1000 cores the cores, or a
\* thousandth less where the product falls short, and never more than that less; and the
\* memory or 0, which it is only for multiples of 125 MB (utils.go:20-47, :86-123 and
\* :145-161).
THEOREM NumbersCorrect == Spec => []NumbersShown
<1>1. TemplatesInv => NumbersShown
  <2> SUFFICES ASSUME TemplatesInv, NEW a \in Apps, Own(a)
               PROVE  /\ \A k \in Kinds :
                           LET cpu == asked[a].Cpu[k]
                               memory == asked[a].Memory[k]
                           IN  /\ Shown(a).cpu[k] \in {0, cpu - 1, cpu}
                               /\ cpu <= 10 => Shown(a).cpu[k] = 0
                               /\ cpu > 10 /\ cpu < 1000 * 1000 =>
                                    Shown(a).cpu[k] = IF cpu \in Short THEN cpu - 1 ELSE cpu
                               /\ Shown(a).memory[k] \in {0, memory}
                               /\ memory > 1 /\ memory % 125 # 0 => Shown(a).memory[k] = memory
                      /\ \A i \in DOMAIN asked[a].Portmap :
                           LET port == asked[a].Portmap[i]
                               shown == Shown(a).portMap[i]
                           IN  port.outer \in 1..MaxPort /\ port.inner \in 1..MaxPort =>
                                 shown[2] = port.outer /\ shown[3] = port.inner
    BY DEF NumbersShown
  <2> DEFINE r == asked[a]
             t == store[a]
  <2>1. r \in Requests /\ t \in Templates(r)
    BY DEF TemplatesInv, TypeOK, Faithful
  <2>2. t.resources = GetResouce(r)
    BY <2>1, TemplateParts
  <2>3. ASSUME NEW k \in Kinds
        PROVE  /\ Shown(a).cpu[k] \in {0, r.Cpu[k] - 1, r.Cpu[k]}
               /\ r.Cpu[k] <= 10 => Shown(a).cpu[k] = 0
               /\ r.Cpu[k] > 10 /\ r.Cpu[k] < 1000 * 1000 =>
                    Shown(a).cpu[k] = IF r.Cpu[k] \in Short THEN r.Cpu[k] - 1 ELSE r.Cpu[k]
               /\ Shown(a).memory[k] \in {0, r.Memory[k]}
               /\ r.Memory[k] > 1 /\ r.Memory[k] % 125 # 0 => Shown(a).memory[k] = r.Memory[k]
    <3> DEFINE cpu == r.Cpu[k]
               memory == r.Memory[k]
               bytes == memory * (1024 * 1024)
    <3>1. cpu \in Int /\ memory \in Int
      BY <2>1, RequestsAssumption
    <3>2. Millis(cpu) \in Int /\ Millis(cpu) # None /\ bytes # None
      <4>1. bytes \in Int /\ Millis(cpu) \in Int
        BY <3>1 DEF Millis
      <4> QED
        BY <3>1, <4>1, NoneAssumption
    <3>3. /\ t.resources[k].cpu = IF cpu > 10 THEN Millis(cpu) ELSE None
          /\ t.resources[k].memory = IF memory > 1 THEN bytes ELSE None
      BY <2>2 DEF GetResouce
    <3>4. /\ Shown(a).cpu[k] = IF t.resources[k].cpu = None THEN 0
                               ELSE convertCputofloat32(CpuText(t.resources[k].cpu))
          /\ Shown(a).memory[k] = IF t.resources[k].memory = None THEN 0
                                  ELSE convertMemtoInt(MemText(t.resources[k].memory))
      BY DEF Shown, PodTemplateSpecToApp
    <3>5. /\ Shown(a).cpu[k] \in {0, cpu - 1, cpu}
          /\ cpu <= 10 => Shown(a).cpu[k] = 0
          /\ cpu > 10 /\ cpu < 1000 * 1000 =>
               Shown(a).cpu[k] = IF cpu \in Short THEN cpu - 1 ELSE cpu
      <4>1. Shown(a).cpu[k] = IF cpu > 10 /\ Millis(cpu) % (1000 * 1000) # 0 THEN Millis(cpu) ELSE 0
        BY <3>1, <3>2, <3>3, <3>4, CoresBack
      <4>2. Millis(cpu) = IF cpu \in Short THEN cpu - 1 ELSE cpu
        BY DEF Millis
      <4>3. ASSUME cpu > 10 /\ cpu < 1000 * 1000 PROVE cpu > 10 /\ Millis(cpu) % (1000 * 1000) # 0
        <5>1. Millis(cpu) > 9 /\ Millis(cpu) < 1000 * 1000
          BY <3>1, <4>2, <4>3
        <5>2. Millis(cpu) \in Int /\ Millis(cpu) % (1000 * 1000) = Millis(cpu)
          <6> DEFINE m == Millis(cpu)
                     w == 1000 * 1000
          <6>1. m \in Nat /\ w \in Nat /\ m < w
            BY <3>2, <5>1
          <6> HIDE DEF m, w
          <6>2. m % w = m
            BY <6>1
          <6> QED
            BY <3>2, <6>2 DEF m, w
        <5> QED
          BY <4>3, <5>1, <5>2
      <4> HIDE DEF cpu
      <4> QED
        BY <3>1, <4>1, <4>2, <4>3
    <3>6. Shown(a).memory[k] = IF memory > 1 /\ bytes % 1000 # 0 THEN memory ELSE 0
      BY <3>1, <3>2, <3>3, <3>4, MemoryBack
    <3>7. memory % 125 # 0 => bytes % 1000 # 0
      BY <3>1, ThousandOfMegabytes
    <3> QED
      BY <3>5, <3>6, <3>7
  <2>4. ASSUME NEW i \in DOMAIN r.Portmap,
               r.Portmap[i].outer \in 1..MaxPort, r.Portmap[i].inner \in 1..MaxPort
        PROVE  /\ Shown(a).portMap[i][2] = r.Portmap[i].outer
               /\ Shown(a).portMap[i][3] = r.Portmap[i].inner
    <3>1. /\ Narrow(r.Portmap[i].outer) = r.Portmap[i].outer
          /\ Narrow(r.Portmap[i].inner) = r.Portmap[i].inner
          /\ r.Portmap[i].outer # 0
      BY <2>4, NarrowPort
    <3>2. /\ i \in DOMAIN t.ports
          /\ t.ports[i].hostPort = r.Portmap[i].outer
          /\ t.ports[i].containerPort = r.Portmap[i].inner
      BY <2>1, <3>1, TemplatePorts
    <3> QED
      BY <3>2 DEF Shown, PodTemplateSpecToApp, PortMap
  <2> QED
    BY <2>3, <2>4
<1> QED
  BY <1>1, Invariance, PTL
=============================================================================

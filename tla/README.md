# Verification of the Kubernetes part of yunconsole

TLA+ specifications of the packages `k8s` and `monitor`: what their calls do to
the cluster, to the database and to each other, checked with TLC on small
instances and proved with TLAPS for all instances: every safety and action property
of a passing run is also a theorem, under the hypotheses that "Proofs" names. The
repository has no tests and no documents; the code is the reference, and its few
comments are the only statements of intent.

## The system

The program is the layer of a web console that talks to Kubernetes. It has one
process. `NewManager` (`k8s/handles.go`) builds six controllers over one client
and starts two background activities: the pod controller and the node poll. The
console calls the `...Impl` methods of the manager from any number of goroutines;
nothing in the manager serialises them.

| Component | State it keeps | Operations | Talks to |
|---|---|---|---|
| Node groups (`k8s/node.go`) | none; a group is a label on Node objects | AddlabelToNodes, RemoveNodeLabel, UpdateNodeslabel, DeleteGroup | API server: list, get, update of whole Node objects, with optimistic concurrency |
| Monitor registry (`monitor/client.go`) | `monitorset` under `clientLock` | CreateMonitor, GetMonitor, RemoveMonitor | starts and stops the goroutines of each Monitor; read by ListNodes and ListPod |
| Node poll (`k8s/node.go`) | none | NodesMonitor, nodeslist, every 5 s | API server; the registry |
| Container inventory (`monitor/container.go`) | OrdinaryContainers, CurrentPodSandboxs of a Monitor | InitHistoryData, UpdateCurrentContainers, every 10 s | cAdvisor of the node; the database, whose errors are ignored |
| Container statistics (`monitor/container.go`) | machine samples, history and figures of a Monitor | UpdateMachineStats, UpdateContainerStat, ContainerMetrics, GetContainerStat | cAdvisor; ListNodes and ListPod |
| Pod life cycle (`k8s/podscontroller.go`) | the informer's store, `Queue` | OnAdd, OnUpdate, OnDelete, Run | client-go informer; the database |
| Workloads (`k8s/deployment.go`, `k8s/daemonset.go`) | none | create, update (falls back to create), delete | API server: writes without a resourceVersion |
| Pod templates and listings (`k8s/deployment.go`, `k8s/utils.go`, `k8s/pod.go`) | none; a request lives on as a template and as variables in its environment | createPodTemplateSpec, PodTemplateSpecToApp, ListPod | API server, which completes and checks the template |
| Node listing, namespaces, events | none | one request each | API server |
| `k8s/util/pod` | none | copied helpers that nothing here calls | |

What is hard in it:

- *Concurrency.* Group calls read, edit and write back whole Node objects while
  kubelets and other calls write the same objects. Pollers create and remove
  Monitors while readers hold them; `Stop` waits for goroutines with the lock of
  the registry held. The two goroutines of a Monitor share maps.
- *Failure.* Loops over nodes stop half way; an answer is lost and the write is
  done; database errors are dropped; the process stops between two writes.
- *Ordering and staleness.* A list is worked through long after it was taken. The
  informer's store has changed before its handler looks. A watch has gaps. A node
  gets another address and its Monitor does not.
- *Round trips.* What a request asks for is formatted, completed by the server,
  parsed again and shown by two separate pieces of code, and Go walks its maps in a
  random order.

`PROJECT.json` lists each of these at its line under "hazards", with the
properties that cover it or the reason why none does.

## Modules

| Module | What it is |
|---|---|
| `GroupMembership` | abstract: a group is a set of nodes, changed one membership at a time by calls entitled to it, or by what such a call has left hanging |
| `NodeGroups`, `MCNodeGroups` | the group calls request by request; implements `GroupMembership` |
| `NodeGroupsProofs` | proofs about it |
| `MonitorRegistry`, `MCMonitorRegistry` | registry, node poll, life of the goroutines, readers |
| `MonitorRegistryProofs` | proofs about it |
| `NodeMonitoring`, `MCNodeMonitoring` | extends `MonitorRegistry`: the Monitors of nodes that take each other's addresses, at work on the records they share |
| `NodeMonitoringProofs` | proofs about it, from those of `MonitorRegistryProofs` |
| `ContainerInventory`, `MCContainerInventory` | the life-cycle rows a Monitor writes |
| `ContainerInventoryProofs` | proofs about it |
| `ContainerStats`, `MCContainerStats` | the two goroutines of a Monitor and the readers of its figures |
| `ContainerStatsProofs` | proofs about it |
| `PodLifeCycle` | pod controller, with the informer as an external part |
| `PodLifeCycleProofs` | proofs about it |
| `WorkloadStore` | abstract: each call on a Deployment or DaemonSet is atomic |
| `Workloads`, `MCWorkloads` | the requests of those calls; implements `WorkloadStore` |
| `WorkloadsProofs` | proofs about it |
| `PodTemplates`, `MCPodTemplates` | from request to template to pod to listing |
| `PodTemplatesProofs` | proofs about it |

A definition whose comment starts with "Seeded fault" is a plausible bug. It
stands before the definition it would replace and belongs to no specification;
replacing the real one by it makes a property fail, which shows that the property
watches the code (`PROJECT.json`, "mutants").

### NodeGroups

One action is one API request or the code between two. `labels[n]` is the set of
group labels of the object of node n. `held[c]` holds the label maps of the Node
copies that caller c has, and `current[c]` those whose resourceVersion is still
the latest; versions are only ever compared, so the model needs no number. The
API server accepts a write exactly if the copy is current and the labels are
valid; it may refuse any write, and an accepted write may look like a failure to
the caller. A write whose connection breaks before the server has seen it (`Unhandled`), or
that is under way when the process stops (`Crash`), stays in `adrift`: `HandleAdrift` lets
the server take it at any later moment, in the middle of other calls, unless a write,
a heartbeat or the departure of its node has given the object a new version first.
`Heartbeat` is the kubelet's status update, which makes every copy old
without touching a label. `Call`, `AddGet`, `AddWrite`, `AddDone`, `RemoveGet`,
`RemoveWrite`, `RemoveDone`, `UpdateList`, `DeleteGroupList`, `DeleteGroupWrite`
and `DeleteGroupDone` are the steps of the four functions. Two
history variables are for the properties: `missed[c]`, the nodes whose write failed in the
open call, and `late[c]`, those where a write left adrift was handled during it and
against it.

In `GroupMembership` an open call has a group, nodes it may yet put in (`join`) and nodes it
may yet take out (`leave`). Both only ever shrink: while the loop of additions runs, a call
of NodeGroups may add what the loop has not done with (`Pending`) and remove what is in
`later`; while the loop of removals runs it may add nothing. A change that a call is
entitled to may be left hanging (`Hang`, `Abandon`); it takes effect once (`Settle`), or
never (`Lapse`), and anything that changes the groups of its node voids it (`Void`).

Abstracted: label values (a label is there or not), the order of nodes in a
request or list (left open), repeated names in a request, other labels of a node.

### MonitorRegistry

`registry` is `monitorset`; `lock` is the poller that holds `clientLock` between
two steps, which happens only while `Start` reads the database and while `Stop`
waits; shorter critical sections are one step. Each Monitor has a `phase` and the
states of its two goroutines. `NewManager` starts one more poller each time it is
called, hence the constant `Pollers`. A Monitor nobody refers to is used again as
a new object.

Abstracted: addresses and what the goroutines fetch, which are in `NodeMonitoring`.

### NodeMonitoring

Each action is one of `MonitorRegistry` together with what it does to addresses and
records, or leaves the registry as it is; so the module implements `MonitorRegistry`
(`RegistryImplemented`). `address[n]` changes at any time (`Move`), within what the
constant `Moves` allows; `seenAddr[p]` is the address of each node in the list a poller
works on, and `Addr[m]` the one a Monitor was created with. `memory[m]` is
OrdinaryContainers, and `polled[m]` the answer of the poll in progress: of whichever node
has the Monitor's address by then, or of none.

The records are keyed by the id of the container, as in `ContainerInventory`: `rows[c]` is
the node and address that c is recorded as running at, or None. `StartWithHistory` reads
those of the Monitor's node and address, `StartWithoutHistory` fails to and goes on;
`FinishWork` writes the differences to memory, whatever the records said before. So a
container that still runs when its node has got another address is taken over by the next
Monitor of the node, and two Monitors that ask one address write each other's records.
`apart[m]` is a history variable: the containers whose record m does not know, because it
could not read it or a Monitor of another node has written it since. `Dropped` is
RemoveMonitor's delete; what the Monitor remembered is forgotten with it.

Abstracted: sandboxes, lost writes and crashes between writes, which are the subject
of `ContainerInventory`; here a write is one step that succeeds. The port 4194 is
part of the address.

### ContainerInventory

`up` is what runs on the node; `db` the rows; `ordinary` and `sandboxes` the
memory of the Monitor; `listed` and `current` the poll in progress. A poll is
three steps: the list, the write of what is new, and the write of what changed
together with the change of memory. Each write loses any subset of its rows, and
`Stop` may come between any two steps. A start reads the history (`Load`) or fails to,
which nobody notices (`LoadFailed`). `stale` is a history variable: the rows of which
the memory does not know, or not what they say. Their last write was lost, or Start could
not read them, or Start found several running sandboxes of one pod: InitHistoryData then
stops all their rows and remembers one of them as running (container.go:199-207). The
properties except these rows, one by one, until they are written again. It is assumed of
the database that the history query returns the rows that are running and that an update
goes by the id of the row; where the code uses the key of another row (container.go:202),
the write may be lost.

### ContainerStats

A sample is its time stamp. `FetchInfo`, `FetchMachine`, `FetchList`, `Fetch` and
`EndFetch` are InitDataHistory, with csLock held while `upc = "fetch"`; `Begin`,
`Test`, `ReadHistory`, `Publish` and `EndLoop` are ContainerMetrics. The panics of
the code (`BeginPanic`, `PublishPanic`) and the map races the Go runtime may detect
(`Race`) stop the process, and `Restart` starts it again.

### PodLifeCycle

The informer lists the pods, watches from there, and keeps what it learns in
`deltas` until it has brought `store` up to date and called the handler. OnAdd
inserts a row, OnDelete closes the rows of the pod; both may be lost. `lost` and
`inherited` are history variables. Assumed of the database: Update finds the open
rows by namespace and name. `Updated` is an update event, for which no handler is
registered. `Known`, which decides whether a pod missing from a new list is deleted,
counts the changes that still wait as well as the store; client-go versions that look at
the store alone may miss the deletion of a pod whose creation is still waiting, which
DeletionRecorded therefore does not cover.

### Workloads

A request is sent, handled at some later moment and answered. When the connection
breaks or the process stops, a request not yet handled may be `adrift` and be
handled after the call. Creation and update send no resourceVersion. The objects
of other clients are in the initial states only. `Requests` carry the object
(`Key`) and the value to put there; what a pod template contains is one value of
`Specs`. A name whose "." becomes "-" is given by the constant `Dashed`: the
server takes no pod template whose container has a dot in its name, and
DeleteDeploy converts the name it is given.

### PodTemplates

`Submit` is a creation or an update: createPodTemplateSpec makes a template of the
request, in one of the orders in which the maps Env and Volmap can be walked, the
server fills in what is missing (`Completed`) and takes the template if it is valid
(`Valid`). `SubmitForeign` is another client's workload, `StopPod` and `StartPod` are
the controllers and the scheduler, and `Regroup` the calls of `NodeGroups`, after which
pods stay where they are. `PodTemplateSpecToApp` and `ListPod` are what the
two listings make of a template and of a pod. `asked[a]` is a history variable: the
request a template was made of. Ports are narrowed to the signed numbers of int32, of
which `HalfRange` are not negative (2^31 in the code). Cores
are counted in thousandths, and `Short` are the amounts whose floating-point product with
1000 falls just short, so that int() takes a thousandth off (`Millis`): for float32 these are
251, 253, 502 and others. Fractions of a thousandth, and amounts so large that float32 does
not tell thousandths apart, are left out. A quantity's text (`CpuText`, `MemText`) is its
digits and its suffix. The server's part is external: the defaults and checks of the fields that
this code fills in.

Abstracted: image names, labels, replicas and the status of a workload; a port map is
a sequence and not a string; a malformed item stands for all the ways an item fails to
parse.

## Runs

| Run | Bounds | Shows |
|---|---|---|
| `groups_concurrent` | 2 callers, 2 nodes, 2 groups, 1 write adrift, calls on a group that want at most 1 node | TypeOK, FreshCopies, RefinesMembership |
| `groups_solo` | 1 caller, 3 nodes, one of which leaves and returns, 1 group and the empty id, 2 writes adrift | AddOutcome, RemoveOutcome, UpdateOutcome, MakeBeforeBreak, CallReturns |
| `node_monitoring` | 2 nodes, the first of which moves once, to the address of the second; nodes are ready or not; 1 poller, 2 Monitors, 1 container | MonitoringTypeOK, RowsAgree, OnlyOwnRows |
| `registry_live` | 1 node, 2 pollers, 1 reader, 2 Monitors | ReadersSeeBuilt, NoOrphanCollectors, RegisteredRunning, LockReleased, GetReturns, NotReadyForgotten, ReadyMonitored |
| `inventory` | 1 pod with 2 sandboxes and a container, UnMonitorCount up to 2 | TypeOK, DbAgrees, PollAccurate, NoFalseStop, InspectedRecorded |
| `inventory_names` | 2 pods with one name | InspectedRecorded fails |
| `pods` | a user's and a system pod, 2 phases, 2 waiting changes | TypeOK, RowsFollowStore, DeletionRecorded |
| `pods_phase` | 1 pod, 3 waiting changes | PhaseRecorded fails |
| `stats` | 2 containers, 3 sample times and none, 1 reader | TypeOK, TestHolds, FiguresForward |
| `templates` | 8 requests for one workload, 1 of another client, 2 nodes, 1 group that they join and leave, ports up to 10, `HalfRange` 16, 0.502 cores falling short | TypeOK, PlacementShown, VolumesShown, NumbersShown, ListingsAgree, OwnListable |
| `template_protocol` | the same and a request for a UDP port | ProtocolKept fails |
| `workloads` | 2 callers, 2 Deployments (one dotted), 2 values, 1 request adrift | TypeOK, RefinesStore, DottedUntouched, CallReturns |

Why the bounds are enough. Calls interfere through one node or one object at a
time, so two callers show every pairwise conflict; two groups show that a write
for one leaves the other alone; three nodes let a loop fail at the first, a middle
and the last. One write adrift is enough for it to land in a call of either caller, two for
both to land in one call. `groups_concurrent` bounds its calls to keep the run short:
`SmallCalls` leaves the empty id and loops over several wanted nodes to `groups_solo`,
while DeleteGroup and the removals of an update still loop over several; its VIEW
(`Decisive`) drops `missed`, `late` and `reply`, which no action reads and only the
properties of `groups_solo` and a type speak of; and `Refinement` has none of these bounds. That callers also agree when nodes leave and return under them is proved
(`Refinement`); the run with such a node has one caller. Two pollers are the least that
can disagree; two Monitors are the one that is removed, which a reader may still hold,
and the next. In the registry nodes share nothing but the lock; in the records they share
the row of a container, and two nodes of which one takes the address of the other are
enough for a row to be found at a new address, to be written by two Monitors, and to be
left behind. `Shown` leaves out the third status, a node that is not in the list or has no
address, which `registry_live` has; `Moves` and `FirstAddr` bound the moves; the theorems
about `NodeMonitoring` have no such bounds. A container that starts and stops is enough
for a difference of each kind. Two
sandboxes of one pod are the old and the new. Two changes waiting in the informer are a
deletion and the creation that follows it. The requests of `templates` are chosen one
for each branch of the code and each way the server refuses: a node and a group, only a
group, neither; variables that replace registered ones; two maps of two entries, for
both orders; amounts at the thresholds, at a multiple of 125 MB, at 1000 cores and at one that falls short; a port that is in
range only once it has been narrowed.

Symmetry is used only in runs without liveness, over sets whose members the
specification never tells apart.

### Fairness

- *Callers* (`NodeGroups`, `Workloads`): weak fairness of each caller's steps.
  Requests end in an answer or an error, and goroutines are scheduled. Nothing is
  assumed of *which* outcome; loops end on either. The handling of a request adrift is not
fair: it may never arrive.
- *Registry*: weak fairness of steps that wait for nobody; strong fairness of
  taking `clientLock`, because Go's mutex hands itself to a waiter that has been
  waiting too long while the lock comes and goes in between; strong fairness of
  leaving the `select` by the closed channel, because a select with several ready
  channels chooses at random. Ticks and cluster changes are not fair.
- *Pods*: the informer lists again after a broken watch and works through what it
  has. Crashes and restarts are not fair.

The code sets no timeout on its HTTP client. A node that accepts a connection and
never answers breaks the assumption that requests end, and then `Stop` holds
`clientLock` for ever; the hazard list says so.

### What the runs found

- `inventory_names`: sandboxes are keyed by pod name without the namespace, so of
  two pods of one name on a node one is not recorded, against the comment at
  container.go:257.
- `pods_phase`: OnUpdate is never registered, so a row keeps the phase of the
  moment the pod was added, against podscontroller.go:21 and :70.

- `template_protocol`: createPodTemplateSpec (deployment.go:182) never uses the protocol
  that ParsePortInfo has parsed, so a port asked for as UDP is served and shown as a TCP
  port, against the format that utils.go:21 gives.

More that the models make visible and no comment contradicts; the properties are stated
around it:

- a nil result of AddlabelToNodes promises only that *some* node was labelled
  (AddOutcome);
- the request of a call that has failed, or of a process that has stopped, may be handled
  during a later call: a removal left behind by one update may even empty the group in the
  middle of the next, which has just taken the other nodes out. What protects a node is
  only that its object has been written meanwhile. RefinesMembership has such changes, and
  the outcome properties and MakeBeforeBreak except the nodes they happen to (`late`);
- an update removes what its list showed, taken before its additions (node.go:321), and so
  may remove a node that another caller has just added;
- UpdateNodeslabel with the empty id compares with all nodes and returns nil without
  having done anything (UpdateOutcome is stated for group ids);
- after a restart that finds several running sandboxes of one pod in the records, the one
  that runs is recorded as stopped, and stays so until something about it changes
  (PollAccurate, DbAgrees);
- the records of an address that a node has left, and those of a history that could not
  be read, stay running until their container is found again, which for one that has
  stopped is never (OnlyOwnRows, DbAgrees);
- two Monitors at one address, of the node that has it and of one that had it before,
  write each other's records and do not learn of it (RowsAgree excepts them, as `apart`);
- a request sent again may give another template, since the volumes are numbered in
  random order, and then all its pods are replaced (`Submit`);
- a memory limit of a multiple of 125 MB is shown as 0, and so is one of 1000 cores, which
  comes back as "1k"; 0.502 cores are sent and shown as 0.501 (NumbersShown);
- one workload with a volume that is not of the host makes the list of all workloads
  panic (OwnListable).

## Proofs

### NodeGroupsProofs

From `IdsAssumption` and `RemovableAssumption`, for any sets of nodes, groups and
callers, finite or not, and any bound on the writes adrift:

- `TypeCorrect`, `CopiesFresh`: `Spec => []TypeOK`, `Spec => []FreshCopies`;
- `Refinement`: `Spec => RefinesMembership`.

The inductive invariant is `IndInv == TypeOK /\ FreshCopies`. TypeOK alone is
inductive only with `ControlOK`, which ties the control state of each caller to its
call and keeps its loops within the nodes the call may touch. Refinement needs
both: an accepted write replaces the whole label map, and it is a change of one
membership only because an accepted copy agrees with the object (FreshCopies), of
a membership the call is entitled to only because of ControlOK. FreshCopies says of each
write adrift that it changes one label of its node: that is the one change that hangs in
the abstract state (`LateJoins`, `LateLeaves`). A new version of an object voids both at
once (`ChangeVoids`); a new version with the same labels, or a write that never arrives,
is a `Lapse`. The step proof has a lemma for each kind of step, naming the abstract action
it maps to.

With one caller (`OneCaller`, as in `groups_solo`) it is proved what a nil result means:

- `AddPromise` (AddOutcome), `RemovePromise` (RemoveOutcome), `UpdatePromise`
  (UpdateOutcome), `MakesFirst` (MakeBeforeBreak).

All of them except the nodes of `late`: `HandleAdriftEffect` says that a write handled late
changes the group at those nodes alone, or adds a node that the call asks for. The
hypothesis is needed: with two callers another call may remove the node that this
one has just added, and nothing in the code prevents it. `ProgressMade` is the invariant:
`Progress` says how far each loop has got. What the loop has done with is as the call
promises, and the rest is in `Pending`; a loop that ends has nothing pending. UpdateNodeslabel
runs one loop after the other, so its second one keeps what the first one achieved: the
wanted nodes are in the group, and one of them is in it before any other is removed.

### MonitorRegistryProofs

From `NoneAssumption`, for any sets:

- `TypeCorrect`, `NoOrphans` (NoOrphanCollectors), `RunningWhenFree`
  (RegisteredRunning), `ReadersSafe` (ReadersSeeBuilt).

None of the last three is inductive: while the lock is held a registered Monitor
may be half built or closing. The invariant adds what its state is at each such
moment, that a poller is in the middle of a Start or a Stop exactly when it holds
the lock, and that a Monitor nobody has registered has no live goroutine, whether
it is fresh or was stopped.

### NodeMonitoringProofs

From `NoneAssumption`, `AddrsAssumption` and `FirstAddrAssumption`, for any sets of
nodes, addresses, pollers, Monitors and containers, and any moves:

- `RegistryImplemented`: `MonitoringSpec => Spec`, so that every theorem about the
  registry is one about `NodeMonitoring`;
- `MonitoringTypeCorrect`, `RecordsAgree` (RowsAgree), `RecordsOwned` (OnlyOwnRows).

The inductive invariant `MonitoringInv` is the registry's `IndInv`, the types of the
records, and `Agreement`: for each registered Monitor that has started and each container,
the container is remembered exactly if it is recorded at the place of the Monitor, or it
is `apart` and then not recorded for the same node at another address. This is inductive
only because two Monitors at work never have the same home: the one that polls is the
registered one (the registry's invariant), so that a write under another's memory is one
of another node, which makes the container apart; and a Monitor that is read its history
has no predecessor still at work, since `Stop` waits for both goroutines before the entry
is deleted.

### ContainerInventoryProofs

From `KindsAssumption`, `PodsAssumption` and `MaxCountAssumption`, for any containers,
sandboxes, pods and names, and any bound on UnMonitorCount:

- `TypeCorrect`, `RowsAreMemory` (DbAgrees);
- if no two pods have one name (`NamesDistinct`): `NoFalseStops` (NoFalseStop),
  `PollsAccurate` (PollAccurate), `InspectionRecorded` (InspectedRecorded).

Rows and memory agree when the Monitor is idle; a poll writes twice before it changes its
memory, and UpdateCurrentContainers computes the second write from the list, the memory
and what it has added itself. The invariant `InventoryInv` says which rows agree with the
memory at each step (`Agreement`): after the first write, the added rows are as they were
written and all others agree. It holds of the rows that are not `stale`. Of the rest of
it, `OneSandbox` and `ListKnown` say what a list of the node can contain, and
`CountsBelow` bounds the counts of a poll that has begun. `inventory_names` shows that the
hypothesis on names is needed: the code keys sandboxes by the name of the pod.

### ContainerStatsProofs

From `NoneAssumption` and `MaxTimeAssumption`, for any sets of containers and readers
and any bound on time:

- `TypeCorrect`, `TestStillHolds` (TestHolds), `Forward` (FiguresForward).

The figures of a container are computed from a pair of samples that collect read under
csLock and uses after it has let go. That they never go back needs the order of three
times: those of the published figures, those of the pair that is in hand, and those of
the history as it is now. The inductive invariant `StatsInv` says that each history is
in order of time, and that the pair lies between the published figures and the
history.

### PodLifeCycleProofs

From `SystemAssumption`, `NoneAssumption` and `MaxDeltasAssumption`, for any sets of
pods and phases and any number of changes that wait:

- `TypeCorrect`, `RowsCorrect` (RowsFollowStore).

The inductive invariant `LifeInv` adds that a process that does not run has an empty
store and nothing waiting: a process that starts has then in step all pods that no open
row is left of.

### WorkloadsProofs

From `KindsAssumption`, `DashedAssumption`, `AbsentAssumption`, `CallersAssumption` and
`MaxAdriftAssumption`, for any names and values, any finite number of callers and any
number of requests adrift:

- `TypeCorrect`, `DottedSafe` (DottedUntouched);
- `Refinement`: `Spec => RefinesStore`.

The invariant `WorkInv` adds that a deletion of a Deployment that the server may yet
handle is of a name without dots, whichever call it is left over from. For the refinement,
a step of the server is a step of the store by the effect that the request stands for. An
update may send a second request, and one effect stands for both, so that falling back to
a creation is a stutter (`Mapped`); requests adrift correspond to their effects one to one
(`EffectInjective`).

### PodTemplatesProofs

From `PortAssumption`, `RequestsAssumption`, `ForeignAssumption` and `NoneAssumption`,
for any requests with finite maps, any workloads of other clients that the server has
taken, any nodes and groups, and any range of ports:

- `TypeCorrect`, `PlacementCorrect` (PlacementShown), `VolumesCorrect` (VolumesShown),
  `NumbersCorrect` (NumbersShown), `ListingsCorrect` (ListingsAgree), `Listable`
  (OwnListable).

The invariant `TemplatesInv` is short: a stored template is one of those that
createPodTemplateSpec makes of the remembered request, for some order of the walks through
Env and Volmap (`Faithful`), and a pod is on the node that its template names or,
if it names none, on one that was in the template's groups when the pod started
(`PodsPlaced`). The rest is about the operators: a walk meets every
key of a finite map once (`Walks`), so a map that is built from the pairs of a walk and has as
many entries as the walk has keys each value under its own key (`AsMapAt`, `PathsDiffer`); the
placement variables come last in the environment, so no variable of the user replaces
them (`EnvEntries`); a port in range is not changed by the narrowing (`NarrowPort`); and
amounts are lost only at a multiple of 1000 cores (`CoresBack`) or of 1000 bytes
(`ThousandOfMegabytes`, `MemoryBack`).

### Model-checked only

The liveness properties (CallReturns in both modules that have it, GetReturns,
LockReleased, NotReadyForgotten, ReadyMonitored, DeletionRecorded) are out of the prover's
reach, as is anything with ENABLED. So are induction over data, and modules that
declare RECURSIVE operators; none does. The outcomes of group calls are proved, and
checked, for one caller.

## Not modelled

- A node that leaves the cluster: nodeslist sees only listed nodes, so that its
  Monitor stays. The model has such nodes ("other") and demands nothing of them.
- The arithmetic of CPU ratios, and counters that wrap.
- Text: the image name, which TrimLeft (deployment.go:269) strips of leading letters
  that occur in the registry's address; the port maps of several ports, which
  deployment.go:296 joins without a separator and pod.go:108 with a space, so that
  ListingsAgree speaks of them as sequences of ports only; Path, which is shown as path and name
  (deployment.go:279). The status and message that ListPod picks.
- ListNodes beyond its selection and its use of Monitors: it formats what the server and
  metricmgr return, and gives zero counts when the list of pods fails.
- Namespaces, events and DeletePod, whose calls are single requests; `k8s/util/pod`,
  which nothing calls; set-up.
- RemoveNodeLabel2, Deleters and ListDaemonSetByLabels, which nothing calls.

## Plan

In this order:

1. done: `NodeGroups` with `GroupMembership`; `MonitorRegistry`; `ContainerInventory`;
   `PodLifeCycle`; `Workloads` with `WorkloadStore`; `ContainerStats`; `PodTemplates`;
   `NodeMonitoring`; and for each of them proofs of the safety and action properties that
   its runs check.
2. The outcomes of group calls for several callers, as far as they hold: for calls on
   groups and nodes that no two callers have in common.
3. The figures of ContainerMetrics with counters of a given width.

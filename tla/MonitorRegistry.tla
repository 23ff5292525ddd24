--------------------------- MODULE MonitorRegistry ---------------------------
(***************************************************************************)
(* Which nodes are monitored: the set of Monitors behind clientLock        *)
(* (monitor/client.go), the two goroutines each Monitor runs               *)
(* (monitor/container.go), the poll of the node list that creates and      *)
(* removes them (k8s/node.go, NodesMonitor) and the calls that read them   *)
(* (ListNodes, ListPod).                                                   *)
(*                                                                         *)
(* A Monitor is built and stopped while clientLock is held, and Stop waits *)
(* for the goroutines, which may be in the middle of an HTTP request.      *)
(* GetMonitor hands out the Monitor and releases the lock, so that readers *)
(* go on using it whatever becomes of it.                                  *)
(***************************************************************************)
CONSTANTS
  Nodes,     \* names of cluster nodes
  Monitors,  \* Monitor objects; one that nobody refers to any more is used again
  Pollers,   \* NodesMonitor loops: NewManager starts one each time it is called
  Readers,   \* concurrent calls of ListNodes and ListPod
  None       \* no Monitor (nil), no holder of the lock, no node

ASSUME NoneAssumption == None \notin Nodes \cup Monitors \cup Pollers

VARIABLES
  cluster,    \* cluster[n]: what a list of the nodes shows of n
  lock,       \* the poller that holds clientLock across steps, or None
  registry,   \* monitorset
  home,       \* home[m]: Nodename
  phase,      \* phase[m]: how far m's life has come
  updater,    \* updater[m]: where InitDataHistory, m's first goroutine, is
  collector,  \* collector[m]: where collect, its second one, is
  pc,         \* pc[p]: where poller p is
  seen,       \* seen[p]: the listed nodes p has yet to visit, with their status
  at,         \* at[p]: the node p visits or visited last, or None
  rpc,        \* rpc[r]: where reader r is
  want,       \* want[r]: the node r asks about or asked about last, or None
  ref         \* ref[r]: the Monitor r uses, or None

monitorVars == <<home, phase, updater, collector>>
pollVars == <<pc, seen, at>>
readVars == <<rpc, want, ref>>
vars == <<cluster, lock, registry, home, phase, updater, collector, pc, seen, at,
          rpc, want, ref>>

\* "ready" needs an internal address too.  "other" is a node that is not in the list,
\* or is ready without an address: the poll does nothing for either.
Statuses == {"ready", "notReady", "other"}

\* A Monitor is "new" until Start has made its fields, then "built" until Stop closes
\* monitorExitCh, which makes it "closed".
Phases == {"new", "built", "closed"}

GoStates == {"none", "info", "select", "work", "done"}

Live(m) == updater[m] \notin {"none", "done"} \/ collector[m] \notin {"none", "done"}

\* m is the Monitor of its node.
Registered(m) == home[m] \in Nodes /\ registry[home[m]] = m

\* Objects the garbage collector may have taken back.  With as many Monitors as nodes
\* and readers there is one whenever a node needs one.
Unused == {m \in Monitors : /\ ~Live(m)
                            /\ \A n \in Nodes : registry[n] # m
                            /\ \A r \in Readers : ref[r] # m}

----------------------------------------------------------------------------
(* The cluster *)

\* A node joins, leaves, becomes ready or stops being ready.
Change(n) ==
  /\ \E s \in Statuses \ {cluster[n]} : cluster' = [cluster EXCEPT ![n] = s]
  /\ UNCHANGED <<lock, registry, monitorVars, pollVars, readVars>>

----------------------------------------------------------------------------
(* The poll: NodesMonitor and nodeslist *)

\* The nodes are listed.  A list that fails changes nothing until the next tick.
List(p) ==
  /\ pc[p] = "idle"
  /\ seen' = [seen EXCEPT ![p] =
                [n \in {k \in Nodes : cluster[k] # "other"} |-> cluster[n]]]
  /\ pc' = [pc EXCEPT ![p] = "scan"]
  /\ UNCHANGED <<cluster, lock, registry, monitorVars, at, readVars>>

\* The loop takes the next node: a ready one is for CreateMonitor, one that is not
\* ready for GetMonitor.
Visit(p) ==
  /\ pc[p] = "scan"
  /\ \E n \in DOMAIN seen[p] :
       /\ at' = [at EXCEPT ![p] = n]
       /\ pc' = [pc EXCEPT ![p] = IF seen[p][n] = "ready" THEN "create" ELSE "get"]
       /\ seen' = [seen EXCEPT ![p] = [k \in DOMAIN @ \ {n} |-> @[k]]]
  /\ UNCHANGED <<cluster, lock, registry, monitorVars, readVars>>

EndScan(p) ==
  /\ pc[p] = "scan" /\ DOMAIN seen[p] = {}
  /\ pc' = [pc EXCEPT ![p] = "idle"]
  /\ UNCHANGED <<cluster, lock, registry, monitorVars, seen, at, readVars>>

\* Seeded fault: the lock is not released on the early return.
CreateKeepsLock(p) ==
  /\ pc[p] = "create" /\ lock = None
  /\ registry[at[p]] # None
  /\ pc' = [pc EXCEPT ![p] = "scan"]
  /\ lock' = p
  /\ UNCHANGED <<cluster, registry, monitorVars, seen, at, readVars>>

\* CreateMonitor takes the lock, finds a Monitor and returns.
CreateExisting(p) ==
  /\ pc[p] = "create" /\ lock = None
  /\ registry[at[p]] # None
  /\ pc' = [pc EXCEPT ![p] = "scan"]
  /\ UNCHANGED <<cluster, lock, registry, monitorVars, seen, at, readVars>>

\* Seeded fault: the lock is released before Start.
CreateUnlocked(p) ==
  /\ pc[p] = "create" /\ lock = None
  /\ registry[at[p]] = None
  /\ \E m \in Unused :
       /\ registry' = [registry EXCEPT ![at[p]] = m]
       /\ home' = [home EXCEPT ![m] = at[p]]
       /\ phase' = [phase EXCEPT ![m] = "new"]
       /\ updater' = [updater EXCEPT ![m] = "none"]
       /\ collector' = [collector EXCEPT ![m] = "none"]
  /\ pc' = [pc EXCEPT ![p] = "starting"]
  /\ UNCHANGED <<cluster, lock, seen, at, readVars>>

\* CreateMonitor takes the lock and enters a new Monitor, none of whose fields for the
\* goroutines and readers is made yet.
Create(p) ==
  /\ pc[p] = "create" /\ lock = None
  /\ registry[at[p]] = None
  /\ \E m \in Unused :
       /\ registry' = [registry EXCEPT ![at[p]] = m]
       /\ home' = [home EXCEPT ![m] = at[p]]
       /\ phase' = [phase EXCEPT ![m] = "new"]
       /\ updater' = [updater EXCEPT ![m] = "none"]
       /\ collector' = [collector EXCEPT ![m] = "none"]
  /\ lock' = p
  /\ pc' = [pc EXCEPT ![p] = "starting"]
  /\ UNCHANGED <<cluster, seen, at, readVars>>

\* Start makes the fields, reads the history from the database and starts the two
\* goroutines; CreateMonitor returns and releases the lock.
Start(p) ==
  /\ pc[p] = "starting"
  /\ LET m == registry[at[p]]
     IN  /\ phase' = [phase EXCEPT ![m] = "built"]
         /\ updater' = [updater EXCEPT ![m] = "info"]
         /\ collector' = [collector EXCEPT ![m] = "select"]
  /\ lock' = None
  /\ pc' = [pc EXCEPT ![p] = "scan"]
  /\ UNCHANGED <<cluster, registry, home, seen, at, readVars>>

\* Seeded fault: the nil check is inverted.
PeekInverted(p) ==
  /\ pc[p] = "get" /\ lock = None
  /\ pc' = [pc EXCEPT ![p] = IF registry[at[p]] # None THEN "scan" ELSE "remove"]
  /\ UNCHANGED <<cluster, lock, registry, monitorVars, seen, at, readVars>>

\* GetMonitor, to see whether there is anything to remove.
Peek(p) ==
  /\ pc[p] = "get" /\ lock = None
  /\ pc' = [pc EXCEPT ![p] = IF registry[at[p]] = None THEN "scan" ELSE "remove"]
  /\ UNCHANGED <<cluster, lock, registry, monitorVars, seen, at, readVars>>

\* RemoveMonitor takes the lock and finds that another poller has removed it.
RemoveMissing(p) ==
  /\ pc[p] = "remove" /\ lock = None
  /\ registry[at[p]] = None
  /\ pc' = [pc EXCEPT ![p] = "scan"]
  /\ UNCHANGED <<cluster, lock, registry, monitorVars, seen, at, readVars>>

\* Seeded fault: Stop waits without having closed the exit channel.
RemoveUnclosed(p) ==
  /\ pc[p] = "remove" /\ lock = None
  /\ registry[at[p]] # None
  /\ lock' = p
  /\ pc' = [pc EXCEPT ![p] = "stopping"]
  /\ UNCHANGED <<cluster, registry, monitorVars, seen, at, readVars>>

\* RemoveMonitor takes the lock and calls Stop, which closes the exit channel.
Remove(p) ==
  /\ pc[p] = "remove" /\ lock = None
  /\ registry[at[p]] # None
  /\ phase' = [phase EXCEPT ![registry[at[p]]] = "closed"]
  /\ lock' = p
  /\ pc' = [pc EXCEPT ![p] = "stopping"]
  /\ UNCHANGED <<cluster, registry, home, updater, collector, seen, at, readVars>>

\* Seeded fault: Stop does not wait for the goroutines.
StoppedEarly(p) ==
  /\ pc[p] = "stopping"
  /\ registry' = [registry EXCEPT ![at[p]] = None]
  /\ lock' = None
  /\ pc' = [pc EXCEPT ![p] = "scan"]
  /\ UNCHANGED <<cluster, monitorVars, seen, at, readVars>>

\* Seeded fault: the stopped Monitor stays in the set.
StoppedKept(p) ==
  /\ pc[p] = "stopping"
  /\ LET m == registry[at[p]] IN updater[m] = "done" /\ collector[m] = "done"
  /\ lock' = None
  /\ pc' = [pc EXCEPT ![p] = "scan"]
  /\ UNCHANGED <<cluster, registry, monitorVars, seen, at, readVars>>

\* Both goroutines have called wg.Done: the Monitor is deleted from the set and the
\* lock released.
Stopped(p) ==
  /\ pc[p] = "stopping"
  /\ LET m == registry[at[p]] IN updater[m] = "done" /\ collector[m] = "done"
  /\ registry' = [registry EXCEPT ![at[p]] = None]
  /\ lock' = None
  /\ pc' = [pc EXCEPT ![p] = "scan"]
  /\ UNCHANGED <<cluster, monitorVars, seen, at, readVars>>

----------------------------------------------------------------------------
(* The goroutines of a Monitor *)

\* InitDataHistory has its MachineInfo, or an error it ignores.
UpdaterInfo(m) ==
  /\ updater[m] = "info"
  /\ updater' = [updater EXCEPT ![m] = "select"]
  /\ UNCHANGED <<cluster, lock, registry, home, phase, collector, pollVars, readVars>>

\* A tick: the machine's and the containers' statistics are fetched.
UpdaterTick(m) ==
  /\ updater[m] = "select"
  /\ updater' = [updater EXCEPT ![m] = "work"]
  /\ UNCHANGED <<cluster, lock, registry, home, phase, collector, pollVars, readVars>>

\* The requests are answered, or fail.
UpdaterWork(m) ==
  /\ updater[m] = "work"
  /\ updater' = [updater EXCEPT ![m] = "select"]
  /\ UNCHANGED <<cluster, lock, registry, home, phase, collector, pollVars, readVars>>

\* The closed channel is chosen.
UpdaterExit(m) ==
  /\ updater[m] = "select" /\ phase[m] = "closed"
  /\ updater' = [updater EXCEPT ![m] = "done"]
  /\ UNCHANGED <<cluster, lock, registry, home, phase, collector, pollVars, readVars>>

\* The same for collect, whose work is ContainerMetrics.
CollectorTick(m) ==
  /\ collector[m] = "select"
  /\ collector' = [collector EXCEPT ![m] = "work"]
  /\ UNCHANGED <<cluster, lock, registry, home, phase, updater, pollVars, readVars>>

CollectorWork(m) ==
  /\ collector[m] = "work"
  /\ collector' = [collector EXCEPT ![m] = "select"]
  /\ UNCHANGED <<cluster, lock, registry, home, phase, updater, pollVars, readVars>>

CollectorExit(m) ==
  /\ collector[m] = "select" /\ phase[m] = "closed"
  /\ collector' = [collector EXCEPT ![m] = "done"]
  /\ UNCHANGED <<cluster, lock, registry, home, phase, updater, pollVars, readVars>>

----------------------------------------------------------------------------
(* Readers *)

\* ListNodes or ListPod comes to a node.
Ask(r) ==
  /\ rpc[r] = "idle"
  /\ \E n \in Nodes : want' = [want EXCEPT ![r] = n]
  /\ rpc' = [rpc EXCEPT ![r] = "get"]
  /\ UNCHANGED <<cluster, lock, registry, monitorVars, pollVars, ref>>

\* Seeded fault: the set is read without the lock.
GetUnlocked(r) ==
  /\ rpc[r] = "get"
  /\ ref' = [ref EXCEPT ![r] = registry[want[r]]]
  /\ rpc' = [rpc EXCEPT ![r] = IF registry[want[r]] = None THEN "idle" ELSE "use"]
  /\ UNCHANGED <<cluster, lock, registry, monitorVars, pollVars, want>>

\* GetMonitor returns the node's Monitor, or nil.
Get(r) ==
  /\ rpc[r] = "get" /\ lock = None
  /\ ref' = [ref EXCEPT ![r] = registry[want[r]]]
  /\ rpc' = [rpc EXCEPT ![r] = IF registry[want[r]] = None THEN "idle" ELSE "use"]
  /\ UNCHANGED <<cluster, lock, registry, monitorVars, pollVars, want>>

\* The reader is through with GetMachineCpu or GetContainerStat.
Drop(r) ==
  /\ rpc[r] = "use"
  /\ ref' = [ref EXCEPT ![r] = None]
  /\ rpc' = [rpc EXCEPT ![r] = "idle"]
  /\ UNCHANGED <<cluster, lock, registry, monitorVars, pollVars, want>>

----------------------------------------------------------------------------
(* Specification *)

Init ==
  /\ cluster \in [Nodes -> Statuses]
  /\ lock = None
  /\ registry = [n \in Nodes |-> None]
  /\ home = [m \in Monitors |-> None]
  /\ phase = [m \in Monitors |-> "new"]
  /\ updater = [m \in Monitors |-> "none"]
  /\ collector = [m \in Monitors |-> "none"]
  /\ pc = [p \in Pollers |-> "idle"]
  /\ seen = [p \in Pollers |-> [n \in {} |-> "other"]]
  /\ at = [p \in Pollers |-> None]
  /\ rpc = [r \in Readers |-> "idle"]
  /\ want = [r \in Readers |-> None]
  /\ ref = [r \in Readers |-> None]

Poll(p) ==
  \/ List(p) \/ Visit(p) \/ EndScan(p)
  \/ CreateExisting(p) \/ Create(p) \/ Start(p)
  \/ Peek(p) \/ RemoveMissing(p) \/ Remove(p) \/ Stopped(p)

Work(m) ==
  \/ UpdaterInfo(m) \/ UpdaterTick(m) \/ UpdaterWork(m) \/ UpdaterExit(m)
  \/ CollectorTick(m) \/ CollectorWork(m) \/ CollectorExit(m)

Read(r) == Ask(r) \/ Get(r) \/ Drop(r)

Next ==
  \/ \E n \in Nodes : Change(n)
  \/ \E p \in Pollers : Poll(p)
  \/ \E m \in Monitors : Work(m)
  \/ \E r \in Readers : Read(r)

Spec == Init /\ [][Next]_vars

\* Goroutines are scheduled and requests are answered or fail.  A select whose two
\* channels are both ready chooses at random, so that a closed exit channel is chosen
\* in the end; and Go's lock is fair to those who wait for it.  The last needs strong
\* fairness, for the lock comes and goes.  A poller is at one action at a time, so that
\* fairness to it is fairness to each of its actions.
PollFairness(p) ==
  /\ WF_vars(List(p) \/ Visit(p) \/ EndScan(p) \/ Start(p) \/ Stopped(p))
  /\ SF_vars(CreateExisting(p) \/ Create(p) \/ Peek(p) \/ RemoveMissing(p) \/ Remove(p))

WorkFairness(m) ==
  /\ WF_vars(UpdaterInfo(m) \/ UpdaterWork(m)) /\ WF_vars(CollectorWork(m))
  /\ SF_vars(UpdaterExit(m)) /\ SF_vars(CollectorExit(m))

Fairness ==
  /\ \A p \in Pollers : PollFairness(p)
  /\ \A m \in Monitors : WorkFairness(m)
  /\ \A r \in Readers : SF_vars(Get(r))

FairSpec == Spec /\ Fairness

----------------------------------------------------------------------------
(* Properties *)

PollStates == {"idle", "scan", "create", "starting", "get", "remove", "stopping"}
ReadStates == {"idle", "get", "use"}

\* The types of the variables; the lock is held between two steps exactly while a
\* Monitor is started or stopped.
TypeOK ==
  /\ cluster \in [Nodes -> Statuses]
  /\ lock \in Pollers \cup {None}
  /\ registry \in [Nodes -> Monitors \cup {None}]
  /\ home \in [Monitors -> Nodes \cup {None}]
  /\ phase \in [Monitors -> Phases]
  /\ updater \in [Monitors -> GoStates]
  /\ collector \in [Monitors -> GoStates \ {"info"}]
  /\ pc \in [Pollers -> PollStates]
  /\ DOMAIN seen = Pollers
  /\ \A p \in Pollers : /\ DOMAIN seen[p] \subseteq Nodes
                        /\ seen[p] \in [DOMAIN seen[p] -> {"ready", "notReady"}]
  /\ at \in [Pollers -> Nodes \cup {None}]
  /\ \A p \in Pollers : pc[p] \notin {"idle", "scan"} => at[p] \in Nodes
  /\ rpc \in [Readers -> ReadStates]
  /\ want \in [Readers -> Nodes \cup {None}]
  /\ ref \in [Readers -> Monitors \cup {None}]
  /\ \A r \in Readers : /\ rpc[r] = "get" => want[r] \in Nodes
                        /\ rpc[r] = "use" <=> ref[r] # None
  /\ \A p \in Pollers : pc[p] \in {"starting", "stopping"} <=> lock = p

\* A goroutine that runs belongs to the Monitor its node is registered with: removing
\* a node, and creating it anew while another poller removes it, leaves no goroutine
\* behind, and no node is ever polled twice at a time.
NoOrphanCollectors == \A m \in Monitors : Live(m) => Registered(m)

\* Whenever the lock is free, a registered Monitor has been started, has not been
\* stopped and has both its goroutines: whoever takes the lock next closes its exit
\* channel at most once and starts it never again.
RegisteredRunning ==
  lock = None =>
    \A n \in Nodes :
      LET m == registry[n]
      IN  m # None => /\ home[m] = n
                      /\ phase[m] = "built"
                      /\ updater[m] \notin {"none", "done"}
                      /\ collector[m] \notin {"none", "done"}

\* A reader never gets a Monitor whose locks and maps are not made yet, although it is
\* in the set before Start (client.go:31-32).
ReadersSeeBuilt == \A r \in Readers : ref[r] # None => phase[ref[r]] # "new"

\* Stop waits for goroutines in the middle of their requests with the lock held, and
\* still the lock comes free.
LockReleased == lock # None ~> lock = None

\* A GetMonitor call returns, however often pollers take the lock.
GetReturns == \A r \in Readers : rpc[r] = "get" ~> rpc[r] # "get"

\* A node that stays not ready is monitored no more in the end, whatever stale list
\* some poller still works on.
NotReadyForgotten ==
  \A n \in Nodes :
    <>[](cluster[n] = "notReady") => <>[](registry[n] = None)

\* A node that stays ready is monitored in the end, for good.
ReadyMonitored ==
  \A n \in Nodes :
    <>[](cluster[n] = "ready") =>
      <>[](registry[n] # None /\ phase[registry[n]] = "built")
==============================================================================

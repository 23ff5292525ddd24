------------------------ MODULE MonitorRegistryProofs ------------------------
(* Theorems about MonitorRegistry, for every set of nodes, Monitors, pollers and *)
(* readers.                                                                      *)
EXTENDS MonitorRegistry, TLAPS

\* The poller that holds the lock is busy with node n.
Busy(n) == lock # None /\ at[lock] = n

\* What is true of the Monitor m that node n is registered with: it runs, unless the
\* holder of the lock has not started it yet or has begun to stop it.
Fits(n, m) ==
  /\ home[m] = n
  /\ \/ /\ ~Busy(n)
        /\ phase[m] = "built"
        /\ updater[m] \notin {"none", "done"}
        /\ collector[m] \notin {"none", "done"}
     \/ /\ Busy(n) /\ pc[lock] = "starting"
        /\ phase[m] = "new"
        /\ updater[m] = "none" /\ collector[m] = "none"
     \/ /\ Busy(n) /\ pc[lock] = "stopping"
        /\ phase[m] = "closed"
        /\ updater[m] # "none" /\ collector[m] # "none"

\* The inductive invariant: it says of the steps in between what RegisteredRunning says
\* of a free lock.
RegistryInv ==
  /\ \A n \in Nodes : registry[n] # None => Fits(n, registry[n])
  /\ lock # None => registry[at[lock]] # None

IndInv == TypeOK /\ RegistryInv /\ NoOrphanCollectors /\ ReadersSeeBuilt

----------------------------------------------------------------------------
(* Consequences of the invariant *)

\* With the lock free, every registered Monitor runs.
LEMMA FreeMeansRunning == IndInv => RegisteredRunning
BY DEF IndInv, RegistryInv, Fits, Busy, RegisteredRunning

\* The initial states satisfy the invariant.
LEMMA InitInv == Init => IndInv
BY NoneAssumption DEF Init, IndInv, TypeOK, RegistryInv, NoOrphanCollectors, ReadersSeeBuilt, Live,
   Statuses, Phases, GoStates, PollStates, ReadStates

\* Steps that touch neither Monitors, nor the registry, nor the lock: the invariant
\* rests on the types alone, as long as the holder of the lock stays where it is.
LEMMA QuietInv ==
  ASSUME IndInv, TypeOK', ReadersSeeBuilt',
         UNCHANGED <<lock, registry, monitorVars>>,
         lock # None => pc'[lock] = pc[lock] /\ at'[lock] = at[lock]
  PROVE  IndInv'
<1>1. RegistryInv'
  BY DEF IndInv, RegistryInv, Fits, Busy, monitorVars
<1>2. NoOrphanCollectors'
  BY DEF IndInv, NoOrphanCollectors, Live, Registered, monitorVars
<1> QED
  BY <1>1, <1>2 DEF IndInv

----------------------------------------------------------------------------
(* The cluster, the poll without the lock, and the readers *)

\* These steps leave Monitors, registry and lock alone.
LEMMA ChangeInv ==
  ASSUME IndInv, NEW n \in Nodes, Change(n)
  PROVE  IndInv'
<1>1. TypeOK' /\ ReadersSeeBuilt'
  BY DEF IndInv, TypeOK, ReadersSeeBuilt, Change, Statuses, monitorVars, pollVars, readVars
<1> QED
  BY <1>1, QuietInv DEF Change, pollVars

\* A poller outside Start and Stop does not hold the lock.
LEMMA QuietPollInv ==
  ASSUME IndInv, NEW p \in Pollers,
         List(p) \/ Visit(p) \/ EndScan(p) \/ CreateExisting(p) \/ Peek(p) \/ RemoveMissing(p)
  PROVE  IndInv'
<1>1. UNCHANGED <<cluster, lock, registry, monitorVars, readVars>>
  BY DEF List, Visit, EndScan, CreateExisting, Peek, RemoveMissing
<1>2. pc[p] \notin {"starting", "stopping"} /\ lock # p
  BY DEF List, Visit, EndScan, CreateExisting, Peek, RemoveMissing, IndInv, TypeOK
<1>3. TypeOK'
  <2>1. CASE List(p)
    <3> DEFINE listed == {k \in Nodes : cluster[k] # "other"}
               news == [n \in listed |-> cluster[n]]
    <3>1. /\ DOMAIN news \subseteq Nodes
          /\ news \in [DOMAIN news -> {"ready", "notReady"}]
      BY DEF IndInv, TypeOK, Statuses
    <3>2. seen' = [seen EXCEPT ![p] = news] /\ pc' = [pc EXCEPT ![p] = "scan"] /\ at' = at
      BY <2>1 DEF List
    <3> HIDE DEF news
    <3> QED
      BY <1>1, <1>2, <3>1, <3>2 DEF IndInv, TypeOK, PollStates, monitorVars, readVars
  <2>2. CASE Visit(p)
    <3>1. PICK n \in DOMAIN seen[p] :
            /\ at' = [at EXCEPT ![p] = n]
            /\ pc' = [pc EXCEPT ![p] = IF seen[p][n] = "ready" THEN "create" ELSE "get"]
            /\ seen' = [seen EXCEPT ![p] = [k \in DOMAIN @ \ {n} |-> @[k]]]
      BY <2>2 DEF Visit
    <3> DEFINE rest == [k \in DOMAIN seen[p] \ {n} |-> seen[p][k]]
    <3>2. /\ DOMAIN rest \subseteq Nodes
          /\ rest \in [DOMAIN rest -> {"ready", "notReady"}]
          /\ n \in Nodes
      BY DEF IndInv, TypeOK
    <3>3. seen' = [seen EXCEPT ![p] = rest]
      BY <3>1
    <3> HIDE DEF rest
    <3> QED
      BY <1>1, <1>2, <3>1, <3>2, <3>3 DEF IndInv, TypeOK, PollStates, monitorVars, readVars
  <2>3. CASE EndScan(p) \/ CreateExisting(p) \/ Peek(p) \/ RemoveMissing(p)
    BY <1>1, <1>2, <2>3 DEF EndScan, CreateExisting, Peek, RemoveMissing, IndInv, TypeOK,
       PollStates, monitorVars, readVars
  <2> QED
    BY <2>1, <2>2, <2>3
<1>4. ReadersSeeBuilt'
  BY <1>1 DEF IndInv, ReadersSeeBuilt, monitorVars, readVars
<1>5. lock # None => pc'[lock] = pc[lock] /\ at'[lock] = at[lock]
  BY <1>2 DEF List, Visit, EndScan, CreateExisting, Peek, RemoveMissing, IndInv, TypeOK
<1> QED
  BY <1>1, <1>3, <1>4, <1>5, QuietInv

\* A reader that asks asks about a node.
LEMMA WantTyped ==
  ASSUME IndInv, NEW r \in Readers, rpc[r] = "get"
  PROVE  want[r] \in Nodes /\ registry[want[r]] \in Monitors \cup {None}
<1>1. want[r] \in Nodes
  BY DEF IndInv, TypeOK
<1> QED
  BY <1>1 DEF IndInv, TypeOK

\* A reader gets a Monitor only when the lock is free, and then it is built.
LEMMA ReadInv ==
  ASSUME IndInv, NEW r \in Readers, Read(r)
  PROVE  IndInv'
<1>1. UNCHANGED <<cluster, lock, registry, monitorVars, pollVars>>
  BY DEF Read, Ask, Get, Drop
<1>2. TypeOK'
  <2>1. CASE Ask(r)
    BY <2>1 DEF Ask, IndInv, TypeOK, ReadStates, monitorVars, pollVars
  <2>2. CASE Get(r)
    <3>1. want[r] \in Nodes /\ registry[want[r]] \in Monitors \cup {None}
      BY <2>2, WantTyped DEF Get
    <3> QED
      BY <2>2, <3>1 DEF Get, IndInv, TypeOK, ReadStates, monitorVars, pollVars
  <2>3. CASE Drop(r)
    BY <2>3 DEF Drop, IndInv, TypeOK, ReadStates, monitorVars, pollVars
  <2> QED
    BY <2>1, <2>2, <2>3 DEF Read
<1>3. ReadersSeeBuilt'
  <2>1. CASE Ask(r)
    BY <2>1 DEF Ask, IndInv, ReadersSeeBuilt, monitorVars
  <2>2. CASE Get(r)
    <3>1. RegisteredRunning
      BY FreeMeansRunning
    <3>2. registry[want[r]] # None => phase[registry[want[r]]] = "built"
      <4>1. lock = None /\ want[r] \in Nodes
        BY <2>2, WantTyped DEF Get
      <4> QED
        BY <3>1, <4>1 DEF RegisteredRunning
    <3> QED
      BY <1>1, <2>2, <3>2 DEF Get, IndInv, TypeOK, ReadersSeeBuilt, monitorVars
  <2>3. CASE Drop(r)
    BY <1>1, <2>3 DEF Drop, IndInv, TypeOK, ReadersSeeBuilt, monitorVars
  <2> QED
    BY <2>1, <2>2, <2>3 DEF Read
<1> QED
  BY <1>1, <1>2, <1>3, QuietInv DEF pollVars

----------------------------------------------------------------------------
(* The poll with the lock *)

\* Taking or releasing the lock keeps the types, if the new Monitor fields have theirs.
LEMMA LockTypes ==
  ASSUME IndInv, NEW p \in Pollers, NEW s \in PollStates,
         pc' = [pc EXCEPT ![p] = s],
         at[p] \in Nodes,
         \/ lock = None /\ lock' = p /\ s \in {"starting", "stopping"}
         \/ lock = p /\ lock' = None /\ s \notin {"starting", "stopping"},
         registry' \in [Nodes -> Monitors \cup {None}],
         home' \in [Monitors -> Nodes \cup {None}],
         phase' \in [Monitors -> Phases],
         updater' \in [Monitors -> GoStates],
         collector' \in [Monitors -> GoStates \ {"info"}],
         UNCHANGED <<cluster, seen, at, readVars>>
  PROVE  TypeOK'
<1>1. p # None
  BY NoneAssumption
<1>2. pc' \in [Pollers -> PollStates] /\ lock' \in Pollers \cup {None}
  BY DEF IndInv, TypeOK
<1>3. \A q \in Pollers : pc'[q] = IF q = p THEN s ELSE pc[q]
  BY DEF IndInv, TypeOK
<1>4. ASSUME NEW q \in Pollers PROVE pc'[q] \in {"starting", "stopping"} <=> lock' = q
  BY <1>1, <1>3, NoneAssumption DEF IndInv, TypeOK
<1>5. ASSUME NEW q \in Pollers PROVE pc'[q] \notin {"idle", "scan"} => at'[q] \in Nodes
  BY <1>3 DEF IndInv, TypeOK
<1> QED
  BY <1>2, <1>4, <1>5 DEF IndInv, TypeOK, readVars

\* CreateMonitor enters an object that nobody refers to.
LEMMA CreateInv ==
  ASSUME IndInv, NEW p \in Pollers, Create(p)
  PROVE  IndInv'
<1>1. PICK m \in Unused :
        /\ registry' = [registry EXCEPT ![at[p]] = m]
        /\ home' = [home EXCEPT ![m] = at[p]]
        /\ phase' = [phase EXCEPT ![m] = "new"]
        /\ updater' = [updater EXCEPT ![m] = "none"]
        /\ collector' = [collector EXCEPT ![m] = "none"]
  BY DEF Create
<1>2. /\ pc[p] = "create" /\ lock = None /\ registry[at[p]] = None
      /\ lock' = p /\ pc' = [pc EXCEPT ![p] = "starting"]
      /\ UNCHANGED <<cluster, seen, at, readVars>>
  BY DEF Create
<1>3. /\ m \in Monitors /\ m # None /\ at[p] \in Nodes /\ p # None
      /\ ~Live(m)
      /\ \A n \in Nodes : registry[n] # m
      /\ \A r \in Readers : ref[r] # m
  BY <1>2, NoneAssumption DEF Unused, IndInv, TypeOK
<1>4. TypeOK'
  <2>1. /\ registry' \in [Nodes -> Monitors \cup {None}]
        /\ home' \in [Monitors -> Nodes \cup {None}]
        /\ phase' \in [Monitors -> Phases]
        /\ updater' \in [Monitors -> GoStates]
        /\ collector' \in [Monitors -> GoStates \ {"info"}]
    BY <1>1, <1>3 DEF IndInv, TypeOK, Phases, GoStates
  <2> QED
    BY <1>2, <1>3, <2>1, LockTypes DEF PollStates
<1>5. RegistryInv'
  <2>1. registry'[at'[lock']] # None
    BY <1>1, <1>2, <1>3 DEF IndInv, TypeOK
  <2>2. ASSUME NEW n \in Nodes, registry'[n] # None
        PROVE  Fits(n, registry[n])'
    <3>1. CASE n = at[p]
      BY <1>1, <1>2, <1>3, <3>1 DEF IndInv, TypeOK, Fits, Busy
    <3>2. CASE n # at[p]
      <4>1. registry'[n] = registry[n] /\ registry[n] # m /\ registry[n] \in Monitors
        BY <1>1, <1>3, <2>2, <3>2 DEF IndInv, TypeOK
      <4>2. Fits(n, registry[n]) /\ ~Busy(n) /\ ~Busy(n)'
        BY <1>2, <2>2, <3>2, <4>1 DEF IndInv, RegistryInv, Busy
      <4> QED
        BY <1>1, <1>2, <4>1, <4>2 DEF Fits, Busy, IndInv, TypeOK
    <3> QED
      BY <3>1, <3>2
  <2> QED
    BY <2>1, <2>2 DEF RegistryInv
<1>6. NoOrphanCollectors'
  <2>1. ASSUME NEW k \in Monitors, Live(k)'
        PROVE  Registered(k)'
    <3>1. k # m /\ Live(k)
      BY <1>1, <2>1 DEF IndInv, TypeOK, Live
    <3>2. home[k] \in Nodes /\ registry[home[k]] = k /\ k # None
      BY <3>1, NoneAssumption DEF IndInv, NoOrphanCollectors, Registered
    <3>3. home'[k] = home[k] /\ home[k] # at[p]
      BY <1>1, <1>2, <3>1, <3>2 DEF IndInv, TypeOK
    <3> QED
      BY <1>1, <3>2, <3>3 DEF IndInv, TypeOK, Registered
  <2> QED
    BY <2>1 DEF NoOrphanCollectors
<1>7. ReadersSeeBuilt'
  BY <1>1, <1>2, <1>3 DEF IndInv, TypeOK, ReadersSeeBuilt, readVars
<1> QED
  BY <1>4, <1>5, <1>6, <1>7 DEF IndInv

\* What the holder of the lock finds: the Monitor of the node it is busy with.
LEMMA HolderFits ==
  ASSUME IndInv, NEW p \in Pollers, pc[p] \in {"starting", "stopping"}
  PROVE  /\ lock = p /\ p # None /\ at[p] \in Nodes /\ Busy(at[p])
         /\ registry[at[p]] \in Monitors
         /\ Fits(at[p], registry[at[p]])
         /\ \A n \in Nodes \ {at[p]} : registry[n] # None =>
               registry[n] # registry[at[p]] /\ ~Busy(n)
BY NoneAssumption DEF IndInv, TypeOK, RegistryInv, Busy, Fits

\* Start turns it into one that runs.
LEMMA StartInv ==
  ASSUME IndInv, NEW p \in Pollers, Start(p)
  PROVE  IndInv'
<1> DEFINE m == registry[at[p]]
<1>1. /\ lock = p /\ p # None /\ at[p] \in Nodes /\ Busy(at[p])
      /\ m \in Monitors
      /\ Fits(at[p], m)
      /\ \A n \in Nodes \ {at[p]} : registry[n] # None => registry[n] # m /\ ~Busy(n)
  BY HolderFits DEF Start
<1>2. /\ phase' = [phase EXCEPT ![m] = "built"]
      /\ updater' = [updater EXCEPT ![m] = "info"]
      /\ collector' = [collector EXCEPT ![m] = "select"]
      /\ lock' = None
      /\ pc' = [pc EXCEPT ![p] = "scan"]
      /\ UNCHANGED <<cluster, registry, home, seen, at, readVars>>
  BY DEF Start
<1>3. \A n \in Nodes : registry[n] # None => registry[n] \in Monitors /\ Fits(n, registry[n])
  BY DEF IndInv, TypeOK, RegistryInv
<1>4. home[m] = at[p]
  BY <1>1 DEF Fits
<1> HIDE DEF m
<1>5. TypeOK'
  <2>1. /\ registry' \in [Nodes -> Monitors \cup {None}]
        /\ home' \in [Monitors -> Nodes \cup {None}]
        /\ phase' \in [Monitors -> Phases]
        /\ updater' \in [Monitors -> GoStates]
        /\ collector' \in [Monitors -> GoStates \ {"info"}]
    BY <1>1, <1>2 DEF IndInv, TypeOK, Phases, GoStates
  <2> QED
    BY <1>1, <1>2, <2>1, LockTypes DEF PollStates
<1>6. RegistryInv'
  <2>1. ASSUME NEW n \in Nodes, registry[n] # None
        PROVE  Fits(n, registry[n])'
    <3>1. CASE n = at[p]
      BY <1>1, <1>2, <1>4, <3>1 DEF IndInv, TypeOK, Fits, Busy, m
    <3>2. CASE n # at[p]
      BY <1>1, <1>2, <1>3, <2>1, <3>2 DEF IndInv, TypeOK, Fits, Busy
    <3> QED
      BY <3>1, <3>2
  <2> QED
    BY <1>2, <2>1 DEF RegistryInv
<1>7. NoOrphanCollectors'
  BY <1>1, <1>2, <1>4 DEF IndInv, TypeOK, NoOrphanCollectors, Live, Registered, m
<1>8. ReadersSeeBuilt'
  BY <1>2 DEF IndInv, TypeOK, ReadersSeeBuilt, readVars
<1> QED
  BY <1>5, <1>6, <1>7, <1>8 DEF IndInv

\* RemoveMonitor begins to stop one that runs.
LEMMA RemoveInv ==
  ASSUME IndInv, NEW p \in Pollers, Remove(p)
  PROVE  IndInv'
<1> DEFINE m == registry[at[p]]
<1>1. /\ pc[p] = "remove" /\ lock = None /\ m # None
      /\ phase' = [phase EXCEPT ![m] = "closed"]
      /\ lock' = p
      /\ pc' = [pc EXCEPT ![p] = "stopping"]
      /\ UNCHANGED <<cluster, registry, home, updater, collector, seen, at, readVars>>
  BY DEF Remove
<1>2. at[p] \in Nodes /\ m \in Monitors /\ p # None
  BY <1>1, NoneAssumption DEF IndInv, TypeOK
<1>3. /\ home[m] = at[p] /\ updater[m] # "none" /\ collector[m] # "none"
      /\ \A n \in Nodes : registry[n] # None =>
            /\ home[registry[n]] = n /\ registry[n] \in Monitors
            /\ phase[registry[n]] = "built"
            /\ updater[registry[n]] \notin {"none", "done"}
            /\ collector[registry[n]] \notin {"none", "done"}
  BY <1>1, <1>2 DEF IndInv, TypeOK, RegistryInv, Fits, Busy
<1> HIDE DEF m
<1>4. TypeOK'
  <2>1. /\ registry' \in [Nodes -> Monitors \cup {None}]
        /\ home' \in [Monitors -> Nodes \cup {None}]
        /\ phase' \in [Monitors -> Phases]
        /\ updater' \in [Monitors -> GoStates]
        /\ collector' \in [Monitors -> GoStates \ {"info"}]
    BY <1>1, <1>2 DEF IndInv, TypeOK, Phases
  <2> QED
    BY <1>1, <1>2, <2>1, LockTypes DEF PollStates
<1>5. RegistryInv'
  <2>1. ASSUME NEW n \in Nodes, registry[n] # None
        PROVE  Fits(n, registry[n])'
    <3>1. CASE n = at[p]
      BY <1>1, <1>2, <1>3, <3>1 DEF IndInv, TypeOK, Fits, Busy, m
    <3>2. CASE n # at[p]
      <4>1. registry[n] # m
        BY <1>3, <2>1, <3>2
      <4> QED
        BY <1>1, <1>2, <1>3, <2>1, <3>2, <4>1 DEF IndInv, TypeOK, Fits, Busy
    <3> QED
      BY <3>1, <3>2
  <2> QED
    BY <1>1, <2>1 DEF RegistryInv, m
<1>6. NoOrphanCollectors'
  BY <1>1 DEF IndInv, NoOrphanCollectors, Live, Registered
<1>7. ReadersSeeBuilt'
  BY <1>1 DEF IndInv, TypeOK, ReadersSeeBuilt, readVars
<1> QED
  BY <1>4, <1>5, <1>6, <1>7 DEF IndInv

\* When both goroutines are done the Monitor may go: nothing of it is live.
LEMMA StoppedInv ==
  ASSUME IndInv, NEW p \in Pollers, Stopped(p)
  PROVE  IndInv'
<1> DEFINE m == registry[at[p]]
<1>1. /\ lock = p /\ p # None /\ at[p] \in Nodes /\ Busy(at[p])
      /\ m \in Monitors
      /\ Fits(at[p], m)
      /\ \A n \in Nodes \ {at[p]} : registry[n] # None => registry[n] # m /\ ~Busy(n)
  BY HolderFits DEF Stopped
<1>2. /\ updater[m] = "done" /\ collector[m] = "done"
      /\ registry' = [registry EXCEPT ![at[p]] = None]
      /\ lock' = None
      /\ pc' = [pc EXCEPT ![p] = "scan"]
      /\ UNCHANGED <<cluster, monitorVars, seen, at, readVars>>
  BY DEF Stopped
<1>3. \A n \in Nodes : registry[n] # None => registry[n] \in Monitors /\ Fits(n, registry[n])
  BY DEF IndInv, TypeOK, RegistryInv
<1> HIDE DEF m
<1>4. TypeOK'
  <2>1. /\ registry' \in [Nodes -> Monitors \cup {None}]
        /\ home' \in [Monitors -> Nodes \cup {None}]
        /\ phase' \in [Monitors -> Phases]
        /\ updater' \in [Monitors -> GoStates]
        /\ collector' \in [Monitors -> GoStates \ {"info"}]
    BY <1>1, <1>2 DEF IndInv, TypeOK, monitorVars
  <2> QED
    BY <1>1, <1>2, <2>1, LockTypes DEF PollStates
<1>5. RegistryInv'
  BY <1>1, <1>2, <1>3 DEF IndInv, TypeOK, RegistryInv, Fits, Busy, monitorVars
<1>6. NoOrphanCollectors'
  BY <1>1, <1>2 DEF IndInv, TypeOK, NoOrphanCollectors, Live, Registered, monitorVars, m
<1>7. ReadersSeeBuilt'
  BY <1>2 DEF IndInv, ReadersSeeBuilt, readVars, monitorVars
<1> QED
  BY <1>4, <1>5, <1>6, <1>7 DEF IndInv

----------------------------------------------------------------------------
(* The goroutines *)

\* A goroutine of m moves on; it comes to its end only after m was closed.
LEMMA WorkInv ==
  ASSUME IndInv, NEW m \in Monitors, Work(m)
  PROVE  IndInv'
<1>1. /\ UNCHANGED <<cluster, lock, registry, home, phase, pollVars, readVars>>
      /\ updater' \in [Monitors -> GoStates]
      /\ collector' \in [Monitors -> GoStates \ {"info"}]
      /\ \A k \in Monitors \ {m} : updater'[k] = updater[k] /\ collector'[k] = collector[k]
      /\ updater[m] \in {"none", "done"} => updater'[m] = updater[m]
      /\ collector[m] \in {"none", "done"} => collector'[m] = collector[m]
      /\ updater'[m] = "none" => updater[m] = "none"
      /\ collector'[m] = "none" => collector[m] = "none"
      /\ phase[m] # "closed" /\ updater'[m] = "done" => updater[m] = "done"
      /\ phase[m] # "closed" /\ collector'[m] = "done" => collector[m] = "done"
  <2> updater \in [Monitors -> GoStates] /\ collector \in [Monitors -> GoStates \ {"info"}]
    BY DEF IndInv, TypeOK
  <2>1. CASE UpdaterInfo(m)
    BY <2>1 DEF UpdaterInfo, GoStates
  <2>2. CASE UpdaterTick(m)
    BY <2>2 DEF UpdaterTick, GoStates
  <2>3. CASE UpdaterWork(m)
    BY <2>3 DEF UpdaterWork, GoStates
  <2>4. CASE UpdaterExit(m)
    BY <2>4 DEF UpdaterExit, GoStates
  <2>5. CASE CollectorTick(m)
    BY <2>5 DEF CollectorTick, GoStates
  <2>6. CASE CollectorWork(m)
    BY <2>6 DEF CollectorWork, GoStates
  <2>7. CASE CollectorExit(m)
    BY <2>7 DEF CollectorExit, GoStates
  <2> QED
    BY <2>1, <2>2, <2>3, <2>4, <2>5, <2>6, <2>7 DEF Work
<1>2. TypeOK'
  BY <1>1 DEF IndInv, TypeOK, pollVars, readVars
<1>3. RegistryInv'
  <2>1. ASSUME NEW n \in Nodes, registry[n] # None
        PROVE  Fits(n, registry[n])'
    <3>1. registry[n] \in Monitors /\ Fits(n, registry[n])
      BY <2>1 DEF IndInv, TypeOK, RegistryInv
    <3>2. CASE registry[n] = m
      BY <1>1, <3>1, <3>2 DEF Fits, Busy, pollVars
    <3>3. CASE registry[n] # m
      BY <1>1, <3>1, <3>3 DEF Fits, Busy, pollVars
    <3> QED
      BY <3>2, <3>3
  <2> QED
    BY <1>1, <2>1 DEF IndInv, RegistryInv, pollVars
<1>4. NoOrphanCollectors'
  BY <1>1 DEF IndInv, NoOrphanCollectors, Live, Registered
<1>5. ReadersSeeBuilt'
  BY <1>1 DEF IndInv, ReadersSeeBuilt, readVars
<1> QED
  BY <1>2, <1>3, <1>4, <1>5 DEF IndInv

----------------------------------------------------------------------------
(* Theorems *)

\* Every step keeps the invariant.
LEMMA NextInv == IndInv /\ [Next]_vars => IndInv'
<1> SUFFICES ASSUME IndInv, [Next]_vars PROVE IndInv'
  OBVIOUS
<1>1. CASE UNCHANGED vars
  BY <1>1 DEF vars, IndInv, TypeOK, RegistryInv, Fits, Busy, NoOrphanCollectors, Live,
              Registered, ReadersSeeBuilt
<1>2. ASSUME NEW n \in Nodes, Change(n) PROVE IndInv'
  BY <1>2, ChangeInv
<1>3. ASSUME NEW p \in Pollers, Poll(p) PROVE IndInv'
  BY <1>3, QuietPollInv, CreateInv, StartInv, RemoveInv, StoppedInv DEF Poll
<1>4. ASSUME NEW m \in Monitors, Work(m) PROVE IndInv'
  BY <1>4, WorkInv
<1>5. ASSUME NEW r \in Readers, Read(r) PROVE IndInv'
  BY <1>5, ReadInv
<1> QED
  BY <1>1, <1>2, <1>3, <1>4, <1>5 DEF Next

\* The invariant holds in every reachable state.
THEOREM Invariance == Spec => []IndInv
BY InitInv, NextInv, PTL DEF Spec

\* The variables keep their types, and the lock is held between steps exactly while a
\* Monitor is started or stopped.
THEOREM TypeCorrect == Spec => []TypeOK
<1>1. IndInv => TypeOK
  BY DEF IndInv
<1> QED
  BY <1>1, Invariance, PTL

\* No goroutine outlives its place in the set: with any number of pollers creating and
\* removing the same node from stale lists, a node is polled by one Monitor at most.
THEOREM NoOrphans == Spec => []NoOrphanCollectors
<1>1. IndInv => NoOrphanCollectors
  BY DEF IndInv
<1> QED
  BY <1>1, Invariance, PTL

\* Whoever takes the lock finds only Monitors that run, so that no exit channel is
\* closed twice and no Monitor is started twice.
THEOREM RunningWhenFree == Spec => []RegisteredRunning
<1>1. IndInv => RegisteredRunning
  BY FreeMeansRunning
<1> QED
  BY <1>1, Invariance, PTL

\* No reader uses a Monitor that is not built, for any number of readers.
THEOREM ReadersSafe == Spec => []ReadersSeeBuilt
<1>1. IndInv => ReadersSeeBuilt
  BY DEF IndInv
<1> QED
  BY <1>1, Invariance, PTL
==============================================================================

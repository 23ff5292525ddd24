------------------------- MODULE NodeMonitoringProofs -------------------------
(* Theorems about NodeMonitoring, for every set of nodes, Monitors, pollers,     *)
(* readers, addresses and containers.  The registry's own invariant comes from   *)
(* MonitorRegistryProofs; here it is used to show who writes the records.        *)
EXTENDS NodeMonitoring, MonitorRegistryProofs

\* Types of what NodeMonitoring adds to the registry.
WorkTypes ==
  /\ address \in [Nodes -> Addrs]
  /\ up \subseteq Containers
  /\ seenAddr \in [Pollers -> [Nodes -> Addrs]]
  /\ Addr \in [Monitors -> Addrs \cup {None}]
  /\ memory \in [Monitors -> SUBSET Containers]
  /\ DOMAIN polled = Monitors
  /\ \A m \in Monitors : polled[m] = None \/ polled[m] \in SUBSET Containers
  /\ rows \in [Containers -> (Nodes \X Addrs) \cup {None}]
  /\ apart \in [Monitors -> SUBSET Containers]
  /\ \A n \in Nodes : registry[n] # None => Addr[registry[n]] \in Addrs

\* What the record of c is, for all that m knows.  One that is not apart is recorded at the
\* place of m if m remembers it, and elsewhere or as stopped if not.  One that is apart is
\* recorded at the place of m, as stopped, or for another node: never for the node of m at
\* another address, since no other Monitor works for that node.
AgreesOn(m, c) ==
  IF c \in apart[m] THEN rows[c] \in {None, Place(m)} \/ rows[c][1] # home[m]
  ELSE c \in memory[m] <=> rows[c] = Place(m)

\* A registered Monitor agrees with the records from its Start on, also while it is being
\* stopped.
Agreement ==
  \A m \in Monitors, c \in Containers :
    Registered(m) /\ phase[m] # "new" => AgreesOn(m, c)

MonitoringInv == IndInv /\ WorkTypes /\ Agreement

----------------------------------------------------------------------------
(* Every step is a step of the registry *)

\* The initial states are initial states of the registry, and a step is one of its
\* steps or leaves it alone.
LEMMA StepImplements == MonitoringNext => [Next]_vars
<1> SUFFICES ASSUME MonitoringNext PROVE [Next]_vars
  OBVIOUS
<1>1. ASSUME NEW n \in Nodes, Move(n) PROVE UNCHANGED vars
  BY <1>1 DEF Move
<1>2. ASSUME NEW p \in Pollers,
             \/ ListAddresses(p) \/ CreateAt(p) \/ StartWithHistory(p)
             \/ StartWithoutHistory(p) \/ Dropped(p)
      PROVE  Next
  BY <1>2 DEF ListAddresses, CreateAt, StartWithHistory, StartWithoutHistory, Dropped, Next, Poll
<1>3. ASSUME NEW m \in Monitors, QueryContainers(m) \/ FinishWork(m)
      PROVE  Next \/ UNCHANGED vars
  BY <1>3 DEF QueryContainers, FinishWork, Next, Work
<1>4. ASSUME NEW p \in Pollers, OtherPoll(p) PROVE Next
  BY <1>4 DEF OtherPoll, Next, Poll
<1>5. ASSUME NEW m \in Monitors, OtherWork(m) PROVE Next
  BY <1>5 DEF OtherWork, Next, Work
<1>6. ASSUME NEW n \in Nodes, ChangeShown(n) PROVE Next
  BY <1>6 DEF ChangeShown, Next
<1>7. ASSUME NEW r \in Readers, Read(r) PROVE Next
  BY <1>7 DEF Next
<1>8. ASSUME NEW c \in Containers, Toggle(c) PROVE UNCHANGED vars
  BY <1>8 DEF Toggle
<1> QED
  BY <1>1, <1>2, <1>3, <1>4, <1>5, <1>6, <1>7, <1>8 DEF MonitoringNext

\* The records add nothing to what the registry can do.
THEOREM RegistryImplemented == MonitoringSpec => Spec
<1>1. MonitoringInit => Init
  BY DEF MonitoringInit
<1>2. [MonitoringNext]_monitoringVars => [Next]_vars
  BY StepImplements DEF monitoringVars
<1> QED
  BY <1>1, <1>2, PTL DEF MonitoringSpec, Spec

----------------------------------------------------------------------------
(* The invariant *)

\* The initial states satisfy it.
LEMMA MonitoringInitInv == MonitoringInit => MonitoringInv
<1> SUFFICES ASSUME MonitoringInit PROVE MonitoringInv
  OBVIOUS
<1>1. IndInv
  BY InitInv DEF MonitoringInit
<1>2. WorkTypes
  BY FirstAddrAssumption DEF MonitoringInit, WorkTypes, Init
<1>3. Agreement
  BY DEF MonitoringInit, Agreement, Init
<1> QED
  BY <1>1, <1>2, <1>3 DEF MonitoringInv

\* A Monitor that has not been entered is registered for no node.
LEMMA UnusedUnregistered ==
  ASSUME NEW m \in Unused, NEW n \in Nodes
  PROVE  registry[n] # m
BY DEF Unused

\* The Monitor in the set for a node has this node as its home.
LEMMA HomeOfRegistered ==
  ASSUME IndInv, NEW n \in Nodes, registry[n] # None
  PROVE  home[registry[n]] = n
BY DEF IndInv, RegistryInv, Fits

\* Two registered Monitors have different homes.
LEMMA MonitorsApart ==
  ASSUME NEW m \in Monitors, NEW k \in Monitors, Registered(m), Registered(k), k # m
  PROVE  home[k] # home[m]
BY DEF Registered

\* A Monitor whose goroutine works is registered for its node, and started.
LEMMA WorkerRegistered ==
  ASSUME MonitoringInv, NEW m \in Monitors, updater[m] = "work"
  PROVE  Registered(m) /\ phase[m] # "new" /\ Addr[m] \in Addrs /\ home[m] \in Nodes
<1>1. Registered(m)
  BY DEF MonitoringInv, IndInv, NoOrphanCollectors, Live
<1>2. m # None
  BY NoneAssumption
<1>3. Fits(home[m], m)
  BY <1>1, <1>2 DEF MonitoringInv, IndInv, RegistryInv, Registered
<1> QED
  BY <1>1, <1>2, <1>3 DEF Fits, Registered, MonitoringInv, WorkTypes

\* The holder of the lock is about to start the Monitor of its node.
LEMMA StarterRegistered ==
  ASSUME IndInv, NEW p \in Pollers, pc[p] = "starting"
  PROVE  /\ at[p] \in Nodes /\ registry[at[p]] \in Monitors
         /\ home[registry[at[p]]] = at[p] /\ Registered(registry[at[p]])
<1>1. lock = p /\ at[p] \in Nodes
  BY DEF IndInv, TypeOK
<1>2. lock # None
  BY <1>1, NoneAssumption
<1>3. registry[at[p]] # None
  BY <1>1, <1>2 DEF IndInv, RegistryInv
<1> QED
  BY <1>1, <1>3, HomeOfRegistered DEF IndInv, TypeOK, Registered

\* The Monitors of the set and what they remember are as before, but for some that have
\* been deleted or closed.
Kept ==
  /\ UNCHANGED <<rows, seenAddr>>
  /\ \A n \in Nodes : registry'[n] # None => registry'[n] = registry[n]
  /\ \A n \in Nodes : registry'[n] # None =>
       LET m == registry'[n]
       IN  /\ home'[m] = home[m] /\ Addr'[m] = Addr[m]
           /\ memory'[m] = memory[m] /\ apart'[m] = apart[m]
           /\ phase'[m] # "new" => phase[m] # "new"

\* Such a step keeps the agreement.
LEMMA KeptAgreement ==
  ASSUME MonitoringInv, IndInv', Kept
  PROVE  Agreement'
<1> SUFFICES ASSUME NEW m \in Monitors, NEW c \in Containers,
                    Registered(m)', phase'[m] # "new"
             PROVE  AgreesOn(m, c)'
  BY DEF Agreement
<1>1. m # None
  BY NoneAssumption
<1>2. home'[m] \in Nodes /\ registry'[home'[m]] = m
  BY DEF Registered
<1>3. /\ registry[home'[m]] = m /\ home'[m] = home[m] /\ Addr'[m] = Addr[m]
      /\ memory'[m] = memory[m] /\ apart'[m] = apart[m] /\ phase[m] # "new"
  BY <1>1, <1>2 DEF Kept
<1>4. Registered(m)
  BY <1>2, <1>3 DEF Registered
<1>5. AgreesOn(m, c)
  BY <1>3, <1>4 DEF MonitoringInv, Agreement
<1> QED
  BY <1>3, <1>5 DEF AgreesOn, Place, Kept

\* Steps that leave the records alone and neither enter, start nor delete a Monitor.
LEMMA OtherKept ==
  ASSUME MonitoringInv, UNCHANGED <<nodeVars, workVars>>,
         \/ \E n \in Nodes : Change(n)
         \/ \E p \in Pollers : OtherPoll(p)
         \/ \E m \in Monitors : OtherWork(m)
         \/ \E r \in Readers : Read(r)
  PROVE  Kept /\ UNCHANGED registry
<1> USE DEF MonitoringInv
<1>1. UNCHANGED <<registry, home>> /\ \A m \in Monitors : phase'[m] # "new" => phase[m] # "new"
  <2>1. CASE \/ \E k \in Nodes : Change(k)
             \/ \E m \in Monitors : OtherWork(m)
             \/ \E r \in Readers : Read(r)
    BY <2>1 DEF Change, OtherWork, UpdaterInfo, UpdaterTick, UpdaterExit, CollectorTick,
       CollectorWork, CollectorExit, Read, Ask, Get, Drop, monitorVars
  <2>2. ASSUME NEW p \in Pollers,
               Visit(p) \/ EndScan(p) \/ CreateExisting(p) \/ Peek(p) \/ RemoveMissing(p)
        PROVE  UNCHANGED <<registry, home, phase>>
    BY <2>2 DEF Visit, EndScan, CreateExisting, Peek, RemoveMissing, monitorVars
  <2>3. ASSUME NEW p \in Pollers, Remove(p)
        PROVE  /\ UNCHANGED <<registry, home>>
               /\ \A m \in Monitors : phase'[m] # "new" => phase[m] # "new"
    <3>1. at[p] \in Nodes /\ registry[at[p]] \in Monitors /\ lock = None
      BY <2>3 DEF Remove, IndInv, TypeOK
    <3>2. phase[registry[at[p]]] # "new"
      BY <2>3, <3>1 DEF Remove, IndInv, RegistryInv, Fits, Busy
    <3> QED
      BY <2>3, <3>1, <3>2 DEF Remove, IndInv, TypeOK
  <2> QED
    BY <2>1, <2>2, <2>3 DEF OtherPoll
<1>2. \A n \in Nodes : registry[n] # None => registry[n] \in Monitors
  BY DEF IndInv, TypeOK
<1> QED
  BY <1>1, <1>2 DEF Kept, workVars

LEMMA OtherInv ==
  ASSUME MonitoringInv, IndInv', UNCHANGED <<nodeVars, workVars>>,
         \/ \E n \in Nodes : Change(n)
         \/ \E p \in Pollers : OtherPoll(p)
         \/ \E m \in Monitors : OtherWork(m)
         \/ \E r \in Readers : Read(r)
  PROVE  WorkTypes' /\ Agreement'
<1>1. Kept /\ UNCHANGED registry
  BY OtherKept
<1>2. Agreement'
  BY <1>1, KeptAgreement
<1> QED
  BY <1>1, <1>2 DEF MonitoringInv, WorkTypes, nodeVars, workVars

\* A deleted Monitor leaves the others as they are.
LEMMA DroppedInv ==
  ASSUME MonitoringInv, IndInv', NEW p \in Pollers, Dropped(p)
  PROVE  WorkTypes' /\ Agreement'
<1> DEFINE m == registry[at[p]]
<1>1. lock = p /\ at[p] \in Nodes /\ lock # None
  BY NoneAssumption DEF Dropped, Stopped, MonitoringInv, IndInv, TypeOK
<1>2. m \in Monitors /\ m # None
  BY <1>1 DEF MonitoringInv, IndInv, TypeOK, RegistryInv
<1>3. registry' = [registry EXCEPT ![at[p]] = None] /\ UNCHANGED <<home, phase>>
  BY DEF Dropped, Stopped, monitorVars
<1>4. /\ Addr' = [Addr EXCEPT ![m] = None]
      /\ memory' = [memory EXCEPT ![m] = {}]
      /\ apart' = [apart EXCEPT ![m] = {}]
      /\ UNCHANGED <<nodeVars, seenAddr, polled, rows>>
  BY DEF Dropped
<1>5. ASSUME NEW n \in Nodes, registry'[n] # None
      PROVE  registry'[n] = registry[n] /\ registry[n] # m /\ registry[n] \in Monitors
  <2>1. n # at[p]
    BY <1>1, <1>3, <1>5 DEF MonitoringInv, IndInv, TypeOK
  <2>2. registry'[n] = registry[n]
    BY <1>3, <2>1 DEF MonitoringInv, IndInv, TypeOK
  <2>3. home[registry[n]] = n /\ home[m] = at[p]
    BY <1>1, <1>2, <1>5, <2>2, HomeOfRegistered DEF MonitoringInv
  <2> QED
    BY <1>5, <2>1, <2>2, <2>3 DEF MonitoringInv, IndInv, TypeOK
<1>6. Kept
  BY <1>2, <1>3, <1>4, <1>5 DEF Kept, MonitoringInv, WorkTypes
<1>7. WorkTypes'
  BY <1>2, <1>4, <1>5 DEF MonitoringInv, WorkTypes, nodeVars
<1> QED
  BY <1>6, <1>7, KeptAgreement

\* A node moves, unseen by the Monitors.
LEMMA MoveInv ==
  ASSUME MonitoringInv, NEW n \in Nodes, Move(n)
  PROVE  WorkTypes' /\ Agreement'
<1>1. UNCHANGED <<vars, up, workVars>> /\ address' \in [Nodes -> Addrs]
  BY DEF Move, MonitoringInv, WorkTypes
<1> QED
  BY <1>1 DEF MonitoringInv, WorkTypes, Agreement, AgreesOn, Registered, Place, workVars, vars,
     monitorVars

\* So does a container.
LEMMA ToggleInv ==
  ASSUME MonitoringInv, NEW c \in Containers, Toggle(c)
  PROVE  WorkTypes' /\ Agreement'
<1>1. UNCHANGED <<vars, address, workVars>> /\ up' \subseteq Containers
  BY DEF Toggle, MonitoringInv, WorkTypes
<1> QED
  BY <1>1 DEF MonitoringInv, WorkTypes, Agreement, AgreesOn, Registered, Place, workVars, vars,
     monitorVars

\* A list changes only what the poller has seen.
LEMMA ListInv ==
  ASSUME MonitoringInv, NEW p \in Pollers, ListAddresses(p)
  PROVE  WorkTypes' /\ Agreement'
<1>1. UNCHANGED <<registry, home, phase, nodeVars, Addr, memory, polled, rows, apart>>
  BY DEF ListAddresses, List, monitorVars
<1>2. seenAddr' = [seenAddr EXCEPT ![p] = address]
  BY DEF ListAddresses
<1> QED
  BY <1>1, <1>2 DEF MonitoringInv, WorkTypes, Agreement, AgreesOn, Registered, Place, nodeVars

\* A Monitor that is entered is "new" and nobody else's.
LEMMA CreateAtInv ==
  ASSUME MonitoringInv, NEW p \in Pollers, CreateAt(p)
  PROVE  WorkTypes' /\ Agreement'
<1>1. at[p] \in Nodes
  BY DEF CreateAt, Create, MonitoringInv, IndInv, TypeOK
<1>2. PICK m \in Unused :
        /\ registry' = [registry EXCEPT ![at[p]] = m]
        /\ home' = [home EXCEPT ![m] = at[p]]
        /\ phase' = [phase EXCEPT ![m] = "new"]
  BY DEF CreateAt, Create
<1>3. m \in Monitors /\ registry'[at[p]] = m
  BY <1>1, <1>2 DEF Unused, MonitoringInv, IndInv, TypeOK
<1>4. /\ Addr' = [Addr EXCEPT ![m] = seenAddr[p][at[p]]]
      /\ memory' = [memory EXCEPT ![m] = {}]
      /\ polled' = [polled EXCEPT ![m] = None]
      /\ apart' = [apart EXCEPT ![m] = {}]
      /\ UNCHANGED <<nodeVars, seenAddr, rows>>
  BY <1>3 DEF CreateAt
<1>5. \A n \in Nodes \ {at[p]} : registry'[n] = registry[n] /\ registry[n] # m
  BY <1>2, UnusedUnregistered DEF MonitoringInv, IndInv, TypeOK
<1>6. seenAddr[p][at[p]] \in Addrs
  BY <1>1 DEF MonitoringInv, WorkTypes
<1>7. WorkTypes'
  <2>1. ASSUME NEW n \in Nodes, registry'[n] # None
        PROVE  Addr'[registry'[n]] \in Addrs
    <3>1. CASE n = at[p]
      BY <1>3, <1>4, <1>6, <3>1 DEF MonitoringInv, WorkTypes
    <3>2. CASE n # at[p]
      BY <1>4, <1>5, <2>1, <3>2 DEF MonitoringInv, WorkTypes, IndInv, TypeOK
    <3> QED
      BY <3>1, <3>2
  <2> QED
    BY <1>3, <1>4, <1>6, <2>1 DEF MonitoringInv, WorkTypes, nodeVars
<1>8. ASSUME NEW k \in Monitors, NEW c \in Containers, Registered(k)', phase'[k] # "new"
      PROVE  AgreesOn(k, c)'
  <2>1. k # m
    BY <1>2, <1>3, <1>8 DEF MonitoringInv, IndInv, TypeOK
  <2>2. home'[k] = home[k] /\ phase'[k] = phase[k]
    BY <1>2, <1>3, <2>1 DEF MonitoringInv, IndInv, TypeOK
  <2>3. home[k] # at[p]
    BY <1>3, <1>8, <2>1, <2>2 DEF Registered
  <2>4. Registered(k)
    BY <1>5, <1>8, <2>2, <2>3 DEF Registered
  <2>5. AgreesOn(k, c)
    BY <1>8, <2>2, <2>4 DEF MonitoringInv, Agreement
  <2>6. memory'[k] = memory[k] /\ Addr'[k] = Addr[k] /\ apart'[k] = apart[k]
    BY <1>3, <1>4, <2>1 DEF MonitoringInv, WorkTypes
  <2> QED
    BY <1>4, <2>2, <2>5, <2>6 DEF AgreesOn, Place
<1> QED
  BY <1>7, <1>8 DEF Agreement

\* A Start leaves the other Monitors as they are, and this one agrees with the records by
\* having read them, or by knowing none.
LEMMA HistoryInv ==
  ASSUME MonitoringInv, NEW p \in Pollers, StartWithHistory(p) \/ StartWithoutHistory(p)
  PROVE  WorkTypes' /\ Agreement'
<1> DEFINE m == registry[at[p]]
<1>1. at[p] \in Nodes /\ m \in Monitors /\ home[m] = at[p] /\ Registered(m) /\ m # None
  BY StarterRegistered, NoneAssumption DEF StartWithHistory, StartWithoutHistory, Start, MonitoringInv
<1>2. /\ phase' = [phase EXCEPT ![m] = "built"]
      /\ UNCHANGED <<registry, home, nodeVars, seenAddr, Addr, polled, rows>>
  BY <1>1 DEF StartWithHistory, StartWithoutHistory, Start
<1>3. /\ \A k \in Monitors \ {m} : memory'[k] = memory[k] /\ apart'[k] = apart[k]
      /\ memory' \in [Monitors -> SUBSET Containers]
      /\ apart' \in [Monitors -> SUBSET Containers]
  BY <1>1 DEF StartWithHistory, StartWithoutHistory, OwnRows, MonitoringInv, WorkTypes
<1>4. \/ memory'[m] = OwnRows(m) /\ apart'[m] = {}
      \/ memory'[m] = {} /\ apart'[m] = OwnRows(m)
  BY <1>1 DEF StartWithHistory, StartWithoutHistory, MonitoringInv, WorkTypes
<1>5. WorkTypes'
  BY <1>2, <1>3 DEF MonitoringInv, WorkTypes, nodeVars
<1>6. ASSUME NEW k \in Monitors, NEW c \in Containers, Registered(k)', phase'[k] # "new"
      PROVE  AgreesOn(k, c)'
  <2>1. CASE k = m
    BY <1>2, <1>4, <2>1 DEF AgreesOn, OwnRows, Place
  <2>2. CASE k # m
    <3>1. Registered(k) /\ phase[k] # "new"
      BY <1>1, <1>2, <1>6, <2>2 DEF Registered, MonitoringInv, IndInv, TypeOK
    <3>2. AgreesOn(k, c)
      BY <3>1 DEF MonitoringInv, Agreement
    <3> QED
      BY <1>2, <1>3, <2>2, <3>2 DEF AgreesOn, Place
  <2> QED
    BY <2>1, <2>2
<1> QED
  BY <1>5, <1>6 DEF Agreement

\* An answer is not in the memory yet.
LEMMA QueryInv ==
  ASSUME MonitoringInv, NEW m \in Monitors, QueryContainers(m)
  PROVE  WorkTypes' /\ Agreement'
<1>1. PICK n \in Nodes : polled' = [polled EXCEPT ![m] = {c \in up : NodeOf[c] = n}]
  BY DEF QueryContainers
<1>2. UNCHANGED <<vars, nodeVars, seenAddr, Addr, memory, rows, apart>>
  BY DEF QueryContainers
<1>3. WorkTypes'
  BY <1>1, <1>2 DEF MonitoringInv, WorkTypes, nodeVars, vars
<1>4. Agreement'
  BY <1>2 DEF MonitoringInv, Agreement, AgreesOn, Registered, Place, vars, monitorVars
<1> QED
  BY <1>3, <1>4

\* What an answer does to the record of c and to what two Monitors know of it.
LEMMA FinishWorkEffect ==
  ASSUME MonitoringInv, NEW m \in Monitors, FinishWork(m), polled[m] # None
  PROVE  /\ memory' = [memory EXCEPT ![m] = polled[m]]
         /\ rows' = Recorded(m) /\ apart' = ApartAfter(m)
         /\ polled[m] \in SUBSET Containers
BY DEF FinishWork, MonitoringInv, WorkTypes

LEMMA FinishWorkInv ==
  ASSUME MonitoringInv, NEW m \in Monitors, FinishWork(m)
  PROVE  WorkTypes' /\ Agreement'
<1>1. Registered(m) /\ phase[m] # "new" /\ Addr[m] \in Addrs /\ home[m] \in Nodes
  BY WorkerRegistered DEF FinishWork, UpdaterWork
<1>2. UNCHANGED <<registry, home, phase, nodeVars, seenAddr, Addr>>
  BY DEF FinishWork, UpdaterWork
<1>3. polled' = [polled EXCEPT ![m] = None]
  BY DEF FinishWork
<1>4. CASE polled[m] = None
  <2>1. UNCHANGED <<memory, rows, apart>>
    BY <1>4 DEF FinishWork
  <2>2. WorkTypes'
    BY <1>2, <1>3, <2>1 DEF MonitoringInv, WorkTypes, nodeVars
  <2>3. Agreement'
    BY <1>2, <2>1 DEF MonitoringInv, Agreement, AgreesOn, Registered, Place
  <2> QED
    BY <2>2, <2>3
<1>5. CASE polled[m] # None
  <2>1. /\ memory' = [memory EXCEPT ![m] = polled[m]]
        /\ rows' = Recorded(m) /\ apart' = ApartAfter(m)
        /\ polled[m] \in SUBSET Containers
    BY <1>5, FinishWorkEffect
  <2>2. Place(m) \in Nodes \X Addrs
    BY <1>1 DEF Place
  <2>3. rows' \in [Containers -> (Nodes \X Addrs) \cup {None}]
    BY <2>1, <2>2 DEF Recorded, MonitoringInv, WorkTypes
  <2>4. apart' \in [Monitors -> SUBSET Containers]
    <3>1. memory[m] \in SUBSET Containers /\ apart \in [Monitors -> SUBSET Containers]
      BY DEF MonitoringInv, WorkTypes
    <3>2. Added(m) \subseteq Containers /\ Gone(m) \subseteq Containers
      BY <2>1, <3>1 DEF Added, Gone
    <3>3. \A k \in Monitors : ApartAfter(m)[k] \in SUBSET Containers
      BY <3>1, <3>2 DEF ApartAfter
    <3> QED
      BY <2>1, <3>3 DEF ApartAfter
  <2>5. WorkTypes'
    BY <1>2, <1>3, <2>1, <2>3, <2>4 DEF MonitoringInv, WorkTypes, nodeVars
  <2>6. ASSUME NEW k \in Monitors, NEW c \in Containers, Registered(k)', phase'[k] # "new"
        PROVE  AgreesOn(k, c)'
    <3>1. Registered(k) /\ phase[k] # "new"
      BY <1>2, <2>6 DEF Registered
    <3>2. AgreesOn(k, c) /\ AgreesOn(m, c)
      BY <1>1, <3>1 DEF MonitoringInv, Agreement
    <3>3. Place(k)' = Place(k) /\ home'[k] = home[k] /\ Place(m) # None
      BY <1>2, <2>2, AddrsAssumption DEF Place
    <3>4. /\ Added(m) = polled[m] \ memory[m] /\ Gone(m) = memory[m] \ polled[m]
          /\ rows'[c] = IF c \in Added(m) THEN Place(m)
                        ELSE IF c \in Gone(m) THEN None ELSE rows[c]
      BY <2>1 DEF Added, Gone, Recorded
    <3>5. CASE k = m
      <4>1. memory'[k] = polled[m] /\ apart'[k] = apart[m] \ (Added(m) \cup Gone(m))
        BY <2>1, <3>5 DEF ApartAfter, MonitoringInv, WorkTypes
      <4> QED
        BY <3>2, <3>3, <3>4, <3>5, <4>1 DEF AgreesOn
    <3>6. CASE k # m
      <4>1. home[k] # home[m]
        BY <1>1, <3>1, <3>6, MonitorsApart
      <4>2. memory'[k] = memory[k] /\ apart'[k] = apart[k] \cup Added(m) \cup Gone(m)
        BY <2>1, <3>1, <3>6, <4>1 DEF ApartAfter, MonitoringInv, WorkTypes
      <4>3. Place(m)[1] # home[k] /\ Place(m) # Place(k)
        BY <4>1 DEF Place
      <4> QED
        BY <3>2, <3>3, <3>4, <4>2, <4>3 DEF AgreesOn
    <3> QED
      BY <3>5, <3>6
  <2> QED
    BY <2>5, <2>6 DEF Agreement
<1> QED
  BY <1>4, <1>5

\* Every step keeps the invariant.
LEMMA MonitoringNextInv ==
  MonitoringInv /\ [MonitoringNext]_monitoringVars => MonitoringInv'
<1> SUFFICES ASSUME MonitoringInv, [MonitoringNext]_monitoringVars PROVE MonitoringInv'
  OBVIOUS
<1>1. IndInv'
  <2>1. [Next]_vars
    BY StepImplements DEF monitoringVars
  <2> QED
    BY <2>1, NextInv DEF MonitoringInv
<1>2. CASE UNCHANGED monitoringVars
  <2>1. UNCHANGED <<vars, nodeVars, workVars>>
    BY <1>2 DEF monitoringVars
  <2>2. WorkTypes'
    BY <2>1 DEF vars, nodeVars, workVars, MonitoringInv, WorkTypes
  <2>3. Agreement'
    BY <2>1 DEF vars, workVars, MonitoringInv, Agreement, AgreesOn, Registered, Place
  <2> QED
    BY <1>1, <2>2, <2>3 DEF MonitoringInv
<1>3. ASSUME NEW n \in Nodes, Move(n) PROVE MonitoringInv'
  BY <1>1, <1>3, MoveInv DEF MonitoringInv
<1>4. ASSUME NEW n \in Nodes, ChangeShown(n) PROVE MonitoringInv'
  BY <1>1, <1>4, OtherInv DEF ChangeShown, MonitoringInv
<1>5. ASSUME NEW c \in Containers, Toggle(c) PROVE MonitoringInv'
  BY <1>1, <1>5, ToggleInv DEF MonitoringInv
<1>6. ASSUME NEW p \in Pollers,
             \/ ListAddresses(p) \/ CreateAt(p) \/ StartWithHistory(p)
             \/ StartWithoutHistory(p) \/ Dropped(p)
      PROVE  MonitoringInv'
  BY <1>1, <1>6, ListInv, CreateAtInv, HistoryInv, DroppedInv DEF MonitoringInv
<1>7. ASSUME NEW m \in Monitors, QueryContainers(m) \/ FinishWork(m)
      PROVE  MonitoringInv'
  BY <1>1, <1>7, QueryInv, FinishWorkInv DEF MonitoringInv
<1>8. CASE /\ \/ \E p \in Pollers : OtherPoll(p)
              \/ \E m \in Monitors : OtherWork(m)
              \/ \E r \in Readers : Read(r)
           /\ UNCHANGED <<nodeVars, workVars>>
  BY <1>1, <1>8, OtherInv DEF MonitoringInv
<1> QED
  BY <1>2, <1>3, <1>4, <1>5, <1>6, <1>7, <1>8 DEF MonitoringNext

----------------------------------------------------------------------------
(* Theorems *)

\* The invariant holds in every reachable state.
THEOREM MonitoringInvariance == MonitoringSpec => []MonitoringInv
BY MonitoringInitInv, MonitoringNextInv, PTL DEF MonitoringSpec

\* The variables keep their types, and every Monitor in the set has an address.
THEOREM MonitoringTypeCorrect == MonitoringSpec => []MonitoringTypeOK
<1>1. MonitoringInv => MonitoringTypeOK
  BY DEF MonitoringInv, WorkTypes, IndInv, MonitoringTypeOK
<1> QED
  BY <1>1, MonitoringInvariance, PTL

\* However Monitors are removed and created, and whatever addresses nodes take from each
\* other, a Monitor at work remembers exactly what is recorded as running for its node and
\* address, but for the records it could not read and those that a Monitor of another node
\* has written since.
THEOREM RecordsAgree == MonitoringSpec => []RowsAgree
<1>1. MonitoringInv => RowsAgree
  <2> SUFFICES ASSUME MonitoringInv, NEW m \in Monitors, phase[m] # "new", Live(m)
               PROVE  OwnRows(m) \ apart[m] = memory[m] \ apart[m]
    BY DEF RowsAgree
  <2>1. Registered(m) /\ memory[m] \subseteq Containers
    BY DEF MonitoringInv, IndInv, NoOrphanCollectors, WorkTypes
  <2>2. \A c \in Containers : AgreesOn(m, c)
    BY <2>1 DEF MonitoringInv, Agreement
  <2> QED
    BY <2>1, <2>2 DEF AgreesOn, OwnRows
<1> QED
  BY <1>1, MonitoringInvariance, PTL

\* A record changes only by a poll of a registered Monitor: to running at the place of
\* this Monitor if its container is in the answer, whatever the record was; else to
\* stopped, and not if it is a record of the same node at another address.
THEOREM RecordsOwned == MonitoringSpec => OnlyOwnRows
<1> DEFINE Owned(c) ==
      \E m \in Monitors :
        /\ Registered(m) /\ updater[m] = "work" /\ polled[m] # None
        /\ IF c \in polled[m] THEN rows'[c] = Place(m)
           ELSE /\ rows'[c] = None
                /\ rows[c] = Place(m) \/ rows[c][1] # home[m]
<1>1. ASSUME MonitoringInv, MonitoringNext, NEW c \in Containers, rows'[c] # rows[c]
      PROVE  Owned(c)
  <2>1. PICK m \in Monitors : FinishWork(m)
    BY <1>1 DEF MonitoringNext, Move, ChangeShown, Toggle, ListAddresses, CreateAt,
       StartWithHistory, StartWithoutHistory, Dropped, QueryContainers, workVars
  <2>2. polled[m] # None
    BY <1>1, <2>1 DEF FinishWork
  <2>3. Registered(m) /\ phase[m] # "new" /\ updater[m] = "work"
    BY <1>1, <2>1, WorkerRegistered DEF FinishWork, UpdaterWork
  <2>4. AgreesOn(m, c)
    BY <1>1, <2>3 DEF MonitoringInv, Agreement
  <2>5. rows'[c] = IF c \in polled[m] \ memory[m] THEN Place(m)
                   ELSE IF c \in memory[m] \ polled[m] THEN None ELSE rows[c]
    BY <1>1, <2>1, <2>2, FinishWorkEffect DEF Recorded, Added, Gone
  <2> QED
    BY <1>1, <2>2, <2>3, <2>4, <2>5 DEF AgreesOn
<1>2. MonitoringInv /\ [MonitoringNext]_monitoringVars
        => [\A c \in Containers : rows'[c] # rows[c] => Owned(c)]_monitoringVars
  BY <1>1
<1> QED
  BY <1>2, MonitoringInvariance, PTL DEF MonitoringSpec, OnlyOwnRows
===============================================================================

--------------------------- MODULE NodeMonitoring ----------------------------
(***************************************************************************)
(* The Monitors of MonitorRegistry at work on the container records that   *)
(* they keep in one database (monitor/container.go).  A Monitor belongs to *)
(* a node and to the address the node had in the list that it was created  *)
(* from.  It reads the records of that node and address when it starts,    *)
(* asks that address for the running containers and writes what has        *)
(* changed since the poll before, each container's record by its id.  The  *)
(* node may get another address, and another node the address it had; its  *)
(* Monitor stays as it is.                                                 *)
(*                                                                         *)
(* Every action is one of MonitorRegistry together with what it does to    *)
(* the records, or leaves the registry as it is.  How one poll computes    *)
(* and writes its differences, with lost writes and crashes between them,  *)
(* is the subject of ContainerInventory; here each write is one step that  *)
(* succeeds, so that what is left is who writes, and when.                 *)
(***************************************************************************)
EXTENDS MonitorRegistry

CONSTANTS
  Addrs,      \* addresses of nodes
  Containers, \* ids of ordinary containers; no two containers have one
  NodeOf,     \* NodeOf[c]: the node that container c is made on
  FirstAddr,  \* FirstAddr[n]: the address node n begins with
  Moves,      \* <<n, a, b>>: node n may come up under b after it was under a
  Shown       \* the statuses that nodes take on

ASSUME AddrsAssumption == None \notin Addrs \cup (Nodes \X Addrs)
ASSUME NodeOfAssumption == NodeOf \in [Containers -> Nodes]
ASSUME FirstAddrAssumption == FirstAddr \in [Nodes -> Addrs]

VARIABLES
  address,   \* address[n]: the internal address in node n's object
  up,        \* the containers that run
  seenAddr,  \* seenAddr[p]: the addresses in the list poller p works on
  Addr,      \* Addr[m]: the address Monitor m was created with, or None
  memory,    \* memory[m]: OrdinaryContainers
  polled,    \* polled[m]: the containers in the answer m works on, or None
  rows,      \* rows[c]: the node and address c is recorded as running at, or None
  apart      \* apart[m]: containers whose record has become another than m knows: m
             \* could not read it, or a Monitor of another node has written it since

nodeVars == <<address, up>>
workVars == <<seenAddr, Addr, memory, polled, rows, apart>>
monitoringVars == <<vars, nodeVars, workVars>>

\* What UpdateCurrentContainers writes into the records of running containers.
Place(m) == <<home[m], Addr[m]>>

\* Seeded fault: the history of the node is read, whatever its address was.
OwnRowsAnywhere(m) == {c \in Containers : rows[c] # None /\ rows[c][1] = home[m]}

\* The records InitHistoryData asks for.
OwnRows(m) == {c \in Containers : rows[c] = Place(m)}

----------------------------------------------------------------------------
(* The nodes *)

\* A node comes up under another address.  It may be that of a node that is down, whose
\* object still shows it.
Move(n) ==
  /\ \E a \in Addrs : /\ <<n, address[n], a>> \in Moves
                    /\ address' = [address EXCEPT ![n] = a]
  /\ UNCHANGED <<vars, up, workVars>>

\* A node changes its status.
ChangeShown(n) ==
  /\ Change(n)
  /\ cluster'[n] \in Shown
  /\ UNCHANGED <<nodeVars, workVars>>

\* A container starts or stops.
Toggle(c) ==
  /\ up' = IF c \in up THEN up \ {c} ELSE up \cup {c}
  /\ UNCHANGED <<vars, address, workVars>>

----------------------------------------------------------------------------
(* The poll of the node list *)

\* The list shows each node with its address.
ListAddresses(p) ==
  /\ List(p)
  /\ seenAddr' = [seenAddr EXCEPT ![p] = address]
  /\ UNCHANGED <<nodeVars, Addr, memory, polled, rows, apart>>

\* CreateMonitor with the address of the list, however old that is.
CreateAt(p) ==
  /\ Create(p)
  /\ LET m == registry'[at[p]]
     IN  /\ Addr' = [Addr EXCEPT ![m] = seenAddr[p][at[p]]]
         /\ memory' = [memory EXCEPT ![m] = {}]
         /\ polled' = [polled EXCEPT ![m] = None]
         /\ apart' = [apart EXCEPT ![m] = {}]
  /\ UNCHANGED <<nodeVars, seenAddr, rows>>

\* Start makes the maps and reads the history before it starts the goroutines.
StartWithHistory(p) ==
  /\ Start(p)
  /\ memory' = [memory EXCEPT ![registry[at[p]]] = OwnRows(registry[at[p]])]
  /\ apart' = [apart EXCEPT ![registry[at[p]]] = {}]
  /\ UNCHANGED <<nodeVars, seenAddr, Addr, polled, rows>>

\* The history cannot be read, and nobody looks at the error: the memory stays empty.
StartWithoutHistory(p) ==
  /\ Start(p)
  /\ memory' = [memory EXCEPT ![registry[at[p]]] = {}]
  /\ apart' = [apart EXCEPT ![registry[at[p]]] = OwnRows(registry[at[p]])]
  /\ UNCHANGED <<nodeVars, seenAddr, Addr, polled, rows>>

\* A Monitor that has stopped is dropped, with what it remembers.
Dropped(p) ==
  /\ Stopped(p)
  /\ LET m == registry[at[p]]
     IN  /\ Addr' = [Addr EXCEPT ![m] = None]
         /\ memory' = [memory EXCEPT ![m] = {}]
         /\ apart' = [apart EXCEPT ![m] = {}]
  /\ UNCHANGED <<nodeVars, seenAddr, polled, rows>>

----------------------------------------------------------------------------
(* UpdateCurrentContainers *)

\* The containers are listed.  Whichever node has the address now answers, if one has.
QueryContainers(m) ==
  /\ updater[m] = "work" /\ polled[m] = None
  /\ \E n \in Nodes : /\ address[n] = Addr[m]
                     /\ polled' = [polled EXCEPT ![m] = {c \in up : NodeOf[c] = n}]
  /\ UNCHANGED <<vars, nodeVars, seenAddr, Addr, memory, rows, apart>>

\* The differences to memory.
Added(m) == polled[m] \ memory[m]
Gone(m) == memory[m] \ polled[m]

\* They are written by the ids of the containers, whatever the records said before: a new
\* container as running at the place of the Monitor, one that is gone as stopped.
Recorded(m) ==
  [c \in Containers |-> IF c \in Added(m) THEN Place(m)
                         ELSE IF c \in Gone(m) THEN None ELSE rows[c]]

\* The Monitors of other nodes learn nothing of it.
ApartAfter(m) ==
  [k \in Monitors |-> IF k = m THEN apart[k] \ (Added(m) \cup Gone(m))
                       ELSE IF Registered(k) /\ home[k] # home[m] THEN apart[k] \cup Added(m) \cup Gone(m)
                       ELSE apart[k]]

\* The answer is recorded and becomes the memory, or there was none.
FinishWork(m) ==
  /\ UpdaterWork(m)
  /\ IF polled[m] = None THEN UNCHANGED <<memory, rows, apart>>
     ELSE /\ rows' = Recorded(m)
          /\ apart' = ApartAfter(m)
          /\ memory' = [memory EXCEPT ![m] = polled[m]]
  /\ polled' = [polled EXCEPT ![m] = None]
  /\ UNCHANGED <<nodeVars, seenAddr, Addr>>

----------------------------------------------------------------------------
(* Specification *)

MonitoringInit ==
  /\ Init
  /\ cluster \in [Nodes -> Shown]
  /\ address = FirstAddr
  /\ up = {}
  /\ seenAddr = [p \in Pollers |-> address]
  /\ Addr = [m \in Monitors |-> None]
  /\ memory = [m \in Monitors |-> {}]
  /\ polled = [m \in Monitors |-> None]
  /\ rows = [c \in Containers |-> None]
  /\ apart = [m \in Monitors |-> {}]

\* The steps of the registry that have nothing to do with records.
OtherPoll(p) ==
  \/ Visit(p) \/ EndScan(p) \/ CreateExisting(p)
  \/ Peek(p) \/ RemoveMissing(p) \/ Remove(p)

OtherWork(m) ==
  \/ UpdaterInfo(m) \/ UpdaterTick(m) \/ UpdaterExit(m)
  \/ CollectorTick(m) \/ CollectorWork(m) \/ CollectorExit(m)

MonitoringNext ==
  \/ \E n \in Nodes : Move(n) \/ ChangeShown(n)
  \/ \E c \in Containers : Toggle(c)
  \/ \E p \in Pollers : \/ ListAddresses(p) \/ CreateAt(p)
                        \/ StartWithHistory(p) \/ StartWithoutHistory(p)
                        \/ Dropped(p)
  \/ \E m \in Monitors : QueryContainers(m) \/ FinishWork(m)
  \/ /\ \/ \E p \in Pollers : OtherPoll(p)
        \/ \E m \in Monitors : OtherWork(m)
        \/ \E r \in Readers : Read(r)
     /\ UNCHANGED <<nodeVars, workVars>>

MonitoringSpec == MonitoringInit /\ [][MonitoringNext]_monitoringVars

----------------------------------------------------------------------------
(* Properties *)

\* The types of the variables; a Monitor that runs has an address.
MonitoringTypeOK ==
  /\ TypeOK
  /\ address \in [Nodes -> Addrs]
  /\ up \subseteq Containers
  /\ seenAddr \in [Pollers -> [Nodes -> Addrs]]
  /\ Addr \in [Monitors -> Addrs \cup {None}]
  /\ memory \in [Monitors -> SUBSET Containers]
  /\ DOMAIN polled = Monitors
  /\ \A m \in Monitors : polled[m] = None \/ polled[m] \in SUBSET Containers
  /\ rows \in [Containers -> (Nodes \X Addrs) \cup {None}]
  /\ apart \in [Monitors -> SUBSET Containers]
  /\ \A n \in Nodes : registry[n] # None => Addr[registry[n]] \in Addrs

\* Between its Start and its Stop a Monitor remembers exactly the containers that are
\* recorded as running for its node and address, so that the differences to memory that a
\* poll writes are the differences to the database.  The records it could not read when it
\* started are excepted, and those that a Monitor of another node, which asks the same
\* address, has written by their ids since.  Nobody else writes them: not the Monitor of the
\* node that was removed before, whose last poll may still have been under way when the
\* removal began, nor one that another poller creates.
RowsAgree ==
  \A m \in Monitors :
    phase[m] # "new" /\ Live(m) => OwnRows(m) \ apart[m] = memory[m] \ apart[m]

\* A record changes only by a poll with an answer of the Monitor registered for its node.
\* A container of the answer is recorded at the place of this Monitor, wherever it was
\* recorded before; any other is recorded as stopped, and never if it is recorded for the
\* same node at another address.  So what is left under an address that the node had
\* before runs on in the records until the container is found at the new one.
OnlyOwnRows ==
  [][\A c \in Containers :
       rows'[c] # rows[c] =>
         \E m \in Monitors :
           /\ Registered(m) /\ updater[m] = "work" /\ polled[m] # None
           /\ IF c \in polled[m] THEN rows'[c] = Place(m)
              ELSE /\ rows'[c] = None
                   /\ rows[c] = Place(m) \/ rows[c][1] # home[m]
    ]_monitoringVars
==============================================================================

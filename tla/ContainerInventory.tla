-------------------------- MODULE ContainerInventory -------------------------
(***************************************************************************)
(* The container life-cycle records that one Monitor keeps                 *)
(* (monitor/container.go): every poll lists the running containers of the  *)
(* node, compares them with the Monitor's memory of the poll before,       *)
(* writes the differences to the database and makes the list the new       *)
(* memory.  Errors of the database are ignored.  A Monitor that starts     *)
(* fills its memory from the database.                                     *)
(*                                                                         *)
(* A pod has a sandbox, and ordinary containers.  The Monitor knows the    *)
(* sandboxes by the name of their pod, whatever its namespace.             *)
(***************************************************************************)
EXTENDS Naturals

CONSTANTS
  Sandboxes,   \* ids of containers of docker type "podsandbox"
  Containers,  \* ids of containers of docker type "container"
  Names,       \* pod names
  PodOf,       \* PodOf[i]: the pod, with its namespace, that container i is part of
  NameOf,      \* NameOf[d]: the name of pod d
  MaxCount     \* bound on UnMonitorCount

Ids == Sandboxes \cup Containers

ASSUME KindsAssumption == Sandboxes \cap Containers = {}
ASSUME PodsAssumption == \A i \in Ids : NameOf[PodOf[i]] \in Names
ASSUME MaxCountAssumption == MaxCount \in Nat

VARIABLES
  up,         \* the containers that run on the node
  db,         \* db[i]: the row of container i, or NoRow
  pc,         \* where the Monitor is; "down" when there is none
  ordinary,   \* OrdinaryContainers
  sandboxes,  \* CurrentPodSandboxs: by pod name, the id and what is known of it
  listed,     \* the containers in the list of this poll or the last
  current,    \* currentpodsanboxs of this poll: by pod name, the id and Inspected
  stale       \* rows that the memory does not know of, or knows otherwise: their last
              \* write was lost, Start stopped them and remembers them, or Start could
              \* not read them

memoryVars == <<ordinary, sandboxes>>
vars == <<up, db, pc, ordinary, sandboxes, listed, current, stale>>

Rows == [running : BOOLEAN, inspected : BOOLEAN, count : 0..MaxCount]
NoRow == [running |-> FALSE]
NoNames == [k \in {} |-> {}]

Name(i) == NameOf[PodOf[i]]
Running == {i \in Ids : db[i].running}

\* The row of an ordinary container, whose Inspected is always set.
ContainerRow(running) == [running |-> running, inspected |-> TRUE, count |-> 0]

SandboxRow(running, s) == [running |-> running, inspected |-> s.inspected, count |-> s.count]

\* db.UpdateContainerInfo: each of the rows is written or, since nobody looks at the
\* error, lost.
Write(rows) ==
  \E written \in SUBSET DOMAIN rows :
    /\ db' = [i \in Ids |-> IF i \in written THEN rows[i] ELSE db[i]]
    /\ stale' = (stale \ written) \cup (DOMAIN rows \ written)

----------------------------------------------------------------------------
(* The node *)

\* A container starts.  A pod has one running sandbox at most.
Run(i) ==
  /\ i \notin up
  /\ i \in Sandboxes => \A j \in Sandboxes \cap up : PodOf[j] # PodOf[i]
  /\ up' = up \cup {i}
  /\ UNCHANGED <<db, pc, memoryVars, listed, current, stale>>

Halt(i) ==
  /\ i \in up
  /\ up' = up \ {i}
  /\ UNCHANGED <<db, pc, memoryVars, listed, current, stale>>

----------------------------------------------------------------------------
(* UpdateCurrentContainers *)

\* Seeded fault: the containers of the poll before are looked at.
HasContainerBefore(k) == \E c \in ordinary : Name(c) = k

\* Some ordinary container of a pod of this name runs.
HasContainer(k) == \E c \in Containers \cap up : Name(c) = k

\* The containers are listed.  Of several sandboxes of one name, the last in the list
\* is kept.  A request that fails changes nothing until the next tick.
Query ==
  /\ pc = "idle"
  /\ \A k \in DOMAIN sandboxes : sandboxes[k].count < MaxCount
  /\ listed' = up
  /\ \E last \in [{Name(s) : s \in Sandboxes \cap up} -> Sandboxes \cap up] :
       /\ \A k \in DOMAIN last : Name(last[k]) = k
       /\ current' = [k \in DOMAIN last |-> [id |-> last[k], inspected |-> HasContainer(k)]]
  /\ pc' = "added"
  /\ UNCHANGED <<up, db, memoryVars, stale>>

\* Containers and pod names that were not in memory.
NewContainers == (listed \cap Containers) \ ordinary
NewNames == DOMAIN current \ DOMAIN sandboxes

\* What this poll finds of the sandbox of name k: its UnMonitorCount goes on from the
\* memory of the name, one up if the sandbox is the same and has no container.
Found(k) ==
  [id        |-> current[k].id,
   inspected |-> current[k].inspected,
   count     |-> IF k \in NewNames THEN 0
                 ELSE IF current[k].id = sandboxes[k].id /\ ~current[k].inspected
                 THEN sandboxes[k].count + 1
                 ELSE sandboxes[k].count]

\* The rows of the first write.
Additions ==
  [i \in NewContainers \cup {current[k].id : k \in NewNames} |->
     IF i \in Containers THEN ContainerRow(TRUE) ELSE SandboxRow(TRUE, Found(Name(i)))]

\* The new containers and sandboxes are written.
WriteAdded ==
  /\ pc = "added"
  /\ Write(Additions)
  /\ pc' = "updated"
  /\ UNCHANGED <<up, memoryVars, listed, current>>

\* Seeded fault: a sandbox that took another's place is not told apart from it.
GoneSame == {k \in DOMAIN sandboxes : k \notin DOMAIN current}

\* Names whose sandbox in memory is gone or has been replaced.
Gone ==
  {k \in DOMAIN sandboxes : k \in DOMAIN current => current[k].id # sandboxes[k].id}

\* Seeded fault: a sandbox that has a container again is not written.
AgainWithout ==
  {k \in DOMAIN current \ NewNames :
     current[k].id # sandboxes[k].id \/ ~current[k].inspected}

\* Names whose sandbox is written again: it is new to the name, or is or was without a
\* container.
Again ==
  {k \in DOMAIN current \ NewNames :
     \/ current[k].id # sandboxes[k].id
     \/ ~current[k].inspected
     \/ ~sandboxes[k].inspected}

\* Seeded fault: the object in memory is written in place of the one found.
UpdatesOfMemory ==
  [i \in (ordinary \ listed) \cup {sandboxes[k].id : k \in Gone \cup Again} |->
     IF i \in Containers THEN ContainerRow(FALSE) ELSE SandboxRow(FALSE, sandboxes[Name(i)])]

\* The rows of the second write: stopped containers, stopped sandboxes, and the
\* sandboxes that are written again.
Updates ==
  [i \in (ordinary \ listed) \cup {sandboxes[k].id : k \in Gone}
           \cup {current[k].id : k \in Again} |->
     CASE i \in Containers -> ContainerRow(FALSE)
       [] i \in {current[k].id : k \in Again} -> SandboxRow(TRUE, Found(Name(i)))
       [] OTHER -> SandboxRow(FALSE, sandboxes[Name(i)])]

\* Seeded fault: the docker type is not looked at.
WriteUpdatedAllTypes ==
  /\ pc = "updated"
  /\ Write(Updates)
  /\ ordinary' = listed
  /\ sandboxes' = [k \in DOMAIN current |-> Found(k)]
  /\ pc' = "idle"
  /\ UNCHANGED <<up, listed, current>>

\* The differences are written and the list becomes the memory.
WriteUpdated ==
  /\ pc = "updated"
  /\ Write(Updates)
  /\ ordinary' = listed \cap Containers
  /\ sandboxes' = [k \in DOMAIN current |-> Found(k)]
  /\ pc' = "idle"
  /\ UNCHANGED <<up, listed, current>>

----------------------------------------------------------------------------
(* Start and stop *)

\* Sandboxes that share a name with another in the history.
Duplicates ==
  {s \in Sandboxes \cap Running :
     \E t \in (Sandboxes \cap Running) \ {s} : Name(t) = Name(s)}

\* InitHistoryData: the rows of running containers fill the memory.  Of several
\* sandboxes of one name the first is kept, and all of them are written as stopped;
\* the write of the first goes by the key of another and may be lost like any other.  When
\* it arrives, the row of a sandbox that may well run is stopped, and the memory has it as
\* running; when another one's is lost, its row runs on and no memory has it.
Load ==
  /\ pc = "down"
  /\ ordinary' = Containers \cap Running
  /\ \E first \in [{Name(s) : s \in Sandboxes \cap Running} -> Sandboxes \cap Running],
        written \in SUBSET Duplicates :
       /\ \A k \in DOMAIN first : Name(first[k]) = k
       /\ sandboxes' = [k \in DOMAIN first |->
            [id |-> first[k], inspected |-> db[first[k]].inspected,
             count |-> db[first[k]].count]]
       /\ db' = [i \in Ids |-> IF i \in written THEN [db[i] EXCEPT !.running = FALSE] ELSE db[i]]
       /\ stale' = {i \in Duplicates : i \in written <=> i \in {first[k] : k \in DOMAIN first}}
  /\ pc' = "idle"
  /\ listed' = {}
  /\ current' = NoNames
  /\ UNCHANGED up

\* The history cannot be read.  Nobody looks at the error, and the Monitor starts with an
\* empty memory: the rows that are running are out of its sight until it writes them.
LoadFailed ==
  /\ pc = "down"
  /\ ordinary' = {}
  /\ sandboxes' = NoNames
  /\ stale' = Running
  /\ pc' = "idle"
  /\ listed' = {}
  /\ current' = NoNames
  /\ UNCHANGED <<up, db>>

\* The Monitor is stopped, or the process dies, between any two steps: the rows stay.
Stop ==
  /\ pc # "down"
  /\ pc' = "down"
  /\ ordinary' = {}
  /\ sandboxes' = NoNames
  /\ listed' = {}
  /\ current' = NoNames
  /\ stale' = {}
  /\ UNCHANGED <<up, db>>

Init ==
  /\ up = {}
  /\ db = [i \in Ids |-> NoRow]
  /\ pc = "down"
  /\ ordinary = {}
  /\ sandboxes = NoNames
  /\ listed = {}
  /\ current = NoNames
  /\ stale = {}

Next ==
  \/ \E i \in Ids : Run(i) \/ Halt(i)
  \/ Query \/ WriteAdded \/ WriteUpdated
  \/ Load \/ LoadFailed \/ Stop

Spec == Init /\ [][Next]_vars

----------------------------------------------------------------------------
(* Properties *)

Remembered == ordinary \cup {sandboxes[k].id : k \in DOMAIN sandboxes}

\* The types of the variables; memory and poll know each sandbox by its own pod's name,
\* and keep the two docker types apart.
TypeOK ==
  /\ up \subseteq Ids
  /\ db \in [Ids -> Rows \cup {NoRow}]
  /\ pc \in {"down", "idle", "added", "updated"}
  /\ ordinary \subseteq Containers
  /\ DOMAIN sandboxes \subseteq Names
  /\ \A k \in DOMAIN sandboxes : /\ sandboxes[k].id \in Sandboxes
                                 /\ Name(sandboxes[k].id) = k
                                 /\ sandboxes[k].inspected \in BOOLEAN
                                 /\ sandboxes[k].count \in 0..MaxCount
  /\ listed \subseteq Ids
  /\ DOMAIN current \subseteq Names
  /\ \A k \in DOMAIN current : /\ current[k].id \in Sandboxes \cap listed
                               /\ Name(current[k].id) = k
                               /\ current[k].inspected \in BOOLEAN
  /\ stale \subseteq Ids

\* Between two polls the database and the memory agree on every row but those whose
\* last write was lost, that Start could not read, or that it has stopped and yet
\* remembers as running (the kept one of several sandboxes of one name): the same
\* containers run, with the same count and inspection mark.  So a restart, which has only
\* the rows, goes on where the Monitor was.
DbAgrees ==
  pc = "idle" =>
    \A i \in Ids \ stale :
      /\ i \in Running <=> i \in Remembered
      /\ i \in Sandboxes /\ i \in Remembered =>
           /\ db[i].inspected = sandboxes[Name(i)].inspected
           /\ db[i].count = sandboxes[Name(i)].count

\* At the end of a poll a row says that its container runs if and only if it was in the
\* list.  The exceptions are rows whose last write was lost, rows that Start could not
\* read, and, after a restart that found several running sandboxes of one pod, the one
\* that was kept: InitHistoryData records it as stopped (container.go:199-207), and it
\* stays so although it runs, until some poll writes it again.  No other row is wrong,
\* whatever was lost or not yet written before a restart that read the history.
PollAccurate ==
  [][pc = "updated" /\ pc' = "idle" =>
       \A i \in Ids \ stale' : i \in Running' <=> i \in listed']_vars

\* A poll stops no container that is in its list.
NoFalseStop ==
  [][(pc = "added" \/ pc = "updated") =>
       \A i \in listed : i \in Running => i \in Running']_vars

\* A listed pod with a listed container is recorded as inspected by the end of the
\* poll ("if the container of the current pod runs too, mark the pod as monitored",
\* container.go:257), with the exceptions of PollAccurate.
InspectedRecorded ==
  [][pc = "updated" /\ pc' = "idle" =>
       \A s \in (Sandboxes \cap listed) \ stale' :
         (\E c \in Containers \cap listed : PodOf[c] = PodOf[s]) =>
           s \in Running' /\ db'[s].inspected]_vars
==============================================================================

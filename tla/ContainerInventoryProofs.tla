----------------------- MODULE ContainerInventoryProofs -----------------------
(* Theorems about ContainerInventory, for any containers, sandboxes, pods and names,  *)
(* and any bound on UnMonitorCount.                                                   *)
EXTENDS ContainerInventory, TLAPS

\* A pod has one running sandbox at most.
OneSandbox == \A s, t \in Sandboxes \cap up : PodOf[s] = PodOf[t] => s = t

\* What a poll makes of its list: each sandbox has its name among the current ones, and
\* a name is inspected if a container of the list has it.
ListKnown ==
  /\ \A s, t \in Sandboxes \cap listed : PodOf[s] = PodOf[t] => s = t
  /\ \A s \in Sandboxes \cap listed : Name(s) \in DOMAIN current
  /\ \A k \in DOMAIN current :
       current[k].inspected <=> \E c \in Containers \cap listed : Name(c) = k

\* The counts may go on by one in a poll that has begun.
CountsBelow ==
  pc \in {"added", "updated"} => \A k \in DOMAIN sandboxes : sandboxes[k].count < MaxCount

\* The row of i is what the memory says.
AgreesAt(i) ==
  /\ i \in Running <=> i \in Remembered
  /\ i \in Sandboxes /\ i \in Remembered =>
       /\ db[i].inspected = sandboxes[Name(i)].inspected
       /\ db[i].count = sandboxes[Name(i)].count

\* Rows and memory agree before the first write of a poll, and after it but for the rows
\* that it added.
Agreement ==
  /\ pc \in {"idle", "added"} => \A i \in Ids \ stale : AgreesAt(i)
  /\ pc = "updated" =>
       \A i \in Ids \ stale :
         IF i \in DOMAIN Additions THEN db[i] = Additions[i] ELSE AgreesAt(i)

InventoryInv == TypeOK /\ OneSandbox /\ ListKnown /\ CountsBelow /\ Agreement

----------------------------------------------------------------------------
(* Rows *)

LEMMA ContainerRowType ==
  ASSUME NEW running \in BOOLEAN
  PROVE  ContainerRow(running) \in Rows
BY MaxCountAssumption DEF ContainerRow, Rows

LEMMA SandboxRowType ==
  ASSUME NEW running \in BOOLEAN, NEW s, s.inspected \in BOOLEAN, s.count \in 0..MaxCount
  PROVE  SandboxRow(running, s) \in Rows
BY DEF SandboxRow, Rows

\* What a write does, whatever is lost of it: a row it is asked to write has what was
\* asked for or is stale, and no other row is changed.
LEMMA Written ==
  ASSUME TypeOK, NEW rows, DOMAIN rows \subseteq Ids, \A i \in DOMAIN rows : rows[i] \in Rows,
         Write(rows)
  PROVE  /\ db' \in [Ids -> Rows \cup {NoRow}]
         /\ stale' \subseteq Ids
         /\ \A i \in Ids \ DOMAIN rows : db'[i] = db[i] /\ (i \in stale' <=> i \in stale)
         /\ \A i \in DOMAIN rows :
              db'[i] = rows[i] \/ (db'[i] = db[i] /\ i \in stale')
<1>1. PICK written \in SUBSET DOMAIN rows :
        /\ db' = [i \in Ids |-> IF i \in written THEN rows[i] ELSE db[i]]
        /\ stale' = (stale \ written) \cup (DOMAIN rows \ written)
  BY DEF Write
<1>2. db \in [Ids -> Rows \cup {NoRow}] /\ stale \subseteq Ids
  BY DEF TypeOK
<1>3. db' \in [Ids -> Rows \cup {NoRow}]
  <2>1. \A i \in Ids : (IF i \in written THEN rows[i] ELSE db[i]) \in Rows \cup {NoRow}
    BY <1>2
  <2> QED
    BY <1>1, <2>1
<1>4. stale' \subseteq Ids
  BY <1>1, <1>2
<1>5. ASSUME NEW i \in Ids \ DOMAIN rows
      PROVE  db'[i] = db[i] /\ (i \in stale' <=> i \in stale)
  BY <1>1
<1>6. ASSUME NEW i \in DOMAIN rows
      PROVE  db'[i] = rows[i] \/ (db'[i] = db[i] /\ i \in stale')
  BY <1>1
<1> QED
  BY <1>3, <1>4, <1>5, <1>6

\* What a poll finds of a sandbox.
LEMMA FoundType ==
  ASSUME TypeOK, CountsBelow, pc \in {"added", "updated"}, NEW k \in DOMAIN current
  PROVE  /\ Found(k).id = current[k].id
         /\ Found(k).inspected = current[k].inspected /\ Found(k).inspected \in BOOLEAN
         /\ Found(k).count \in 0..MaxCount
BY MaxCountAssumption DEF Found, TypeOK, CountsBelow, NewNames

\* The rows of the first write are of what runs and is not remembered.
LEMMA AdditionsResult ==
  ASSUME TypeOK, CountsBelow, pc \in {"added", "updated"}
  PROVE  /\ DOMAIN Additions \subseteq Ids
         /\ \A i \in DOMAIN Additions : Additions[i] \in Rows /\ Additions[i].running
         /\ \A i \in Containers : i \in DOMAIN Additions <=> i \in listed /\ i \notin ordinary
         /\ \A i \in Sandboxes :
              /\ i \in DOMAIN Additions <=> /\ Name(i) \in DOMAIN current \ DOMAIN sandboxes
                                            /\ i = current[Name(i)].id
              /\ i \in DOMAIN Additions => /\ Additions[i].inspected = Found(Name(i)).inspected
                                           /\ Additions[i].count = Found(Name(i)).count
<1>1. DOMAIN Additions = NewContainers \cup {current[k].id : k \in NewNames}
  BY DEF Additions
<1>2. ASSUME NEW k \in NewNames
      PROVE  k \in DOMAIN current /\ current[k].id \in Sandboxes /\ Name(current[k].id) = k
  BY DEF NewNames, TypeOK
<1>3. ASSUME NEW i \in Containers
      PROVE  i \in DOMAIN Additions <=> i \in listed /\ i \notin ordinary
  BY <1>1, <1>2, KindsAssumption DEF NewContainers
<1>4. ASSUME NEW i \in Sandboxes
      PROVE  i \in DOMAIN Additions <=> /\ Name(i) \in DOMAIN current \ DOMAIN sandboxes
                                        /\ i = current[Name(i)].id
  BY <1>1, <1>2, KindsAssumption DEF NewContainers, NewNames
<1>5. ASSUME NEW i \in Containers, i \in DOMAIN Additions
      PROVE  Additions[i] \in Rows /\ Additions[i].running
  BY <1>5, ContainerRowType DEF Additions, ContainerRow
<1>6. ASSUME NEW i \in Sandboxes, i \in DOMAIN Additions
      PROVE  /\ Additions[i] \in Rows /\ Additions[i].running
             /\ Additions[i].inspected = Found(Name(i)).inspected
             /\ Additions[i].count = Found(Name(i)).count
  <2>1. i \notin Containers /\ Name(i) \in DOMAIN current
    BY <1>4, <1>6, KindsAssumption
  <2>2. Additions[i] = SandboxRow(TRUE, Found(Name(i)))
    BY <1>6, <2>1 DEF Additions
  <2>3. Found(Name(i)).inspected \in BOOLEAN /\ Found(Name(i)).count \in 0..MaxCount
    BY <2>1, FoundType
  <2> DEFINE s == Found(Name(i))
  <2>4. s.inspected \in BOOLEAN /\ s.count \in 0..MaxCount
    BY <2>3
  <2> HIDE DEF s
  <2>5. SandboxRow(TRUE, s) \in Rows
    BY <2>4 DEF SandboxRow, Rows
  <2>6. /\ SandboxRow(TRUE, s).running
        /\ SandboxRow(TRUE, s).inspected = s.inspected
        /\ SandboxRow(TRUE, s).count = s.count
    BY DEF SandboxRow
  <2> QED
    BY <2>2, <2>5, <2>6 DEF s
<1>7. DOMAIN Additions \subseteq Ids
  BY <1>1, <1>2 DEF NewContainers, Ids
<1> QED
  BY <1>3, <1>4, <1>5, <1>6, <1>7 DEF Ids

\* The rows of the second write: what is remembered and not listed any more is stopped,
\* and a listed sandbox is written as found if its name was remembered otherwise.
LEMMA UpdatesResult ==
  ASSUME TypeOK, CountsBelow, pc \in {"added", "updated"}
  PROVE  /\ DOMAIN Updates \subseteq Ids
         /\ \A i \in DOMAIN Updates : Updates[i] \in Rows
         /\ \A i \in Containers :
              /\ i \in DOMAIN Updates <=> i \in ordinary /\ i \notin listed
              /\ i \in DOMAIN Updates => ~Updates[i].running
         /\ \A i \in Sandboxes :
              /\ i \in DOMAIN Updates <=>
                   \/ Name(i) \in Gone /\ i = sandboxes[Name(i)].id
                   \/ Name(i) \in Again /\ i = current[Name(i)].id
              /\ Name(i) \in Again /\ i = current[Name(i)].id =>
                   /\ Updates[i].running
                   /\ Updates[i].inspected = Found(Name(i)).inspected
                   /\ Updates[i].count = Found(Name(i)).count
              /\ i \in DOMAIN Updates /\ ~(Name(i) \in Again /\ i = current[Name(i)].id) =>
                   ~Updates[i].running
<1>1. DOMAIN Updates = (ordinary \ listed) \cup {sandboxes[k].id : k \in Gone}
                         \cup {current[k].id : k \in Again}
  BY DEF Updates
<1>2. ASSUME NEW k \in Gone
      PROVE  k \in DOMAIN sandboxes /\ sandboxes[k].id \in Sandboxes /\ Name(sandboxes[k].id) = k
  BY DEF Gone, TypeOK
<1>3. ASSUME NEW k \in Again
      PROVE  k \in DOMAIN current /\ current[k].id \in Sandboxes /\ Name(current[k].id) = k
  BY DEF Again, TypeOK
<1>4. ordinary \subseteq Containers
  BY DEF TypeOK
<1>5. ASSUME NEW i \in Containers
      PROVE  i \in DOMAIN Updates <=> i \in ordinary /\ i \notin listed
  BY <1>1, <1>2, <1>3, KindsAssumption
<1>6. ASSUME NEW i \in Sandboxes
      PROVE  /\ i \in DOMAIN Updates <=>
                  \/ Name(i) \in Gone /\ i = sandboxes[Name(i)].id
                  \/ Name(i) \in Again /\ i = current[Name(i)].id
             /\ i \in {current[k].id : k \in Again} <=>
                  Name(i) \in Again /\ i = current[Name(i)].id
  BY <1>1, <1>2, <1>3, <1>4, KindsAssumption
<1>7. ASSUME NEW i \in Containers, i \in DOMAIN Updates
      PROVE  Updates[i] \in Rows /\ ~Updates[i].running
  <2>1. Updates[i] = ContainerRow(FALSE)
    BY <1>7, <1>3, KindsAssumption DEF Updates
  <2>2. ContainerRow(FALSE) \in Rows
    BY ContainerRowType
  <2>3. ~ContainerRow(FALSE).running
    BY DEF ContainerRow
  <2> QED
    BY <2>1, <2>2, <2>3
<1>8. ASSUME NEW i \in Sandboxes, Name(i) \in Again, i = current[Name(i)].id
      PROVE  /\ Updates[i] \in Rows /\ Updates[i].running
             /\ Updates[i].inspected = Found(Name(i)).inspected
             /\ Updates[i].count = Found(Name(i)).count
  <2>1. i \notin Containers /\ i \in DOMAIN Updates /\ i \in {current[k].id : k \in Again}
    BY <1>6, <1>8, KindsAssumption
  <2>2. Updates[i] = SandboxRow(TRUE, Found(Name(i)))
    BY <2>1 DEF Updates
  <2> DEFINE s == Found(Name(i))
  <2>3. s.inspected \in BOOLEAN /\ s.count \in 0..MaxCount
    BY <1>3, <1>8, FoundType
  <2> HIDE DEF s
  <2>4. SandboxRow(TRUE, s) \in Rows
    BY <2>3 DEF SandboxRow, Rows
  <2>5. /\ SandboxRow(TRUE, s).running
        /\ SandboxRow(TRUE, s).inspected = s.inspected
        /\ SandboxRow(TRUE, s).count = s.count
    BY DEF SandboxRow
  <2> QED
    BY <2>2, <2>4, <2>5 DEF s
<1>9. ASSUME NEW i \in Sandboxes, i \in DOMAIN Updates,
             ~(Name(i) \in Again /\ i = current[Name(i)].id)
      PROVE  Updates[i] \in Rows /\ ~Updates[i].running
  <2>1. i \notin Containers /\ i \notin {current[k].id : k \in Again}
    BY <1>6, <1>9, KindsAssumption
  <2>2. Updates[i] = SandboxRow(FALSE, sandboxes[Name(i)])
    BY <1>9, <2>1 DEF Updates
  <2>3. sandboxes[Name(i)].inspected \in BOOLEAN /\ sandboxes[Name(i)].count \in 0..MaxCount
    BY <1>2, <1>6, <1>9 DEF TypeOK
  <2> DEFINE s == sandboxes[Name(i)]
  <2> HIDE DEF s
  <2>4. SandboxRow(FALSE, s) \in Rows /\ ~SandboxRow(FALSE, s).running
    BY <2>3 DEF SandboxRow, Rows, s
  <2> QED
    BY <2>2, <2>4 DEF s
<1>10. DOMAIN Updates \subseteq Ids
  BY <1>1, <1>2, <1>3, <1>4 DEF Ids
<1>11. ASSUME NEW i \in DOMAIN Updates PROVE Updates[i] \in Rows
  BY <1>7, <1>8, <1>9, <1>10 DEF Ids
<1> QED
  BY <1>5, <1>6, <1>7, <1>8, <1>9, <1>10, <1>11

----------------------------------------------------------------------------
(* The node, and the start and stop of the Monitor *)

LEMMA InitInv == Init => InventoryInv
<1> SUFFICES ASSUME Init PROVE InventoryInv
  OBVIOUS
<1>1. TypeOK
  BY DEF Init, TypeOK, NoNames
<1>2. OneSandbox /\ ListKnown /\ CountsBelow /\ Agreement
  BY DEF Init, OneSandbox, ListKnown, CountsBelow, Agreement, NoNames
<1> QED
  BY <1>1, <1>2 DEF InventoryInv

\* A step that leaves the Monitor and its rows alone.
LEMMA SameMonitor ==
  ASSUME InventoryInv, UNCHANGED <<db, pc, ordinary, sandboxes, listed, current, stale>>,
         up' \subseteq Ids, OneSandbox'
  PROVE  InventoryInv'
<1>1. TypeOK' /\ ListKnown' /\ CountsBelow'
  BY DEF InventoryInv, TypeOK, ListKnown, CountsBelow
<1>2. Additions' = Additions
  BY DEF Additions, NewContainers, NewNames, Found
<1>3. \A i : AgreesAt(i)' <=> AgreesAt(i)
  BY DEF AgreesAt, Running, Remembered
<1>4. Agreement'
  BY <1>2, <1>3 DEF InventoryInv, Agreement
<1> QED
  BY <1>1, <1>4 DEF InventoryInv

LEMMA NodeInv ==
  ASSUME InventoryInv, NEW i \in Ids, Run(i) \/ Halt(i)
  PROVE  InventoryInv'
<1>1. UNCHANGED <<db, pc, ordinary, sandboxes, listed, current, stale>>
  BY DEF Run, Halt, memoryVars
<1>2. up' \subseteq Ids /\ OneSandbox'
  BY DEF Run, Halt, InventoryInv, TypeOK, OneSandbox
<1> QED
  BY <1>1, <1>2, SameMonitor

LEMMA StopInv == ASSUME InventoryInv, Stop PROVE InventoryInv'
<1>1. TypeOK'
  BY DEF Stop, InventoryInv, TypeOK, NoNames
<1>2. OneSandbox' /\ ListKnown' /\ CountsBelow' /\ Agreement'
  BY DEF Stop, InventoryInv, OneSandbox, ListKnown, CountsBelow, Agreement, NoNames
<1> QED
  BY <1>1, <1>2 DEF InventoryInv

\* A Monitor that could not read its history remembers nothing, and every row that runs
\* is stale.
LEMMA LoadFailedInv == ASSUME InventoryInv, LoadFailed PROVE InventoryInv'
<1>1. TypeOK'
  BY DEF LoadFailed, InventoryInv, TypeOK, NoNames, Running
<1>2. OneSandbox' /\ ListKnown' /\ CountsBelow'
  BY DEF LoadFailed, InventoryInv, OneSandbox, ListKnown, CountsBelow, NoNames
<1>3. Remembered' = {} /\ pc' = "idle"
  BY DEF LoadFailed, Remembered, NoNames
<1>4. Running' = Running /\ stale' = Running
  BY DEF LoadFailed, Running
<1>5. Agreement'
  BY <1>3, <1>4 DEF Agreement, AgreesAt
<1> QED
  BY <1>1, <1>2, <1>5 DEF InventoryInv

\* A Monitor that has read its history remembers the rows that run, but for sandboxes
\* that share their name.
LEMMA LoadInv == ASSUME InventoryInv, Load PROVE InventoryInv'
<1> DEFINE known == Sandboxes \cap Running
<1>1. PICK first \in [{Name(s) : s \in known} -> known], written \in SUBSET Duplicates :
        /\ \A k \in DOMAIN first : Name(first[k]) = k
        /\ sandboxes' = [k \in DOMAIN first |->
             [id |-> first[k], inspected |-> db[first[k]].inspected, count |-> db[first[k]].count]]
        /\ db' = [i \in Ids |-> IF i \in written THEN [db[i] EXCEPT !.running = FALSE] ELSE db[i]]
        /\ stale' = {i \in Duplicates : i \in written <=> i \in {first[k] : k \in DOMAIN first}}
  BY DEF Load
<1>2. db' = [i \in Ids |-> IF i \in written THEN [db[i] EXCEPT !.running = FALSE] ELSE db[i]]
  BY <1>1
<1>3. /\ pc' = "idle" /\ ordinary' = Containers \cap Running
      /\ stale' = {i \in Duplicates : i \in written <=> i \in {first[k] : k \in DOMAIN first}}
      /\ listed' = {} /\ current' = NoNames /\ UNCHANGED up
  BY <1>1 DEF Load
<1>4. \A i \in Running : i \in Ids /\ db[i] \in Rows
  BY DEF Running, InventoryInv, TypeOK, NoRow
<1>5. db' \in [Ids -> Rows \cup {NoRow}]
  <2>1. ASSUME NEW i \in Ids
        PROVE  (IF i \in written THEN [db[i] EXCEPT !.running = FALSE] ELSE db[i])
                 \in Rows \cup {NoRow}
    <3>1. CASE i \in written
      <4>1. db[i] \in Rows
        BY <1>4, <3>1 DEF Duplicates
      <4> QED
        BY <3>1, <4>1 DEF Rows
    <3>2. CASE i \notin written
      BY <3>2 DEF InventoryInv, TypeOK
    <3> QED
      BY <3>1, <3>2
  <2> QED
    BY <1>2, <2>1
<1>6. /\ DOMAIN sandboxes' = {Name(s) : s \in known}
      /\ \A k \in DOMAIN sandboxes' :
           /\ sandboxes'[k].id = first[k] /\ first[k] \in known /\ Name(first[k]) = k
           /\ sandboxes'[k].inspected = db[first[k]].inspected
           /\ sandboxes'[k].count = db[first[k]].count
  BY <1>1
<1>7. \A k \in DOMAIN sandboxes' : /\ sandboxes'[k].inspected \in BOOLEAN
                                   /\ sandboxes'[k].count \in 0..MaxCount
  BY <1>4, <1>6 DEF Rows
<1>8. TypeOK'
  <2>1. DOMAIN sandboxes' \subseteq Names
    BY <1>6, PodsAssumption DEF Name, Ids
  <2>2. Duplicates \subseteq Ids
    BY DEF Duplicates, Ids
  <2> QED
    BY <1>3, <1>5, <1>6, <1>7, <2>1, <2>2 DEF InventoryInv, TypeOK, NoNames
<1>9. OneSandbox' /\ ListKnown' /\ CountsBelow'
  BY <1>3 DEF InventoryInv, OneSandbox, ListKnown, CountsBelow, NoNames
<1>10. ASSUME NEW i \in Ids \ stale' PROVE AgreesAt(i)'
  <2>1. (i \in Running' <=> db'[i].running) /\ (i \in Running <=> db[i].running)
    BY DEF Running
  <2>2. CASE i \in Containers
    <3>1. i \notin Sandboxes /\ db'[i] = db[i]
      BY <1>2, <2>2, KindsAssumption DEF Duplicates
    <3> QED
      BY <1>3, <1>6, <2>1, <2>2, <3>1 DEF AgreesAt, Remembered
  <2>3. CASE i \in Sandboxes
    <3>1. i \in Remembered' <=> i \in known /\ first[Name(i)] = i
      BY <1>3, <1>6, <2>3, KindsAssumption DEF Remembered
    <3>2. CASE i \in Duplicates
      <4>1. i \in Running /\ db[i] \in Rows
        BY <1>4, <3>2 DEF Duplicates
      <4>2. i \in written <=> ~(i \in {first[k] : k \in DOMAIN first})
        BY <1>3, <1>10, <3>2
      <4>3. i \in {first[k] : k \in DOMAIN first} <=> first[Name(i)] = i
        BY <1>1, <2>3, <4>1
      <4>4. CASE i \in written
        <5>1. ~db'[i].running
          BY <1>2, <4>1, <4>4 DEF Rows
        <5> QED
          BY <2>1, <3>1, <4>2, <4>3, <4>4, <5>1 DEF AgreesAt
      <4>5. CASE i \notin written
        <5>1. db'[i] = db[i]
          BY <1>2, <4>5
        <5>2. Name(i) \in DOMAIN sandboxes' /\ first[Name(i)] = i
          BY <1>6, <2>3, <4>1, <4>2, <4>3, <4>5
        <5> QED
          BY <1>6, <2>1, <2>3, <3>1, <4>1, <5>1, <5>2 DEF AgreesAt
      <4> QED
        BY <4>4, <4>5
    <3>3. CASE i \in Running /\ i \notin Duplicates
      <4>1. Name(i) \in DOMAIN sandboxes' /\ db'[i] = db[i]
        BY <1>2, <1>6, <2>3, <3>3
      <4>2. first[Name(i)] = i
        BY <1>6, <2>3, <3>3, <4>1 DEF Duplicates
      <4> QED
        BY <1>6, <2>1, <2>3, <3>1, <3>3, <4>1, <4>2 DEF AgreesAt
    <3>4. CASE i \notin Running
      <4>1. db'[i] = db[i]
        BY <1>2, <3>4 DEF Duplicates
      <4> QED
        BY <2>1, <3>1, <3>4, <4>1 DEF AgreesAt
    <3> QED
      BY <3>2, <3>3, <3>4
  <2> QED
    BY <2>2, <2>3 DEF Ids
<1>11. Agreement'
  BY <1>3, <1>10 DEF Agreement
<1> QED
  BY <1>8, <1>9, <1>11 DEF InventoryInv

----------------------------------------------------------------------------
(* The poll *)

\* The list is taken of what runs now.
LEMMA QueryInv == ASSUME InventoryInv, Query PROVE InventoryInv'
<1>1. PICK last \in [{Name(s) : s \in Sandboxes \cap up} -> Sandboxes \cap up] :
        /\ \A k \in DOMAIN last : Name(last[k]) = k
        /\ current' = [k \in DOMAIN last |-> [id |-> last[k], inspected |-> HasContainer(k)]]
  BY DEF Query
<1>2. /\ pc = "idle" /\ pc' = "added" /\ listed' = up
      /\ \A k \in DOMAIN sandboxes : sandboxes[k].count < MaxCount
      /\ UNCHANGED <<up, db, ordinary, sandboxes, stale>>
  BY DEF Query, memoryVars
<1>3. /\ DOMAIN current' = {Name(s) : s \in Sandboxes \cap up}
      /\ \A k \in DOMAIN current' :
           /\ current'[k].id = last[k] /\ last[k] \in Sandboxes \cap up /\ Name(last[k]) = k
           /\ current'[k].inspected = HasContainer(k)
  BY <1>1
<1>4. TypeOK'
  <2>1. DOMAIN current' \subseteq Names
    BY <1>3, PodsAssumption DEF Name, Ids
  <2>2. \A k \in DOMAIN current' : /\ current'[k].id \in Sandboxes \cap listed'
                                   /\ Name(current'[k].id) = k
                                   /\ current'[k].inspected \in BOOLEAN
    BY <1>2, <1>3 DEF HasContainer
  <2> QED
    BY <1>2, <2>1, <2>2 DEF InventoryInv, TypeOK
<1>5. OneSandbox' /\ ListKnown'
  BY <1>2, <1>3 DEF InventoryInv, OneSandbox, ListKnown, HasContainer
<1>6. CountsBelow'
  BY <1>2 DEF CountsBelow
<1>7. \A i : AgreesAt(i)' <=> AgreesAt(i)
  BY <1>2 DEF AgreesAt, Running, Remembered
<1>8. Agreement'
  BY <1>2, <1>7 DEF InventoryInv, Agreement
<1> QED
  BY <1>4, <1>5, <1>6, <1>8 DEF InventoryInv

\* The first write leaves what is remembered alone.
LEMMA WriteAddedInv == ASSUME InventoryInv, WriteAdded PROVE InventoryInv'
<1>1. /\ pc = "added" /\ pc' = "updated" /\ Write(Additions)
      /\ UNCHANGED <<up, ordinary, sandboxes, listed, current>>
  BY DEF WriteAdded, memoryVars
<1>2. TypeOK /\ CountsBelow
  BY DEF InventoryInv
<1>3. /\ DOMAIN Additions \subseteq Ids
      /\ \A i \in DOMAIN Additions : Additions[i] \in Rows
  BY <1>1, <1>2, AdditionsResult
<1>4. /\ db' \in [Ids -> Rows \cup {NoRow}]
      /\ stale' \subseteq Ids
      /\ \A i \in Ids \ DOMAIN Additions : db'[i] = db[i] /\ (i \in stale' <=> i \in stale)
      /\ \A i \in DOMAIN Additions :
           db'[i] = Additions[i] \/ (db'[i] = db[i] /\ i \in stale')
  BY <1>1, <1>2, <1>3, Written
<1>5. Additions' = Additions
  BY <1>1 DEF Additions, NewContainers, NewNames, Found
<1>6. ASSUME NEW i \in Ids \ stale'
      PROVE  IF i \in DOMAIN Additions THEN db'[i] = Additions[i] ELSE AgreesAt(i)'
  <2>1. CASE i \in DOMAIN Additions
    BY <1>4, <1>6, <2>1
  <2>2. CASE i \notin DOMAIN Additions
    <3>1. AgreesAt(i) /\ db'[i] = db[i]
      BY <1>1, <1>4, <1>6, <2>2 DEF InventoryInv, Agreement
    <3>2. (i \in Running' <=> i \in Running) /\ Remembered' = Remembered
      BY <1>1, <3>1 DEF Running, Remembered
    <3> QED
      BY <1>1, <2>2, <3>1, <3>2 DEF AgreesAt
  <2> QED
    BY <2>1, <2>2
<1>7. TypeOK'
  BY <1>1, <1>4 DEF InventoryInv, TypeOK
<1>8. OneSandbox' /\ ListKnown' /\ CountsBelow'
  BY <1>1 DEF InventoryInv, OneSandbox, ListKnown, CountsBelow
<1>9. Agreement'
  BY <1>1, <1>5, <1>6 DEF Agreement
<1> QED
  BY <1>7, <1>8, <1>9 DEF InventoryInv

\* The second write, of each row.
LEMMA UpdatedAgrees ==
  ASSUME InventoryInv, WriteUpdated, NEW i \in Ids \ stale'
  PROVE  AgreesAt(i)'
<1>1. /\ pc = "updated" /\ Write(Updates)
      /\ ordinary' = listed \cap Containers
      /\ sandboxes' = [k \in DOMAIN current |-> Found(k)]
      /\ UNCHANGED <<listed, current>>
  BY DEF WriteUpdated
<1>2. TypeOK /\ CountsBelow
  BY DEF InventoryInv
<1>3. /\ DOMAIN Updates \subseteq Ids
      /\ \A j \in DOMAIN Updates : Updates[j] \in Rows
  BY <1>1, <1>2, UpdatesResult
<1>4. IF i \in DOMAIN Updates THEN db'[i] = Updates[i] ELSE db'[i] = db[i] /\ i \notin stale
  BY <1>1, <1>2, <1>3, Written
<1>5. i \notin stale =>
        IF i \in DOMAIN Additions THEN db[i] = Additions[i] ELSE AgreesAt(i)
  BY <1>1 DEF InventoryInv, Agreement
<1>6. \A k \in DOMAIN current : /\ sandboxes'[k].id = current[k].id
                                /\ sandboxes'[k].inspected = Found(k).inspected
                                /\ sandboxes'[k].count = Found(k).count
  BY <1>1, <1>2, FoundType
<1>7. DOMAIN sandboxes' = DOMAIN current
  BY <1>1
<1>8. (i \in Running' <=> db'[i].running) /\ (i \in Running <=> db[i].running)
  BY DEF Running
<1>9. CASE i \in Containers
  <2>1. i \notin Sandboxes
    BY <1>9, KindsAssumption
  <2>2. i \in Remembered' <=> i \in listed
    BY <1>1, <1>2, <1>6, <1>7, <1>9, <2>1 DEF Remembered, TypeOK
  <2>3. i \in Remembered <=> i \in ordinary
    BY <1>2, <2>1 DEF Remembered, TypeOK
  <2>4. CASE i \in DOMAIN Updates
    <3>1. i \notin listed /\ ~Updates[i].running
      BY <1>1, <1>2, <1>9, <2>4, UpdatesResult
    <3> QED
      BY <1>4, <1>8, <2>1, <2>2, <2>4, <3>1 DEF AgreesAt
  <2>5. CASE i \notin DOMAIN Updates
    <3>1. ~(i \in ordinary /\ i \notin listed)
      BY <1>1, <1>2, <1>9, <2>5, UpdatesResult
    <3>2. CASE i \in DOMAIN Additions
      <4>1. i \in listed /\ Additions[i].running
        BY <1>1, <1>2, <1>9, <3>2, AdditionsResult
      <4> QED
        BY <1>4, <1>5, <1>8, <2>1, <2>2, <2>5, <3>2, <4>1 DEF AgreesAt
    <3>3. CASE i \notin DOMAIN Additions
      <4>1. ~(i \in listed /\ i \notin ordinary)
        BY <1>1, <1>2, <1>9, <3>3, AdditionsResult
      <4>2. i \in Running <=> i \in ordinary
        BY <1>4, <1>5, <2>3, <2>5, <3>3 DEF AgreesAt
      <4> QED
        BY <1>4, <1>8, <2>1, <2>2, <2>5, <3>1, <4>1, <4>2 DEF AgreesAt
    <3> QED
      BY <3>2, <3>3
  <2> QED
    BY <2>4, <2>5
<1>10. CASE i \in Sandboxes
  <2> DEFINE k == Name(i)
  <2>1. i \notin Containers
    BY <1>10, KindsAssumption
  <2>2. i \in Remembered' <=> k \in DOMAIN current /\ i = current[k].id
    BY <1>1, <1>2, <1>6, <1>7, <2>1 DEF Remembered, TypeOK
  <2>3. i \in Remembered <=> k \in DOMAIN sandboxes /\ i = sandboxes[k].id
    BY <1>2, <2>1 DEF Remembered, TypeOK
  <2>4. i \in DOMAIN Additions <=> k \in DOMAIN current \ DOMAIN sandboxes /\ i = current[k].id
    BY <1>1, <1>2, <1>10, AdditionsResult
  <2>5. i \in DOMAIN Updates <=> \/ k \in Gone /\ i = sandboxes[k].id
                                 \/ k \in Again /\ i = current[k].id
    BY <1>1, <1>2, <1>10, UpdatesResult
  <2>6. CASE k \in Again /\ i = current[k].id
    <3>1. k \in DOMAIN current
      BY <2>6 DEF Again
    <3>2. /\ Updates[i].running
          /\ Updates[i].inspected = Found(k).inspected
          /\ Updates[i].count = Found(k).count
      BY <1>1, <1>2, <1>10, <2>6, UpdatesResult
    <3> QED
      BY <1>4, <1>6, <1>8, <2>2, <2>5, <2>6, <3>1, <3>2 DEF AgreesAt
  <2>7. CASE k \notin Again /\ k \in DOMAIN current /\ i = current[k].id
    <3>1. CASE k \notin DOMAIN sandboxes
      <4>1. i \in DOMAIN Additions /\ i \notin DOMAIN Updates
        BY <2>4, <2>5, <2>7, <3>1 DEF Gone
      <4>2. /\ Additions[i].running
            /\ Additions[i].inspected = Found(k).inspected
            /\ Additions[i].count = Found(k).count
        BY <1>1, <1>2, <1>10, <4>1, AdditionsResult
      <4> QED
        BY <1>4, <1>5, <1>6, <1>8, <2>2, <2>7, <4>1, <4>2 DEF AgreesAt
    <3>2. CASE k \in DOMAIN sandboxes
      <4>1. /\ k \notin NewNames /\ current[k].id = sandboxes[k].id
            /\ current[k].inspected /\ sandboxes[k].inspected
        BY <1>2, <2>7, <3>2 DEF Again, NewNames, TypeOK
      <4>2. Found(k).inspected = sandboxes[k].inspected /\ Found(k).count = sandboxes[k].count
        BY <1>2, <2>7, <4>1 DEF Found, TypeOK
      <4>3. i \notin DOMAIN Updates /\ i \notin DOMAIN Additions /\ i \in Remembered
        BY <2>3, <2>4, <2>5, <2>7, <3>2, <4>1 DEF Gone
      <4>4. db'[i] = db[i] /\ AgreesAt(i)
        BY <1>4, <1>5, <4>3
      <4> QED
        BY <1>6, <1>8, <1>10, <2>2, <2>7, <4>2, <4>3, <4>4 DEF AgreesAt
    <3> QED
      BY <3>1, <3>2
  <2>8. CASE ~(k \in DOMAIN current /\ i = current[k].id)
    <3>1. CASE i \in DOMAIN Updates
      <4>1. ~(k \in Again /\ i = current[k].id)
        BY <2>8 DEF Again
      <4>2. ~Updates[i].running
        BY <1>1, <1>2, <1>10, <3>1, <4>1, UpdatesResult
      <4> QED
        BY <1>4, <1>8, <2>2, <2>8, <3>1, <4>2 DEF AgreesAt
    <3>2. CASE i \notin DOMAIN Updates
      <4>1. i \notin DOMAIN Additions
        BY <2>4, <2>8
      <4>2. i \notin Remembered
        BY <2>3, <2>5, <2>8, <3>2 DEF Gone
      <4>3. db'[i] = db[i] /\ AgreesAt(i)
        BY <1>4, <1>5, <3>2, <4>1
      <4> QED
        BY <1>8, <2>2, <2>8, <4>2, <4>3 DEF AgreesAt
    <3> QED
      BY <3>1, <3>2
  <2> QED
    BY <2>6, <2>7, <2>8
<1> QED
  BY <1>9, <1>10 DEF Ids

LEMMA WriteUpdatedInv == ASSUME InventoryInv, WriteUpdated PROVE InventoryInv'
<1>1. /\ pc = "updated" /\ pc' = "idle" /\ Write(Updates)
      /\ ordinary' = listed \cap Containers
      /\ sandboxes' = [k \in DOMAIN current |-> Found(k)]
      /\ UNCHANGED <<up, listed, current>>
  BY DEF WriteUpdated
<1>2. TypeOK /\ CountsBelow
  BY DEF InventoryInv
<1>3. /\ DOMAIN Updates \subseteq Ids
      /\ \A j \in DOMAIN Updates : Updates[j] \in Rows
  BY <1>1, <1>2, UpdatesResult
<1>4. db' \in [Ids -> Rows \cup {NoRow}] /\ stale' \subseteq Ids
  BY <1>1, <1>2, <1>3, Written
<1>5. \A k \in DOMAIN current : /\ sandboxes'[k].id = current[k].id
                                /\ sandboxes'[k].inspected \in BOOLEAN
                                /\ sandboxes'[k].count \in 0..MaxCount
  BY <1>1, <1>2, FoundType
<1>6. TypeOK'
  BY <1>1, <1>4, <1>5 DEF InventoryInv, TypeOK
<1>7. OneSandbox' /\ ListKnown' /\ CountsBelow'
  BY <1>1 DEF InventoryInv, OneSandbox, ListKnown, CountsBelow
<1>8. Agreement'
  BY <1>1, UpdatedAgrees DEF Agreement
<1> QED
  BY <1>6, <1>7, <1>8 DEF InventoryInv

LEMMA StepInv == ASSUME InventoryInv, [Next]_vars PROVE InventoryInv'
<1>1. CASE UNCHANGED vars
  <2>1. UNCHANGED <<db, pc, ordinary, sandboxes, listed, current, stale, up>>
    BY <1>1 DEF vars
  <2>2. up' \subseteq Ids /\ OneSandbox'
    BY <2>1 DEF InventoryInv, TypeOK, OneSandbox
  <2> QED
    BY <2>1, <2>2, SameMonitor
<1>2. CASE Next
  BY <1>2, NodeInv, QueryInv, WriteAddedInv, WriteUpdatedInv, LoadInv, LoadFailedInv, StopInv
     DEF Next
<1> QED
  BY <1>1, <1>2

----------------------------------------------------------------------------
(* Theorems *)

\* The types, and that rows and memory agree at each step of a poll.
THEOREM Invariance == Spec => []InventoryInv
BY InitInv, StepInv, PTL DEF Spec

\* The variables keep their types: memory and poll keep the two docker types apart, and
\* know each sandbox by its own pod's name (container.go:244-255).
THEOREM TypeCorrect == Spec => []TypeOK
<1>1. InventoryInv => TypeOK
  BY DEF InventoryInv
<1> QED
  BY <1>1, Invariance, PTL

\* Between two polls the rows are what the Monitor remembers, except those whose last
\* write was lost, that could not be read, or that a start stopped and remembers: so each
\* poll, which only writes differences to the memory (container.go:264-311), leaves
\* nothing else behind, and a restart goes on from the rows.
THEOREM RowsAreMemory == Spec => []DbAgrees
<1>1. InventoryInv => DbAgrees
  BY DEF InventoryInv, Agreement, AgreesAt, DbAgrees
<1> QED
  BY <1>1, Invariance, PTL

\* The Monitor knows sandboxes by the names of their pods alone.  No two pods have the
\* same name, in whatever namespaces.
NamesDistinct == \A i, j \in Ids : Name(i) = Name(j) => PodOf[i] = PodOf[j]

\* Then the poll knows every sandbox of its list.
LEMMA ListedCurrent ==
  ASSUME InventoryInv, NamesDistinct, NEW s \in Sandboxes \cap listed
  PROVE  Name(s) \in DOMAIN current /\ current[Name(s)].id = s
<1>1. Name(s) \in DOMAIN current
  BY DEF InventoryInv, ListKnown
<1>2. current[Name(s)].id \in Sandboxes \cap listed /\ Name(current[Name(s)].id) = Name(s)
  BY <1>1 DEF InventoryInv, TypeOK
<1> QED
  BY <1>1, <1>2 DEF InventoryInv, ListKnown, NamesDistinct, Ids

\* What a step does to the rows of listed containers.
LEMMA ListedKeepsRunning ==
  ASSUME InventoryInv, NamesDistinct, Next, pc \in {"added", "updated"},
         NEW i \in listed, i \in Running
  PROVE  i \in Running'
<1>1. TypeOK /\ CountsBelow /\ i \in Ids /\ db[i].running
  BY DEF InventoryInv, TypeOK, Running
<1>2. CASE UNCHANGED db
  BY <1>2 DEF Running
<1>3. CASE WriteAdded
  <2>1. DOMAIN Additions \subseteq Ids /\ \A j \in DOMAIN Additions : Additions[j] \in Rows
    BY <1>1, AdditionsResult
  <2>2. db'[i] = db[i] \/ (i \in DOMAIN Additions /\ db'[i] = Additions[i])
    BY <1>1, <1>3, <2>1, Written DEF WriteAdded
  <2>3. i \in DOMAIN Additions => Additions[i].running
    BY <1>1, AdditionsResult
  <2> QED
    BY <1>1, <2>2, <2>3 DEF Running
<1>4. CASE WriteUpdated
  <2>1. DOMAIN Updates \subseteq Ids /\ \A j \in DOMAIN Updates : Updates[j] \in Rows
    BY <1>1, UpdatesResult
  <2>2. db'[i] = db[i] \/ (i \in DOMAIN Updates /\ db'[i] = Updates[i])
    BY <1>1, <1>4, <2>1, Written DEF WriteUpdated
  <2>3. ASSUME i \in DOMAIN Updates PROVE Updates[i].running
    <3>1. i \in Sandboxes
      BY <1>1, <2>3, UpdatesResult DEF Ids
    <3>2. Name(i) \in DOMAIN current /\ i = current[Name(i)].id
      BY <3>1, ListedCurrent
    <3>3. Name(i) \in Again
      BY <1>1, <2>3, <3>1, <3>2, UpdatesResult DEF Gone
    <3> QED
      BY <1>1, <3>1, <3>2, <3>3, UpdatesResult
  <2> QED
    BY <1>1, <2>2, <2>3 DEF Running
<1> QED
  BY <1>2, <1>3, <1>4 DEF Next, Run, Halt, Query, Load, LoadFailed, Stop

\* A poll stops no container that is in its list (container.go:280-318), as long as no
\* two pods have one name, whatever writes are lost and whenever the Monitor is stopped.
THEOREM NoFalseStops ==
  ASSUME NamesDistinct
  PROVE  Spec => NoFalseStop
<1>1. InventoryInv /\ [Next]_vars =>
        ((pc = "added" \/ pc = "updated") =>
           \A i \in listed : i \in Running => i \in Running')
  <2>1. CASE UNCHANGED vars
    BY <2>1 DEF vars, Running
  <2>2. CASE Next
    BY <2>2, ListedKeepsRunning
  <2> QED
    BY <2>1, <2>2
<1> QED
  BY <1>1, Invariance, PTL DEF Spec, NoFalseStop

\* The end of a poll, for the rows that are not stale.
LEMMA PollEnds ==
  ASSUME InventoryInv, NamesDistinct, [Next]_vars, pc = "updated", pc' = "idle"
  PROVE  /\ \A i \in Ids \ stale' : i \in Running' <=> i \in listed'
         /\ \A s \in (Sandboxes \cap listed) \ stale' :
              (\E c \in Containers \cap listed : PodOf[c] = PodOf[s]) => db'[s].inspected
<1>1. WriteUpdated
  BY DEF Next, vars, Run, Halt, Query, WriteAdded, Load, LoadFailed, Stop
<1>2. /\ ordinary' = listed \cap Containers
      /\ sandboxes' = [k \in DOMAIN current |-> Found(k)]
      /\ UNCHANGED <<listed, current>>
  BY <1>1 DEF WriteUpdated
<1>3. TypeOK /\ CountsBelow /\ TypeOK'
  BY StepInv DEF InventoryInv
<1>4. \A k \in DOMAIN current : /\ sandboxes'[k].id = current[k].id
                                /\ sandboxes'[k].inspected = current[k].inspected
  BY <1>2, <1>3, FoundType
<1>5. \A s \in Sandboxes \cap listed : Name(s) \in DOMAIN current /\ current[Name(s)].id = s
  BY ListedCurrent
<1>6. Remembered' = listed
  <2>1. \A k \in DOMAIN current : current[k].id \in Sandboxes \cap listed
    BY <1>3 DEF TypeOK
  <2>2. Remembered' = (listed \cap Containers) \cup {current[k].id : k \in DOMAIN current}
    BY <1>2, <1>4 DEF Remembered
  <2> QED
    BY <1>3, <1>5, <2>1, <2>2 DEF TypeOK, Ids
<1>7. \A i \in Ids \ stale' : AgreesAt(i)'
  BY <1>1, UpdatedAgrees
<1>8. \A i \in Ids \ stale' : i \in Running' <=> i \in listed'
  BY <1>2, <1>6, <1>7 DEF AgreesAt
<1>9. ASSUME NEW s \in (Sandboxes \cap listed) \ stale',
             NEW c \in Containers \cap listed, PodOf[c] = PodOf[s]
      PROVE  db'[s].inspected
  <2>1. Name(c) = Name(s)
    BY <1>9 DEF Name
  <2>2. current[Name(s)].inspected
    BY <1>5, <2>1 DEF InventoryInv, ListKnown
  <2>3. db'[s].inspected = sandboxes'[Name(s)].inspected
    BY <1>6, <1>7 DEF AgreesAt, Ids
  <2> QED
    BY <1>4, <1>5, <2>2, <2>3
<1> QED
  BY <1>8, <1>9

\* At the end of a poll a row says that its container runs just if the container was
\* listed, as long as no two pods have one name: but for rows whose last write was lost,
\* that could not be read, or that a restart with several running sandboxes of a pod
\* stopped and remembers (container.go:199-207).
THEOREM PollsAccurate ==
  ASSUME NamesDistinct
  PROVE  Spec => PollAccurate
<1>1. InventoryInv /\ [Next]_vars =>
        (pc = "updated" /\ pc' = "idle" =>
           \A i \in Ids \ stale' : i \in Running' <=> i \in listed')
  BY PollEnds
<1> QED
  BY <1>1, Invariance, PTL DEF Spec, PollAccurate

\* A listed pod with a listed container is recorded as inspected by the end of a poll
\* (container.go:257-262), with the same exceptions and as long as no two pods have one
\* name; the run `inventory_names` shows that this is needed.
THEOREM InspectionRecorded ==
  ASSUME NamesDistinct
  PROVE  Spec => InspectedRecorded
<1>1. InventoryInv /\ [Next]_vars =>
        (pc = "updated" /\ pc' = "idle" =>
           \A s \in (Sandboxes \cap listed) \ stale' :
             (\E c \in Containers \cap listed : PodOf[c] = PodOf[s]) =>
               s \in Running' /\ db'[s].inspected)
  <2> SUFFICES ASSUME InventoryInv, [Next]_vars, pc = "updated", pc' = "idle",
                      NEW s \in (Sandboxes \cap listed) \ stale',
                      \E c \in Containers \cap listed : PodOf[c] = PodOf[s]
               PROVE  s \in Running' /\ db'[s].inspected
    OBVIOUS
  <2>1. listed' = listed
    BY DEF Next, vars, Run, Halt, Query, WriteAdded, WriteUpdated, Load, LoadFailed, Stop
  <2> QED
    BY <2>1, PollEnds DEF Ids
<1> QED
  BY <1>1, Invariance, PTL DEF Spec, InspectedRecorded
==============================================================================

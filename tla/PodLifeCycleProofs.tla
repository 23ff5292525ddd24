-------------------------- MODULE PodLifeCycleProofs --------------------------
(* Theorems about PodLifeCycle, for any pods, system pods and phases, and any    *)
(* number of changes that wait in the informer.                                  *)
EXTENDS PodLifeCycle, SequenceTheorems, TLAPS

\* A process that is not running has no store, and no changes to handle.
Forgotten == ~alive => \A k \in Pods : store[k] = None /\ deltas[k] = <<>>

LifeInv == TypeOK /\ Forgotten /\ RowsFollowStore

----------------------------------------------------------------------------
(* What waits in the informer *)

\* One more change.
LEMMA Appended ==
  ASSUME NEW s \in Seq(Changes), NEW v \in Changes, Len(s) < MaxDeltas
  PROVE  Append(s, v) \in Seq(Changes) /\ Len(Append(s, v)) <= MaxDeltas
BY AppendProperties, LenProperties, MaxDeltasAssumption

\* The next change, and those after it.
LEMMA Taken ==
  ASSUME NEW s \in Seq(Changes), s # <<>>, Len(s) <= MaxDeltas
  PROVE  Head(s) \in Changes /\ Tail(s) \in Seq(Changes) /\ Len(Tail(s)) <= MaxDeltas
BY HeadTailProperties, LenProperties, EmptySeq, MaxDeltasAssumption

\* One more open row, as far as they are counted.
LEMMA Counted ==
  ASSUME NEW f \in [Pods -> 0..Many], NEW k \in Pods
  PROVE  [f EXCEPT ![k] = IF @ = Many THEN Many ELSE @ + 1] \in [Pods -> 0..Many]
<1> DEFINE n == IF f[k] = Many THEN Many ELSE f[k] + 1
<1>1. n \in 0..Many
  BY DEF Many
<1> HIDE DEF n
<1>2. [f EXCEPT ![k] = n] \in [Pods -> 0..Many]
  BY <1>1
<1> QED
  BY <1>2 DEF n

\* A step that leaves the store and the rows alone.
LEMMA SameRows ==
  ASSUME LifeInv, TypeOK', UNCHANGED <<alive, store, open, lost, inherited>>,
         alive \/ UNCHANGED deltas
  PROVE  LifeInv'
BY DEF LifeInv, Forgotten, RowsFollowStore

----------------------------------------------------------------------------
(* The steps *)

LEMMA InitInv == Init => LifeInv
<1> SUFFICES ASSUME Init PROVE LifeInv
  OBVIOUS
<1>1. deltas \in [Pods -> Seq(Changes)]
  BY EmptySeq DEF Init
<1>2. ASSUME NEW k \in Pods PROVE Len(deltas[k]) <= MaxDeltas
  <2>1. deltas[k] = <<>>
    BY DEF Init
  <2> QED
    BY <2>1, MaxDeltasAssumption, EmptySeq
<1>3. /\ store \in [Pods -> Changes] /\ pods \in [Pods -> Changes]
      /\ open \in [Pods -> 0..Many] /\ \A k \in Pods : open[k] = 0
      /\ status \in [Pods -> Phases \cup {"none", "deleted"}]
  BY DEF Init, Changes, Many
<1>4. /\ alive = FALSE /\ watching = FALSE /\ queue = {} /\ lost = {} /\ inherited = {}
  BY DEF Init
<1>5. \A k \in Pods : open[k] > 0 => status[k] \in Phases
  BY <1>3
<1>6. TypeOK
  BY <1>1, <1>2, <1>3, <1>4, <1>5 DEF TypeOK
<1> QED
  BY <1>6 DEF Init, LifeInv, Forgotten, RowsFollowStore

\* The cluster and the watch change what waits, and nothing that was written.
LEMMA ChangeInv == ASSUME LifeInv, NEW k \in Pods, Change(k) PROVE LifeInv'
<1>1. PICK v \in Changes :
        /\ pods' = [pods EXCEPT ![k] = v]
        /\ IF watching THEN /\ Len(deltas[k]) < MaxDeltas
                            /\ deltas' = [deltas EXCEPT ![k] = Append(@, v)]
           ELSE UNCHANGED deltas
  BY DEF Change
<1>2. UNCHANGED <<alive, watching, store, queue, open, status, lost, inherited>>
  BY DEF Change, rowVars
<1>3. /\ deltas' \in [Pods -> Seq(Changes)]
      /\ \A j \in Pods : Len(deltas'[j]) <= MaxDeltas
  <2>1. CASE watching
    <3>1. /\ deltas \in [Pods -> Seq(Changes)] /\ \A j \in Pods : Len(deltas[j]) <= MaxDeltas
          /\ deltas' = [deltas EXCEPT ![k] = Append(deltas[k], v)]
          /\ Append(deltas[k], v) \in Seq(Changes) /\ Len(Append(deltas[k], v)) <= MaxDeltas
      BY <1>1, <2>1, Appended DEF LifeInv, TypeOK
    <3> QED
      BY <3>1
  <2>2. CASE ~watching
    BY <1>1, <2>2 DEF LifeInv, TypeOK
  <2> QED
    BY <2>1, <2>2
<1>4. TypeOK'
  BY <1>1, <1>2, <1>3 DEF LifeInv, TypeOK
<1> QED
  BY <1>1, <1>2, <1>4, SameRows DEF LifeInv, TypeOK

LEMMA WatchInv == ASSUME LifeInv, Disconnect \/ Relist PROVE LifeInv'
<1>1. CASE Disconnect
  <2>1. TypeOK' /\ UNCHANGED <<alive, store, deltas, open, lost, inherited>>
    BY <1>1 DEF Disconnect, LifeInv, TypeOK, rowVars
  <2> QED
    BY <2>1, SameRows
<1>2. CASE Relist
  <2>1. /\ alive /\ watching' = TRUE
        /\ \A k \in Pods : Len(deltas[k]) < MaxDeltas
        /\ deltas' = [k \in Pods |-> IF pods[k] # None \/ Known(k) # None
                                      THEN Append(deltas[k], pods[k]) ELSE deltas[k]]
        /\ UNCHANGED <<pods, alive, store, queue, open, status, lost, inherited>>
    BY <1>2 DEF Relist, rowVars
  <2>2. ASSUME NEW k \in Pods
        PROVE  deltas'[k] \in Seq(Changes) /\ Len(deltas'[k]) <= MaxDeltas
    BY <2>1, Appended DEF LifeInv, TypeOK
  <2>3. deltas' \in [Pods -> Seq(Changes)]
    BY <2>1, <2>2
  <2>4. TypeOK'
    BY <2>1, <2>2, <2>3 DEF LifeInv, TypeOK
  <2> QED
    BY <2>1, <2>4, SameRows
<1> QED
  BY <1>1, <1>2

\* The handlers bring the rows of one pod in step with the store, or lose the write.
LEMMA HandleInv == ASSUME LifeInv, NEW k \in Pods, Handle(k) PROVE LifeInv'
<1>1. /\ deltas[k] # <<>>
      /\ store' = [store EXCEPT ![k] = Head(deltas[k])]
      /\ deltas' = [deltas EXCEPT ![k] = Tail(@)]
      /\ UNCHANGED <<pods, alive, watching>>
  BY DEF Handle, OnAdd, Updated, OnDelete
<1>2. Head(deltas[k]) \in Changes
  BY <1>1, Taken DEF LifeInv, TypeOK
<1>3. /\ deltas' \in [Pods -> Seq(Changes)]
      /\ \A j \in Pods : Len(deltas'[j]) <= MaxDeltas
      /\ store' \in [Pods -> Changes]
  BY <1>1, <1>2, Taken DEF LifeInv, TypeOK
<1>4. alive
  BY <1>1 DEF LifeInv, Forgotten
<1>5. store'[k] = Head(deltas[k]) /\ \A j \in Pods \ {k} : store'[j] = store[j]
  BY <1>1 DEF LifeInv, TypeOK
<1>6. CASE OnAdd(k)
  <2>1. Head(deltas[k]) \in Phases /\ store[k] = None /\ queue' = queue
    BY <1>2, <1>6 DEF OnAdd, Changes
  <2>2. CASE k \notin System /\ Insert(k, Head(deltas[k]))
    <3>1. \/ /\ open' = [open EXCEPT ![k] = IF @ = Many THEN Many ELSE @ + 1]
             /\ status' = [status EXCEPT ![k] = Head(deltas[k])]
             /\ UNCHANGED <<lost, inherited>>
          \/ /\ lost' = lost \cup {k}
             /\ UNCHANGED <<open, status, inherited>>
      BY <2>2 DEF Insert
    <3>2. TypeOK'
      <4>1. open' \in [Pods -> 0..Many]
        <5>1. open \in [Pods -> 0..Many]
          BY DEF LifeInv, TypeOK
        <5>2. [open EXCEPT ![k] = IF @ = Many THEN Many ELSE @ + 1] \in [Pods -> 0..Many]
          BY <5>1, Counted
        <5> QED
          BY <3>1, <5>1, <5>2
      <4>2. status' \in [Pods -> Phases \cup {"none", "deleted"}]
        BY <2>1, <3>1 DEF LifeInv, TypeOK
      <4>3. ASSUME NEW j \in Pods, open'[j] > 0 PROVE status'[j] \in Phases
        BY <2>1, <3>1, <4>3 DEF LifeInv, TypeOK
      <4>4. lost' \subseteq Pods /\ inherited' \subseteq Pods
        BY <3>1 DEF LifeInv, TypeOK
      <4> QED
        BY <1>1, <1>3, <2>1, <4>1, <4>2, <4>3, <4>4 DEF LifeInv, TypeOK
    <3>3. RowsFollowStore'
      BY <1>1, <1>4, <1>5, <2>1, <3>1, NoneAssumption
         DEF LifeInv, TypeOK, RowsFollowStore, Users, Many
    <3> QED
      BY <1>1, <1>4, <3>2, <3>3 DEF LifeInv, Forgotten
  <2>3. CASE k \in System /\ UNCHANGED rowVars
    <3>1. TypeOK'
      BY <1>1, <1>3, <2>1, <2>3 DEF LifeInv, TypeOK, rowVars
    <3> QED
      BY <1>1, <1>4, <1>5, <2>3, <3>1
         DEF LifeInv, Forgotten, RowsFollowStore, Users, rowVars
  <2> QED
    BY <1>6, <2>2, <2>3 DEF OnAdd, Recorded
<1>7. CASE Updated(k)
  <2>1. /\ Head(deltas[k]) # None /\ store[k] # None
        /\ UNCHANGED <<queue, open, status, lost, inherited>>
    BY <1>7 DEF Updated, rowVars
  <2>2. TypeOK'
    BY <1>1, <1>3, <2>1 DEF LifeInv, TypeOK
  <2> QED
    BY <1>1, <1>4, <1>5, <2>1, <2>2
       DEF LifeInv, Forgotten, RowsFollowStore, Users
<1>8. CASE OnDelete(k)
  <2>1. /\ Head(deltas[k]) = None /\ queue' = queue \cup {k}
        /\ \/ /\ open' = [open EXCEPT ![k] = 0]
              /\ status' = [status EXCEPT ![k] = IF @ = "none" THEN "none" ELSE "deleted"]
              /\ lost' = lost \ {k}
              /\ inherited' = inherited \ {k}
           \/ /\ lost' = lost \cup {k}
              /\ UNCHANGED <<open, status, inherited>>
    BY <1>8 DEF OnDelete, StopRows
  <2>2. TypeOK'
    <3>1. open' \in [Pods -> 0..Many]
      <4>1. 0 \in 0..Many /\ open \in [Pods -> 0..Many]
        BY DEF LifeInv, TypeOK, Many
      <4> QED
        BY <2>1, <4>1
    <3>2. status' \in [Pods -> Phases \cup {"none", "deleted"}]
      BY <2>1 DEF LifeInv, TypeOK
    <3>3. ASSUME NEW j \in Pods, open'[j] > 0 PROVE status'[j] \in Phases
      <4>1. open \in [Pods -> 0..Many] /\ DOMAIN status = Pods
        BY DEF LifeInv, TypeOK
      <4>2. open[j] > 0 /\ status'[j] = status[j]
        BY <2>1, <3>3, <4>1
      <4> QED
        BY <4>2 DEF LifeInv, TypeOK
    <3>4. lost' \subseteq Pods /\ inherited' \subseteq Pods /\ queue' \subseteq Pods
      BY <2>1 DEF LifeInv, TypeOK
    <3> QED
      BY <1>1, <1>3, <3>1, <3>2, <3>3, <3>4 DEF LifeInv, TypeOK
  <2>3. RowsFollowStore'
    BY <1>1, <1>4, <1>5, <2>1 DEF LifeInv, TypeOK, RowsFollowStore, Users
  <2> QED
    BY <1>1, <1>4, <2>2, <2>3 DEF LifeInv, Forgotten
<1> QED
  BY <1>6, <1>7, <1>8 DEF Handle

\* A process starts with the open rows there are, and ends without its store.
LEMMA ProcessInv == ASSUME LifeInv, Start \/ Crash PROVE LifeInv'
<1>1. CASE Start
  <2>1. /\ ~alive /\ alive' = TRUE /\ lost' = {} /\ inherited' = {k \in Pods : open[k] > 0}
        /\ UNCHANGED <<pods, watching, deltas, store, queue, open, status>>
    BY <1>1 DEF Start, clusterVars
  <2>2. TypeOK'
    BY <2>1 DEF LifeInv, TypeOK
  <2>3. RowsFollowStore'
    BY <2>1 DEF LifeInv, TypeOK, Forgotten, RowsFollowStore, Users, Many
  <2> QED
    BY <2>1, <2>2, <2>3 DEF LifeInv, Forgotten
<1>2. CASE Crash
  <2>1. /\ alive' = FALSE /\ watching' = FALSE /\ queue' = {}
        /\ deltas' = [k \in Pods |-> <<>>]
        /\ store' = [k \in Pods |-> None]
        /\ UNCHANGED <<pods, open, status, lost, inherited>>
    BY <1>2 DEF Crash, rowVars
  <2>2. deltas' \in [Pods -> Seq(Changes)]
    BY <2>1, EmptySeq
  <2>3. ASSUME NEW k \in Pods PROVE Len(deltas'[k]) <= MaxDeltas
    <3>1. deltas'[k] = <<>>
      BY <2>1
    <3> QED
      BY <3>1, MaxDeltasAssumption, EmptySeq
  <2>4. store' \in [Pods -> Changes]
    BY <2>1 DEF Changes
  <2>5. TypeOK'
    BY <2>1, <2>2, <2>3, <2>4 DEF LifeInv, TypeOK
  <2> QED
    BY <2>1, <2>5 DEF LifeInv, Forgotten, RowsFollowStore
<1> QED
  BY <1>1, <1>2

LEMMA StepInv == ASSUME LifeInv, [Next]_vars PROVE LifeInv'
<1>1. CASE UNCHANGED vars
  <2>1. TypeOK' /\ UNCHANGED <<alive, store, deltas, open, lost, inherited>>
    BY <1>1 DEF vars, LifeInv, TypeOK
  <2> QED
    BY <2>1, SameRows
<1>2. CASE Next
  BY <1>2, ChangeInv, HandleInv, WatchInv, ProcessInv DEF Next
<1> QED
  BY <1>1, <1>2

----------------------------------------------------------------------------
(* Theorems *)

\* The types, and that handlers, store and rows are in step.
THEOREM Invariance == Spec => []LifeInv
BY InitInv, StepInv, PTL DEF Spec

\* The variables keep their types, and an open row has the phase of a pod.
THEOREM TypeCorrect == Spec => []TypeOK
<1>1. LifeInv => TypeOK
  BY DEF LifeInv
<1> QED
  BY <1>1, Invariance, PTL

\* While no write is lost, a pod of the informer's store has one open row and any other
\* has none (podscontroller.go:45-139), however often the watch breaks.
THEOREM RowsCorrect == Spec => []RowsFollowStore
<1>1. LifeInv => RowsFollowStore
  BY DEF LifeInv
<1> QED
  BY <1>1, Invariance, PTL
==============================================================================

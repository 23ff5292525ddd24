---------------------------- MODULE PodLifeCycle -----------------------------
(***************************************************************************)
(* The pod controller (k8s/podscontroller.go): an informer keeps a store   *)
(* of the cluster's pods and calls OnAdd and OnDelete, which write the     *)
(* life-cycle rows of the database.                                        *)
(*                                                                         *)
(* The informer is the client library's.  It lists the pods, watches them  *)
(* from there, queues what it learns by pod, and for each change brings    *)
(* its store up to date and then calls the handler.  When the watch breaks *)
(* it lists again.  OnUpdate is not among the handlers it is given         *)
(* (podscontroller.go:36).                                                 *)
(***************************************************************************)
EXTENDS Naturals, Sequences

CONSTANTS
  Pods,       \* namespace/name keys of pods
  System,     \* those in the namespaces of kubeSystemNamespace
  Phases,     \* pod phases
  None,       \* no pod
  MaxDeltas   \* bound on the changes of one pod that wait in the informer

ASSUME SystemAssumption == System \subseteq Pods
ASSUME NoneAssumption == None \notin Phases
ASSUME MaxDeltasAssumption == MaxDeltas \in Nat

VARIABLES
  pods,       \* pods[k]: the phase of pod k in the cluster, or None
  alive,      \* the process runs
  watching,   \* its watch of the pods is open
  deltas,     \* deltas[k]: what the informer has learned of k and not yet handled
  store,      \* PodLister: the phase of each pod it knows
  queue,      \* Queue: keys put in by OnDelete; nothing ever takes them out
  open,       \* open[k]: the rows of k that are not stopped; Many is two or more
  status,     \* status[k]: Status of k's latest row, or "none"
  lost,       \* pods one of whose writes was lost, since the process started
  inherited   \* pods with open rows from before the process started

clusterVars == <<pods, watching, deltas>>
rowVars == <<open, status, lost, inherited>>
vars == <<pods, alive, watching, deltas, store, queue, open, status, lost, inherited>>

Many == 2
Users == Pods \ System

\* A change of a pod: its new phase, or None when it is deleted.
Changes == Phases \cup {None}

\* What the informer will know of k when it has handled all that waits.
Known(k) == IF deltas[k] = <<>> THEN store[k] ELSE deltas[k][Len(deltas[k])]

----------------------------------------------------------------------------
(* The cluster and the watch *)

\* A pod is created, changes its phase or is deleted; an open watch tells it.
Change(k) ==
  /\ \E v \in Changes \ {pods[k]} :
       /\ pods' = [pods EXCEPT ![k] = v]
       /\ IF watching
          THEN /\ Len(deltas[k]) < MaxDeltas
               /\ deltas' = [deltas EXCEPT ![k] = Append(@, v)]
          ELSE UNCHANGED deltas
  /\ UNCHANGED <<alive, watching, store, queue, rowVars>>

\* The watch breaks.
Disconnect ==
  /\ watching
  /\ watching' = FALSE
  /\ UNCHANGED <<pods, alive, deltas, store, queue, rowVars>>

\* The pods are listed: every one in the list is synchronised, every one that is known
\* and not in the list is deleted.
Relist ==
  /\ alive /\ ~watching
  /\ \A k \in Pods : Len(deltas[k]) < MaxDeltas
  /\ deltas' = [k \in Pods |-> IF pods[k] # None \/ Known(k) # None
                                THEN Append(deltas[k], pods[k])
                                ELSE deltas[k]]
  /\ watching' = TRUE
  /\ UNCHANGED <<pods, alive, store, queue, rowVars>>

----------------------------------------------------------------------------
(* The handlers *)

\* StringNotIn(kubeSystemNamespace, p.Namespace).
Recorded(k) == k \notin System

\* Seeded fault: the row is inserted without a status.
InsertBlank(k, v) ==
  \/ /\ open' = [open EXCEPT ![k] = IF @ = Many THEN Many ELSE @ + 1]
     /\ UNCHANGED <<status, lost, inherited>>
  \/ /\ lost' = lost \cup {k}
     /\ UNCHANGED <<open, status, inherited>>

\* item.Insert: a new row, unless the write is lost.
Insert(k, v) ==
  \/ /\ open' = [open EXCEPT ![k] = IF @ = Many THEN Many ELSE @ + 1]
     /\ status' = [status EXCEPT ![k] = v]
     /\ UNCHANGED <<lost, inherited>>
  \/ /\ lost' = lost \cup {k}
     /\ UNCHANGED <<open, status, inherited>>

\* item.Update with action "stopped" and status "deleted", which finds the rows by
\* namespace and pod name.
StopRows(k) ==
  \/ /\ open' = [open EXCEPT ![k] = 0]
     /\ status' = [status EXCEPT ![k] = IF @ = "none" THEN "none" ELSE "deleted"]
     /\ lost' = lost \ {k}
     /\ inherited' = inherited \ {k}
  \/ /\ lost' = lost \cup {k}
     /\ UNCHANGED <<open, status, inherited>>

\* The next change of k is of a pod the store does not have: OnAdd, which finds it in
\* the store by its key.
OnAdd(k) ==
  /\ deltas[k] # <<>> /\ Head(deltas[k]) # None /\ store[k] = None
  /\ store' = [store EXCEPT ![k] = Head(deltas[k])]
  /\ deltas' = [deltas EXCEPT ![k] = Tail(@)]
  /\ IF Recorded(k) THEN Insert(k, Head(deltas[k])) ELSE UNCHANGED rowVars
  /\ UNCHANGED <<pods, alive, watching, queue>>

\* It is of a pod the store has: no handler is called.
Updated(k) ==
  /\ deltas[k] # <<>> /\ Head(deltas[k]) # None /\ store[k] # None
  /\ store' = [store EXCEPT ![k] = Head(deltas[k])]
  /\ deltas' = [deltas EXCEPT ![k] = Tail(@)]
  /\ UNCHANGED <<pods, alive, watching, queue, rowVars>>

\* Seeded fault: nothing is written when the pod is not in the store.
OnDeleteUnwritten(k) ==
  /\ deltas[k] # <<>> /\ Head(deltas[k]) = None
  /\ store' = [store EXCEPT ![k] = None]
  /\ deltas' = [deltas EXCEPT ![k] = Tail(@)]
  /\ queue' = queue \cup {k}
  /\ UNCHANGED <<pods, alive, watching, rowVars>>

\* It is a deletion.  OnDelete looks the pod up in the store, which has dropped it
\* already, so that it always takes the branch for an object that is not a pod.
OnDelete(k) ==
  /\ deltas[k] # <<>> /\ Head(deltas[k]) = None
  /\ store' = [store EXCEPT ![k] = None]
  /\ deltas' = [deltas EXCEPT ![k] = Tail(@)]
  /\ queue' = queue \cup {k}
  /\ StopRows(k)
  /\ UNCHANGED <<pods, alive, watching>>

----------------------------------------------------------------------------
(* The process *)

\* NewManager starts the controller, with an empty store.
Start ==
  /\ ~alive
  /\ alive' = TRUE
  /\ lost' = {}
  /\ inherited' = {k \in Pods : open[k] > 0}
  /\ UNCHANGED <<clusterVars, store, queue, open, status>>

Crash ==
  /\ alive
  /\ alive' = FALSE
  /\ watching' = FALSE
  /\ deltas' = [k \in Pods |-> <<>>]
  /\ store' = [k \in Pods |-> None]
  /\ queue' = {}
  /\ UNCHANGED <<pods, rowVars>>

Init ==
  /\ pods \in [Pods -> Changes]
  /\ alive = FALSE
  /\ watching = FALSE
  /\ deltas = [k \in Pods |-> <<>>]
  /\ store = [k \in Pods |-> None]
  /\ queue = {}
  /\ open = [k \in Pods |-> 0]
  /\ status = [k \in Pods |-> "none"]
  /\ lost = {}
  /\ inherited = {}

Handle(k) == OnAdd(k) \/ Updated(k) \/ OnDelete(k)

Next ==
  \/ \E k \in Pods : Change(k) \/ Handle(k)
  \/ Disconnect \/ Relist
  \/ Start \/ Crash

Spec == Init /\ [][Next]_vars

\* The informer lists again after a broken watch and handles what it has learned.
Fairness == WF_vars(Relist) /\ \A k \in Pods : WF_vars(Handle(k))

FairSpec == Spec /\ Fairness

----------------------------------------------------------------------------
(* Properties *)

\* The types of the variables.  A row that is open has the phase of a pod.
TypeOK ==
  /\ pods \in [Pods -> Changes]
  /\ alive \in BOOLEAN
  /\ watching \in BOOLEAN /\ (watching => alive)
  /\ deltas \in [Pods -> Seq(Changes)]
  /\ \A k \in Pods : Len(deltas[k]) <= MaxDeltas
  /\ store \in [Pods -> Changes]
  /\ queue \subseteq Pods
  /\ open \in [Pods -> 0..Many]
  /\ status \in [Pods -> Phases \cup {"none", "deleted"}]
  /\ \A k \in Pods : open[k] > 0 => status[k] \in Phases
  /\ lost \subseteq Pods
  /\ inherited \subseteq Pods

\* With the handlers and the store in step, a pod in the store has an open row, and
\* just one, and a pod that is not has none, through any number of broken watches and
\* deletions they hid.  Lost writes spoil it, and so does a restart for the pods of
\* the run before: those still there get one more row, those gone keep theirs.
RowsFollowStore ==
  alive =>
    \A k \in Users \ lost :
      IF k \in inherited
      THEN open[k] > 0
      ELSE open[k] = IF store[k] = None THEN 0 ELSE 1

\* A pod that was known and is deleted is recorded as stopped, even when its deletion
\* came while the watch was broken.
DeletionRecorded ==
  \A k \in Users :
    store[k] # None /\ pods[k] = None ~>
      open[k] = 0 \/ pods[k] # None \/ k \in lost \/ ~alive

\* The rows record the life of a pod ("PodLifeCycle record service's pod life cycle",
\* podscontroller.go:21; "OnUpdate update event call func", :70): when a pod comes to
\* stay in a phase, no write is lost and the process goes on, its row has that phase
\* in the end.
PhaseRecorded ==
  \A k \in Users, v \in Phases :
    <>[](pods[k] = v /\ alive /\ k \notin lost) => <>[](status[k] = v)
==============================================================================

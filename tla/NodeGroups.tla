----------------------------- MODULE NodeGroups ------------------------------
(***************************************************************************)
(* The node-group calls of NodeCtrl (k8s/node.go), made by concurrent      *)
(* callers of K8sManager against the Kubernetes API server.                *)
(*                                                                         *)
(* A node is in group g when its Node object carries the label g.  Every   *)
(* call reads whole Node objects, edits the label map of its copy and      *)
(* writes the whole object back.  The API server takes a write only if the *)
(* copy still has the node's latest resourceVersion.  Versions are opaque  *)
(* and only ever compared for equality, so the model keeps, for each copy, *)
(* whether its version is still the latest: current[c] is the set of nodes *)
(* whose copy, held by caller c, is.                                       *)
(*                                                                         *)
(* A request whose connection breaks is an error to its caller and may     *)
(* still reach the server, after the call has returned or the process has  *)
(* stopped.  It is kept in adrift for as long as the server would take it, *)
(* that is, until its node gets a new version.                             *)
(*                                                                         *)
(* One action is one API request, or the local code between two of them.   *)
(* The order of the nodes in a request or in a list reply is left open:    *)
(* a loop takes its next node from the set that is left.                   *)
(***************************************************************************)
EXTENDS Naturals, FiniteSets

CONSTANTS
  Nodes,      \* names of cluster nodes
  Groups,     \* valid group ids
  EmptyId,    \* the empty group id, which no label key may be
  Callers,    \* concurrent callers of the manager
  Removable,  \* nodes that may leave and rejoin the cluster meanwhile
  MaxAdrift   \* bound: requests adrift at a time

ASSUME IdsAssumption == EmptyId \notin Groups
ASSUME RemovableAssumption == Removable \subseteq Nodes
ASSUME MaxAdriftAssumption == MaxAdrift \in Nat

VARIABLES
  present,  \* nodes the API server has an object for
  labels,   \* labels[n]: the group labels of n's object
  adrift,   \* writes that nobody waits for and the server would still take
  op,       \* op[c]: the call c is in, or "none"
  id,       \* id[c]: its AddLabelNodes.ID, or the groupid of DeleteGroup
  want,     \* want[c]: its AddLabelNodes.NodesList
  pc,       \* pc[c]: where in the call c is
  todo,     \* todo[c]: the nodes its current loop has yet to visit
  later,    \* later[c]: UpdateNodeslabel's removenodes, until their loop starts
  held,     \* held[c]: the label maps of the Node copies c holds, by node
  current,  \* current[c]: the copies whose resourceVersion is the latest
  err,      \* err[c]: AddlabelToNodes' err, set by its last Update
  missed,   \* missed[c]: nodes whose Update returned an error in this call
  late,     \* late[c]: nodes where a write adrift went against this call
  reply     \* reply[c]: what c's last call returned

callVars == <<op, id, want, missed, late>>
vars == <<present, labels, adrift, op, id, want, pc, todo, later, held, current,
          err, missed, late, reply>>

Ids == Groups \cup {EmptyId}
Ops == {"AddlabelToNodes", "RemoveNodeLabel", "UpdateNodeslabel", "DeleteGroup"}
NoOp == "none"
NoCopies == [n \in {} |-> {}]

\* The nodes a list with LabelSelector "<g>=dzhyungroup" returns: all of them
\* when the id is empty, for then no selector is set.
Selected(g) == IF g = EmptyId THEN present ELSE {n \in present : g \in labels[n]}

\* The nodes of group g.
Members(g) == {n \in Nodes : g \in labels[n]}

\* NodesNames: what an update of a group from `listed` to `wanted` adds and removes.
NodesToAdd(wanted, listed) == wanted \ listed

\* Seeded fault: an update that only ever adds.
NoNodesToRemove(wanted, listed) == {}

NodesToRemove(wanted, listed) == listed \ wanted

\* The label map of a copy, with and without group g.
Labelled(copy, g) == copy \cup {g}

Unlabelled(copy, g) == copy \ {g}

----------------------------------------------------------------------------
(* The API server. *)

\* The writes adrift that a new version of n leaves valid.
Elsewhere(n) == {w \in adrift : w.node # n}

\* It accepts c's write of `new` to node n: c's copy has the latest version and
\* every label key is valid.  A write that changes something gets a new version, so
\* that every copy of the node, and every write of it adrift, is out of date.  No loop
\* uses a copy twice: c's own is spent whatever the outcome.
Accept(c, n, new) ==
  /\ n \in current[c]
  /\ new \subseteq Groups
  /\ labels' = [labels EXCEPT ![n] = new]
  /\ current' = [d \in Callers |->
       IF d = c \/ new # labels[n] THEN current[d] \ {n} ELSE current[d]]
  /\ adrift' = IF new # labels[n] THEN Elsewhere(n) ELSE adrift

\* It refuses the write: a conflict, a missing node, an invalid key, or no answer
\* from the server at all.
Reject(c, n) ==
  /\ current' = [current EXCEPT ![c] = @ \ {n}]
  /\ UNCHANGED <<labels, adrift>>

\* The connection breaks before the server has handled the write.  One that it would
\* refuse, or that changes nothing, need not be kept.
Unhandled(c, n, new) ==
  /\ n \in current[c]
  /\ new \subseteq Groups /\ new # labels[n]
  /\ Cardinality(adrift) < MaxAdrift
  /\ adrift' = adrift \cup {[node |-> n, labels |-> new]}
  /\ current' = [current EXCEPT ![c] = @ \ {n}]
  /\ UNCHANGED labels

\* A write adrift goes against c's call if it moves its node into or out of the group
\* of the call, other than to add it where the call wants it.
Against(w, c) ==
  \/ id[c] \in labels[w.node] \ w.labels
  \/ /\ id[c] \in w.labels \ labels[w.node]
     /\ op[c] \in {"AddlabelToNodes", "UpdateNodeslabel"} => w.node \notin want[c]

\* The server handles a write adrift, or it never arrives.
HandleAdrift ==
  /\ \E w \in adrift :
       \/ /\ labels' = [labels EXCEPT ![w.node] = w.labels]
          /\ adrift' = Elsewhere(w.node)
          /\ current' = [c \in Callers |-> current[c] \ {w.node}]
          /\ late' = [c \in Callers |->
               IF Against(w, c) THEN late[c] \cup {w.node} ELSE late[c]]
       \/ /\ adrift' = adrift \ {w}
          /\ UNCHANGED <<labels, current, late>>
  /\ UNCHANGED <<present, op, id, want, pc, todo, later, held, err, missed, reply>>

\* The kubelet posts node status: the object gets a new version, the labels stay.
Heartbeat(n) ==
  /\ (\E c \in Callers : n \in current[c]) \/ (\E w \in adrift : w.node = n)
  /\ current' = [c \in Callers |-> current[c] \ {n}]
  /\ adrift' = Elsewhere(n)
  /\ UNCHANGED <<present, labels, pc, todo, later, held, err, reply, callVars>>

\* A node leaves the cluster with its labels.
DeleteNode(n) ==
  /\ n \in present
  /\ present' = present \ {n}
  /\ labels' = [labels EXCEPT ![n] = {}]
  /\ current' = [c \in Callers |-> current[c] \ {n}]
  /\ adrift' = Elsewhere(n)
  /\ UNCHANGED <<pc, todo, later, held, err, reply, callVars>>

\* Its kubelet registers it again, as a new object.
RegisterNode(n) ==
  /\ n \notin present
  /\ present' = present \cup {n}
  /\ UNCHANGED <<labels, adrift, pc, todo, later, held, current, err, reply, callVars>>

----------------------------------------------------------------------------
(* Calls *)

\* Seeded fault: the wrapper of RemoveNodeLabel calls AddlabelToNodes.
EntryCrossed(o) == IF o \in {"AddlabelToNodes", "RemoveNodeLabel"} THEN "add" ELSE "list"

\* Where each call starts.
Entry(o) == CASE o = "AddlabelToNodes" -> "add"
              [] o = "RemoveNodeLabel" -> "remove"
              [] OTHER -> "list"

\* Caller c makes a call.  Only UpdateNodeslabel and DeleteGroup start with a list.
Call(c) ==
  /\ pc[c] = "idle"
  /\ \E o \in Ops, g \in Ids, w \in SUBSET Nodes :
       /\ o = "DeleteGroup" => w = {}
       /\ op' = [op EXCEPT ![c] = o]
       /\ id' = [id EXCEPT ![c] = g]
       /\ want' = [want EXCEPT ![c] = w]
       /\ pc' = [pc EXCEPT ![c] = Entry(o)]
       /\ todo' = [todo EXCEPT ![c] =
                     IF o \in {"AddlabelToNodes", "RemoveNodeLabel"} THEN w ELSE {}]
  /\ reply' = [reply EXCEPT ![c] = "none"]
  /\ UNCHANGED <<present, labels, adrift, missed, late, later, held, current, err>>

\* The call returns r, and its arguments and local variables are gone.
Return(c, r) ==
  /\ op' = [op EXCEPT ![c] = NoOp]
  /\ id' = [id EXCEPT ![c] = EmptyId]
  /\ want' = [want EXCEPT ![c] = {}]
  /\ missed' = [missed EXCEPT ![c] = {}]
  /\ late' = [late EXCEPT ![c] = {}]
  /\ pc' = [pc EXCEPT ![c] = "idle"]
  /\ reply' = [reply EXCEPT ![c] = r]
  /\ todo' = [todo EXCEPT ![c] = {}]
  /\ later' = [later EXCEPT ![c] = {}]
  /\ held' = [held EXCEPT ![c] = NoCopies]
  /\ current' = [current EXCEPT ![c] = {}]
  /\ err' = [err EXCEPT ![c] = FALSE]

\* c writes n back and learns the outcome.  A write whose answer is lost is an error to
\* c, whether the server has accepted it, refused it or not yet seen it.
Update(c, n, new) ==
  \/ /\ Accept(c, n, new)
     /\ err' = [err EXCEPT ![c] = FALSE]
     /\ UNCHANGED missed
  \/ /\ Accept(c, n, new) \/ Reject(c, n) \/ Unhandled(c, n, new)
     /\ err' = [err EXCEPT ![c] = TRUE]
     /\ missed' = [missed EXCEPT ![c] = @ \cup {n}]

\* UpdateNodeslabel goes from its additions to its removals.
StartRemoving(c) ==
  /\ pc' = [pc EXCEPT ![c] = "remove"]
  /\ todo' = [todo EXCEPT ![c] = later[c]]
  /\ later' = [later EXCEPT ![c] = {}]
  /\ err' = [err EXCEPT ![c] = FALSE]
  /\ UNCHANGED <<held, current, reply, callVars>>

\* What a Get of n gives c: a copy of the object at its latest version.
Fetch(c, n, copy) ==
  /\ held' = [held EXCEPT ![c] = [m \in {n} |-> copy]]
  /\ current' = [current EXCEPT ![c] = {n}]

----------------------------------------------------------------------------
(* AddlabelToNodes *)

\* Seeded fault: the label map is made anew even when the object has one.
AddGetBlank(c) ==
  /\ pc[c] = "add"
  /\ \E n \in todo[c] :
       \/ /\ Return(c, "error")
          /\ UNCHANGED <<present, labels, adrift>>
       \/ /\ n \in present
          /\ Fetch(c, n, {})
          /\ todo' = [todo EXCEPT ![c] = @ \ {n}]
          /\ pc' = [pc EXCEPT ![c] = "addWrite"]
          /\ UNCHANGED <<present, labels, adrift, later, err, reply, callVars>>

\* The loop gets its next node.  A Get that fails ends the call.
AddGet(c) ==
  /\ pc[c] = "add"
  /\ \E n \in todo[c] :
       \/ /\ Return(c, "error")
          /\ UNCHANGED <<present, labels, adrift>>
       \/ /\ n \in present
          /\ Fetch(c, n, labels[n])
          /\ todo' = [todo EXCEPT ![c] = @ \ {n}]
          /\ pc' = [pc EXCEPT ![c] = "addWrite"]
          /\ UNCHANGED <<present, labels, adrift, later, err, reply, callVars>>

\* Seeded fault: a node whose write failed is tried again, without end.
AddWriteRetrying(c) ==
  /\ pc[c] = "addWrite"
  /\ \E n \in DOMAIN held[c] :
       /\ Update(c, n, Labelled(held[c][n], id[c]))
       /\ todo' = [todo EXCEPT ![c] = IF err'[c] THEN @ \cup {n} ELSE @]
  /\ pc' = [pc EXCEPT ![c] = "add"]
  /\ held' = [held EXCEPT ![c] = NoCopies]
  /\ UNCHANGED <<present, op, id, want, late, later, reply>>

\* The labelled copy is written back.  The loop goes on after an error, and the next
\* write overwrites err.
AddWrite(c) ==
  /\ pc[c] = "addWrite"
  /\ \E n \in DOMAIN held[c] : Update(c, n, Labelled(held[c][n], id[c]))
  /\ pc' = [pc EXCEPT ![c] = "add"]
  /\ held' = [held EXCEPT ![c] = NoCopies]
  /\ UNCHANGED <<present, op, id, want, late, todo, later, reply>>

\* Seeded fault: the outcome of the writes is ignored.
AddDoneIgnoring(c) ==
  /\ pc[c] = "add" /\ todo[c] = {}
  /\ IF op[c] = "UpdateNodeslabel"
     THEN StartRemoving(c)
     ELSE Return(c, "ok")
  /\ UNCHANGED <<present, labels, adrift>>

\* The loop is over and err, that of the last write alone, is the result.  To
\* UpdateNodeslabel a nil result means that the removals start.
AddDone(c) ==
  /\ pc[c] = "add" /\ todo[c] = {}
  /\ IF op[c] = "UpdateNodeslabel" /\ ~err[c]
     THEN StartRemoving(c)
     ELSE Return(c, IF err[c] THEN "error" ELSE "ok")
  /\ UNCHANGED <<present, labels, adrift>>

----------------------------------------------------------------------------
(* RemoveNodeLabel *)

\* The loop gets its next node.  A Get that fails ends the call; a node without the
\* label is skipped.
RemoveGet(c) ==
  /\ pc[c] = "remove" /\ ~err[c]
  /\ \E n \in todo[c] :
       \/ /\ Return(c, "error")
          /\ UNCHANGED <<present, labels, adrift>>
       \/ /\ n \in present
          /\ todo' = [todo EXCEPT ![c] = @ \ {n}]
          /\ IF id[c] \in labels[n]
             THEN /\ Fetch(c, n, labels[n])
                  /\ pc' = [pc EXCEPT ![c] = "removeWrite"]
             ELSE UNCHANGED <<held, current, pc>>
          /\ UNCHANGED <<present, labels, adrift, later, err, reply, callVars>>

\* Seeded fault: the error of a write does not end the loop.
RemoveWriteIgnoring(c) ==
  /\ pc[c] = "removeWrite"
  /\ \E n \in DOMAIN held[c] :
       \/ Accept(c, n, Unlabelled(held[c][n], id[c]))
       \/ Unhandled(c, n, Unlabelled(held[c][n], id[c]))
       \/ Reject(c, n)
  /\ pc' = [pc EXCEPT ![c] = "remove"]
  /\ held' = [held EXCEPT ![c] = NoCopies]
  /\ UNCHANGED <<present, todo, later, err, reply, callVars>>

\* The copy is written back without the label.
RemoveWrite(c) ==
  /\ pc[c] = "removeWrite"
  /\ \E n \in DOMAIN held[c] : Update(c, n, Unlabelled(held[c][n], id[c]))
  /\ pc' = [pc EXCEPT ![c] = "remove"]
  /\ held' = [held EXCEPT ![c] = NoCopies]
  /\ UNCHANGED <<present, op, id, want, late, todo, later, reply>>

\* The loop ends after its last node, or at the first error of a write.
RemoveDone(c) ==
  /\ pc[c] = "remove"
  /\ \/ err[c] /\ Return(c, "error")
     \/ ~err[c] /\ todo[c] = {} /\ Return(c, "ok")
  /\ UNCHANGED <<present, labels, adrift>>

----------------------------------------------------------------------------
(* UpdateNodeslabel *)

\* The group is listed and compared with the wanted nodes; the additions start.  When
\* the list fails the call returns nil all the same.
UpdateList(c) ==
  /\ pc[c] = "list" /\ op[c] = "UpdateNodeslabel"
  /\ \/ /\ todo' = [todo EXCEPT ![c] = NodesToAdd(want[c], Selected(id[c]))]
        /\ later' = [later EXCEPT ![c] = NodesToRemove(want[c], Selected(id[c]))]
        /\ pc' = [pc EXCEPT ![c] = "add"]
        /\ UNCHANGED <<held, current, err, reply, callVars>>
     \/ Return(c, "ok")
  /\ UNCHANGED <<present, labels, adrift>>

----------------------------------------------------------------------------
(* DeleteGroup *)

\* The group is listed.  The loop works on the copies in the list, with no further
\* Get; an object without the label is skipped, which happens to all of them when
\* the id is empty.
DeleteGroupList(c) ==
  /\ pc[c] = "list" /\ op[c] = "DeleteGroup"
  /\ \/ /\ LET listed == {n \in Selected(id[c]) : id[c] \in labels[n]}
           IN  /\ todo' = [todo EXCEPT ![c] = listed]
               /\ held' = [held EXCEPT ![c] = [n \in listed |-> labels[n]]]
               /\ current' = [current EXCEPT ![c] = listed]
        /\ pc' = [pc EXCEPT ![c] = "sweep"]
        /\ UNCHANGED <<later, err, reply, callVars>>
     \/ Return(c, "error")
  /\ UNCHANGED <<present, labels, adrift>>

\* Seeded fault: the copies are written without their resourceVersion, so that the
\* server takes them whatever was written meanwhile.
DeleteGroupWriteBlind(c) ==
  /\ pc[c] = "sweep" /\ ~err[c]
  /\ \E n \in todo[c] \cap present :
       /\ labels' = [labels EXCEPT ![n] = Unlabelled(held[c][n], id[c])]
       /\ todo' = [todo EXCEPT ![c] = @ \ {n}]
  /\ UNCHANGED <<present, adrift, later, pc, held, current, err, reply, callVars>>

\* The copy of the next node is written back without the label.
DeleteGroupWrite(c) ==
  /\ pc[c] = "sweep" /\ ~err[c]
  /\ \E n \in todo[c] :
       /\ Update(c, n, Unlabelled(held[c][n], id[c]))
       /\ todo' = [todo EXCEPT ![c] = @ \ {n}]
       /\ held' = [held EXCEPT ![c] = [m \in DOMAIN @ \ {n} |-> @[m]]]
  /\ UNCHANGED <<present, op, id, want, late, later, pc, reply>>

\* The loop ends after its last node, or at the first error of a write.
DeleteGroupDone(c) ==
  /\ pc[c] = "sweep"
  /\ \/ err[c] /\ Return(c, "error")
     \/ ~err[c] /\ todo[c] = {} /\ Return(c, "ok")
  /\ UNCHANGED <<present, labels, adrift>>

----------------------------------------------------------------------------
(* Specification *)

\* The write under way in c's call, if it is one the server would take: any of the
\* sweep's, whose order is open.
UnderWay(c) ==
  {[node |-> n, labels |-> IF pc[c] = "addWrite" THEN Labelled(held[c][n], id[c])
                                                 ELSE Unlabelled(held[c][n], id[c])] :
     n \in {m \in current[c] : \/ pc[c] = "addWrite" /\ id[c] \in Groups \ labels[m]
                               \/ pc[c] = "removeWrite" /\ id[c] \in labels[m]
                               \/ pc[c] = "sweep" /\ ~err[c] /\ id[c] \in labels[m]}}

\* The process stops in the middle of its calls; nothing of them is persisted.  The
\* write each of them was waiting for may be left adrift.
Crash ==
  /\ \E c \in Callers : pc[c] # "idle"
  /\ \E sent \in SUBSET UNION {{c} \X UnderWay(c) : c \in Callers} :
       /\ \A s, t \in sent : s[1] = t[1] => s = t
       /\ adrift' = adrift \cup {s[2] : s \in sent}
  /\ Cardinality(adrift') <= MaxAdrift
  /\ pc' = [c \in Callers |-> "idle"]
  /\ reply' = [c \in Callers |-> "none"]
  /\ todo' = [c \in Callers |-> {}]
  /\ later' = [c \in Callers |-> {}]
  /\ held' = [c \in Callers |-> NoCopies]
  /\ current' = [c \in Callers |-> {}]
  /\ err' = [c \in Callers |-> FALSE]
  /\ op' = [c \in Callers |-> NoOp]
  /\ id' = [c \in Callers |-> EmptyId]
  /\ want' = [c \in Callers |-> {}]
  /\ missed' = [c \in Callers |-> {}]
  /\ late' = [c \in Callers |-> {}]
  /\ UNCHANGED <<present, labels>>

Init ==
  /\ present = Nodes
  /\ labels \in [Nodes -> SUBSET Groups]
  /\ adrift = {}
  /\ op = [c \in Callers |-> NoOp]
  /\ id = [c \in Callers |-> EmptyId]
  /\ want = [c \in Callers |-> {}]
  /\ pc = [c \in Callers |-> "idle"]
  /\ todo = [c \in Callers |-> {}]
  /\ later = [c \in Callers |-> {}]
  /\ held = [c \in Callers |-> NoCopies]
  /\ current = [c \in Callers |-> {}]
  /\ err = [c \in Callers |-> FALSE]
  /\ missed = [c \in Callers |-> {}]
  /\ late = [c \in Callers |-> {}]
  /\ reply = [c \in Callers |-> "none"]

\* What a caller does once it has made its call.
Step(c) ==
  \/ AddGet(c) \/ AddWrite(c) \/ AddDone(c)
  \/ RemoveGet(c) \/ RemoveWrite(c) \/ RemoveDone(c)
  \/ UpdateList(c)
  \/ DeleteGroupList(c) \/ DeleteGroupWrite(c) \/ DeleteGroupDone(c)

Next ==
  \/ \E c \in Callers : Call(c) \/ Step(c)
  \/ \E n \in Nodes : Heartbeat(n)
  \/ \E n \in Removable : DeleteNode(n) \/ RegisterNode(n)
  \/ HandleAdrift
  \/ Crash

Spec == Init /\ [][Next]_vars

\* Every request gets an answer or an error, and goroutines are scheduled.
Fairness == \A c \in Callers : WF_vars(Step(c))

FairSpec == Spec /\ Fairness

----------------------------------------------------------------------------
(* Properties *)

PCs == {"idle", "list", "add", "addWrite", "remove", "removeWrite", "sweep"}

\* The control state of c fits the call it makes, a loop with a Get holds one copy at
\* a time, and a loop visits only nodes the call may touch: additions stay within the
\* wanted nodes, the removals of an update stay clear of them.
ControlOK(c) ==
  /\ op[c] = "UpdateNodeslabel" => later[c] \cap want[c] = {}
  /\ op[c] = "DeleteGroup" => want[c] = {}
  /\ pc[c] = "idle" <=> op[c] = NoOp
  /\ pc[c] = "idle" => id[c] = EmptyId
  /\ pc[c] \in {"idle", "list"} => todo[c] \cup later[c] = {}
  /\ pc[c] \in {"idle", "list", "add", "remove"} => DOMAIN held[c] = {}
  /\ pc[c] \in {"addWrite", "removeWrite"} => \E n \in Nodes : DOMAIN held[c] = {n}
  /\ pc[c] = "list" => op[c] \in {"UpdateNodeslabel", "DeleteGroup"}
  /\ pc[c] \in {"add", "addWrite"} =>
       /\ op[c] \in {"AddlabelToNodes", "UpdateNodeslabel"}
       /\ todo[c] \cup DOMAIN held[c] \subseteq want[c]
  /\ pc[c] \in {"remove", "removeWrite"} =>
       \/ /\ op[c] = "RemoveNodeLabel"
          /\ todo[c] \cup DOMAIN held[c] \subseteq want[c]
       \/ /\ op[c] = "UpdateNodeslabel"
          /\ (todo[c] \cup DOMAIN held[c]) \cap want[c] = {}
  /\ pc[c] = "sweep" => op[c] = "DeleteGroup" /\ todo[c] = DOMAIN held[c]

\* The types of the variables, with the control states each call passes through
\* (handles.go:86-100) and the nodes its loops range over.
TypeOK ==
  /\ present \subseteq Nodes
  /\ labels \in [Nodes -> SUBSET Groups]
  /\ \A n \in Nodes \ present : labels[n] = {}
  /\ adrift \subseteq [node : Nodes, labels : SUBSET Groups]
  /\ op \in [Callers -> Ops \cup {NoOp}]
  /\ id \in [Callers -> Ids]
  /\ want \in [Callers -> SUBSET Nodes]
  /\ pc \in [Callers -> PCs]
  /\ todo \in [Callers -> SUBSET Nodes]
  /\ later \in [Callers -> SUBSET Nodes]
  /\ DOMAIN held = Callers
  /\ \A c \in Callers : /\ DOMAIN held[c] \subseteq Nodes
                        /\ held[c] \in [DOMAIN held[c] -> SUBSET Groups]
  /\ current \in [Callers -> SUBSET Nodes]
  /\ \A c \in Callers : current[c] \subseteq DOMAIN held[c]
  /\ err \in [Callers -> BOOLEAN]
  /\ missed \in [Callers -> SUBSET Nodes]
  /\ late \in [Callers -> SUBSET Nodes]
  /\ reply \in [Callers -> {"none", "ok", "error"}]
  /\ \A c \in Callers : ControlOK(c)

ChangesOneLabel(w) ==
  \E g \in Groups : \/ g \notin labels[w.node] /\ w.labels = labels[w.node] \cup {g}
                    \/ g \in labels[w.node] /\ w.labels = labels[w.node] \ {g}

\* A copy whose version is still the latest is the node's object: whatever another
\* caller, the kubelet or a re-registration did since the copy was read, a write
\* based on it that the server accepts changes the caller's own label and nothing
\* else.  A write left adrift, too, changes one label of its node for as long as the
\* server would take it.  This is why the read-modify-write loops of node.go lose no
\* update.
FreshCopies ==
  /\ \A c \in Callers : \A n \in current[c] : n \in present /\ held[c][n] = labels[n]
  /\ \A w \in adrift : w.node \in present /\ ChangesOneLabel(w)

\* The nodes that the current loop of c has not done with.
Pending(c) == todo[c] \cup DOMAIN held[c]

\* The nodes that the open call of c may yet add to its group, and remove from it.
Joining(c) ==
  CASE pc[c] = "list" -> want[c]
    [] pc[c] \in {"add", "addWrite"} -> Pending(c)
    [] OTHER -> {}

Leaving(c) ==
  CASE pc[c] = "list" -> Nodes \ want[c]
    [] pc[c] \in {"add", "addWrite"} -> later[c]
    [] OTHER -> Pending(c)

joinBar == [c \in Callers |-> Joining(c)]
leaveBar == [c \in Callers |-> Leaving(c)]
lateJoinBar == UNION {{w.node} \X (w.labels \ labels[w.node]) : w \in adrift}
lateLeaveBar == UNION {{w.node} \X (labels[w.node] \ w.labels) : w \in adrift}

Membership == INSTANCE GroupMembership WITH
  NoGroup <- EmptyId,
  groupsOf <- labels, group <- id, join <- joinBar, leave <- leaveBar,
  lateJoin <- lateJoinBar, lateLeave <- lateLeaveBar

\* The calls implement GroupMembership: with any number of callers, stale copies,
\* heartbeats, lost answers and crashes, a group changes one membership at a time, and
\* no other group is disturbed by the whole-object writes.  The change is one that an
\* open call on that very group asked for, or one that an earlier call asked for and
\* left adrift, and of the latter only while nothing about the node has changed since.
RefinesMembership == Membership!Spec

\* The next three say what a nil result means when one caller works alone, while
\* heartbeats still cause conflicts, answers are still lost, and the nodes of Removable
\* leave and come back without their labels.  Each excepts the nodes where a write left
\* adrift by an earlier call was handled during this one, against it.

\* AddlabelToNodes returns nil: whatever it failed to add is a node whose write
\* failed, or that left meanwhile, and that is never its last node, so that of nodes
\* that stay, and that no earlier call reaches, some is in the group (node.go:252-270;
\* the error of an earlier node is overwritten by the next).
AddOutcome ==
  [][\A c \in Callers :
       op[c] = "AddlabelToNodes" /\ reply'[c] = "ok" =>
         /\ want[c] \ Members(id[c]) \subseteq missed[c] \cup Removable \cup late[c]
         /\ want[c] # {} /\ want[c] \cap (Removable \cup late[c]) = {} =>
              want[c] \cap Members(id[c]) # {}]_vars

\* RemoveNodeLabel or DeleteGroup returns nil: not one of its nodes is left in the
\* group, nor has one come back with it, but by an addition of an earlier call.
RemoveOutcome ==
  [][\A c \in Callers :
       reply'[c] = "ok" /\ id[c] \in Groups =>
         /\ op[c] = "RemoveNodeLabel" => Members(id[c]) \cap want[c] \subseteq late[c]
         /\ op[c] = "DeleteGroup" => Members(id[c]) \subseteq late[c]]_vars

\* UpdateNodeslabel ran to the end of its removals and returns nil: the group holds
\* no node that was not asked for, and lacks only nodes whose write failed or that
\* left meanwhile.  This
\* needs a group id: the empty id lists every node, and an update to all of them
\* returns nil having done nothing.
UpdateOutcome ==
  [][\A c \in Callers :
       /\ op[c] = "UpdateNodeslabel" /\ id[c] \in Groups
       /\ pc[c] = "remove" /\ reply'[c] = "ok"
       => /\ Members(id[c]) \subseteq want[c] \cup late[c]
          /\ want[c] \ Members(id[c]) \subseteq missed[c] \cup Removable \cup late[c]]_vars

\* UpdateNodeslabel makes before it breaks: no step of an update that asks for some
\* node, all of nodes that stay, empties the group, even when writes fail, some of its
\* own are handled late, or the process stops halfway.  What does empty it is the
\* departure of its last node, before the update has added one, or a removal that an
\* earlier call has left adrift, from which nothing in the code protects it.
MakeBeforeBreak ==
  [][\A c \in Callers :
       op[c] = "UpdateNodeslabel" /\ want[c] # {} /\ want[c] \cap Removable = {}
         /\ present' = present /\ late[c] \cup late'[c] = {} =>
         \A g \in Groups \cap {id[c]} : Members(g) # {} => Members(g)' # {}]_vars

\* Every call returns: conflicts end a loop or are passed over, never retried
\* without bound.
CallReturns == \A c \in Callers : pc[c] # "idle" ~> pc[c] = "idle"
==============================================================================

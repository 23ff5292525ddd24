-------------------------- MODULE NodeGroupsProofs ---------------------------
(* Theorems about NodeGroups, for every set of nodes, groups and callers. *)
EXTENDS NodeGroups, TLAPS

\* The inductive invariant.  The two parts need each other: an accepted write goes
\* to a node that is present because the copy is fresh, and a copy stays well typed
\* because it is the label map of a node.
IndInv == TypeOK /\ FreshCopies

----------------------------------------------------------------------------
(* Steps shared by several actions *)

\* The initial states satisfy the invariant.
LEMMA InitInv == Init => IndInv
BY DEF Init, IndInv, TypeOK, FreshCopies, ControlOK, NoCopies, NoOp, Ids, Ops, PCs

\* A call that returns drops its copies and leaves a well-typed state.
LEMMA ReturnInv ==
  ASSUME IndInv, NEW c \in Callers, NEW r \in {"ok", "error"},
         Return(c, r), UNCHANGED <<present, labels, adrift>>
  PROVE  IndInv'
<1>1. TypeOK'
  BY DEF IndInv, TypeOK, ControlOK, Return, NoCopies, NoOp, Ids, PCs
<1>2. FreshCopies'
  BY DEF IndInv, TypeOK, FreshCopies, ChangesOneLabel, Return
<1> QED
  BY <1>1, <1>2 DEF IndInv

\* A request of the loops: the copy with the group's label set or deleted.
Request(c, n) == {Labelled(held[c][n], id[c]), Unlabelled(held[c][n], id[c])}

\* A write that its server would still take stays one when its node is left alone.
LEMMA StillOneLabel ==
  ASSUME NEW w \in adrift, ChangesOneLabel(w), labels'[w.node] = labels[w.node]
  PROVE  ChangesOneLabel(w)'
BY DEF ChangesOneLabel

\* A fresh copy with one label set or deleted changes one label, or none.
LEMMA FreshChanges ==
  ASSUME IndInv, NEW c \in Callers, NEW n \in current[c], NEW new \in Request(c, n),
         new \subseteq Groups, new # labels[n]
  PROVE  /\ n \in Nodes /\ n \in present
         /\ [node |-> n, labels |-> new] \in [node : Nodes, labels : SUBSET Groups]
         /\ ChangesOneLabel([node |-> n, labels |-> new])
<1>1. n \in Nodes /\ n \in present /\ held[c][n] = labels[n] /\ labels[n] \subseteq Groups
  BY DEF IndInv, TypeOK, FreshCopies
<1>2. id[c] \in Groups
  BY <1>1 DEF Request, Labelled, Unlabelled
<1>3. \/ id[c] \notin labels[n] /\ new = labels[n] \cup {id[c]}
      \/ id[c] \in labels[n] /\ new = labels[n] \ {id[c]}
  BY <1>1 DEF Request, Labelled, Unlabelled
<1> QED
  BY <1>1, <1>2, <1>3 DEF ChangesOneLabel

\* What a write does to the objects and to the copies of every caller, whatever its
\* outcome: labels stay well typed, no copy becomes current, the one written is spent,
\* the copies that remain current are those of nodes the write left alone, and what is
\* adrift changes one label of its node.
LEMMA WriteInv ==
  ASSUME IndInv, NEW c \in Callers, NEW n \in DOMAIN held[c], NEW new \in Request(c, n),
         Accept(c, n, new) \/ Reject(c, n) \/ Unhandled(c, n, new),
         UNCHANGED present
  PROVE  /\ labels' \in [Nodes -> SUBSET Groups]
         /\ \A m \in Nodes \ present : labels'[m] = {}
         /\ current' \in [Callers -> SUBSET Nodes]
         /\ \A d \in Callers : current'[d] \subseteq current[d]
         /\ n \notin current'[c]
         /\ \A d \in Callers : \A m \in current'[d] : labels'[m] = labels[m]
         /\ adrift' \subseteq [node : Nodes, labels : SUBSET Groups]
         /\ \A w \in adrift' : w.node \in present /\ ChangesOneLabel(w)'
<1>0. /\ adrift \subseteq [node : Nodes, labels : SUBSET Groups]
      /\ \A w \in adrift : w.node \in present /\ ChangesOneLabel(w)
  BY DEF IndInv, TypeOK, FreshCopies
<1>1. CASE Accept(c, n, new)
  <2>1. n \in Nodes /\ n \in present
    BY <1>1 DEF IndInv, TypeOK, FreshCopies, Accept
  <2>2. labels' = [labels EXCEPT ![n] = new] /\ new \in SUBSET Groups
    BY <1>1 DEF Accept
  <2>3. /\ labels' \in [Nodes -> SUBSET Groups]
        /\ \A m \in Nodes \ present : labels'[m] = {}
    BY <2>1, <2>2 DEF IndInv, TypeOK
  <2>4. \A d \in Callers :
          current'[d] = IF d = c \/ new # labels[n] THEN current[d] \ {n} ELSE current[d]
    BY <1>1 DEF Accept
  <2>5. current' \in [Callers -> SUBSET Nodes]
    BY <1>1 DEF Accept, IndInv, TypeOK
  <2>6. ASSUME NEW d \in Callers, NEW m \in current'[d]
        PROVE  labels'[m] = labels[m]
    <3>1. m \in Nodes /\ (m # n \/ new = labels[n])
      BY <2>4 DEF IndInv, TypeOK
    <3> QED
      BY <3>1, <2>1, <2>2 DEF IndInv, TypeOK
  <2>7. adrift' \subseteq adrift
    BY <1>1 DEF Accept, Elsewhere
  <2>8. ASSUME NEW w \in adrift'
        PROVE  w \in adrift /\ labels'[w.node] = labels[w.node]
    <3>1. w \in adrift /\ w.node \in Nodes
      BY <1>0, <2>7
    <3>2. w.node # n \/ new = labels[n]
      BY <1>1 DEF Accept, Elsewhere
    <3> QED
      BY <3>1, <3>2, <2>1, <2>2 DEF IndInv, TypeOK
  <2>9. \A w \in adrift' : w.node \in present /\ ChangesOneLabel(w)'
    BY <1>0, <2>8, StillOneLabel
  <2> QED
    BY <1>0, <2>3, <2>4, <2>5, <2>6, <2>7, <2>9
<1>2. CASE Reject(c, n)
  <2>1. \A w \in adrift' : w.node \in present /\ ChangesOneLabel(w)'
    BY <1>0, <1>2 DEF Reject, ChangesOneLabel
  <2> QED
    BY <1>0, <1>2, <2>1 DEF Reject, IndInv, TypeOK
<1>3. CASE Unhandled(c, n, new)
  <2> DEFINE sent == [node |-> n, labels |-> new]
  <2>1. /\ n \in current[c] /\ new \subseteq Groups /\ new # labels[n]
        /\ adrift' = adrift \cup {sent}
        /\ current' = [current EXCEPT ![c] = @ \ {n}]
        /\ labels' = labels
    BY <1>3 DEF Unhandled
  <2>2. /\ n \in present
        /\ sent \in [node : Nodes, labels : SUBSET Groups]
        /\ ChangesOneLabel(sent)
    BY <2>1, FreshChanges
  <2>3. sent.node = n
    OBVIOUS
  <2> HIDE DEF sent
  <2>4. \A w \in adrift' : w.node \in present /\ ChangesOneLabel(w)'
    BY <1>0, <2>1, <2>2, <2>3 DEF ChangesOneLabel
  <2> QED
    BY <1>0, <2>1, <2>2, <2>4 DEF IndInv, TypeOK
<1> QED
  BY <1>1, <1>2, <1>3

\* What Update adds to this: the types of err and missed.
LEMMA UpdateInv ==
  ASSUME IndInv, NEW c \in Callers, NEW n \in DOMAIN held[c], NEW new,
         Update(c, n, new)
  PROVE  /\ Accept(c, n, new) \/ Reject(c, n) \/ Unhandled(c, n, new)
         /\ err' \in [Callers -> BOOLEAN]
         /\ missed' \in [Callers -> SUBSET Nodes]
<1>1. /\ n \in Nodes
      /\ err \in [Callers -> BOOLEAN]
      /\ missed \in [Callers -> SUBSET Nodes]
  BY DEF IndInv, TypeOK
<1>2. CASE /\ Accept(c, n, new)
           /\ err' = [err EXCEPT ![c] = FALSE]
           /\ UNCHANGED missed
  BY <1>1, <1>2
<1>3. CASE /\ Accept(c, n, new) \/ Reject(c, n) \/ Unhandled(c, n, new)
           /\ err' = [err EXCEPT ![c] = TRUE]
           /\ missed' = [missed EXCEPT ![c] = @ \cup {n}]
  BY <1>1, <1>3
<1> QED
  BY <1>2, <1>3 DEF Update

\* The write at the end of a loop's step, of either loop that fetches its nodes.
LEMMA LoopWriteInv ==
  ASSUME IndInv, NEW c \in Callers, NEW n \in DOMAIN held[c], NEW new \in Request(c, n),
         Update(c, n, new),
         \/ pc[c] = "addWrite" /\ pc' = [pc EXCEPT ![c] = "add"]
         \/ pc[c] = "removeWrite" /\ pc' = [pc EXCEPT ![c] = "remove"],
         held' = [held EXCEPT ![c] = NoCopies],
         UNCHANGED <<present, op, id, want, late, todo, later, reply>>
  PROVE  IndInv'
<1>1. Accept(c, n, new) \/ Reject(c, n) \/ Unhandled(c, n, new)
  BY UpdateInv
<1>2. /\ labels' \in [Nodes -> SUBSET Groups]
      /\ \A m \in Nodes \ present : labels'[m] = {}
      /\ current' \in [Callers -> SUBSET Nodes]
      /\ \A d \in Callers : current'[d] \subseteq current[d]
      /\ n \notin current'[c]
      /\ \A d \in Callers : \A m \in current'[d] : labels'[m] = labels[m]
      /\ adrift' \subseteq [node : Nodes, labels : SUBSET Groups]
      /\ \A w \in adrift' : w.node \in present /\ ChangesOneLabel(w)'
  BY <1>1, WriteInv
<1>3. err' \in [Callers -> BOOLEAN] /\ missed' \in [Callers -> SUBSET Nodes]
  BY UpdateInv
<1>4. TypeOK'
  <2>1. /\ DOMAIN held' = Callers
        /\ DOMAIN held'[c] = {}
        /\ held'[c] \in [DOMAIN held'[c] -> SUBSET Groups]
        /\ \A d \in Callers \ {c} : held'[d] = held[d]
    BY DEF IndInv, TypeOK, NoCopies
  <2>2. current'[c] = {}
    BY <1>2 DEF IndInv, TypeOK, ControlOK
  <2>3. \A d \in Callers : current'[d] \subseteq DOMAIN held'[d]
    BY <1>2, <2>1, <2>2 DEF IndInv, TypeOK
  <2>4. pc' \in [Callers -> PCs]
    BY DEF IndInv, TypeOK, PCs
  <2>5. ASSUME NEW d \in Callers PROVE ControlOK(d)'
    <3>1. CASE d = c
      BY <3>1, <2>1 DEF IndInv, TypeOK, ControlOK
    <3>2. CASE d # c
      BY <3>2, <2>1 DEF IndInv, TypeOK, ControlOK
    <3> QED
      BY <3>1, <3>2
  <2> QED
    BY <1>2, <1>3, <2>1, <2>3, <2>4, <2>5 DEF IndInv, TypeOK
<1>5. \A d \in Callers : current'[d] # {} => held'[d] = held[d]
  BY <1>4 DEF IndInv, TypeOK, NoCopies
<1>6. FreshCopies'
  BY <1>2, <1>4, <1>5 DEF IndInv, TypeOK, FreshCopies
<1> QED
  BY <1>4, <1>6 DEF IndInv

----------------------------------------------------------------------------
(* One lemma per action *)

\* Events of the cluster keep the invariant.
LEMMA HeartbeatInv ==
  ASSUME IndInv, NEW n \in Nodes, Heartbeat(n)
  PROVE  IndInv'
<1>1. TypeOK'
  BY DEF IndInv, TypeOK, ControlOK, Heartbeat, Elsewhere, callVars
<1>2. FreshCopies'
  BY DEF IndInv, TypeOK, FreshCopies, ChangesOneLabel, Heartbeat, Elsewhere, callVars
<1> QED
  BY <1>1, <1>2 DEF IndInv

LEMMA DeleteNodeInv ==
  ASSUME IndInv, NEW n \in Nodes, DeleteNode(n)
  PROVE  IndInv'
<1>1. TypeOK'
  BY DEF IndInv, TypeOK, ControlOK, DeleteNode, Elsewhere, callVars
<1>2. \A w \in adrift' : w \in adrift /\ w.node # n /\ labels'[w.node] = labels[w.node]
  BY DEF IndInv, TypeOK, DeleteNode, Elsewhere
<1>3. \A w \in adrift' : w.node \in present' /\ ChangesOneLabel(w)'
  BY <1>2, StillOneLabel DEF IndInv, FreshCopies, DeleteNode
<1>4. FreshCopies'
  BY <1>3 DEF IndInv, TypeOK, FreshCopies, DeleteNode, callVars
<1> QED
  BY <1>1, <1>4 DEF IndInv

LEMMA RegisterNodeInv ==
  ASSUME IndInv, NEW n \in Nodes, RegisterNode(n)
  PROVE  IndInv'
<1>1. TypeOK'
  BY DEF IndInv, TypeOK, ControlOK, RegisterNode, callVars
<1>2. FreshCopies'
  BY DEF IndInv, FreshCopies, ChangesOneLabel, RegisterNode, callVars
<1> QED
  BY <1>1, <1>2 DEF IndInv

\* A write adrift that is handled leaves the copies and the writes of other nodes alone.
LEMMA HandleAdriftInv ==
  ASSUME IndInv, HandleAdrift
  PROVE  IndInv'
<1>1. PICK w \in adrift :
        \/ /\ labels' = [labels EXCEPT ![w.node] = w.labels]
           /\ adrift' = Elsewhere(w.node)
           /\ current' = [c \in Callers |-> current[c] \ {w.node}]
           /\ late' = [c \in Callers |->
                IF Against(w, c) THEN late[c] \cup {w.node} ELSE late[c]]
        \/ /\ adrift' = adrift \ {w}
           /\ UNCHANGED <<labels, current, late>>
  BY DEF HandleAdrift
<1>2. UNCHANGED <<present, op, id, want, pc, todo, later, held, err, missed, reply>>
  BY DEF HandleAdrift
<1>3. w.node \in Nodes /\ w.node \in present /\ w.labels \in SUBSET Groups
  BY DEF IndInv, TypeOK, FreshCopies
<1>4. adrift' \subseteq adrift
  BY <1>1 DEF Elsewhere
<1>5. \A c \in Callers : ControlOK(c)'
  BY <1>2 DEF IndInv, TypeOK, ControlOK
<1>6. CASE labels' = labels /\ current' = current /\ late' = late
  <2>1. TypeOK'
    BY <1>2, <1>4, <1>5, <1>6 DEF IndInv, TypeOK
  <2>2. FreshCopies'
    BY <1>2, <1>4, <1>6 DEF IndInv, FreshCopies, ChangesOneLabel
  <2> QED
    BY <2>1, <2>2 DEF IndInv
<1>7. CASE /\ labels' = [labels EXCEPT ![w.node] = w.labels]
           /\ adrift' = Elsewhere(w.node)
           /\ current' = [c \in Callers |-> current[c] \ {w.node}]
           /\ late' = [c \in Callers |->
                IF Against(w, c) THEN late[c] \cup {w.node} ELSE late[c]]
  <2>1. TypeOK'
    <3>1. /\ labels' \in [Nodes -> SUBSET Groups]
          /\ \A n \in Nodes \ present : labels'[n] = {}
      BY <1>3, <1>7 DEF IndInv, TypeOK
    <3>2. late' \in [Callers -> SUBSET Nodes]
      BY <1>3, <1>7 DEF IndInv, TypeOK
    <3>3. /\ current' \in [Callers -> SUBSET Nodes]
          /\ \A c \in Callers : current'[c] \subseteq current[c]
      BY <1>7 DEF IndInv, TypeOK
    <3> QED
      BY <1>2, <1>4, <1>5, <3>1, <3>2, <3>3 DEF IndInv, TypeOK
  <2>2. \A v \in adrift' : v \in adrift /\ labels'[v.node] = labels[v.node]
    BY <1>7 DEF Elsewhere, IndInv, TypeOK
  <2>3. \A v \in adrift' : v.node \in present /\ ChangesOneLabel(v)'
    BY <2>2, StillOneLabel DEF IndInv, FreshCopies
  <2>4. \A c \in Callers : \A n \in current'[c] : n \in present /\ held[c][n] = labels'[n]
    BY <1>7 DEF IndInv, TypeOK, FreshCopies
  <2>5. FreshCopies'
    BY <1>2, <2>3, <2>4 DEF FreshCopies
  <2> QED
    BY <2>1, <2>5 DEF IndInv
<1> QED
  BY <1>1, <1>6, <1>7

\* The write under way in a call is one of a fresh copy.
LEMMA UnderWayChanges ==
  ASSUME IndInv, NEW c \in Callers, NEW w \in UnderWay(c)
  PROVE  /\ w \in [node : Nodes, labels : SUBSET Groups]
         /\ w.node \in present /\ w.node \in current[c]
         /\ id[c] \in Groups
         /\ \/ /\ pc[c] = "addWrite" /\ id[c] \notin labels[w.node]
               /\ w.labels = labels[w.node] \cup {id[c]}
            \/ /\ pc[c] \in {"removeWrite", "sweep"} /\ id[c] \in labels[w.node]
               /\ w.labels = labels[w.node] \ {id[c]}
<1>1. PICK n \in current[c] :
        /\ \/ pc[c] = "addWrite" /\ id[c] \in Groups \ labels[n]
           \/ pc[c] = "removeWrite" /\ id[c] \in labels[n]
           \/ pc[c] = "sweep" /\ ~err[c] /\ id[c] \in labels[n]
        /\ w = [node |-> n, labels |-> IF pc[c] = "addWrite" THEN Labelled(held[c][n], id[c])
                                       ELSE Unlabelled(held[c][n], id[c])]
  BY DEF UnderWay
<1>2. n \in Nodes /\ n \in present /\ held[c][n] = labels[n] /\ labels[n] \subseteq Groups
  BY DEF IndInv, TypeOK, FreshCopies
<1>3. CASE pc[c] = "addWrite"
  BY <1>1, <1>2, <1>3 DEF Labelled
<1>4. CASE pc[c] # "addWrite"
  BY <1>1, <1>2, <1>4 DEF Unlabelled
<1> QED
  BY <1>3, <1>4

LEMMA CrashInv ==
  ASSUME IndInv, Crash
  PROVE  IndInv'
<1>1. PICK sent \in SUBSET UNION {{c} \X UnderWay(c) : c \in Callers} :
        adrift' = adrift \cup {s[2] : s \in sent}
  BY DEF Crash
<1>2. \A w \in adrift' : w \in adrift \/ \E c \in Callers : w \in UnderWay(c)
  BY <1>1
<1>3. UNCHANGED <<present, labels>>
  BY DEF Crash
<1>4. ASSUME NEW w \in adrift'
      PROVE  /\ w \in [node : Nodes, labels : SUBSET Groups]
             /\ w.node \in present /\ ChangesOneLabel(w)
  <2>1. CASE w \in adrift
    BY <2>1 DEF IndInv, TypeOK, FreshCopies
  <2>2. ASSUME NEW c \in Callers, w \in UnderWay(c)
        PROVE  /\ w \in [node : Nodes, labels : SUBSET Groups]
               /\ w.node \in present /\ ChangesOneLabel(w)
    BY <2>2, UnderWayChanges DEF ChangesOneLabel
  <2> QED
    BY <1>2, <2>1, <2>2
<1>5. TypeOK'
  BY <1>3, <1>4 DEF IndInv, TypeOK, ControlOK, Crash, NoCopies, NoOp, Ids, PCs
<1>6. FreshCopies'
  BY <1>3, <1>4 DEF FreshCopies, ChangesOneLabel, Crash
<1> QED
  BY <1>5, <1>6 DEF IndInv

\* A call starts with the control state that fits it.
LEMMA CallInv ==
  ASSUME IndInv, NEW c \in Callers, Call(c)
  PROVE  IndInv'
<1>1. PICK o \in Ops, g \in Ids, w \in SUBSET Nodes :
        /\ o = "DeleteGroup" => w = {}
        /\ op' = [op EXCEPT ![c] = o]
        /\ id' = [id EXCEPT ![c] = g]
        /\ want' = [want EXCEPT ![c] = w]
        /\ pc' = [pc EXCEPT ![c] = Entry(o)]
        /\ todo' = [todo EXCEPT ![c] =
                      IF o \in {"AddlabelToNodes", "RemoveNodeLabel"} THEN w ELSE {}]
  BY DEF Call
<1>2. /\ pc[c] = "idle"
      /\ reply' = [reply EXCEPT ![c] = "none"]
      /\ UNCHANGED <<present, labels, adrift, missed, late, later, held, current, err>>
  BY DEF Call
<1>3. TypeOK'
  <2>1. /\ op' \in [Callers -> Ops \cup {NoOp}] /\ id' \in [Callers -> Ids]
        /\ want' \in [Callers -> SUBSET Nodes] /\ pc' \in [Callers -> PCs]
        /\ todo' \in [Callers -> SUBSET Nodes]
        /\ reply' \in [Callers -> {"none", "ok", "error"}]
    BY <1>1, <1>2 DEF IndInv, TypeOK, Entry, PCs
  <2>2. ASSUME NEW d \in Callers PROVE ControlOK(d)'
    <3>1. CASE d = c
      BY <1>1, <1>2, <3>1 DEF IndInv, TypeOK, ControlOK, Entry, Ops, NoOp, Ids, PCs
    <3>2. CASE d # c
      BY <1>1, <1>2, <3>2 DEF IndInv, TypeOK, ControlOK
    <3> QED
      BY <3>1, <3>2
  <2> QED
    BY <1>2, <2>1, <2>2 DEF IndInv, TypeOK
<1>4. FreshCopies'
  BY <1>2 DEF IndInv, FreshCopies, ChangesOneLabel
<1> QED
  BY <1>3, <1>4 DEF IndInv

\* The steps of AddlabelToNodes.
LEMMA AddGetInv ==
  ASSUME IndInv, NEW c \in Callers, AddGet(c)
  PROVE  IndInv'
<1>1. PICK n \in todo[c] :
        \/ Return(c, "error") /\ UNCHANGED <<present, labels, adrift>>
        \/ /\ n \in present
           /\ Fetch(c, n, labels[n])
           /\ todo' = [todo EXCEPT ![c] = @ \ {n}]
           /\ pc' = [pc EXCEPT ![c] = "addWrite"]
           /\ UNCHANGED <<present, labels, adrift, later, err, reply, callVars>>
  BY DEF AddGet
<1>2. CASE Return(c, "error") /\ UNCHANGED <<present, labels, adrift>>
  BY <1>2, ReturnInv
<1>3. CASE /\ n \in present
           /\ Fetch(c, n, labels[n])
           /\ todo' = [todo EXCEPT ![c] = @ \ {n}]
           /\ pc' = [pc EXCEPT ![c] = "addWrite"]
           /\ UNCHANGED <<present, labels, adrift, later, err, reply, callVars>>
  <2>1. TypeOK'
    BY <1>3 DEF IndInv, TypeOK, ControlOK, AddGet, Fetch, callVars, PCs
  <2>2. FreshCopies'
    BY <1>3 DEF IndInv, TypeOK, FreshCopies, ChangesOneLabel, Fetch
  <2> QED
    BY <2>1, <2>2 DEF IndInv
<1> QED
  BY <1>1, <1>2, <1>3

LEMMA AddWriteInv ==
  ASSUME IndInv, NEW c \in Callers, AddWrite(c)
  PROVE  IndInv'
<1>1. PICK n \in DOMAIN held[c] : Update(c, n, Labelled(held[c][n], id[c]))
  BY DEF AddWrite
<1> QED
  BY <1>1, LoopWriteInv DEF AddWrite, Request

LEMMA StartRemovingInv ==
  ASSUME IndInv, NEW c \in Callers, pc[c] = "add", op[c] = "UpdateNodeslabel",
         StartRemoving(c), UNCHANGED <<present, labels, adrift>>
  PROVE  IndInv'
<1>1. TypeOK'
  BY DEF IndInv, TypeOK, ControlOK, StartRemoving, callVars, PCs
<1>2. FreshCopies'
  BY DEF IndInv, FreshCopies, ChangesOneLabel, StartRemoving
<1> QED
  BY <1>1, <1>2 DEF IndInv

LEMMA AddDoneInv ==
  ASSUME IndInv, NEW c \in Callers, AddDone(c)
  PROVE  IndInv'
<1>1. CASE op[c] = "UpdateNodeslabel" /\ ~err[c]
  BY <1>1, StartRemovingInv DEF AddDone
<1>2. CASE ~(op[c] = "UpdateNodeslabel" /\ ~err[c])
  <2>1. \/ Return(c, "error")
        \/ Return(c, "ok")
    BY <1>2 DEF AddDone
  <2> QED
    BY <2>1, ReturnInv DEF AddDone
<1> QED
  BY <1>1, <1>2

\* The steps of RemoveNodeLabel.
LEMMA RemoveGetInv ==
  ASSUME IndInv, NEW c \in Callers, RemoveGet(c)
  PROVE  IndInv'
<1>1. pc[c] = "remove" /\ DOMAIN held[c] = {}
  BY DEF RemoveGet, IndInv, TypeOK, ControlOK
<1>2. CASE Return(c, "error") /\ UNCHANGED <<present, labels, adrift>>
  BY <1>2, ReturnInv
<1>3. ASSUME NEW n \in todo[c],
             n \in present,
             todo' = [todo EXCEPT ![c] = @ \ {n}],
             Fetch(c, n, labels[n]),
             pc' = [pc EXCEPT ![c] = "removeWrite"],
             UNCHANGED <<present, labels, adrift, later, err, reply, callVars>>
      PROVE  IndInv'
  <2> n \in Nodes
    BY <1>3 DEF IndInv, TypeOK
  <2>1. TypeOK'
    BY <1>1, <1>3 DEF IndInv, TypeOK, ControlOK, Fetch, callVars, PCs
  <2>2. FreshCopies'
    BY <1>3 DEF IndInv, TypeOK, FreshCopies, ChangesOneLabel, Fetch
  <2> QED
    BY <2>1, <2>2 DEF IndInv
<1>4. ASSUME NEW n \in todo[c],
             todo' = [todo EXCEPT ![c] = @ \ {n}],
             UNCHANGED <<held, current, pc>>,
             UNCHANGED <<present, labels, adrift, later, err, reply, callVars>>
      PROVE  IndInv'
  <2>1. TypeOK'
    BY <1>1, <1>4 DEF IndInv, TypeOK, ControlOK, callVars
  <2>2. FreshCopies'
    BY <1>4 DEF IndInv, FreshCopies, ChangesOneLabel
  <2> QED
    BY <2>1, <2>2 DEF IndInv
<1> QED
  BY <1>2, <1>3, <1>4 DEF RemoveGet

LEMMA RemoveWriteInv ==
  ASSUME IndInv, NEW c \in Callers, RemoveWrite(c)
  PROVE  IndInv'
<1>1. PICK n \in DOMAIN held[c] : Update(c, n, Unlabelled(held[c][n], id[c]))
  BY DEF RemoveWrite
<1> QED
  BY <1>1, LoopWriteInv DEF RemoveWrite, Request

LEMMA RemoveDoneInv ==
  ASSUME IndInv, NEW c \in Callers, RemoveDone(c)
  PROVE  IndInv'
BY ReturnInv DEF RemoveDone

\* The list of UpdateNodeslabel.
LEMMA UpdateListInv ==
  ASSUME IndInv, NEW c \in Callers, UpdateList(c)
  PROVE  IndInv'
<1>1. CASE Return(c, "ok")
  BY <1>1, ReturnInv DEF UpdateList
<1>2. CASE /\ todo' = [todo EXCEPT ![c] = NodesToAdd(want[c], Selected(id[c]))]
           /\ later' = [later EXCEPT ![c] = NodesToRemove(want[c], Selected(id[c]))]
           /\ pc' = [pc EXCEPT ![c] = "add"]
           /\ UNCHANGED <<held, current, err, reply, callVars>>
  <2>1. Selected(id[c]) \subseteq Nodes
    BY DEF Selected, IndInv, TypeOK
  <2>2. TypeOK'
    BY <1>2, <2>1 DEF UpdateList, NodesToAdd, NodesToRemove, IndInv, TypeOK, ControlOK,
                      callVars, PCs
  <2>3. FreshCopies'
    BY <1>2 DEF UpdateList, IndInv, FreshCopies, ChangesOneLabel
  <2> QED
    BY <2>2, <2>3 DEF IndInv
<1> QED
  BY <1>1, <1>2 DEF UpdateList

\* The steps of DeleteGroup.
LEMMA DeleteGroupListInv ==
  ASSUME IndInv, NEW c \in Callers, DeleteGroupList(c)
  PROVE  IndInv'
<1>1. CASE Return(c, "error")
  BY <1>1, ReturnInv DEF DeleteGroupList
<1>2. CASE /\ LET listed == {n \in Selected(id[c]) : id[c] \in labels[n]}
              IN  /\ todo' = [todo EXCEPT ![c] = listed]
                  /\ held' = [held EXCEPT ![c] = [n \in listed |-> labels[n]]]
                  /\ current' = [current EXCEPT ![c] = listed]
           /\ pc' = [pc EXCEPT ![c] = "sweep"]
           /\ UNCHANGED <<later, err, reply, callVars>>
  <2> DEFINE listed == {n \in Selected(id[c]) : id[c] \in labels[n]}
  <2>1. listed \subseteq Nodes /\ listed \subseteq present
    BY DEF Selected, IndInv, TypeOK
  <2>2. /\ todo' = [todo EXCEPT ![c] = listed]
        /\ held' = [held EXCEPT ![c] = [n \in listed |-> labels[n]]]
        /\ current' = [current EXCEPT ![c] = listed]
    BY <1>2
  <2> HIDE DEF listed
  <2>3. TypeOK'
    BY <1>2, <2>1, <2>2 DEF DeleteGroupList, IndInv, TypeOK, ControlOK, callVars, PCs
  <2>4. FreshCopies'
    BY <2>1, <2>2 DEF DeleteGroupList, IndInv, TypeOK, FreshCopies, ChangesOneLabel
  <2> QED
    BY <2>3, <2>4 DEF IndInv
<1> QED
  BY <1>1, <1>2 DEF DeleteGroupList

LEMMA DeleteGroupWriteInv ==
  ASSUME IndInv, NEW c \in Callers, DeleteGroupWrite(c)
  PROVE  IndInv'
<1>0. /\ pc[c] = "sweep"
      /\ UNCHANGED <<present, op, id, want, late, later, pc, reply>>
  BY DEF DeleteGroupWrite
<1>1. PICK n \in todo[c] :
        /\ Update(c, n, Unlabelled(held[c][n], id[c]))
        /\ todo' = [todo EXCEPT ![c] = @ \ {n}]
        /\ held' = [held EXCEPT ![c] = [m \in DOMAIN @ \ {n} |-> @[m]]]
  BY DEF DeleteGroupWrite
<1>2. n \in DOMAIN held[c]
  BY <1>0 DEF IndInv, TypeOK, ControlOK
<1>3. /\ \/ Accept(c, n, Unlabelled(held[c][n], id[c])) \/ Reject(c, n)
         \/ Unhandled(c, n, Unlabelled(held[c][n], id[c]))
      /\ Unlabelled(held[c][n], id[c]) \in Request(c, n)
  BY <1>1, <1>2, UpdateInv DEF Request
<1>4. /\ labels' \in [Nodes -> SUBSET Groups]
      /\ \A m \in Nodes \ present : labels'[m] = {}
      /\ current' \in [Callers -> SUBSET Nodes]
      /\ \A d \in Callers : current'[d] \subseteq current[d]
      /\ n \notin current'[c]
      /\ \A d \in Callers : \A m \in current'[d] : labels'[m] = labels[m]
      /\ adrift' \subseteq [node : Nodes, labels : SUBSET Groups]
      /\ \A w \in adrift' : w.node \in present /\ ChangesOneLabel(w)'
  BY <1>0, <1>2, <1>3, WriteInv
<1>5. err' \in [Callers -> BOOLEAN] /\ missed' \in [Callers -> SUBSET Nodes]
  BY <1>1, <1>2, UpdateInv
<1>6. /\ DOMAIN held' = Callers
      /\ DOMAIN held'[c] = DOMAIN held[c] \ {n}
      /\ \A m \in DOMAIN held'[c] : held'[c][m] = held[c][m]
      /\ \A d \in Callers \ {c} : held'[d] = held[d]
      /\ held'[c] \in [DOMAIN held'[c] -> SUBSET Groups]
  BY <1>1 DEF IndInv, TypeOK
<1>7. TypeOK'
  <2>1. \A d \in Callers : current'[d] \subseteq DOMAIN held'[d]
    BY <1>4, <1>6 DEF IndInv, TypeOK
  <2>2. ASSUME NEW d \in Callers PROVE ControlOK(d)'
    <3>1. CASE d = c
      BY <3>1, <1>0, <1>1, <1>6 DEF IndInv, TypeOK, ControlOK
    <3>2. CASE d # c
      BY <3>2, <1>0, <1>1, <1>6 DEF IndInv, TypeOK, ControlOK
    <3> QED
      BY <3>1, <3>2
  <2> QED
    BY <1>0, <1>1, <1>4, <1>5, <1>6, <2>1, <2>2 DEF IndInv, TypeOK
<1>8. FreshCopies'
  BY <1>0, <1>4, <1>6 DEF IndInv, TypeOK, FreshCopies
<1> QED
  BY <1>7, <1>8 DEF IndInv

LEMMA DeleteGroupDoneInv ==
  ASSUME IndInv, NEW c \in Callers, DeleteGroupDone(c)
  PROVE  IndInv'
BY ReturnInv DEF DeleteGroupDone

----------------------------------------------------------------------------
(* Type correctness and freshness *)

\* Every step keeps the invariant.
LEMMA NextInv == IndInv /\ [Next]_vars => IndInv'
<1> SUFFICES ASSUME IndInv, [Next]_vars PROVE IndInv'
  OBVIOUS
<1>1. CASE UNCHANGED vars
  BY <1>1 DEF IndInv, TypeOK, FreshCopies, ChangesOneLabel, ControlOK, vars
<1>2. ASSUME NEW c \in Callers, Call(c) \/ Step(c) PROVE IndInv'
  BY <1>2, CallInv, AddGetInv, AddWriteInv, AddDoneInv, RemoveGetInv, RemoveWriteInv,
     RemoveDoneInv, UpdateListInv, DeleteGroupListInv, DeleteGroupWriteInv,
     DeleteGroupDoneInv DEF Step
<1>3. ASSUME NEW n \in Nodes, Heartbeat(n) PROVE IndInv'
  BY <1>3, HeartbeatInv
<1>4. ASSUME NEW n \in Removable, DeleteNode(n) \/ RegisterNode(n) PROVE IndInv'
  BY <1>4, DeleteNodeInv, RegisterNodeInv, RemovableAssumption
<1>5. CASE Crash
  BY <1>5, CrashInv
<1>6. CASE HandleAdrift
  BY <1>6, HandleAdriftInv
<1> QED
  BY <1>1, <1>2, <1>3, <1>4, <1>5, <1>6 DEF Next

\* Both parts hold in every reachable state.
THEOREM Invariance == Spec => []IndInv
<1>1. Init => IndInv
  BY InitInv
<1>2. IndInv /\ [Next]_vars => IndInv'
  BY NextInv
<1> QED
  BY <1>1, <1>2, PTL DEF Spec

\* The variables keep their types, and the control state of every caller fits its call.
THEOREM TypeCorrect == Spec => []TypeOK
<1>1. IndInv => TypeOK
  BY DEF IndInv
<1> QED
  BY <1>1, Invariance, PTL

\* A copy that the server would take a write of is the object itself: no
\* read-modify-write of node.go loses a label change made by another.
THEOREM CopiesFresh == Spec => []FreshCopies
<1>1. IndInv => FreshCopies
  BY DEF IndInv
<1> QED
  BY <1>1, Invariance, PTL

----------------------------------------------------------------------------
(* Implementation of GroupMembership *)

USE DEF joinBar, leaveBar

\* What hangs in the abstract state is the one label that each write adrift changes.
LEMMA LateJoins ==
  ASSUME NEW p
  PROVE  p \in lateJoinBar <=>
           \E w \in adrift : \E g \in w.labels \ labels[w.node] : p = <<w.node, g>>
BY DEF lateJoinBar

LEMMA LateLeaves ==
  ASSUME NEW p
  PROVE  p \in lateLeaveBar <=>
           \E w \in adrift : \E g \in labels[w.node] \ w.labels : p = <<w.node, g>>
BY DEF lateLeaveBar

\* The same two facts of the next state.
LEMMA LateJoinsNext ==
  ASSUME NEW p
  PROVE  p \in lateJoinBar' <=>
           \E w \in adrift' : \E g \in w.labels \ labels'[w.node] : p = <<w.node, g>>
BY DEF lateJoinBar

LEMMA LateLeavesNext ==
  ASSUME NEW p
  PROVE  p \in lateLeaveBar' <=>
           \E w \in adrift' : \E g \in labels'[w.node] \ w.labels : p = <<w.node, g>>
BY DEF lateLeaveBar

\* What may hang depends on the writes adrift alone, as long as no label changes.
LEMMA SameLate ==
  ASSUME UNCHANGED <<labels, adrift>>
  PROVE  UNCHANGED <<lateJoinBar, lateLeaveBar>>
BY DEF lateJoinBar, lateLeaveBar

\* A caller that does nothing keeps its entitlements.
LEMMA SameEntitlement ==
  ASSUME NEW d \in Callers,
         pc'[d] = pc[d], want'[d] = want[d], todo'[d] = todo[d], later'[d] = later[d],
         held'[d] = held[d]
  PROVE  Joining(d)' = Joining(d) /\ Leaving(d)' = Leaving(d)
BY Zenon DEF Joining, Leaving, Pending

LEMMA SameAbstractState ==
  ASSUME UNCHANGED <<labels, adrift, id, pc, want, todo, later, held>>
  PROVE  UNCHANGED Membership!vars
<1>1. \A d \in Callers : Joining(d)' = Joining(d) /\ Leaving(d)' = Leaving(d)
  BY SameEntitlement
<1> QED
  BY <1>1, SameLate DEF Membership!vars

\* A call goes on: the other callers do nothing, and its own nodes get fewer.
LEMMA CallGoesOn ==
  ASSUME IndInv, NEW c \in Callers, id' = id,
         Joining(c)' \subseteq Joining(c), Leaving(c)' \subseteq Leaving(c),
         \A d \in Callers \ {c} :
           /\ pc'[d] = pc[d] /\ want'[d] = want[d] /\ todo'[d] = todo[d]
           /\ later'[d] = later[d] /\ held'[d] = held[d]
  PROVE  Membership!GoesOn(c)
<1>1. \A d \in Callers \ {c} : Joining(d)' = Joining(d) /\ Leaving(d)' = Leaving(d)
  BY SameEntitlement
<1> QED
  BY <1>1 DEF Membership!GoesOn

\* A return closes the call.
LEMMA ReturnCloses ==
  ASSUME IndInv, NEW c \in Callers, NEW r, Return(c, r), UNCHANGED <<labels, adrift>>
  PROVE  Membership!Close(c)
<1>1. /\ pc'[c] = "idle" /\ todo'[c] = {} /\ DOMAIN held'[c] = {}
      /\ id' = [id EXCEPT ![c] = EmptyId]
  BY DEF Return, NoCopies, IndInv, TypeOK
<1>2. Joining(c)' = {} /\ Leaving(c)' = {}
  BY <1>1 DEF Joining, Leaving, Pending
<1>3. \A d \in Callers \ {c} : Joining(d)' = Joining(d) /\ Leaving(d)' = Leaving(d)
  <2> SUFFICES ASSUME NEW d \in Callers \ {c}
               PROVE  Joining(d)' = Joining(d) /\ Leaving(d)' = Leaving(d)
    OBVIOUS
  <2> QED
    BY SameEntitlement DEF Return, IndInv, TypeOK
<1> QED
  BY <1>1, <1>2, <1>3, SameLate DEF Membership!Close

\* A call that starts is opened.
LEMMA CallOpens ==
  ASSUME IndInv, NEW c \in Callers, Call(c)
  PROVE  Membership!Open(c)
<1>1. PICK o \in Ops, g \in Ids, w \in SUBSET Nodes :
        /\ o = "DeleteGroup" => w = {}
        /\ op' = [op EXCEPT ![c] = o]
        /\ id' = [id EXCEPT ![c] = g]
        /\ want' = [want EXCEPT ![c] = w]
        /\ pc' = [pc EXCEPT ![c] = Entry(o)]
        /\ todo' = [todo EXCEPT ![c] =
                      IF o \in {"AddlabelToNodes", "RemoveNodeLabel"} THEN w ELSE {}]
  BY DEF Call
<1>2. pc[c] = "idle" /\ UNCHANGED <<labels, adrift, later, held>>
  BY DEF Call
<1>3. /\ id[c] = EmptyId
      /\ todo[c] = {} /\ later[c] = {} /\ DOMAIN held[c] = {}
  BY <1>2 DEF IndInv, TypeOK, ControlOK
<1>4. Joining(c) = {} /\ Leaving(c) = {}
  BY <1>2, <1>3 DEF Joining, Leaving, Pending
<1>5. /\ pc'[c] = Entry(o) /\ want'[c] = w
      /\ todo'[c] = IF o \in {"AddlabelToNodes", "RemoveNodeLabel"} THEN w ELSE {}
      /\ later'[c] = {} /\ DOMAIN held'[c] = {}
  BY <1>1, <1>2, <1>3 DEF IndInv, TypeOK
<1>6. /\ Joining(c)' \in SUBSET Nodes
      /\ Leaving(c)' \in SUBSET (Nodes \ Joining(c)')
  <2>1. CASE o = "AddlabelToNodes"
    BY <1>5, <2>1 DEF Joining, Leaving, Pending, Entry
  <2>2. CASE o = "RemoveNodeLabel"
    BY <1>5, <2>2 DEF Joining, Leaving, Pending, Entry
  <2>3. CASE o \notin {"AddlabelToNodes", "RemoveNodeLabel"}
    BY <1>5, <2>3 DEF Joining, Leaving, Pending, Entry
  <2> QED
    BY <2>1, <2>2, <2>3
<1>7. \A d \in Callers \ {c} : Joining(d)' = Joining(d) /\ Leaving(d)' = Leaving(d)
  <2> SUFFICES ASSUME NEW d \in Callers \ {c}
               PROVE  Joining(d)' = Joining(d) /\ Leaving(d)' = Leaving(d)
    OBVIOUS
  <2> QED
    BY <1>1, <1>2, SameEntitlement DEF IndInv, TypeOK
<1>8. /\ joinBar' = [joinBar EXCEPT ![c] = Joining(c)']
      /\ leaveBar' = [leaveBar EXCEPT ![c] = Leaving(c)']
  BY <1>7
<1> QED
  BY <1>1, <1>2, <1>3, <1>4, <1>6, <1>8, SameLate DEF Membership!Open, Ids

\* A label of n that changes voids what hangs for n, and nothing else.
LEMMA ChangeVoids ==
  ASSUME IndInv, NEW n \in Nodes, NEW new,
         labels' = [labels EXCEPT ![n] = new], adrift' = Elsewhere(n)
  PROVE  Membership!Void(n)
<1>1. \A w \in adrift : w.node \in Nodes
  BY DEF IndInv, TypeOK
<1>2. \A w \in adrift : w.node # n => labels'[w.node] = labels[w.node]
  BY <1>1 DEF IndInv, TypeOK
<1>3. ASSUME NEW p
      PROVE  p \in lateJoinBar' <=> p \in lateJoinBar /\ p[1] # n
  BY <1>2, LateJoins, LateJoinsNext DEF Elsewhere
<1>4. ASSUME NEW p
      PROVE  p \in lateLeaveBar' <=> p \in lateLeaveBar /\ p[1] # n
  BY <1>2, LateLeaves, LateLeavesNext DEF Elsewhere
<1> QED
  BY <1>3, <1>4 DEF Membership!Void

\* A write that changes nothing, or is refused, leaves the abstract groups as they are.
LEMMA WriteKeeps ==
  ASSUME NEW c \in Callers, NEW n \in Nodes, NEW new, IndInv,
         Reject(c, n) \/ (Accept(c, n, new) /\ new = labels[n])
  PROVE  UNCHANGED <<labels, adrift>>
BY DEF Reject, Accept, IndInv, TypeOK

\* A write that is left unhandled hangs: nothing else about what hangs changes.
LEMMA UnhandledHangs ==
  ASSUME IndInv, NEW c \in Callers, NEW n \in Nodes, NEW new, NEW g,
         Unhandled(c, n, new),
         \/ g \notin labels[n] /\ new = labels[n] \cup {g}
         \/ g \in labels[n] /\ new = labels[n] \ {g}
  PROVE  /\ labels' = labels
         /\ g \notin labels[n] => /\ lateJoinBar' = lateJoinBar \cup {<<n, g>>}
                                  /\ lateLeaveBar' = lateLeaveBar
         /\ g \in labels[n] => /\ lateJoinBar' = lateJoinBar
                               /\ lateLeaveBar' = lateLeaveBar \cup {<<n, g>>}
<1> DEFINE sent == [node |-> n, labels |-> new]
<1>1. labels' = labels /\ adrift' = adrift \cup {sent}
  BY DEF Unhandled
<1>2. sent.node = n /\ sent.labels = new
  OBVIOUS
<1> HIDE DEF sent
<1>3. CASE g \notin labels[n] /\ new = labels[n] \cup {g}
  <2>1. sent.labels \ labels[sent.node] = {g} /\ labels[sent.node] \ sent.labels = {}
    BY <1>2, <1>3
  <2>2. ASSUME NEW p PROVE p \in lateJoinBar' <=> p \in lateJoinBar \/ p = <<n, g>>
    BY <1>1, <1>2, <2>1, LateJoins, LateJoinsNext
  <2>3. ASSUME NEW p PROVE p \in lateLeaveBar' <=> p \in lateLeaveBar
    BY <1>1, <1>2, <2>1, LateLeaves, LateLeavesNext
  <2> QED
    BY <1>1, <1>3, <2>2, <2>3
<1>4. CASE g \in labels[n] /\ new = labels[n] \ {g}
  <2>1. sent.labels \ labels[sent.node] = {} /\ labels[sent.node] \ sent.labels = {g}
    BY <1>2, <1>4
  <2>2. ASSUME NEW p PROVE p \in lateLeaveBar' <=> p \in lateLeaveBar \/ p = <<n, g>>
    BY <1>1, <1>2, <2>1, LateLeaves, LateLeavesNext
  <2>3. ASSUME NEW p PROVE p \in lateJoinBar' <=> p \in lateJoinBar
    BY <1>1, <1>2, <2>1, LateJoins, LateJoinsNext
  <2> QED
    BY <1>1, <1>4, <2>2, <2>3
<1> QED
  BY <1>3, <1>4

\* The write of a labelled copy is a Join, because the copy is fresh, or hangs, or is
\* lost.
LEMMA WriteJoins ==
  ASSUME IndInv, NEW c \in Callers, NEW n \in DOMAIN held[c],
         n \in Joining(c), Membership!GoesOn(c),
         Update(c, n, Labelled(held[c][n], id[c]))
  PROVE  Membership!Join(c) \/ Membership!Hang(c) \/ Membership!Narrow(c)
<1> DEFINE new == Labelled(held[c][n], id[c])
<1>0. n \in Nodes
  BY DEF IndInv, TypeOK
<1>1. CASE Reject(c, n) \/ (Accept(c, n, new) /\ new = labels[n])
  BY <1>0, <1>1, WriteKeeps, SameLate DEF Membership!Narrow
<1>2. ASSUME n \in current[c], new \subseteq Groups, new # labels[n]
      PROVE  /\ id[c] \in Groups /\ id[c] \notin labels[n]
             /\ new = labels[n] \cup {id[c]}
  BY <1>2 DEF Labelled, IndInv, FreshCopies
<1>3. CASE Accept(c, n, new) /\ new # labels[n]
  <2>1. /\ id[c] \in Groups /\ new = labels[n] \cup {id[c]}
        /\ labels' = [labels EXCEPT ![n] = new] /\ adrift' = Elsewhere(n)
    BY <1>2, <1>3 DEF Accept
  <2>2. Membership!Void(n)
    BY <1>0, <2>1, ChangeVoids
  <2>3. labels' = [labels EXCEPT ![n] = @ \cup {id[c]}]
    BY <2>1
  <2> HIDE DEF new
  <2> QED
    BY <2>1, <2>2, <2>3 DEF Membership!Join
<1>4. CASE Unhandled(c, n, new)
  <2>1. id[c] \in Groups /\ id[c] \notin labels[n] /\ new = labels[n] \cup {id[c]}
    BY <1>2, <1>4 DEF Unhandled
  <2>2. /\ labels' = labels
        /\ lateJoinBar' = lateJoinBar \cup {<<n, id[c]>>}
        /\ lateLeaveBar' = lateLeaveBar
    BY <1>0, <1>4, <2>1, UnhandledHangs
  <2>3. <<n, id[c]>> \in Membership!Additions(c)
    BY <2>1 DEF Membership!Additions
  <2> HIDE DEF new
  <2> QED
    BY <2>2, <2>3 DEF Membership!Hang
<1> QED
  BY <1>1, <1>3, <1>4 DEF Update

\* The write of an unlabelled copy is a Leave, or hangs, or is lost.
LEMMA WriteLeaves ==
  ASSUME IndInv, NEW c \in Callers, NEW n \in DOMAIN held[c],
         n \in Leaving(c), Membership!GoesOn(c),
         Update(c, n, Unlabelled(held[c][n], id[c]))
  PROVE  Membership!Leave(c) \/ Membership!Hang(c) \/ Membership!Narrow(c)
<1> DEFINE new == Unlabelled(held[c][n], id[c])
<1>0. n \in Nodes /\ labels[n] \subseteq Groups
  BY DEF IndInv, TypeOK
<1>1. CASE Reject(c, n) \/ (Accept(c, n, new) /\ new = labels[n])
  BY <1>0, <1>1, WriteKeeps, SameLate DEF Membership!Narrow
<1>2. ASSUME n \in current[c], new # labels[n]
      PROVE  /\ id[c] \in Groups /\ id[c] \in labels[n]
             /\ new = labels[n] \ {id[c]}
  BY <1>0, <1>2 DEF Unlabelled, IndInv, FreshCopies
<1>3. CASE Accept(c, n, new) /\ new # labels[n]
  <2>1. /\ id[c] \in Groups /\ new = labels[n] \ {id[c]}
        /\ labels' = [labels EXCEPT ![n] = new] /\ adrift' = Elsewhere(n)
    BY <1>2, <1>3 DEF Accept
  <2>2. Membership!Void(n)
    BY <1>0, <2>1, ChangeVoids
  <2>3. labels' = [labels EXCEPT ![n] = @ \ {id[c]}]
    BY <2>1
  <2> HIDE DEF new
  <2> QED
    BY <2>1, <2>2, <2>3 DEF Membership!Leave
<1>4. CASE Unhandled(c, n, new)
  <2>1. id[c] \in Groups /\ id[c] \in labels[n] /\ new = labels[n] \ {id[c]}
    BY <1>2, <1>4 DEF Unhandled
  <2>2. /\ labels' = labels
        /\ lateJoinBar' = lateJoinBar
        /\ lateLeaveBar' = lateLeaveBar \cup {<<n, id[c]>>}
    BY <1>0, <1>4, <2>1, UnhandledHangs
  <2>3. <<n, id[c]>> \in Membership!Removals(c)
    BY <2>1 DEF Membership!Removals
  <2> HIDE DEF new
  <2> QED
    BY <2>2, <2>3 DEF Membership!Hang
<1> QED
  BY <1>1, <1>3, <1>4 DEF Update

\* A node that leaves the cluster leaves every group.
LEMMA DeleteNodeDeparts ==
  ASSUME IndInv, NEW n \in Nodes, DeleteNode(n)
  PROVE  Membership!Depart
<1>1. Membership!Void(n)
  BY ChangeVoids DEF DeleteNode
<1>2. \A d \in Callers : Joining(d)' = Joining(d) /\ Leaving(d)' = Leaving(d)
  BY SameEntitlement DEF DeleteNode, callVars
<1> QED
  BY <1>1, <1>2 DEF Membership!Depart, Membership!callVars, DeleteNode, callVars

\* A heartbeat, and a write that never arrives, only void what hangs.
LEMMA VoidLapses ==
  ASSUME UNCHANGED <<labels, id, pc, want, todo, later, held>>, adrift' \subseteq adrift
  PROVE  Membership!Lapse
<1>1. \A d \in Callers : Joining(d)' = Joining(d) /\ Leaving(d)' = Leaving(d)
  BY SameEntitlement
<1>2. lateJoinBar' \subseteq lateJoinBar /\ lateLeaveBar' \subseteq lateLeaveBar
  BY LateJoins, LateJoinsNext, LateLeaves, LateLeavesNext
<1> QED
  BY <1>1, <1>2 DEF Membership!Lapse

\* A write adrift that is handled settles, for it changes one label.
LEMMA HandleAdriftSettles ==
  ASSUME IndInv, HandleAdrift
  PROVE  Membership!Settle \/ Membership!Lapse
<1>1. UNCHANGED <<id, pc, want, todo, later, held>>
  BY DEF HandleAdrift
<1>2. PICK w \in adrift :
        \/ labels' = [labels EXCEPT ![w.node] = w.labels] /\ adrift' = Elsewhere(w.node)
        \/ adrift' = adrift \ {w} /\ labels' = labels
  BY DEF HandleAdrift
<1>3. CASE adrift' = adrift \ {w} /\ labels' = labels
  BY <1>1, <1>3, VoidLapses
<1>4. CASE labels' = [labels EXCEPT ![w.node] = w.labels] /\ adrift' = Elsewhere(w.node)
  <2>1. w.node \in Nodes /\ ChangesOneLabel(w)
    BY DEF IndInv, TypeOK, FreshCopies
  <2>2. Membership!Void(w.node)
    BY <1>4, <2>1, ChangeVoids
  <2>3. UNCHANGED Membership!callVars
    <3>1. \A d \in Callers : Joining(d)' = Joining(d) /\ Leaving(d)' = Leaving(d)
      BY <1>1, SameEntitlement
    <3> QED
      BY <1>1, <3>1 DEF Membership!callVars
  <2>4. PICK g \in Groups :
          \/ g \notin labels[w.node] /\ w.labels = labels[w.node] \cup {g}
          \/ g \in labels[w.node] /\ w.labels = labels[w.node] \ {g}
    BY <2>1 DEF ChangesOneLabel
  <2> DEFINE p == <<w.node, g>>
  <2>5. p[1] = w.node /\ p[2] = g
    OBVIOUS
  <2>6. CASE g \notin labels[w.node] /\ w.labels = labels[w.node] \cup {g}
    <3>1. p \in lateJoinBar
      BY <2>6, LateJoins
    <3>2. labels' = [labels EXCEPT ![p[1]] = @ \cup {p[2]}]
      BY <1>4, <2>5, <2>6
    <3> HIDE DEF p
    <3> QED
      BY <2>2, <2>3, <2>5, <3>1, <3>2 DEF Membership!Settle
  <2>7. CASE g \in labels[w.node] /\ w.labels = labels[w.node] \ {g}
    <3>1. p \in lateLeaveBar
      BY <2>7, LateLeaves
    <3>2. labels' = [labels EXCEPT ![p[1]] = @ \ {p[2]}]
      BY <1>4, <2>5, <2>7
    <3> HIDE DEF p
    <3> QED
      BY <2>2, <2>3, <2>5, <3>1, <3>2 DEF Membership!Settle
  <2> QED
    BY <2>4, <2>6, <2>7
<1> QED
  BY <1>2, <1>3, <1>4

\* A crash abandons every call, and what may hang of it was asked for.
LEMMA CrashAbandons ==
  ASSUME IndInv, Crash
  PROVE  Membership!Abandon
<1>1. PICK sent \in SUBSET UNION {{c} \X UnderWay(c) : c \in Callers} :
        adrift' = adrift \cup {s[2] : s \in sent}
  BY DEF Crash
<1>2. \A w \in adrift' : w \in adrift \/ \E c \in Callers : w \in UnderWay(c)
  BY <1>1
<1>3. adrift \subseteq adrift' /\ labels' = labels
  BY <1>1 DEF Crash
<1>4. \A c \in Callers : Joining(c)' = {} /\ Leaving(c)' = {}
  BY DEF Crash, Joining, Leaving, Pending, NoCopies
<1>5. lateJoinBar \subseteq lateJoinBar' /\ lateLeaveBar \subseteq lateLeaveBar'
  BY <1>3, LateJoins, LateJoinsNext, LateLeaves, LateLeavesNext
<1>6. ASSUME NEW c \in Callers, NEW w \in UnderWay(c)
      PROVE  /\ \A g \in w.labels \ labels[w.node] : <<w.node, g>> \in Membership!Additions(c)
             /\ \A g \in labels[w.node] \ w.labels : <<w.node, g>> \in Membership!Removals(c)
  <2>1. w.node \in Pending(c)
    BY <1>6, UnderWayChanges DEF Pending, IndInv, TypeOK
  <2>2. CASE /\ pc[c] = "addWrite" /\ id[c] \notin labels[w.node]
             /\ w.labels = labels[w.node] \cup {id[c]}
    <3>1. w.node \in Joining(c)
      BY <2>1, <2>2 DEF Joining
    <3> QED
      BY <1>6, <2>2, <3>1, UnderWayChanges DEF Membership!Additions
  <2>3. CASE /\ pc[c] \in {"removeWrite", "sweep"} /\ id[c] \in labels[w.node]
             /\ w.labels = labels[w.node] \ {id[c]}
    <3>1. w.node \in Leaving(c)
      BY <2>1, <2>3 DEF Leaving
    <3> QED
      BY <1>6, <2>3, <3>1, UnderWayChanges DEF Membership!Removals
  <2> QED
    BY <1>6, <2>2, <2>3, UnderWayChanges
<1>7. ASSUME NEW p \in lateJoinBar'
      PROVE  p \in lateJoinBar \cup UNION {Membership!Additions(c) : c \in Callers}
  <2>1. PICK w \in adrift' : \E g \in w.labels \ labels[w.node] : p = <<w.node, g>>
    BY <1>3, LateJoinsNext
  <2> QED
    BY <1>2, <1>6, <2>1, LateJoins
<1>8. ASSUME NEW p \in lateLeaveBar'
      PROVE  p \in lateLeaveBar \cup UNION {Membership!Removals(c) : c \in Callers}
  <2>1. PICK w \in adrift' : \E g \in labels[w.node] \ w.labels : p = <<w.node, g>>
    BY <1>3, LateLeavesNext
  <2> QED
    BY <1>2, <1>6, <2>1, LateLeaves
<1> QED
  BY <1>3, <1>4, <1>5, <1>7, <1>8 DEF Membership!Abandon, Crash

\* The step of a loop between its writes.
LEMMA StepNarrows ==
  ASSUME IndInv, NEW c \in Callers, UNCHANGED <<labels, adrift, id, want>>,
         Joining(c)' \subseteq Joining(c), Leaving(c)' \subseteq Leaving(c),
         \A d \in Callers \ {c} :
           pc'[d] = pc[d] /\ todo'[d] = todo[d] /\ later'[d] = later[d] /\ held'[d] = held[d]
  PROVE  Membership!Narrow(c)
BY CallGoesOn, SameLate DEF Membership!Narrow

AbstractStep(c) ==
  \/ Membership!Join(c) \/ Membership!Leave(c) \/ Membership!Hang(c)
  \/ Membership!Narrow(c) \/ Membership!Close(c)

\* What a step of an open call is to the abstract specification: the steps of
\* AddlabelToNodes,
LEMMA AddImplements ==
  ASSUME IndInv, NEW c \in Callers, AddGet(c) \/ AddWrite(c) \/ AddDone(c)
  PROVE  AbstractStep(c)
<1>1. CASE AddGet(c)
  <2>1. ASSUME NEW n \in todo[c], Fetch(c, n, labels[n]),
               todo' = [todo EXCEPT ![c] = @ \ {n}], pc' = [pc EXCEPT ![c] = "addWrite"],
               UNCHANGED <<present, labels, adrift, later, err, reply, callVars>>
        PROVE  Membership!Narrow(c)
    <3>1. pc[c] = "add" /\ pc'[c] = "addWrite" /\ later'[c] = later[c]
      BY <1>1, <2>1 DEF AddGet, IndInv, TypeOK
    <3>2. Pending(c)' \subseteq Pending(c)
      BY <2>1 DEF Fetch, Pending, IndInv, TypeOK
    <3>3. Joining(c)' \subseteq Joining(c) /\ Leaving(c)' \subseteq Leaving(c)
      BY <3>1, <3>2 DEF Joining, Leaving
    <3> QED
      BY <2>1, <3>3, StepNarrows DEF Fetch, callVars, IndInv, TypeOK
  <2> QED
    BY <1>1, <2>1, ReturnCloses DEF AddGet, AbstractStep
<1>2. CASE AddWrite(c)
  <2>1. PICK n \in DOMAIN held[c] : Update(c, n, Labelled(held[c][n], id[c]))
    BY <1>2 DEF AddWrite
  <2>2. /\ pc[c] = "addWrite" /\ pc' = [pc EXCEPT ![c] = "add"]
        /\ held' = [held EXCEPT ![c] = NoCopies]
        /\ UNCHANGED <<id, want, todo, later>>
    BY <1>2 DEF AddWrite
  <2>3. pc'[c] = "add" /\ Pending(c)' \subseteq Pending(c)
    BY <2>2 DEF Pending, NoCopies, IndInv, TypeOK
  <2>4. /\ Joining(c)' \subseteq Joining(c) /\ Leaving(c)' \subseteq Leaving(c)
        /\ n \in Joining(c)
    BY <2>2, <2>3 DEF Joining, Leaving, Pending
  <2>5. Membership!GoesOn(c)
    BY <2>2, <2>4, CallGoesOn DEF IndInv, TypeOK
  <2> QED
    BY <2>1, <2>4, <2>5, WriteJoins DEF AbstractStep
<1>3. CASE AddDone(c)
  <2>1. CASE op[c] = "UpdateNodeslabel" /\ ~err[c]
    <3>1. /\ pc[c] = "add" /\ todo[c] = {}
          /\ pc' = [pc EXCEPT ![c] = "remove"]
          /\ todo' = [todo EXCEPT ![c] = later[c]] /\ later' = [later EXCEPT ![c] = {}]
          /\ UNCHANGED <<labels, adrift, id, want, held>>
      BY <1>3, <2>1 DEF AddDone, StartRemoving, callVars
    <3>2. pc'[c] = "remove" /\ Pending(c)' = later[c]
      BY <3>1 DEF Pending, IndInv, TypeOK, ControlOK
    <3>3. Joining(c)' \subseteq Joining(c) /\ Leaving(c)' \subseteq Leaving(c)
      BY <3>1, <3>2 DEF Joining, Leaving
    <3> QED
      BY <3>1, <3>3, StepNarrows DEF AbstractStep, IndInv, TypeOK
  <2>2. CASE ~(op[c] = "UpdateNodeslabel" /\ ~err[c])
    BY <1>3, <2>2, ReturnCloses DEF AddDone, AbstractStep
  <2> QED
    BY <2>1, <2>2
<1> QED
  BY <1>1, <1>2, <1>3

\* those of RemoveNodeLabel,
LEMMA RemoveImplements ==
  ASSUME IndInv, NEW c \in Callers, RemoveGet(c) \/ RemoveWrite(c) \/ RemoveDone(c)
  PROVE  AbstractStep(c)
<1>1. CASE RemoveGet(c)
  <2>1. ASSUME NEW n \in todo[c], n \in present,
               todo' = [todo EXCEPT ![c] = @ \ {n}],
               \/ Fetch(c, n, labels[n]) /\ pc' = [pc EXCEPT ![c] = "removeWrite"]
               \/ UNCHANGED <<held, current, pc>>,
               UNCHANGED <<present, labels, adrift, later, err, reply, callVars>>
        PROVE  Membership!Narrow(c)
    <3>1. pc[c] = "remove" /\ pc'[c] \in {"remove", "removeWrite"}
      BY <1>1, <2>1 DEF RemoveGet, IndInv, TypeOK
    <3>2. Pending(c)' \subseteq Pending(c)
      BY <2>1 DEF Fetch, Pending, IndInv, TypeOK
    <3>3. Joining(c)' \subseteq Joining(c) /\ Leaving(c)' \subseteq Leaving(c)
      BY <3>1, <3>2 DEF Joining, Leaving
    <3> QED
      BY <2>1, <3>3, StepNarrows DEF Fetch, callVars, IndInv, TypeOK
  <2> QED
    BY <1>1, <2>1, ReturnCloses DEF RemoveGet, AbstractStep
<1>2. CASE RemoveWrite(c)
  <2>1. PICK n \in DOMAIN held[c] : Update(c, n, Unlabelled(held[c][n], id[c]))
    BY <1>2 DEF RemoveWrite
  <2>2. /\ pc[c] = "removeWrite" /\ pc' = [pc EXCEPT ![c] = "remove"]
        /\ held' = [held EXCEPT ![c] = NoCopies]
        /\ UNCHANGED <<id, want, todo, later>>
    BY <1>2 DEF RemoveWrite
  <2>3. pc'[c] = "remove" /\ Pending(c)' \subseteq Pending(c)
    BY <2>2 DEF Pending, NoCopies, IndInv, TypeOK
  <2>4. /\ Joining(c)' \subseteq Joining(c) /\ Leaving(c)' \subseteq Leaving(c)
        /\ n \in Leaving(c)
    BY <2>2, <2>3 DEF Joining, Leaving, Pending
  <2>5. Membership!GoesOn(c)
    BY <2>2, <2>4, CallGoesOn DEF IndInv, TypeOK
  <2> QED
    BY <2>1, <2>4, <2>5, WriteLeaves DEF AbstractStep
<1>3. CASE RemoveDone(c)
  BY <1>3, ReturnCloses DEF RemoveDone, AbstractStep
<1> QED
  BY <1>1, <1>2, <1>3

\* and those of the calls that start with a list.
LEMMA ListImplements ==
  ASSUME IndInv, NEW c \in Callers,
         \/ UpdateList(c)
         \/ DeleteGroupList(c) \/ DeleteGroupWrite(c) \/ DeleteGroupDone(c)
  PROVE  AbstractStep(c)
<1>1. CASE UpdateList(c)
  <2>1. CASE Return(c, "ok")
    BY <1>1, <2>1, ReturnCloses DEF UpdateList, AbstractStep
  <2>2. CASE /\ todo' = [todo EXCEPT ![c] = NodesToAdd(want[c], Selected(id[c]))]
             /\ later' = [later EXCEPT ![c] = NodesToRemove(want[c], Selected(id[c]))]
             /\ pc' = [pc EXCEPT ![c] = "add"]
             /\ UNCHANGED <<held, current, err, reply, callVars>>
    <3>1. /\ pc[c] = "list" /\ DOMAIN held[c] = {}
          /\ UNCHANGED <<labels, adrift>> /\ Selected(id[c]) \subseteq Nodes
      BY <1>1 DEF UpdateList, Selected, IndInv, TypeOK, ControlOK
    <3>2. /\ pc'[c] = "add" /\ Pending(c)' \subseteq want[c]
          /\ later'[c] \subseteq Nodes \ want[c]
      BY <2>2, <3>1 DEF Pending, NodesToAdd, NodesToRemove, IndInv, TypeOK
    <3>3. Joining(c)' \subseteq Joining(c) /\ Leaving(c)' \subseteq Leaving(c)
      BY <3>1, <3>2 DEF Joining, Leaving
    <3> QED
      BY <2>2, <3>1, <3>3, StepNarrows DEF callVars, AbstractStep, IndInv, TypeOK
  <2> QED
    BY <1>1, <2>1, <2>2 DEF UpdateList
<1>2. CASE DeleteGroupList(c)
  <2>1. CASE Return(c, "error")
    BY <1>2, <2>1, ReturnCloses DEF DeleteGroupList, AbstractStep
  <2>2. CASE ~Return(c, "error")
    <3> DEFINE listed == {n \in Selected(id[c]) : id[c] \in labels[n]}
    <3>1. /\ pc[c] = "list" /\ want[c] = {} /\ listed \subseteq Nodes
          /\ todo' = [todo EXCEPT ![c] = listed]
          /\ held' = [held EXCEPT ![c] = [n \in listed |-> labels[n]]]
          /\ pc' = [pc EXCEPT ![c] = "sweep"]
          /\ UNCHANGED <<labels, adrift, later, id, want>>
      BY <1>2, <2>2 DEF DeleteGroupList, Selected, callVars, IndInv, TypeOK, ControlOK
    <3> HIDE DEF listed
    <3>2. pc'[c] = "sweep" /\ Pending(c)' = listed
      BY <3>1 DEF Pending, IndInv, TypeOK
    <3>3. Joining(c)' \subseteq Joining(c) /\ Leaving(c)' \subseteq Leaving(c)
      BY <3>1, <3>2 DEF Joining, Leaving
    <3> QED
      BY <3>1, <3>3, StepNarrows DEF AbstractStep, IndInv, TypeOK
  <2> QED
    BY <2>1, <2>2
<1>3. CASE DeleteGroupWrite(c)
  <2>1. PICK n \in todo[c] :
          /\ Update(c, n, Unlabelled(held[c][n], id[c]))
          /\ todo' = [todo EXCEPT ![c] = @ \ {n}]
          /\ held' = [held EXCEPT ![c] = [m \in DOMAIN @ \ {n} |-> @[m]]]
    BY <1>3 DEF DeleteGroupWrite
  <2>2. pc[c] = "sweep" /\ n \in DOMAIN held[c] /\ UNCHANGED <<id, want, later, pc>>
    BY <1>3 DEF DeleteGroupWrite, IndInv, TypeOK, ControlOK
  <2>3. Pending(c)' \subseteq Pending(c)
    BY <2>1 DEF Pending, IndInv, TypeOK
  <2>4. /\ Joining(c)' \subseteq Joining(c) /\ Leaving(c)' \subseteq Leaving(c)
        /\ n \in Leaving(c)
    BY <2>1, <2>2, <2>3 DEF Joining, Leaving, Pending
  <2>5. Membership!GoesOn(c)
    BY <2>1, <2>2, <2>4, CallGoesOn DEF IndInv, TypeOK
  <2> QED
    BY <2>1, <2>2, <2>4, <2>5, WriteLeaves DEF AbstractStep
<1>4. CASE DeleteGroupDone(c)
  BY <1>4, ReturnCloses DEF DeleteGroupDone, AbstractStep
<1> QED
  BY <1>1, <1>2, <1>3, <1>4

\* NodeGroups implements GroupMembership: for any number of callers, nodes and groups,
\* and of writes left adrift, every change of membership is one node joining or leaving
\* the group of an open call that has yet to do so, or of an earlier one that left the
\* change hanging while nothing else changed the node, or a node leaving the cluster.
THEOREM Refinement == Spec => RefinesMembership
<1>1. Init => Membership!Init
  <2> SUFFICES ASSUME Init PROVE Membership!Init
    OBVIOUS
  <2>1. \A c \in Callers : Joining(c) = {} /\ Leaving(c) = {}
    BY DEF Init, Joining, Leaving, Pending, NoCopies
  <2>2. lateJoinBar = {} /\ lateLeaveBar = {}
    BY DEF Init, lateJoinBar, lateLeaveBar
  <2> QED
    BY <2>1, <2>2 DEF Init, Membership!Init
<1>2. IndInv /\ [Next]_vars => [Membership!Next]_(Membership!vars)
  <2> SUFFICES ASSUME IndInv, [Next]_vars
               PROVE  Membership!Next \/ UNCHANGED Membership!vars
    OBVIOUS
  <2>1. CASE UNCHANGED vars
    BY <2>1, SameAbstractState DEF vars
  <2>2. ASSUME NEW c \in Callers, Call(c)
        PROVE  Membership!Next
    BY <2>2, CallOpens DEF Membership!Next
  <2>3. ASSUME NEW c \in Callers, Step(c)
        PROVE  Membership!Next
    BY <2>3, AddImplements, RemoveImplements, ListImplements
       DEF Step, AbstractStep, Membership!Next
  <2>4. ASSUME NEW n \in Nodes, Heartbeat(n)
        PROVE  Membership!Next
    BY <2>4, VoidLapses DEF Heartbeat, Elsewhere, callVars, Membership!Next
  <2>5. ASSUME NEW n \in Removable, DeleteNode(n) \/ RegisterNode(n)
        PROVE  Membership!Next \/ UNCHANGED Membership!vars
    <3>1. n \in Nodes
      BY RemovableAssumption
    <3>2. CASE DeleteNode(n)
      BY <3>1, <3>2, DeleteNodeDeparts DEF Membership!Next
    <3>3. CASE RegisterNode(n)
      BY <3>3, SameAbstractState DEF RegisterNode, callVars
    <3> QED
      BY <2>5, <3>2, <3>3
  <2>6. CASE Crash
    BY <2>6, CrashAbandons DEF Membership!Next
  <2>7. CASE HandleAdrift
    BY <2>7, HandleAdriftSettles DEF Membership!Next
  <2> QED
    BY <2>1, <2>2, <2>3, <2>4, <2>5, <2>6, <2>7 DEF Next
<1> QED
  BY <1>1, <1>2, Invariance, PTL DEF Spec, RefinesMembership, Membership!Spec

----------------------------------------------------------------------------
(* What a nil result means when there is one caller *)

OneCaller == \A c, d \in Callers : c = d

\* An update of the empty id, which lists all nodes and then does nothing, is left aside.
GroupNamed(c) == op[c] = "UpdateNodeslabel" => id[c] \in Groups

\* All that c wants is in its group, or was missed, may leave, was reached late by an
\* earlier call, or is in `rest`.
Wanted(c, rest) ==
  want[c] \subseteq Members(id[c]) \cup missed[c] \cup Removable \cup late[c] \cup rest

\* If c wants some nodes, which stay and which no earlier call has reached late, then one
\* of them is in the group.
SomeIn(c) ==
  want[c] # {} /\ want[c] \cap (Removable \cup late[c]) = {} => want[c] \cap Members(id[c]) # {}

\* How far each loop has got: what it has done with is as the call promises.
Progress(c) ==
  /\ op[c] # NoOp => reply[c] = "none"
  /\ pc[c] = "removeWrite" => ~err[c]
  /\ pc[c] \in {"add", "addWrite"} /\ GroupNamed(c) =>
       /\ Wanted(c, Pending(c))
       /\ ~err[c] /\ Pending(c) = {} => SomeIn(c)
       /\ op[c] = "UpdateNodeslabel" => Members(id[c]) \subseteq want[c] \cup later[c] \cup late[c]
  /\ pc[c] \in {"remove", "removeWrite"} /\ op[c] = "RemoveNodeLabel" /\ ~err[c] =>
       Members(id[c]) \cap want[c] \subseteq Pending(c) \cup late[c]
  /\ pc[c] \in {"remove", "removeWrite"} /\ op[c] = "UpdateNodeslabel" /\ GroupNamed(c) =>
       /\ Wanted(c, {}) /\ SomeIn(c)
       /\ ~err[c] => Members(id[c]) \subseteq want[c] \cup Pending(c) \cup late[c]
  /\ pc[c] = "sweep" /\ id[c] \in Groups /\ ~err[c] =>
       Members(id[c]) \subseteq Pending(c) \cup late[c]

AllProgress == \A c \in Callers : Progress(c)

\* The members of a group are nodes of the cluster, and an id that is no group has none.
LEMMA MembersType ==
  ASSUME IndInv, NEW c \in Callers
  PROVE  /\ Members(id[c]) \subseteq Nodes
         /\ Members(id[c]) \subseteq present
         /\ id[c] \notin Groups => Members(id[c]) = {}
BY DEF IndInv, TypeOK, Members

\* What is written when a labelled copy is accepted, refused or left adrift.
LEMMA AddEffect ==
  ASSUME IndInv, NEW c \in Callers, NEW n \in DOMAIN held[c],
         Update(c, n, Labelled(held[c][n], id[c])), id' = id
  PROVE  /\ n \in Nodes
         /\ Members(id[c])' = Members(id[c]) \/ Members(id[c])' = Members(id[c]) \cup {n}
         /\ \/ ~err'[c] /\ n \in Members(id[c])' /\ missed' = missed
            \/ err'[c] /\ missed' = [missed EXCEPT ![c] = @ \cup {n}]
<1>1. n \in Nodes /\ err \in [Callers -> BOOLEAN] /\ missed \in [Callers -> SUBSET Nodes]
  BY DEF IndInv, TypeOK
<1>2. ASSUME Accept(c, n, Labelled(held[c][n], id[c]))
      PROVE  /\ Members(id[c])' = Members(id[c]) \cup {n}
  <2>1. held[c][n] = labels[n] /\ labels' = [labels EXCEPT ![n] = labels[n] \cup {id[c]}]
    BY <1>2 DEF Accept, Labelled, IndInv, FreshCopies
  <2> QED
    BY <1>1, <2>1 DEF Members, IndInv, TypeOK
<1>3. ASSUME Reject(c, n)
      PROVE  Members(id[c])' = Members(id[c])
  BY <1>3 DEF Reject, Members
<1>4. CASE /\ Accept(c, n, Labelled(held[c][n], id[c]))
           /\ err' = [err EXCEPT ![c] = FALSE]
           /\ UNCHANGED missed
  BY <1>1, <1>2, <1>4
<1>5. ASSUME Unhandled(c, n, Labelled(held[c][n], id[c]))
      PROVE  Members(id[c])' = Members(id[c])
  BY <1>5 DEF Unhandled, Members
<1>6. CASE /\ \/ Accept(c, n, Labelled(held[c][n], id[c]))
              \/ Reject(c, n)
              \/ Unhandled(c, n, Labelled(held[c][n], id[c]))
           /\ err' = [err EXCEPT ![c] = TRUE]
           /\ missed' = [missed EXCEPT ![c] = @ \cup {n}]
  BY <1>1, <1>2, <1>3, <1>5, <1>6
<1> QED
  BY <1>4, <1>6 DEF Update

\* And of an unlabelled one.
LEMMA RemoveEffect ==
  ASSUME IndInv, NEW c \in Callers, NEW n \in DOMAIN held[c],
         Update(c, n, Unlabelled(held[c][n], id[c])), id' = id
  PROVE  /\ n \in Nodes
         /\ Members(id[c])' = Members(id[c]) \/ Members(id[c])' = Members(id[c]) \ {n}
         /\ \/ ~err'[c] /\ n \notin Members(id[c])' /\ missed' = missed
            \/ err'[c] /\ missed' = [missed EXCEPT ![c] = @ \cup {n}]
<1>1. n \in Nodes /\ err \in [Callers -> BOOLEAN] /\ missed \in [Callers -> SUBSET Nodes]
  BY DEF IndInv, TypeOK
<1>2. ASSUME Accept(c, n, Unlabelled(held[c][n], id[c]))
      PROVE  /\ Members(id[c])' = Members(id[c]) \ {n}
  <2>1. held[c][n] = labels[n] /\ labels' = [labels EXCEPT ![n] = labels[n] \ {id[c]}]
    BY <1>2 DEF Accept, Unlabelled, IndInv, FreshCopies
  <2> QED
    BY <1>1, <2>1 DEF Members, IndInv, TypeOK
<1>3. ASSUME Reject(c, n)
      PROVE  Members(id[c])' = Members(id[c])
  BY <1>3 DEF Reject, Members
<1>4. CASE /\ Accept(c, n, Unlabelled(held[c][n], id[c]))
           /\ err' = [err EXCEPT ![c] = FALSE]
           /\ UNCHANGED missed
  BY <1>1, <1>2, <1>4
<1>5. ASSUME Unhandled(c, n, Unlabelled(held[c][n], id[c]))
      PROVE  Members(id[c])' = Members(id[c])
  BY <1>5 DEF Unhandled, Members
<1>6. CASE /\ \/ Accept(c, n, Unlabelled(held[c][n], id[c]))
              \/ Reject(c, n)
              \/ Unhandled(c, n, Unlabelled(held[c][n], id[c]))
           /\ err' = [err EXCEPT ![c] = TRUE]
           /\ missed' = [missed EXCEPT ![c] = @ \cup {n}]
  BY <1>1, <1>2, <1>3, <1>5, <1>6
<1> QED
  BY <1>4, <1>6 DEF Update

\* A caller that has returned, or has yet to list, has promised nothing.
LEMMA IdleProgress ==
  ASSUME NEW c \in Callers, pc'[c] \in {"idle", "list"}, op'[c] # NoOp => reply'[c] = "none"
  PROVE  Progress(c)'
BY DEF Progress

LEMMA ReturnProgress ==
  ASSUME IndInv, NEW c \in Callers, NEW r, Return(c, r)
  PROVE  Progress(c)'
<1>1. pc'[c] = "idle" /\ op'[c] = NoOp
  BY DEF Return, IndInv, TypeOK
<1> QED
  BY <1>1, IdleProgress

\* A loop starts with all that it has to do.
LEMMA CallProgress ==
  ASSUME IndInv, NEW c \in Callers, Call(c)
  PROVE  Progress(c)'
<1>1. PICK o \in Ops, g \in Ids, w \in SUBSET Nodes :
        /\ o = "DeleteGroup" => w = {}
        /\ op' = [op EXCEPT ![c] = o]
        /\ id' = [id EXCEPT ![c] = g]
        /\ want' = [want EXCEPT ![c] = w]
        /\ pc' = [pc EXCEPT ![c] = Entry(o)]
        /\ todo' = [todo EXCEPT ![c] =
                      IF o \in {"AddlabelToNodes", "RemoveNodeLabel"} THEN w ELSE {}]
  BY DEF Call
<1>2. /\ op'[c] = o /\ id'[c] = g /\ want'[c] = w /\ pc'[c] = Entry(o)
      /\ todo'[c] = IF o \in {"AddlabelToNodes", "RemoveNodeLabel"} THEN w ELSE {}
      /\ reply'[c] = "none"
  BY <1>1 DEF Call, IndInv, TypeOK
<1>3. CASE o = "AddlabelToNodes"
  <2>1. pc'[c] = "add" /\ todo'[c] = w
    BY <1>2, <1>3 DEF Entry
  <2>2. Wanted(c, Pending(c))'
    BY <1>2, <2>1 DEF Wanted, Pending
  <2>3. Pending(c)' = {} => SomeIn(c)'
    BY <1>2, <2>1 DEF SomeIn, Pending
  <2> QED
    BY <1>2, <1>3, <2>1, <2>2, <2>3 DEF Progress
<1>4. CASE o = "RemoveNodeLabel"
  <2>1. pc'[c] = "remove" /\ todo'[c] = w
    BY <1>2, <1>4 DEF Entry
  <2>2. (Members(id[c]) \cap want[c] \subseteq Pending(c))'
    BY <1>2, <2>1 DEF Pending
  <2> QED
    BY <1>2, <1>4, <2>1, <2>2 DEF Progress
<1>5. CASE o \notin {"AddlabelToNodes", "RemoveNodeLabel"}
  <2>1. pc'[c] = "list"
    BY <1>2, <1>5 DEF Entry
  <2> QED
    BY <1>2, <2>1, IdleProgress
<1> QED
  BY <1>3, <1>4, <1>5

\* The steps of AddlabelToNodes.
LEMMA AddGetProgress ==
  ASSUME IndInv, NEW c \in Callers, Progress(c), AddGet(c)
  PROVE  Progress(c)'
<1>1. CASE Return(c, "error")
  BY <1>1, ReturnProgress
<1>2. CASE ~Return(c, "error")
  <2>1. PICK n \in todo[c] :
          /\ Fetch(c, n, labels[n])
          /\ todo' = [todo EXCEPT ![c] = @ \ {n}]
          /\ pc' = [pc EXCEPT ![c] = "addWrite"]
          /\ UNCHANGED <<present, labels, adrift, later, err, reply, callVars>>
    BY <1>2 DEF AddGet
  <2>2. /\ pc[c] = "add" /\ pc'[c] = "addWrite"
        /\ todo'[c] = todo[c] \ {n} /\ DOMAIN held'[c] = {n}
    BY <2>1 DEF AddGet, Fetch, IndInv, TypeOK
  <2>3. Pending(c)' # {} /\ Pending(c) \subseteq Pending(c)'
    BY <2>2 DEF Pending, IndInv, TypeOK, ControlOK
  <2>4. Members(id[c])' = Members(id[c])
    BY <2>1 DEF Members, callVars
  <2>5. GroupNamed(c)' = GroupNamed(c)
    BY <2>1 DEF GroupNamed, callVars
  <2>6. Wanted(c, Pending(c)) => Wanted(c, Pending(c))'
    BY <2>1, <2>3, <2>4 DEF Wanted, callVars
  <2> QED
    BY <2>1, <2>2, <2>3, <2>4, <2>5, <2>6 DEF Progress, callVars
<1> QED
  BY <1>1, <1>2

LEMMA AddWriteProgress ==
  ASSUME IndInv, NEW c \in Callers, Progress(c), AddWrite(c)
  PROVE  Progress(c)'
<1>1. PICK n \in DOMAIN held[c] : Update(c, n, Labelled(held[c][n], id[c]))
  BY DEF AddWrite
<1>2. /\ pc[c] = "addWrite" /\ pc'[c] = "add"
      /\ DOMAIN held[c] = {n} /\ DOMAIN held'[c] = {}
      /\ n \in want[c]
      /\ UNCHANGED <<present, op, id, want, late, todo, later, reply>>
  BY DEF AddWrite, IndInv, TypeOK, ControlOK, NoCopies
<1>3. Pending(c) = Pending(c)' \cup {n}
  BY <1>2 DEF Pending
<1>4. /\ Members(id[c])' = Members(id[c]) \/ Members(id[c])' = Members(id[c]) \cup {n}
      /\ \/ ~err'[c] /\ n \in Members(id[c])' /\ missed' = missed
         \/ err'[c] /\ missed' = [missed EXCEPT ![c] = @ \cup {n}]
  BY <1>1, <1>2, AddEffect
<1>5. /\ missed[c] \subseteq missed'[c]
      /\ n \in Members(id[c])' \/ n \in missed'[c]
  BY <1>4 DEF IndInv, TypeOK
<1>6. Wanted(c, Pending(c)) => Wanted(c, Pending(c))'
  BY <1>2, <1>3, <1>4, <1>5 DEF Wanted
<1>7. ~err'[c] => SomeIn(c)'
  BY <1>2, <1>4 DEF SomeIn
<1>8. Members(id[c]) \subseteq want[c] \cup later[c] \cup late[c] =>
        (Members(id[c]) \subseteq want[c] \cup later[c] \cup late[c])'
  BY <1>2, <1>4
<1>9. GroupNamed(c)' = GroupNamed(c)
  BY <1>2 DEF GroupNamed
<1> QED
  BY <1>2, <1>6, <1>7, <1>8, <1>9 DEF Progress

LEMMA AddDoneProgress ==
  ASSUME IndInv, NEW c \in Callers, Progress(c), AddDone(c)
  PROVE  Progress(c)'
<1>1. CASE op[c] = "UpdateNodeslabel" /\ ~err[c]
  <2>1. /\ pc[c] = "add" /\ pc'[c] = "remove"
        /\ Pending(c) = {} /\ todo'[c] = later[c]
        /\ UNCHANGED <<held, reply, callVars, labels>>
    BY <1>1 DEF AddDone, StartRemoving, Pending, IndInv, TypeOK, ControlOK
  <2>2. Members(id[c])' = Members(id[c])
    BY <2>1 DEF Members, callVars
  <2>3. later[c] \subseteq Pending(c)'
    BY <2>1 DEF Pending
  <2>4. GroupNamed(c)' = GroupNamed(c) /\ op'[c] = "UpdateNodeslabel"
    BY <1>1, <2>1 DEF GroupNamed, callVars
  <2>5. Wanted(c, Pending(c)) => Wanted(c, {})'
    BY <2>1, <2>2 DEF Wanted, callVars
  <2>6. SomeIn(c) => SomeIn(c)'
    BY <2>1, <2>2 DEF SomeIn, callVars
  <2>7. Members(id[c]) \subseteq want[c] \cup later[c] \cup late[c] =>
          (Members(id[c]) \subseteq want[c] \cup Pending(c) \cup late[c])'
    BY <2>1, <2>2, <2>3 DEF callVars
  <2> QED
    BY <1>1, <2>1, <2>4, <2>5, <2>6, <2>7 DEF Progress, callVars
<1>2. CASE ~(op[c] = "UpdateNodeslabel" /\ ~err[c])
  BY <1>2, ReturnProgress DEF AddDone
<1> QED
  BY <1>1, <1>2

\* The steps of RemoveNodeLabel.
LEMMA RemoveGetProgress ==
  ASSUME IndInv, NEW c \in Callers, Progress(c), RemoveGet(c)
  PROVE  Progress(c)'
<1>1. CASE Return(c, "error")
  BY <1>1, ReturnProgress
<1>2. CASE ~Return(c, "error")
  <2>1. PICK n \in todo[c] :
          /\ todo' = [todo EXCEPT ![c] = @ \ {n}]
          /\ IF id[c] \in labels[n]
             THEN Fetch(c, n, labels[n]) /\ pc' = [pc EXCEPT ![c] = "removeWrite"]
             ELSE UNCHANGED <<held, current, pc>>
          /\ UNCHANGED <<present, labels, adrift, later, err, reply, callVars>>
    BY <1>2 DEF RemoveGet
  <2>2. /\ pc[c] = "remove" /\ pc'[c] \in {"remove", "removeWrite"} /\ ~err[c]
        /\ todo'[c] = todo[c] \ {n}
        /\ DOMAIN held[c] = {} /\ (id[c] \in labels[n] => DOMAIN held'[c] = {n})
    BY <2>1 DEF RemoveGet, Fetch, IndInv, TypeOK, ControlOK
  <2>3. Members(id[c])' = Members(id[c])
    BY <2>1 DEF Members, callVars
  <2>4. Members(id[c]) \cap Pending(c) \subseteq Pending(c)'
    BY <2>2 DEF Pending, Members
  <2>5. GroupNamed(c)' = GroupNamed(c)
    BY <2>1 DEF GroupNamed, callVars
  <2>6. Wanted(c, {})' = Wanted(c, {})
    BY <2>1, <2>3 DEF Wanted, callVars
  <2>7. SomeIn(c)' = SomeIn(c)
    BY <2>1, <2>3 DEF SomeIn, callVars
  <2> QED
    BY <2>1, <2>2, <2>3, <2>4, <2>5, <2>6, <2>7 DEF Progress, callVars
<1> QED
  BY <1>1, <1>2

LEMMA RemoveWriteProgress ==
  ASSUME IndInv, NEW c \in Callers, Progress(c), RemoveWrite(c)
  PROVE  Progress(c)'
<1>1. PICK n \in DOMAIN held[c] : Update(c, n, Unlabelled(held[c][n], id[c]))
  BY DEF RemoveWrite
<1>2. /\ pc[c] = "removeWrite" /\ pc'[c] = "remove"
      /\ DOMAIN held[c] = {n} /\ DOMAIN held'[c] = {}
      /\ op[c] = "UpdateNodeslabel" => n \notin want[c]
      /\ UNCHANGED <<present, op, id, want, late, todo, later, reply>>
  BY DEF RemoveWrite, IndInv, TypeOK, ControlOK, NoCopies
<1>3. Pending(c) = Pending(c)' \cup {n}
  BY <1>2 DEF Pending
<1>4. /\ Members(id[c])' = Members(id[c]) \/ Members(id[c])' = Members(id[c]) \ {n}
      /\ \/ ~err'[c] /\ n \notin Members(id[c])' /\ missed' = missed
         \/ err'[c] /\ missed' = [missed EXCEPT ![c] = @ \cup {n}]
  BY <1>1, <1>2, RemoveEffect
<1>5. missed[c] \subseteq missed'[c]
  BY <1>4 DEF IndInv, TypeOK
<1>6. ~err[c]
  BY <1>2 DEF Progress
<1>7. op[c] = "UpdateNodeslabel" => Members(id[c])' \cap want[c] = Members(id[c]) \cap want[c]
  BY <1>2, <1>4
<1>8. op[c] = "UpdateNodeslabel" /\ Wanted(c, {}) => Wanted(c, {})'
  BY <1>2, <1>5, <1>7 DEF Wanted
<1>9. op[c] = "UpdateNodeslabel" /\ SomeIn(c) => SomeIn(c)'
  BY <1>2, <1>7 DEF SomeIn
<1>10. ASSUME NEW S, Members(id[c]) \subseteq S \cup Pending(c), ~err'[c]
       PROVE  Members(id[c])' \subseteq S \cup Pending(c)'
  BY <1>3, <1>4, <1>10
<1>11. ~err'[c] /\ Members(id[c]) \cap want[c] \subseteq Pending(c) \cup late[c] =>
         (Members(id[c]) \cap want[c] \subseteq Pending(c) \cup late[c])'
  BY <1>2, <1>3, <1>4
<1>12. ~err'[c] /\ Members(id[c]) \subseteq want[c] \cup Pending(c) \cup late[c] =>
         (Members(id[c]) \subseteq want[c] \cup Pending(c) \cup late[c])'
  BY <1>2, <1>10
<1>13. GroupNamed(c)' = GroupNamed(c)
  BY <1>2 DEF GroupNamed
<1> QED
  BY <1>2, <1>6, <1>8, <1>9, <1>11, <1>12, <1>13 DEF Progress

LEMMA RemoveDoneProgress ==
  ASSUME IndInv, NEW c \in Callers, RemoveDone(c)
  PROVE  Progress(c)'
BY ReturnProgress DEF RemoveDone

\* The list of UpdateNodeslabel finds the members of the group.
LEMMA UpdateListProgress ==
  ASSUME IndInv, NEW c \in Callers, Progress(c), UpdateList(c)
  PROVE  Progress(c)'
<1>1. CASE Return(c, "ok")
  BY <1>1, ReturnProgress
<1>2. CASE ~Return(c, "ok")
  <2>1. /\ todo'[c] = NodesToAdd(want[c], Selected(id[c]))
        /\ later'[c] = NodesToRemove(want[c], Selected(id[c]))
        /\ pc[c] = "list" /\ pc'[c] = "add" /\ op[c] = "UpdateNodeslabel"
        /\ UNCHANGED <<held, current, err, reply, callVars, present, labels>>
    BY <1>2 DEF UpdateList, IndInv, TypeOK
  <2>2. Members(id[c])' = Members(id[c])
    BY <2>1 DEF Members, callVars
  <2>3. GroupNamed(c)' => Selected(id[c]) = Members(id[c])
    <3>1. ASSUME id[c] \in Groups
          PROVE  Selected(id[c]) = Members(id[c])
      <4>1. Selected(id[c]) = {n \in present : id[c] \in labels[n]}
        BY <3>1, IdsAssumption DEF Selected
      <4> QED
        BY <4>1, MembersType DEF Members, IndInv, TypeOK
    <3> QED
      BY <2>1, <3>1 DEF GroupNamed, callVars
  <2>4. GroupNamed(c)' => Wanted(c, Pending(c))'
    BY <2>1, <2>2, <2>3 DEF Wanted, Pending, NodesToAdd, callVars
  <2>5. GroupNamed(c)' /\ Pending(c)' = {} => SomeIn(c)'
    BY <2>1, <2>2, <2>3 DEF SomeIn, Pending, NodesToAdd, callVars
  <2>6. GroupNamed(c)' => (Members(id[c]) \subseteq want[c] \cup later[c])'
    BY <2>1, <2>2, <2>3 DEF NodesToRemove, callVars
  <2> QED
    BY <2>1, <2>4, <2>5, <2>6 DEF Progress, callVars
<1> QED
  BY <1>1, <1>2

\* The steps of DeleteGroup.
LEMMA DeleteGroupListProgress ==
  ASSUME IndInv, NEW c \in Callers, Progress(c), DeleteGroupList(c)
  PROVE  Progress(c)'
<1>1. CASE Return(c, "error")
  BY <1>1, ReturnProgress
<1>2. CASE ~Return(c, "error")
  <2> DEFINE listed == {n \in Selected(id[c]) : id[c] \in labels[n]}
  <2>1. /\ todo'[c] = listed
        /\ pc'[c] = "sweep" /\ op[c] = "DeleteGroup"
        /\ UNCHANGED <<err, reply, callVars, labels>>
    BY <1>2 DEF DeleteGroupList, IndInv, TypeOK
  <2>2. Members(id[c])' = Members(id[c])
    BY <2>1 DEF Members, callVars
  <2>3. id[c] \in Groups => Members(id[c]) \subseteq listed
    BY MembersType, IdsAssumption DEF Selected, Members
  <2>4. id'[c] \in Groups => (Members(id[c]) \subseteq Pending(c))'
    BY <2>1, <2>2, <2>3 DEF Pending, callVars
  <2> QED
    BY <2>1, <2>4 DEF Progress, DeleteGroupList, callVars
<1> QED
  BY <1>1, <1>2

LEMMA DeleteGroupWriteProgress ==
  ASSUME IndInv, NEW c \in Callers, Progress(c), DeleteGroupWrite(c)
  PROVE  Progress(c)'
<1>1. PICK n \in todo[c] :
        /\ Update(c, n, Unlabelled(held[c][n], id[c]))
        /\ todo' = [todo EXCEPT ![c] = @ \ {n}]
        /\ held' = [held EXCEPT ![c] = [m \in DOMAIN @ \ {n} |-> @[m]]]
  BY DEF DeleteGroupWrite
<1>2. /\ pc[c] = "sweep" /\ op[c] = "DeleteGroup" /\ ~err[c] /\ n \in DOMAIN held[c]
      /\ UNCHANGED <<present, op, id, want, late, later, pc, reply>>
  BY DEF DeleteGroupWrite, IndInv, TypeOK, ControlOK
<1>3. Pending(c) \ {n} \subseteq Pending(c)'
  BY <1>1 DEF Pending, IndInv, TypeOK
<1>4. /\ Members(id[c])' = Members(id[c]) \/ Members(id[c])' = Members(id[c]) \ {n}
      /\ ~err'[c] => n \notin Members(id[c])'
  BY <1>1, <1>2, RemoveEffect
<1>5. ~err'[c] /\ Members(id[c]) \subseteq Pending(c) \cup late[c] =>
        (Members(id[c]) \subseteq Pending(c) \cup late[c])'
  BY <1>2, <1>3, <1>4
<1> QED
  BY <1>2, <1>5 DEF Progress

LEMMA DeleteGroupDoneProgress ==
  ASSUME IndInv, NEW c \in Callers, DeleteGroupDone(c)
  PROVE  Progress(c)'
BY ReturnProgress DEF DeleteGroupDone

\* The cluster takes no node from a group that is not of Removable, and adds none.
LEMMA ClusterProgress ==
  ASSUME IndInv, NEW c \in Callers, Progress(c), NEW n \in Nodes,
         Heartbeat(n) \/ (n \in Removable /\ (DeleteNode(n) \/ RegisterNode(n)))
  PROVE  Progress(c)'
<1>1. /\ Members(id[c])' \subseteq Members(id[c])
      /\ Members(id[c]) \subseteq Members(id[c])' \cup Removable
  <2>1. id' = id
    BY DEF Heartbeat, DeleteNode, RegisterNode, callVars
  <2>2. CASE labels' = labels
    BY <2>1, <2>2 DEF Members
  <2>3. CASE n \in Removable /\ labels' = [labels EXCEPT ![n] = {}]
    BY <2>1, <2>3 DEF Members, IndInv, TypeOK
  <2> QED
    BY <2>2, <2>3 DEF Heartbeat, DeleteNode, RegisterNode
<1>2. UNCHANGED <<pc, todo, later, held, err, reply, op, id, want, missed, late>>
  BY DEF Heartbeat, DeleteNode, RegisterNode, callVars
<1>3. Pending(c)' = Pending(c) /\ GroupNamed(c)' = GroupNamed(c)
  BY <1>2 DEF Pending, GroupNamed
<1>4. ASSUME NEW S, Wanted(c, S)
      PROVE  want[c] \subseteq Members(id[c])' \cup missed[c] \cup Removable \cup late[c] \cup S
  BY <1>1, <1>4 DEF Wanted
<1>5. /\ Wanted(c, Pending(c)) => Wanted(c, Pending(c))'
      /\ Wanted(c, {}) => Wanted(c, {})'
  BY <1>2, <1>3, <1>4 DEF Wanted
<1>6. SomeIn(c) => SomeIn(c)'
  BY <1>1, <1>2 DEF SomeIn
<1> QED
  BY <1>1, <1>2, <1>3, <1>5, <1>6 DEF Progress

\* A write handled late takes no node from c's group, and adds none that c does not ask
\* for, but where it goes against the call.
LEMMA HandleAdriftEffect ==
  ASSUME IndInv, NEW c \in Callers, HandleAdrift
  PROVE  /\ late[c] \subseteq late'[c]
         /\ Members(id[c]) \subseteq Members(id[c])' \cup late'[c]
         /\ Members(id[c])' \subseteq Members(id[c]) \cup want[c] \cup late'[c]
         /\ op[c] \notin {"AddlabelToNodes", "UpdateNodeslabel"} =>
              Members(id[c])' \subseteq Members(id[c]) \cup late'[c]
<1>1. PICK w \in adrift :
        \/ /\ labels' = [labels EXCEPT ![w.node] = w.labels]
           /\ late' = [d \in Callers |->
                IF Against(w, d) THEN late[d] \cup {w.node} ELSE late[d]]
        \/ UNCHANGED <<labels, late>>
  BY DEF HandleAdrift
<1>2. id' = id
  BY DEF HandleAdrift
<1>3. CASE UNCHANGED <<labels, late>>
  BY <1>2, <1>3 DEF Members
<1>4. CASE /\ labels' = [labels EXCEPT ![w.node] = w.labels]
           /\ late' = [d \in Callers |->
                IF Against(w, d) THEN late[d] \cup {w.node} ELSE late[d]]
  <2>1. /\ w.node \in Nodes /\ labels'[w.node] = w.labels
        /\ \A m \in Nodes : m # w.node => labels'[m] = labels[m]
    BY <1>4 DEF IndInv, TypeOK
  <2>2. CASE Against(w, c)
    <3>1. late'[c] = late[c] \cup {w.node}
      BY <1>4, <2>2
    <3> QED
      BY <1>2, <2>1, <3>1 DEF Members
  <2>3. CASE ~Against(w, c)
    <3>1. late'[c] = late[c]
      BY <1>4, <2>3
    <3>2. /\ id[c] \in labels[w.node] => id[c] \in w.labels
          /\ id[c] \in w.labels /\ id[c] \notin labels[w.node] =>
               op[c] \in {"AddlabelToNodes", "UpdateNodeslabel"} /\ w.node \in want[c]
      BY <2>3 DEF Against
    <3> QED
      BY <1>2, <2>1, <3>1, <3>2 DEF Members
  <2> QED
    BY <2>2, <2>3
<1> QED
  BY <1>1, <1>3, <1>4

LEMMA HandleAdriftProgress ==
  ASSUME IndInv, NEW c \in Callers, Progress(c), HandleAdrift
  PROVE  Progress(c)'
<1>1. UNCHANGED <<pc, todo, later, held, err, reply, op, id, want, missed>>
  BY DEF HandleAdrift
<1>2. /\ late[c] \subseteq late'[c]
      /\ Members(id[c]) \subseteq Members(id[c])' \cup late'[c]
      /\ Members(id[c])' \subseteq Members(id[c]) \cup want[c] \cup late'[c]
      /\ op[c] \notin {"AddlabelToNodes", "UpdateNodeslabel"} =>
           Members(id[c])' \subseteq Members(id[c]) \cup late'[c]
  BY HandleAdriftEffect
<1>3. Pending(c)' = Pending(c) /\ GroupNamed(c)' = GroupNamed(c)
  BY <1>1 DEF Pending, GroupNamed
<1>4. /\ Wanted(c, Pending(c)) => Wanted(c, Pending(c))'
      /\ Wanted(c, {}) => Wanted(c, {})'
  BY <1>1, <1>2, <1>3 DEF Wanted
<1>5. SomeIn(c) => SomeIn(c)'
  BY <1>1, <1>2 DEF SomeIn
<1>6. ASSUME NEW S, Members(id[c]) \subseteq want[c] \cup S \cup late[c]
      PROVE  Members(id[c])' \subseteq want[c] \cup S \cup late'[c]
  BY <1>2, <1>6
<1>7. ASSUME op[c] \in {"RemoveNodeLabel", "DeleteGroup"},
             NEW S, NEW T, Members(id[c]) \cap T \subseteq S \cup late[c]
      PROVE  Members(id[c])' \cap T \subseteq S \cup late'[c]
  BY <1>2, <1>7
<1>8. pc[c] \in {"add", "addWrite"} /\ GroupNamed(c) =>
        (/\ Wanted(c, Pending(c))
         /\ ~err[c] /\ Pending(c) = {} => SomeIn(c)
         /\ op[c] = "UpdateNodeslabel" =>
              Members(id[c]) \subseteq want[c] \cup later[c] \cup late[c])'
  BY <1>1, <1>3, <1>4, <1>5, <1>6 DEF Progress
<1>9. pc[c] \in {"remove", "removeWrite"} /\ op[c] = "RemoveNodeLabel" /\ ~err[c] =>
        (Members(id[c]) \cap want[c] \subseteq Pending(c) \cup late[c])'
  BY <1>1, <1>3, <1>7 DEF Progress
<1>10. pc[c] \in {"remove", "removeWrite"} /\ op[c] = "UpdateNodeslabel" /\ GroupNamed(c) =>
         (/\ Wanted(c, {}) /\ SomeIn(c)
          /\ ~err[c] => Members(id[c]) \subseteq want[c] \cup Pending(c) \cup late[c])'
  BY <1>1, <1>3, <1>4, <1>5, <1>6 DEF Progress
<1>11. pc[c] = "sweep" /\ id[c] \in Groups /\ ~err[c] =>
         (Members(id[c]) \subseteq Pending(c) \cup late[c])'
  <2> SUFFICES ASSUME pc[c] = "sweep", id[c] \in Groups, ~err[c]
               PROVE  Members(id[c])' \subseteq Pending(c) \cup late'[c]
    BY <1>3
  <2>1. op[c] = "DeleteGroup"
    BY DEF IndInv, TypeOK, ControlOK
  <2>2. Members(id[c]) \subseteq Pending(c) \cup late[c]
    BY DEF Progress
  <2> QED
    BY <1>2, <2>1, <2>2
<1> QED
  BY <1>1, <1>3, <1>8, <1>9, <1>10, <1>11 DEF Progress

\* Every step of the only caller, and of the cluster, keeps what has been done.
LEMMA ProgressStep ==
  ASSUME OneCaller
  PROVE  IndInv /\ AllProgress /\ [Next]_vars => AllProgress'
<1> SUFFICES ASSUME IndInv, AllProgress, [Next]_vars, NEW c \in Callers
             PROVE  Progress(c)'
  BY DEF AllProgress
<1>1. Progress(c)
  BY DEF AllProgress
<1>2. CASE Call(c)
  BY <1>2, CallProgress
<1>3. CASE Step(c)
  BY <1>1, <1>3, AddGetProgress, AddWriteProgress, AddDoneProgress, RemoveGetProgress,
     RemoveWriteProgress, RemoveDoneProgress, UpdateListProgress, DeleteGroupListProgress,
     DeleteGroupWriteProgress, DeleteGroupDoneProgress DEF Step
<1>4. CASE \E n \in Nodes : Heartbeat(n)
  BY <1>1, <1>4, ClusterProgress
<1>5. CASE \E n \in Removable : DeleteNode(n) \/ RegisterNode(n)
  BY <1>1, <1>5, ClusterProgress, RemovableAssumption
<1>6. CASE Crash
  BY <1>6, IdleProgress DEF Crash
<1>7. CASE HandleAdrift
  BY <1>1, <1>7, HandleAdriftProgress
<1>8. CASE UNCHANGED vars
  BY <1>1, <1>8 DEF vars, Progress, Pending, GroupNamed, Wanted, SomeIn, Members
<1> QED
  BY <1>2, <1>3, <1>4, <1>5, <1>6, <1>7, <1>8 DEF OneCaller, Next

\* A loop that is left with a nil result has done with all its nodes, and its last
\* write went well.
LEMMA NilResult ==
  ASSUME IndInv, AllProgress, [Next]_vars, NEW c \in Callers, op[c] # NoOp, reply'[c] = "ok"
  PROVE  \/ pc[c] = "add" /\ op[c] = "AddlabelToNodes" /\ ~err[c] /\ Pending(c) = {}
         \/ pc[c] \in {"remove", "sweep"} /\ ~err[c] /\ Pending(c) = {}
         \/ pc[c] = "list" /\ op[c] = "UpdateNodeslabel"
<1>1. reply[c] = "none"
  BY DEF AllProgress, Progress
<1>2. ASSUME NEW d \in Callers, d # c, Call(d) \/ Step(d)
      PROVE  FALSE
  BY <1>1, <1>2 DEF Call, Step, AddGet, AddWrite, AddDone, StartRemoving, RemoveGet, RemoveWrite,
       RemoveDone, UpdateList, DeleteGroupList, DeleteGroupWrite, DeleteGroupDone, Return,
       IndInv, TypeOK
<1>3. ASSUME NEW r, Return(c, r)
      PROVE  r = "ok"
  BY <1>3 DEF Return, IndInv, TypeOK
<1>4. CASE Step(c)
  <2>1. CASE AddDone(c)
    BY <1>1, <1>3, <2>1 DEF AddDone, StartRemoving, Pending, IndInv, TypeOK, ControlOK
  <2>2. CASE RemoveDone(c)
    BY <1>3, <2>2 DEF RemoveDone, Pending, IndInv, TypeOK, ControlOK
  <2>3. CASE DeleteGroupDone(c)
    BY <1>3, <2>3 DEF DeleteGroupDone, Pending, IndInv, TypeOK, ControlOK
  <2>4. CASE UpdateList(c)
    BY <2>4 DEF UpdateList
  <2>5. CASE AddGet(c) \/ RemoveGet(c) \/ DeleteGroupList(c)
    BY <1>1, <1>3, <2>5 DEF AddGet, RemoveGet, DeleteGroupList
  <2>6. CASE AddWrite(c) \/ RemoveWrite(c) \/ DeleteGroupWrite(c)
    BY <1>1, <2>6 DEF AddWrite, RemoveWrite, DeleteGroupWrite
  <2> QED
    BY <1>4, <2>1, <2>2, <2>3, <2>4, <2>5, <2>6 DEF Step
<1>5. CASE Call(c)
  BY <1>5 DEF Call, IndInv, TypeOK, ControlOK
<1>6. CASE \E n \in Nodes : Heartbeat(n)
  BY <1>1, <1>6 DEF Heartbeat
<1>7. CASE \E n \in Removable : DeleteNode(n) \/ RegisterNode(n)
  BY <1>1, <1>7 DEF DeleteNode, RegisterNode
<1>8. CASE Crash \/ HandleAdrift
  BY <1>1, <1>8 DEF Crash, HandleAdrift
<1>9. CASE UNCHANGED vars
  BY <1>1, <1>9 DEF vars
<1> QED
  BY <1>2, <1>4, <1>5, <1>6, <1>7, <1>8, <1>9 DEF Next

\* With one caller each loop keeps its promise as far as it has got, at every moment
\* (node.go:197-352).
THEOREM ProgressMade ==
  ASSUME OneCaller
  PROVE  Spec => [](IndInv /\ AllProgress)
<1>1. Init => AllProgress
  BY DEF Init, AllProgress, Progress
<1>2. IndInv /\ AllProgress /\ [Next]_vars => AllProgress'
  BY ProgressStep
<1> QED
  BY <1>1, <1>2, Invariance, PTL DEF Spec

\* AddlabelToNodes returns nil: what it failed to add was missed, has left, or was removed
\* late by an earlier call, and is not all of it (node.go:252-270).
THEOREM AddPromise ==
  ASSUME OneCaller
  PROVE  Spec => AddOutcome
<1> DEFINE Promise ==
      \A c \in Callers :
        op[c] = "AddlabelToNodes" /\ reply'[c] = "ok" =>
          /\ want[c] \ Members(id[c]) \subseteq missed[c] \cup Removable \cup late[c]
          /\ want[c] # {} /\ want[c] \cap (Removable \cup late[c]) = {} =>
               want[c] \cap Members(id[c]) # {}
<1>1. IndInv /\ AllProgress /\ [Next]_vars => [Promise]_vars
  <2> SUFFICES ASSUME IndInv, AllProgress, [Next]_vars, NEW c \in Callers,
                      op[c] = "AddlabelToNodes", reply'[c] = "ok"
               PROVE  /\ want[c] \ Members(id[c]) \subseteq missed[c] \cup Removable \cup late[c]
                      /\ want[c] # {} /\ want[c] \cap (Removable \cup late[c]) = {} =>
                           want[c] \cap Members(id[c]) # {}
    OBVIOUS
  <2>1. pc[c] = "add" /\ ~err[c] /\ Pending(c) = {}
    BY NilResult DEF NoOp, IndInv, TypeOK, ControlOK
  <2>2. Wanted(c, Pending(c)) /\ SomeIn(c)
    BY <2>1 DEF AllProgress, Progress, GroupNamed
  <2> QED
    BY <2>1, <2>2 DEF Wanted, SomeIn
<1> QED
  BY <1>1, ProgressMade, PTL DEF Spec, AddOutcome

\* RemoveNodeLabel or DeleteGroup returns nil: its nodes are out of the group, but those
\* that an earlier call added late (node.go:329-352 and :197-219).
THEOREM RemovePromise ==
  ASSUME OneCaller
  PROVE  Spec => RemoveOutcome
<1> DEFINE Promise ==
      \A c \in Callers :
        reply'[c] = "ok" /\ id[c] \in Groups =>
          /\ op[c] = "RemoveNodeLabel" => Members(id[c]) \cap want[c] \subseteq late[c]
          /\ op[c] = "DeleteGroup" => Members(id[c]) \subseteq late[c]
<1>1. IndInv /\ AllProgress /\ [Next]_vars => [Promise]_vars
  <2> SUFFICES ASSUME IndInv, AllProgress, [Next]_vars, NEW c \in Callers,
                      reply'[c] = "ok", id[c] \in Groups,
                      op[c] \in {"RemoveNodeLabel", "DeleteGroup"}
               PROVE  /\ op[c] = "RemoveNodeLabel" => Members(id[c]) \cap want[c] \subseteq late[c]
                      /\ op[c] = "DeleteGroup" => Members(id[c]) \subseteq late[c]
    OBVIOUS
  <2>1. pc[c] \in {"remove", "sweep"} /\ ~err[c] /\ Pending(c) = {}
    BY NilResult DEF NoOp
  <2>2. pc[c] = "sweep" <=> op[c] = "DeleteGroup"
    BY <2>1 DEF IndInv, TypeOK, ControlOK
  <2> QED
    BY <2>1, <2>2 DEF AllProgress, Progress
<1> QED
  BY <1>1, ProgressMade, PTL DEF Spec, RemoveOutcome

\* UpdateNodeslabel ends its removals with nil: the group is what was asked for, but for
\* what was missed or has left, and what an earlier call changed late (node.go:304-321).
THEOREM UpdatePromise ==
  ASSUME OneCaller
  PROVE  Spec => UpdateOutcome
<1> DEFINE Promise ==
      \A c \in Callers :
        /\ op[c] = "UpdateNodeslabel" /\ id[c] \in Groups
        /\ pc[c] = "remove" /\ reply'[c] = "ok"
        => /\ Members(id[c]) \subseteq want[c] \cup late[c]
           /\ want[c] \ Members(id[c]) \subseteq missed[c] \cup Removable \cup late[c]
<1>1. IndInv /\ AllProgress /\ [Next]_vars => [Promise]_vars
  <2> SUFFICES ASSUME IndInv, AllProgress, [Next]_vars, NEW c \in Callers,
                      op[c] = "UpdateNodeslabel", id[c] \in Groups,
                      pc[c] = "remove", reply'[c] = "ok"
               PROVE  /\ Members(id[c]) \subseteq want[c] \cup late[c]
                      /\ want[c] \ Members(id[c]) \subseteq
                           missed[c] \cup Removable \cup late[c]
    OBVIOUS
  <2>1. ~err[c] /\ Pending(c) = {}
    BY NilResult DEF NoOp
  <2>2. Members(id[c]) \subseteq want[c] \cup Pending(c) \cup late[c] /\ Wanted(c, {})
    BY <2>1 DEF AllProgress, Progress, GroupNamed
  <2> QED
    BY <2>1, <2>2 DEF Wanted
<1> QED
  BY <1>1, ProgressMade, PTL DEF Spec, UpdateOutcome

\* No step of an update takes the last node from its group, but a departure or a removal
\* left adrift by an earlier call: the update's own removals start only when one of the
\* wanted nodes is in it, and touch none of these.
LEMMA NeverEmptied ==
  ASSUME IndInv, AllProgress, OneCaller, [Next]_vars, NEW c \in Callers,
         op[c] = "UpdateNodeslabel", want[c] # {}, want[c] \cap Removable = {},
         present' = present, late[c] \cup late'[c] = {}, id[c] \in Groups,
         Members(id[c]) # {}
  PROVE  {n \in Nodes : id[c] \in labels'[n]} # {}
<1>1. CASE labels' = labels
  BY <1>1 DEF Members
<1>2. CASE AddWrite(c)
  <2>1. PICK n \in DOMAIN held[c] : Update(c, n, Labelled(held[c][n], id[c]))
    BY <1>2 DEF AddWrite
  <2>2. id' = id
    BY <1>2 DEF AddWrite
  <2>3. Members(id[c]) \subseteq Members(id[c])'
    BY <2>1, <2>2, AddEffect
  <2> QED
    BY <2>2, <2>3 DEF Members
<1>3. CASE RemoveWrite(c)
  <2>1. PICK n \in DOMAIN held[c] : Update(c, n, Unlabelled(held[c][n], id[c]))
    BY <1>3 DEF RemoveWrite
  <2>2. id' = id /\ pc[c] = "removeWrite"
    BY <1>3 DEF RemoveWrite
  <2>3. Members(id[c]) \ {n} \subseteq Members(id[c])'
    BY <2>1, <2>2, RemoveEffect
  <2>4. n \notin want[c]
    BY <2>2 DEF IndInv, TypeOK, ControlOK
  <2>5. want[c] \cap Members(id[c]) # {}
    BY <2>2 DEF AllProgress, Progress, GroupNamed, SomeIn
  <2> QED
    BY <2>2, <2>3, <2>4, <2>5 DEF Members
<1>4. CASE DeleteGroupWrite(c)
  BY <1>4 DEF DeleteGroupWrite, IndInv, TypeOK, ControlOK
<1>5. CASE Step(c) /\ ~AddWrite(c) /\ ~RemoveWrite(c) /\ ~DeleteGroupWrite(c)
  BY <1>1, <1>5 DEF Step, AddGet, AddDone, RemoveGet, RemoveDone, UpdateList, DeleteGroupList,
       DeleteGroupDone
<1>6. CASE \E n \in Removable : DeleteNode(n) \/ RegisterNode(n)
  BY <1>6 DEF DeleteNode, RegisterNode
<1>7. CASE Call(c) \/ Crash \/ (\E n \in Nodes : Heartbeat(n)) \/ UNCHANGED vars
  BY <1>1, <1>7 DEF Call, Crash, Heartbeat, vars
<1>8. CASE HandleAdrift
  <2>1. Members(id[c]) \subseteq Members(id[c])'
    BY <1>8, HandleAdriftEffect
  <2>2. id' = id
    BY <1>8 DEF HandleAdrift
  <2> QED
    BY <2>1, <2>2 DEF Members
<1> QED
  BY <1>2, <1>3, <1>4, <1>5, <1>6, <1>7, <1>8 DEF OneCaller, Next

\* UpdateNodeslabel makes before it breaks: an update to nodes that stay does not empty its
\* group, wherever it fails or stops, unless a write that an earlier call left adrift is
\* handled against it (node.go:304-321).
THEOREM MakesFirst ==
  ASSUME OneCaller
  PROVE  Spec => MakeBeforeBreak
<1> DEFINE Promise ==
      \A c \in Callers :
        op[c] = "UpdateNodeslabel" /\ want[c] # {} /\ want[c] \cap Removable = {}
          /\ present' = present /\ late[c] \cup late'[c] = {} =>
          \A g \in Groups \cap {id[c]} : Members(g) # {} => Members(g)' # {}
<1>1. IndInv /\ AllProgress /\ [Next]_vars => [Promise]_vars
  BY NeverEmptied DEF Members
<1> QED
  BY <1>1, ProgressMade, PTL DEF Spec, MakeBeforeBreak
=============================================================================

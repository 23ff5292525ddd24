--------------------------- MODULE GroupMembership ---------------------------
(***************************************************************************)
(* What the node-group calls of NodeCtrl promise, with no API server, no   *)
(* copies of Node objects and no conflicts: a node is in a set of groups.  *)
(* An open call is on one group, and is entitled to put some nodes into it *)
(* and to take others out, which it does one at a time; as it goes on it   *)
(* gives up its entitlements, and never regains one.  A change that a call *)
(* asked for may be left hanging when the call fails or the process stops: *)
(* it may take effect later, once, unless something else changes the       *)
(* groups of the node before.  Nothing else ever changes who is in which   *)
(* group, except a node that leaves the cluster.                           *)
(*                                                                         *)
(* NodeGroups is shown to implement this specification.                    *)
(***************************************************************************)
CONSTANTS
  Nodes,    \* cluster nodes
  Groups,   \* group ids, used as label keys
  NoGroup,  \* the empty id: a call on it changes nothing
  Callers   \* concurrent callers of the manager

VARIABLES
  groupsOf,  \* groupsOf[n]: the groups node n is in
  group,     \* group[c]: the group that the call of c is on
  join,      \* join[c]: the nodes c may yet put into it
  leave,     \* leave[c]: the nodes c may yet take out of it
  lateJoin,  \* additions left hanging, as <<node, group>>
  lateLeave  \* removals left hanging

callVars == <<group, join, leave>>
vars == <<groupsOf, group, join, leave, lateJoin, lateLeave>>

Pairs == Nodes \X Groups

TypeOK ==
  /\ groupsOf \in [Nodes -> SUBSET Groups]
  /\ group \in [Callers -> Groups \cup {NoGroup}]
  /\ join \in [Callers -> SUBSET Nodes]
  /\ leave \in [Callers -> SUBSET Nodes]
  /\ lateJoin \subseteq Pairs /\ lateLeave \subseteq Pairs

Init ==
  /\ groupsOf \in [Nodes -> SUBSET Groups]
  /\ group = [c \in Callers |-> NoGroup]
  /\ join = [c \in Callers |-> {}]
  /\ leave = [c \in Callers |-> {}]
  /\ lateJoin = {} /\ lateLeave = {}

\* The groups of n change, which voids what was left hanging for it.
Void(n) ==
  /\ lateJoin' = {p \in lateJoin : p[1] # n}
  /\ lateLeave' = {p \in lateLeave : p[1] # n}

\* The call of c goes on, and keeps some of its entitlements.
GoesOn(c) ==
  /\ UNCHANGED group
  /\ join' = [join EXCEPT ![c] = join'[c]] /\ join'[c] \subseteq join[c]
  /\ leave' = [leave EXCEPT ![c] = leave'[c]] /\ leave'[c] \subseteq leave[c]

Narrow(c) == UNCHANGED <<groupsOf, lateJoin, lateLeave>> /\ GoesOn(c)

\* A call opens.  It names one group, and no node both ways.
Open(c) ==
  /\ UNCHANGED <<groupsOf, lateJoin, lateLeave>>
  /\ group[c] = NoGroup /\ join[c] \cup leave[c] = {}
  /\ \E g \in Groups \cup {NoGroup} : group' = [group EXCEPT ![c] = g]
  /\ \E in \in SUBSET Nodes :
       /\ join' = [join EXCEPT ![c] = in]
       /\ \E out \in SUBSET (Nodes \ in) : leave' = [leave EXCEPT ![c] = out]

Join(c) ==
  /\ group[c] \in Groups
  /\ \E n \in join[c] :
       /\ groupsOf' = [groupsOf EXCEPT ![n] = @ \cup {group[c]}]
       /\ Void(n)
  /\ GoesOn(c)

Leave(c) ==
  /\ group[c] \in Groups
  /\ \E n \in leave[c] :
       /\ groupsOf' = [groupsOf EXCEPT ![n] = @ \ {group[c]}]
       /\ Void(n)
  /\ GoesOn(c)

\* What the call of c may have left hanging.
Additions(c) == join[c] \X ({group[c]} \cap Groups)
Removals(c) == leave[c] \X ({group[c]} \cap Groups)

\* The call gives up on a change it is entitled to, which is left hanging.
Hang(c) ==
  /\ UNCHANGED groupsOf
  /\ \/ \E p \in Additions(c) : lateJoin' = lateJoin \cup {p} /\ UNCHANGED lateLeave
     \/ \E p \in Removals(c) : lateLeave' = lateLeave \cup {p} /\ UNCHANGED lateJoin
  /\ GoesOn(c)

\* A hanging change takes effect, whatever calls are open.
Settle ==
  /\ UNCHANGED callVars
  /\ \/ \E p \in lateJoin :
          groupsOf' = [groupsOf EXCEPT ![p[1]] = @ \cup {p[2]}] /\ Void(p[1])
     \/ \E p \in lateLeave :
          groupsOf' = [groupsOf EXCEPT ![p[1]] = @ \ {p[2]}] /\ Void(p[1])

\* Hanging changes come to nothing.
Lapse ==
  /\ UNCHANGED <<groupsOf, group, join, leave>>
  /\ lateJoin' \subseteq lateJoin /\ lateLeave' \subseteq lateLeave

\* A call returns, after any part of its work.
Close(c) ==
  /\ UNCHANGED <<groupsOf, lateJoin, lateLeave>>
  /\ group' = [group EXCEPT ![c] = NoGroup]
  /\ join' = [join EXCEPT ![c] = {}]
  /\ leave' = [leave EXCEPT ![c] = {}]

\* The process stops with all its open calls, and leaves some of their work hanging.
Abandon ==
  /\ UNCHANGED groupsOf
  /\ group' = [c \in Callers |-> NoGroup]
  /\ join' = [c \in Callers |-> {}]
  /\ leave' = [c \in Callers |-> {}]
  /\ lateJoin \subseteq lateJoin'
  /\ lateJoin' \subseteq lateJoin \cup UNION {Additions(c) : c \in Callers}
  /\ lateLeave \subseteq lateLeave'
  /\ lateLeave' \subseteq lateLeave \cup UNION {Removals(c) : c \in Callers}

\* A node leaves the cluster, and so every group.
Depart ==
  /\ UNCHANGED callVars
  /\ \E n \in Nodes : groupsOf' = [groupsOf EXCEPT ![n] = {}] /\ Void(n)

Next ==
  \/ Lapse \/ Settle \/ Abandon \/ Depart
  \/ \E c \in Callers : Open(c) \/ Join(c) \/ Leave(c) \/ Hang(c) \/ Narrow(c) \/ Close(c)

Spec == Init /\ [][Next]_vars
==============================================================================

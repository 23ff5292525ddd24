---------------------------- MODULE WorkloadStore ----------------------------
(***************************************************************************)
(* What the calls that create, update and delete Deployments and           *)
(* DaemonSets promise: each takes effect at one moment and at most once,   *)
(* while it is open, and a call that returns nil has taken effect.  A call *)
(* that returns an error may have taken effect, and may still do so later. *)
(*                                                                         *)
(* Workloads is shown to implement this specification.                     *)
(***************************************************************************)
CONSTANTS
  Keys,     \* identities of the objects
  Specs,    \* what an object may be
  Absent,   \* that there is no object
  Callers   \* concurrent callers of the manager

VARIABLES
  objects,  \* objects[k]: the object k, or Absent
  open,     \* open[c]: the effect c's call may still take, Idle or Taken
  adrift,   \* effects of calls that are over, which may still take place
  reply     \* reply[c]: what c's last call returned

vars == <<objects, open, adrift, reply>>

\* An effect puts `to` at `key`, provided there is an object, or none, before.
Effects ==
  [key : Keys, to : Specs \cup {Absent}, over : SUBSET {"object", "nothing"}]

Idle == [state |-> "idle"]
Taken == [state |-> "taken"]

Before(k) == IF objects[k] = Absent THEN "nothing" ELSE "object"

TakePlace(e) ==
  /\ Before(e.key) \in e.over
  /\ objects' = [objects EXCEPT ![e.key] = e.to]

\* What may be left of an effect when its call is over.
Remains(e) == {[e EXCEPT !.over = o] : o \in SUBSET e.over}

Init ==
  /\ objects \in [Keys -> Specs \cup {Absent}]
  /\ open = [c \in Callers |-> Idle]
  /\ adrift = {}
  /\ reply = [c \in Callers |-> "none"]

Open(c) ==
  /\ open[c] = Idle
  /\ \E e \in Effects : open' = [open EXCEPT ![c] = e]
  /\ reply' = [reply EXCEPT ![c] = "none"]
  /\ UNCHANGED <<objects, adrift>>

Take(c) ==
  /\ open[c] \in Effects
  /\ TakePlace(open[c])
  /\ open' = [open EXCEPT ![c] = Taken]
  /\ UNCHANGED <<adrift, reply>>

Succeed(c) ==
  /\ open[c] = Taken
  /\ open' = [open EXCEPT ![c] = Idle]
  /\ reply' = [reply EXCEPT ![c] = "ok"]
  /\ UNCHANGED <<objects, adrift>>

\* A call fails, also at once, and also after its effect.
Fail(c) ==
  /\ open' = [open EXCEPT ![c] = Idle]
  /\ reply' = [reply EXCEPT ![c] = "error"]
  /\ \/ UNCHANGED adrift
     \/ /\ open[c] \in Effects
        /\ \E e \in Remains(open[c]) : adrift' = adrift \cup {e}
  /\ UNCHANGED objects

\* The process stops with all its open calls.
Abandon ==
  /\ open' = [c \in Callers |-> Idle]
  /\ reply' = [c \in Callers |-> "none"]
  /\ adrift \subseteq adrift'
  /\ \A e \in adrift' \ adrift :
       \E c \in Callers : open[c] \in Effects /\ e \in Remains(open[c])
  /\ UNCHANGED objects

\* An effect of a call that is over takes place, or never will.
Settle ==
  /\ \E e \in adrift :
       /\ adrift' = adrift \ {e}
       /\ TakePlace(e) \/ UNCHANGED objects
  /\ UNCHANGED <<open, reply>>

Next ==
  \/ \E c \in Callers : Open(c) \/ Take(c) \/ Succeed(c) \/ Fail(c)
  \/ Abandon
  \/ Settle

Spec == Init /\ [][Next]_vars
==============================================================================

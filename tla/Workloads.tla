------------------------------ MODULE Workloads ------------------------------
(***************************************************************************)
(* The calls of DeploymentCtrl and DaemonSetCtrl that change something     *)
(* (k8s/deployment.go, k8s/daemonset.go), made by concurrent callers of    *)
(* K8sManager against the Kubernetes API server.  An update is sent        *)
(* without a resourceVersion, so that it replaces whatever is there, and   *)
(* falls back to a creation when nothing is.                               *)
(*                                                                         *)
(* A request is sent, handled by the server at some later moment and       *)
(* answered.  When the connection breaks the caller has an error, and the  *)
(* server may still handle the request: it is adrift.                      *)
(*                                                                         *)
(* A name stands for a namespace and a name; Delete(name) is DeleteDeploy  *)
(* in namespace "default".                                                 *)
(***************************************************************************)
EXTENDS FiniteSets, Naturals

CONSTANTS
  Kinds,     \* "Deployment", "DaemonSet"
  Names,     \* names of objects
  Dashed,    \* Dashed[n]: n with "-" for each "."
  Specs,     \* pod templates and replica counts
  Absent,    \* that there is no object
  Callers,   \* concurrent callers of the manager
  MaxAdrift  \* bound on the requests adrift

ASSUME KindsAssumption == Kinds \subseteq {"Deployment", "DaemonSet"}
ASSUME DashedAssumption ==
  Dashed \in [Names -> Names] /\ \A n \in Names : Dashed[Dashed[n]] = Dashed[n]
ASSUME AbsentAssumption == Absent \notin Specs
ASSUME CallersAssumption == IsFiniteSet(Callers)
ASSUME MaxAdriftAssumption == MaxAdrift \in Nat

VARIABLES
  objects,  \* objects[k]: the object k of the API server, or Absent
  op,       \* op[c]: "create", "update" or "delete", the call c is in, or "none"
  request,  \* request[c]: the request c waits for, or NoRequest
  answer,   \* answer[c]: the server's answer to it, or "none"
  adrift,   \* requests nobody waits for that the server has yet to handle
  reply     \* reply[c]: what c's last call returned

vars == <<objects, op, request, answer, adrift, reply>>

Keys == Kinds \X Names
Values == Specs \cup {Absent}
Ops == {"create", "update", "delete"}
Requests == [verb : Ops, key : Keys, to : Values]
NoRequest == [verb |-> "none"]

\* The container of the pod template has the name of the object, and the name of a
\* container may have no dot.
Dotted(n) == Dashed[n] # n

----------------------------------------------------------------------------
(* The API server *)

\* Whether it accepts request r, and why not.
Outcome(r) ==
  CASE r.verb # "create" /\ objects[r.key] = Absent -> "not found"
    [] r.verb # "delete" /\ Dotted(r.key[2]) -> "refused"
    [] r.verb = "create" /\ objects[r.key] # Absent -> "exists"
    [] OTHER -> "ok"

Apply(r) ==
  objects' = IF Outcome(r) = "ok" THEN [objects EXCEPT ![r.key] = r.to] ELSE objects

\* The request of c is handled, or refused for reasons of the server's own.
Handle(c) ==
  /\ request[c] # NoRequest /\ answer[c] = "none"
  /\ \/ /\ Apply(request[c])
        /\ answer' = [answer EXCEPT ![c] = Outcome(request[c])]
     \/ /\ answer' = [answer EXCEPT ![c] = "refused"]
        /\ UNCHANGED objects
  /\ UNCHANGED <<op, request, adrift, reply>>

\* A request adrift is handled, or lost.
HandleAdrift ==
  /\ \E r \in adrift :
       /\ adrift' = adrift \ {r}
       /\ Apply(r) \/ UNCHANGED objects
  /\ UNCHANGED <<op, request, answer, reply>>

----------------------------------------------------------------------------
(* The calls *)

\* Seeded fault: a deletion is by the name as it is given.
KeyVerbatim(kind, verb, name) == <<kind, name>>

\* The object a call is about.  Only DeleteDeploy and Delete convert the name.
Key(kind, verb, name) ==
  <<kind, IF kind = "Deployment" /\ verb = "delete" THEN Dashed[name] ELSE name>>

\* A call is made and its first request sent.  A port map that cannot be parsed ends a
\* creation or an update before any request.
Call(c) ==
  /\ op[c] = "none"
  /\ \/ /\ \E kind \in Kinds, verb \in Ops, name \in Names, to \in Values :
             /\ to = Absent <=> verb = "delete"
             /\ op' = [op EXCEPT ![c] = verb]
             /\ request' = [request EXCEPT ![c] =
                  [verb |-> verb, key |-> Key(kind, verb, name), to |-> to]]
        /\ reply' = [reply EXCEPT ![c] = "none"]
     \/ /\ reply' = [reply EXCEPT ![c] = "error"]
        /\ UNCHANGED <<op, request>>
  /\ UNCHANGED <<objects, answer, adrift>>

Return(c, r) ==
  /\ op' = [op EXCEPT ![c] = "none"]
  /\ request' = [request EXCEPT ![c] = NoRequest]
  /\ answer' = [answer EXCEPT ![c] = "none"]
  /\ reply' = [reply EXCEPT ![c] = r]

\* Seeded fault: a deletion, too, falls back to a creation.
FallsBackAlways(c) == request[c].verb # "create" /\ answer[c] = "not found"

\* UpdateDeploy and UpdateDaemonSet go on after this answer.
FallsBack(c) ==
  op[c] = "update" /\ request[c].verb = "update" /\ answer[c] = "not found"

\* Seeded fault: the update is sent again in place of a creation.
CreateInsteadAgain(c) ==
  /\ FallsBack(c)
  /\ answer' = [answer EXCEPT ![c] = "none"]
  /\ UNCHANGED <<objects, op, request, adrift, reply>>

\* There was nothing to update: the object is created.
CreateInstead(c) ==
  /\ FallsBack(c)
  /\ request' = [request EXCEPT ![c] = [@ EXCEPT !.verb = "create"]]
  /\ answer' = [answer EXCEPT ![c] = "none"]
  /\ UNCHANGED <<objects, op, adrift, reply>>

\* Seeded fault: an object that exists already counts as created.
FinishExisting(c) ==
  /\ answer[c] # "none" /\ ~FallsBack(c)
  /\ Return(c, IF answer[c] \in {"ok", "exists"} THEN "ok" ELSE "error")
  /\ UNCHANGED <<objects, adrift>>

\* The call returns the error of its last request, or nil.
Finish(c) ==
  /\ answer[c] # "none" /\ ~FallsBack(c)
  /\ Return(c, IF answer[c] = "ok" THEN "ok" ELSE "error")
  /\ UNCHANGED <<objects, adrift>>

Unhandled(c) == IF answer[c] = "none" THEN {request[c]} \ {NoRequest} ELSE {}

\* The connection breaks: the call returns an error, whatever became of the request.
GiveUp(c) ==
  /\ request[c] # NoRequest
  /\ Return(c, "error")
  /\ \/ UNCHANGED adrift
     \/ /\ Cardinality(adrift) < MaxAdrift
        /\ adrift' = adrift \cup Unhandled(c)
  /\ UNCHANGED objects

\* The process stops in the middle of its calls.
Crash ==
  /\ \E c \in Callers : op[c] # "none"
  /\ op' = [c \in Callers |-> "none"]
  /\ request' = [c \in Callers |-> NoRequest]
  /\ answer' = [c \in Callers |-> "none"]
  /\ reply' = [c \in Callers |-> "none"]
  /\ \E s \in SUBSET UNION {Unhandled(c) : c \in Callers} :
       /\ adrift' = adrift \cup s
       /\ Cardinality(adrift') <= MaxAdrift
  /\ UNCHANGED objects

----------------------------------------------------------------------------
(* Specification *)

Init ==
  /\ objects \in [Keys -> Values]
  /\ op = [c \in Callers |-> "none"]
  /\ request = [c \in Callers |-> NoRequest]
  /\ answer = [c \in Callers |-> "none"]
  /\ adrift = {}
  /\ reply = [c \in Callers |-> "none"]

Next ==
  \/ \E c \in Callers : \/ Call(c) \/ Handle(c)
                        \/ CreateInstead(c) \/ Finish(c) \/ GiveUp(c)
  \/ HandleAdrift
  \/ Crash

Spec == Init /\ [][Next]_vars

\* The server handles each request, and goroutines are scheduled.
Fairness ==
  \A c \in Callers : WF_vars(Handle(c)) /\ WF_vars(CreateInstead(c) \/ Finish(c))

FairSpec == Spec /\ Fairness

----------------------------------------------------------------------------
(* Properties *)

\* A call waits for a request of its own, an update perhaps for a creation.
Fits(c) ==
  /\ op[c] = "none" <=> request[c] = NoRequest
  /\ op[c] = "none" => answer[c] = "none"
  /\ request[c] # NoRequest =>
       /\ request[c].verb = op[c] \/ (op[c] = "update" /\ request[c].verb = "create")
       /\ op[c] = "delete" <=> request[c].to = Absent

\* The types of the variables; a request fits the call that waits for it, and only a
\* creation or an update ever sends a creation.
TypeOK ==
  /\ objects \in [Keys -> Values]
  /\ op \in [Callers -> Ops \cup {"none"}]
  /\ request \in [Callers -> Requests \cup {NoRequest}]
  /\ answer \in [Callers -> {"none", "ok", "exists", "not found", "refused"}]
  /\ adrift \subseteq Requests
  /\ Cardinality(adrift) <= MaxAdrift
  /\ reply \in [Callers -> {"none", "ok", "error"}]
  /\ \A c \in Callers : Fits(c)

\* The state a request of each verb needs to find.
Over(verb) ==
  CASE verb = "create" -> {"nothing"}
    [] verb = "update" -> {"object", "nothing"}
    [] verb = "delete" -> {"object"}

Effect(verb, r) == [key |-> r.key, to |-> r.to, over |-> Over(verb)]

openBar == [c \in Callers |->
  CASE request[c] = NoRequest -> [state |-> "idle"]
    [] answer[c] = "ok" -> [state |-> "taken"]
    [] OTHER -> Effect(op[c], request[c])]

adriftBar == {Effect(r.verb, r) : r \in adrift}

Store == INSTANCE WorkloadStore WITH open <- openBar, adrift <- adriftBar

\* The calls implement WorkloadStore: the two requests of an update are one atomic
\* call, which takes effect at one moment and at most once, and for certain when it
\* returns nil, whatever other callers create and delete in between, whichever
\* answers are lost and whenever the process stops (deployment.go:101-114,
\* daemonset.go:64-77).
RefinesStore == Store!Spec

\* A Deployment with a dot in its name, made by others, is beyond this code: no call
\* changes it, and DeleteDeploy, which converts the name it is given
\* (deployment.go:140), deletes another in its place or none.
DottedUntouched ==
  [][\A n \in Names :
       Dotted(n) /\ <<"Deployment", n>> \in Keys =>
         UNCHANGED objects[<<"Deployment", n>>]]_vars

\* Every call returns: an update falls back once, and a creation that fails because
\* another caller was first is an error to its own.
CallReturns == \A c \in Callers : op[c] # "none" ~> op[c] = "none"
==============================================================================

--------------------------- MODULE WorkloadsProofs ----------------------------
(* Theorems about Workloads, for any kinds, names and specifications of objects, any  *)
(* finite number of callers and any number of requests adrift.                       *)
EXTENDS Workloads, FiniteSetTheorems, FunctionTheorems, TLAPS

\* The requests that the server may yet handle, and those it has answered.
Pending == adrift \cup {request[c] : c \in Callers}

\* A deletion of a Deployment is of a name without dots, whoever waits for it.
DeletesDashed ==
  \A r \in Pending :
    r.verb = "delete" /\ r.key[1] = "Deployment" => ~Dotted(r.key[2])

WorkInv == TypeOK /\ IsFiniteSet(adrift) /\ DeletesDashed

----------------------------------------------------------------------------
(* Requests *)

\* A caller waits for a request, or for none and has no answer.
LEMMA Waiting ==
  ASSUME TypeOK, NEW c \in Callers
  PROVE  \/ request[c] = NoRequest /\ op[c] = "none" /\ answer[c] = "none"
         \/ request[c] \in Requests /\ request[c] # NoRequest /\ op[c] \in Ops
BY DEF TypeOK, Fits

\* What the server accepts.
LEMMA Accepted ==
  ASSUME NEW r \in Requests, Outcome(r) = "ok"
  PROVE  /\ r.verb = "create" <=> objects[r.key] = Absent
         /\ r.verb = "delete" \/ ~Dotted(r.key[2])
BY DEF Outcome, Requests, Ops

LEMMA OutcomeType ==
  ASSUME NEW r
  PROVE  Outcome(r) \in {"ok", "exists", "not found", "refused"}
BY DEF Outcome

\* The objects after a request, accepted or not.
LEMMA ApplyType ==
  ASSUME objects \in [Keys -> Values], NEW r \in Requests, Apply(r)
  PROVE  objects' \in [Keys -> Values]
BY DEF Apply, Requests

\* The requests of callers that nobody has answered are finitely many.
LEMMA UnhandledFinite ==
  ASSUME TypeOK
  PROVE  /\ IsFiniteSet(UNION {Unhandled(c) : c \in Callers})
         /\ UNION {Unhandled(c) : c \in Callers} \subseteq Requests
<1> DEFINE Sets == {Unhandled(c) : c \in Callers}
           f == [c \in Callers |-> Unhandled(c)]
<1>1. f \in Surjection(Callers, Sets)
  BY DEF Surjection
<1>2. IsFiniteSet(Sets)
  BY <1>1, CallersAssumption, FS_Surjection
<1>3. ASSUME NEW c \in Callers
      PROVE  IsFiniteSet(Unhandled(c)) /\ Unhandled(c) \subseteq Requests
  <2>1. \/ Unhandled(c) = {}
        \/ Unhandled(c) = {request[c]} /\ request[c] \in Requests
    BY Waiting DEF Unhandled
  <2> QED
    BY <2>1, FS_EmptySet, FS_Singleton
<1>4. \A T \in Sets : IsFiniteSet(T) /\ T \subseteq Requests
  BY <1>3
<1>5. IsFiniteSet(UNION Sets)
  BY <1>2, <1>4, FS_UNION
<1> QED
  BY <1>4, <1>5

----------------------------------------------------------------------------
(* The invariant *)

LEMMA InitInv == Init => WorkInv
<1> SUFFICES ASSUME Init PROVE WorkInv
  OBVIOUS
<1>1. Cardinality(adrift) <= MaxAdrift /\ IsFiniteSet(adrift)
  BY FS_EmptySet, MaxAdriftAssumption DEF Init
<1>2. TypeOK
  BY <1>1 DEF Init, TypeOK, Fits
<1>3. DeletesDashed
  BY DEF Init, DeletesDashed, Pending, NoRequest
<1> QED
  BY <1>1, <1>2, <1>3 DEF WorkInv

\* A step that adds no request.
LEMMA NoMoreRequests ==
  ASSUME WorkInv, TypeOK', IsFiniteSet(adrift)', Pending' \subseteq Pending \cup {NoRequest}
  PROVE  WorkInv'
<1>1. DeletesDashed'
  BY DEF WorkInv, DeletesDashed, NoRequest, Dotted
<1> QED
  BY <1>1 DEF WorkInv

\* A call that returns leaves no request behind, or one adrift.
LEMMA ReturnInv ==
  ASSUME WorkInv, NEW c \in Callers, NEW r \in {"none", "ok", "error"}, Return(c, r),
         UNCHANGED objects, adrift' = adrift \/ adrift' = adrift \cup Unhandled(c),
         adrift' # adrift => Cardinality(adrift) < MaxAdrift
  PROVE  WorkInv'
<1>1. \/ adrift' = adrift
      \/ /\ adrift' = adrift \cup {request[c]} /\ request[c] \in Requests
         /\ Cardinality(adrift) < MaxAdrift
  BY Waiting DEF WorkInv, Unhandled
<1>2. IsFiniteSet(adrift') /\ Cardinality(adrift') <= MaxAdrift
  <2>1. CASE adrift' = adrift
    BY <2>1 DEF WorkInv, TypeOK
  <2>2. CASE adrift' = adrift \cup {request[c]} /\ Cardinality(adrift) < MaxAdrift
    <3>1. Cardinality(adrift) \in Nat
      BY FS_CardinalityType DEF WorkInv
    <3> QED
      BY <2>2, <3>1, FS_AddElement, MaxAdriftAssumption DEF WorkInv
  <2> QED
    BY <1>1, <2>1, <2>2
<1>3. TypeOK'
  BY <1>1, <1>2 DEF WorkInv, TypeOK, Return, Fits
<1>4. \A d \in Callers : request'[d] \in {request[d], NoRequest}
  BY DEF Return, WorkInv, TypeOK
<1>5. Pending' \subseteq Pending \cup {NoRequest}
  BY <1>1, <1>4 DEF Pending
<1> QED
  BY <1>2, <1>3, <1>5, NoMoreRequests

LEMMA CallInv == ASSUME WorkInv, NEW c \in Callers, Call(c) PROVE WorkInv'
<1>1. CASE reply' = [reply EXCEPT ![c] = "error"] /\ UNCHANGED <<op, request>>
  <2>1. UNCHANGED <<objects, answer, adrift, op, request>>
    BY <1>1 DEF Call
  <2>2. TypeOK'
    <3>1. reply' \in [Callers -> {"none", "ok", "error"}]
      BY <1>1 DEF WorkInv, TypeOK
    <3> QED
      BY <2>1, <3>1 DEF WorkInv, TypeOK, Fits
  <2>3. Pending' = Pending
    BY <2>1 DEF Pending
  <2> QED
    BY <2>1, <2>2, <2>3, NoMoreRequests DEF WorkInv
<1>2. CASE ~(reply' = [reply EXCEPT ![c] = "error"] /\ UNCHANGED <<op, request>>)
  <2>1. PICK kind \in Kinds, verb \in Ops, name \in Names, to \in Values :
          /\ to = Absent <=> verb = "delete"
          /\ op' = [op EXCEPT ![c] = verb]
          /\ request' = [request EXCEPT ![c] =
               [verb |-> verb, key |-> Key(kind, verb, name), to |-> to]]
    BY <1>2 DEF Call
  <2>2. op[c] = "none" /\ UNCHANGED <<objects, answer, adrift>>
        /\ reply' = [reply EXCEPT ![c] = "none"]
    BY <1>2 DEF Call
  <2> DEFINE r == [verb |-> verb, key |-> Key(kind, verb, name), to |-> to]
  <2>3. Key(kind, verb, name) \in Keys
    BY DashedAssumption DEF Key, Keys
  <2>4. r \in Requests /\ r # NoRequest /\ r.verb = verb /\ r.to = to
    BY <2>3 DEF Requests, NoRequest, Ops
  <2>5. r.verb = "delete" /\ r.key[1] = "Deployment" => ~Dotted(r.key[2])
    BY DashedAssumption DEF Key, Dotted
  <2>6. request' = [request EXCEPT ![c] = r]
    BY <2>1
  <2> HIDE DEF r
  <2>7. TypeOK'
    <3>1. /\ op' \in [Callers -> Ops \cup {"none"}]
          /\ reply' \in [Callers -> {"none", "ok", "error"}]
      BY <2>1, <2>2 DEF WorkInv, TypeOK
    <3>4. request' \in [Callers -> Requests \cup {NoRequest}]
      BY <2>4, <2>6 DEF WorkInv, TypeOK
    <3>2. /\ op'[c] = verb /\ verb # "none" /\ request'[c] = r
          /\ \A d \in Callers \ {c} : op'[d] = op[d] /\ request'[d] = request[d]
      BY <2>1, <2>6 DEF WorkInv, TypeOK, Ops
    <3>3. ASSUME NEW d \in Callers
          PROVE  Fits(d)'
      <4>1. CASE d = c
        BY <2>1, <2>2, <2>4, <3>2, <4>1 DEF WorkInv, TypeOK, Fits
      <4>2. CASE d # c
        BY <2>2, <3>2, <4>2 DEF WorkInv, TypeOK, Fits
      <4> QED
        BY <4>1, <4>2
    <3> QED
      BY <2>2, <3>1, <3>3, <3>4 DEF WorkInv, TypeOK
  <2>8. Pending' \subseteq Pending \cup {r}
    BY <2>2, <2>6 DEF Pending, WorkInv, TypeOK
  <2>9. DeletesDashed'
    BY <2>5, <2>8 DEF WorkInv, DeletesDashed, Dotted
  <2> QED
    BY <2>2, <2>7, <2>9 DEF WorkInv
<1> QED
  BY <1>1, <1>2

LEMMA HandleInv == ASSUME WorkInv, NEW c \in Callers, Handle(c) PROVE WorkInv'
<1>1. request[c] \in Requests /\ op[c] # "none"
  BY Waiting DEF Handle, WorkInv, Ops
<1>2. objects' \in [Keys -> Values]
  BY <1>1, ApplyType DEF Handle, WorkInv, TypeOK
<1>3. \E a \in {"ok", "exists", "not found", "refused"} : answer' = [answer EXCEPT ![c] = a]
  BY OutcomeType DEF Handle
<1>4. UNCHANGED <<op, request, adrift, reply>>
  BY DEF Handle
<1>5. TypeOK'
  <2>1. /\ answer' \in [Callers -> {"none", "ok", "exists", "not found", "refused"}]
        /\ \A d \in Callers \ {c} : answer'[d] = answer[d]
    BY <1>3 DEF WorkInv, TypeOK
  <2>2. ASSUME NEW d \in Callers PROVE Fits(d)'
    BY <1>1, <1>4, <2>1 DEF WorkInv, TypeOK, Fits
  <2> QED
    BY <1>2, <1>4, <2>1, <2>2 DEF WorkInv, TypeOK
<1>6. Pending' = Pending
  BY <1>4 DEF Pending
<1> QED
  BY <1>4, <1>5, <1>6, NoMoreRequests DEF WorkInv

LEMMA CreateInsteadInv == ASSUME WorkInv, NEW c \in Callers, CreateInstead(c) PROVE WorkInv'
<1> DEFINE r == [request[c] EXCEPT !.verb = "create"]
<1>1. request[c] \in Requests /\ op[c] = "update" /\ request[c].verb = "update"
  BY Waiting DEF CreateInstead, FallsBack, WorkInv
<1>2. r \in Requests /\ r.verb = "create" /\ r.to = request[c].to /\ r # NoRequest
  BY <1>1 DEF Requests, Ops, NoRequest
<1>3. /\ request' = [request EXCEPT ![c] = r]
      /\ answer' = [answer EXCEPT ![c] = "none"]
      /\ UNCHANGED <<objects, op, adrift, reply>>
  BY DEF CreateInstead
<1> HIDE DEF r
<1>4. TypeOK'
  <2>1. /\ request' \in [Callers -> Requests \cup {NoRequest}]
        /\ answer' \in [Callers -> {"none", "ok", "exists", "not found", "refused"}]
        /\ answer'[c] = "none" /\ request'[c] = r
        /\ \A d \in Callers \ {c} : answer'[d] = answer[d] /\ request'[d] = request[d]
    BY <1>2, <1>3 DEF WorkInv, TypeOK
  <2>2. ASSUME NEW d \in Callers
        PROVE  Fits(d)'
    <3>1. Fits(d) /\ op' = op
      BY <1>3 DEF WorkInv, TypeOK
    <3>2. CASE d = c
      <4>1. request[c] # NoRequest
        BY <1>1, <3>1, <3>2 DEF Fits
      <4> QED
        BY <1>1, <1>2, <2>1, <3>1, <3>2, <4>1 DEF Fits
    <3>3. CASE d # c
      BY <2>1, <3>1, <3>3 DEF Fits
    <3> QED
      BY <3>2, <3>3
  <2> QED
    BY <1>3, <2>1, <2>2 DEF WorkInv, TypeOK
<1>5. Pending' \subseteq Pending \cup {r}
  BY <1>3 DEF Pending, WorkInv, TypeOK
<1> QED
  BY <1>2, <1>3, <1>4, <1>5 DEF WorkInv, DeletesDashed, Dotted

LEMMA HandleAdriftInv == ASSUME WorkInv, HandleAdrift PROVE WorkInv'
<1>1. PICK r \in adrift : adrift' = adrift \ {r} /\ (Apply(r) \/ UNCHANGED objects)
  BY DEF HandleAdrift
<1>2. objects' \in [Keys -> Values]
  BY <1>1, ApplyType DEF WorkInv, TypeOK
<1>3. IsFiniteSet(adrift') /\ Cardinality(adrift') <= MaxAdrift
  <2>1. IsFiniteSet(adrift') /\ Cardinality(adrift') <= Cardinality(adrift)
    <3>1. adrift' \in SUBSET adrift /\ IsFiniteSet(adrift)
      BY <1>1 DEF WorkInv
    <3> QED
      BY <3>1, FS_Subset
  <2>2. Cardinality(adrift) \in Nat /\ Cardinality(adrift') \in Nat
    BY <2>1, FS_CardinalityType DEF WorkInv
  <2>3. Cardinality(adrift) <= MaxAdrift
    BY DEF WorkInv, TypeOK
  <2> QED
    BY <2>1, <2>2, <2>3, MaxAdriftAssumption
<1>4. UNCHANGED <<op, request, answer, reply>>
  BY DEF HandleAdrift
<1>5. TypeOK'
  BY <1>1, <1>2, <1>3, <1>4 DEF WorkInv, TypeOK, Fits
<1>6. Pending' \subseteq Pending
  BY <1>1, <1>4 DEF Pending
<1> QED
  BY <1>3, <1>5, <1>6, NoMoreRequests

LEMMA CrashInv == ASSUME WorkInv, Crash PROVE WorkInv'
<1> DEFINE left == UNION {Unhandled(c) : c \in Callers}
<1>1. PICK s \in SUBSET left : adrift' = adrift \cup s /\ Cardinality(adrift') <= MaxAdrift
  BY DEF Crash
<1>2. /\ op' = [c \in Callers |-> "none"] /\ request' = [c \in Callers |-> NoRequest]
      /\ answer' = [c \in Callers |-> "none"] /\ reply' = [c \in Callers |-> "none"]
      /\ UNCHANGED objects
  BY DEF Crash
<1>3. IsFiniteSet(left) /\ left \subseteq Requests
  BY UnhandledFinite DEF WorkInv
<1>4. left \subseteq Pending
  BY DEF Unhandled, Pending
<1> HIDE DEF left
<1>5. IsFiniteSet(adrift') /\ adrift' \subseteq Requests
  <2>1. IsFiniteSet(s)
    BY <1>3, FS_Subset
  <2> QED
    BY <1>1, <1>3, <2>1, FS_Union DEF WorkInv, TypeOK
<1>6. TypeOK'
  BY <1>1, <1>2, <1>5 DEF WorkInv, TypeOK, Fits
<1>7. Pending' \subseteq Pending \cup {NoRequest}
  BY <1>1, <1>2, <1>4 DEF Pending
<1> QED
  BY <1>5, <1>6, <1>7, NoMoreRequests

LEMMA StepInv == ASSUME WorkInv, [Next]_vars PROVE WorkInv'
<1>1. CASE UNCHANGED vars
  <2>1. TypeOK' /\ adrift' = adrift
    BY <1>1 DEF vars, WorkInv, TypeOK, Fits
  <2>2. Pending' = Pending
    BY <1>1 DEF vars, Pending
  <2> QED
    BY <2>1, <2>2, NoMoreRequests DEF WorkInv
<1>2. ASSUME NEW c \in Callers, Finish(c) PROVE WorkInv'
  BY <1>2, ReturnInv DEF Finish
<1>3. ASSUME NEW c \in Callers, GiveUp(c) PROVE WorkInv'
  BY <1>3, ReturnInv DEF GiveUp
<1> QED
  BY <1>1, <1>2, <1>3, CallInv, HandleInv, CreateInsteadInv, HandleAdriftInv, CrashInv DEF Next

----------------------------------------------------------------------------
(* Safety *)

\* The types, and what deletions are about.
THEOREM Invariance == Spec => []WorkInv
BY InitInv, StepInv, PTL DEF Spec

\* The variables keep their types; a call waits for a request that fits it, and only a
\* creation or an update sends a creation (deployment.go:88-147).
THEOREM TypeCorrect == Spec => []TypeOK
<1>1. WorkInv => TypeOK
  BY DEF WorkInv
<1> QED
  BY <1>1, Invariance, PTL

\* The objects that a step leaves alone.
Untouched ==
  \A n \in Names :
    Dotted(n) /\ <<"Deployment", n>> \in Keys => UNCHANGED objects[<<"Deployment", n>>]

\* A request that is handled changes no Deployment with a dot in its name.
LEMMA ApplyUntouched ==
  ASSUME WorkInv, NEW r \in Pending, r \in Requests, Apply(r)
  PROVE  Untouched
<1>1. CASE Outcome(r) # "ok"
  BY <1>1 DEF Apply, Untouched
<1>2. CASE Outcome(r) = "ok"
  <2>1. r.key[1] = "Deployment" => ~Dotted(r.key[2])
    BY <1>2, Accepted DEF WorkInv, DeletesDashed
  <2>2. objects' = [objects EXCEPT ![r.key] = r.to] /\ DOMAIN objects = Keys
    BY <1>2 DEF Apply, WorkInv, TypeOK
  <2>3. ASSUME NEW n \in Names, Dotted(n), <<"Deployment", n>> \in Keys
        PROVE  objects'[<<"Deployment", n>>] = objects[<<"Deployment", n>>]
    <3>1. r.key # <<"Deployment", n>>
      BY <2>1, <2>3
    <3> QED
      BY <2>2, <2>3, <3>1
  <2> QED
    BY <2>3 DEF Untouched
<1> QED
  BY <1>1, <1>2

\* A Deployment whose name has a dot stays as others left it: no request of this code
\* is accepted for it, and DeleteDeploy asks for another (deployment.go:140), also
\* when requests are handled after their call or their process is over.
THEOREM DottedSafe == Spec => DottedUntouched
<1>1. WorkInv /\ [Next]_vars => Untouched \/ UNCHANGED vars
  <2> SUFFICES ASSUME WorkInv, Next PROVE Untouched
    BY DEF Untouched
  <2>1. ASSUME NEW c \in Callers, Handle(c) PROVE Untouched
    <3>1. request[c] \in Requests /\ request[c] \in Pending
      BY <2>1, Waiting DEF Handle, WorkInv, Pending
    <3>2. Apply(request[c]) \/ UNCHANGED objects
      BY <2>1 DEF Handle
    <3> QED
      BY <3>1, <3>2, ApplyUntouched DEF Untouched
  <2>2. CASE HandleAdrift
    <3>1. PICK r \in adrift : Apply(r) \/ UNCHANGED objects
      BY <2>2 DEF HandleAdrift
    <3>2. r \in Requests /\ r \in Pending
      BY DEF WorkInv, TypeOK, Pending
    <3> QED
      BY <3>1, <3>2, ApplyUntouched DEF Untouched
  <2>3. CASE UNCHANGED objects
    BY <2>3 DEF Untouched
  <2> QED
    BY <2>1, <2>2, <2>3 DEF Next, Call, CreateInstead, Finish, GiveUp, Crash
<1> QED
  BY <1>1, Invariance, PTL DEF Spec, DottedUntouched, Untouched

----------------------------------------------------------------------------
(* Implementation of WorkloadStore *)

USE DEF openBar, adriftBar

\* The mapping of a caller's state, case by case.
LEMMA Mapped ==
  ASSUME TypeOK, NEW c \in Callers
  PROVE  openBar[c] = IF request[c] = NoRequest THEN Store!Idle
                      ELSE IF answer[c] = "ok" THEN Store!Taken
                      ELSE Effect(op[c], request[c])
BY Waiting DEF Store!Idle, Store!Taken

\* The effect of a request, and that another verb has another effect.
LEMMA EffectType ==
  ASSUME NEW verb \in Ops, NEW r \in Requests
  PROVE  /\ Effect(verb, r) \in Store!Effects
         /\ Effect(verb, r).key = r.key /\ Effect(verb, r).to = r.to
         /\ Effect(verb, r).over = Over(verb)
         /\ Effect(verb, r) # Store!Idle /\ Effect(verb, r) # Store!Taken
BY DEF Effect, Over, Store!Effects, Store!Idle, Store!Taken, Requests, Ops, Values, Keys

LEMMA EffectInjective ==
  ASSUME NEW q \in Requests, NEW r \in Requests, Effect(q.verb, q) = Effect(r.verb, r)
  PROVE  q = r
<1>1. q.key = r.key /\ q.to = r.to /\ Over(q.verb) = Over(r.verb)
  BY EffectType DEF Requests
<1>2. q.verb = r.verb
  BY <1>1 DEF Over, Requests, Ops
<1> QED
  BY <1>1, <1>2 DEF Requests

\* What is left of an update whose creation is in question is left of the update.
LEMMA EffectRemains ==
  ASSUME WorkInv, NEW c \in Callers, request[c] # NoRequest, answer[c] = "none"
  PROVE  /\ openBar[c] \in Store!Effects
         /\ Effect(request[c].verb, request[c]) \in Store!Remains(openBar[c])
<1>1. openBar[c] = Effect(op[c], request[c]) /\ request[c] \in Requests /\ op[c] \in Ops
  BY Mapped, Waiting DEF WorkInv
<1>2. request[c].verb = op[c] \/ (op[c] = "update" /\ request[c].verb = "create")
  BY DEF WorkInv, TypeOK, Fits
<1>3. Over(request[c].verb) \subseteq Over(op[c])
  BY <1>2 DEF Over
<1>4. Effect(request[c].verb, request[c])
        = [Effect(op[c], request[c]) EXCEPT !.over = Over(request[c].verb)]
  BY DEF Effect
<1> QED
  BY <1>1, <1>3, <1>4, EffectType DEF Store!Remains

\* An accepted request takes place in the sense of the store.
LEMMA ApplyTakesPlace ==
  ASSUME NEW verb \in Ops, NEW r \in Requests, Outcome(r) = "ok", Apply(r),
         verb = r.verb \/ (verb = "update" /\ r.verb = "create")
  PROVE  Store!TakePlace(Effect(verb, r))
<1>1. Store!Before(r.key) \in Over(verb)
  BY Accepted DEF Store!Before, Over, Requests, Ops
<1> QED
  BY <1>1, EffectType DEF Store!TakePlace, Apply

\* A step of one caller.
LEMMA OthersOpen ==
  ASSUME NEW c \in Callers,
         \A d \in Callers \ {c} : /\ op'[d] = op[d] /\ request'[d] = request[d]
                                  /\ answer'[d] = answer[d]
  PROVE  openBar' = [openBar EXCEPT ![c] = openBar'[c]]
<1>1. ASSUME NEW d \in Callers, d # c PROVE openBar'[d] = openBar[d]
  BY <1>1 DEF Effect
<1>2. DOMAIN openBar = Callers /\ DOMAIN openBar' = Callers
  OBVIOUS
<1>3. openBar = [d \in Callers |-> openBar[d]] /\ openBar' = [d \in Callers |-> openBar'[d]]
  OBVIOUS
<1> HIDE DEF openBar
<1> QED
  BY <1>1, <1>2, <1>3

LEMMA SameOpen ==
  ASSUME UNCHANGED <<op, request, answer>>
  PROVE  openBar' = openBar
OBVIOUS

LEMMA SameAdrift ==
  ASSUME UNCHANGED adrift
  PROVE  adriftBar' = adriftBar
OBVIOUS

LEMMA ReturnIdles ==
  ASSUME WorkInv, NEW c \in Callers, NEW r, Return(c, r)
  PROVE  /\ openBar' = [openBar EXCEPT ![c] = Store!Idle]
         /\ reply' = [reply EXCEPT ![c] = r]
<1>1. openBar'[c] = Store!Idle
  BY DEF Return, WorkInv, TypeOK, Store!Idle
<1>2. openBar' = [openBar EXCEPT ![c] = openBar'[c]]
  BY OthersOpen DEF Return, WorkInv, TypeOK
<1> QED
  BY <1>1, <1>2 DEF Return

\* A call opens an effect, or fails at once.
LEMMA CallOpens ==
  ASSUME WorkInv, NEW c \in Callers, Call(c)
  PROVE  Store!Open(c) \/ Store!Fail(c)
<1>1. op[c] = "none" /\ request[c] = NoRequest /\ answer[c] = "none"
  BY Waiting DEF Call, WorkInv, Ops, NoRequest, Requests
<1>2. openBar[c] = Store!Idle /\ adriftBar' = adriftBar /\ UNCHANGED <<objects, answer>>
  BY <1>1, Mapped, SameAdrift DEF Call, WorkInv
<1>3. CASE reply' = [reply EXCEPT ![c] = "error"] /\ UNCHANGED <<op, request>>
  <2>1. openBar' = [openBar EXCEPT ![c] = Store!Idle]
    BY <1>2, <1>3, SameOpen
  <2> QED
    BY <1>2, <1>3, <2>1 DEF Store!Fail
<1>4. CASE ~(reply' = [reply EXCEPT ![c] = "error"] /\ UNCHANGED <<op, request>>)
  <2>1. PICK kind \in Kinds, verb \in Ops, name \in Names, to \in Values :
          /\ op' = [op EXCEPT ![c] = verb]
          /\ request' = [request EXCEPT ![c] =
               [verb |-> verb, key |-> Key(kind, verb, name), to |-> to]]
    BY <1>4 DEF Call
  <2> DEFINE r == [verb |-> verb, key |-> Key(kind, verb, name), to |-> to]
  <2>2. Key(kind, verb, name) \in Keys
    BY DashedAssumption DEF Key, Keys
  <2>3. r \in Requests /\ r # NoRequest
    BY <2>2 DEF Requests, NoRequest, Ops
  <2>4. request' = [request EXCEPT ![c] = r]
    BY <2>1
  <2> HIDE DEF r
  <2>5. openBar'[c] = Effect(verb, r)
    BY <1>1, <1>2, <2>1, <2>3, <2>4 DEF WorkInv, TypeOK
  <2>6. openBar' = [openBar EXCEPT ![c] = openBar'[c]]
    <3>1. \A d \in Callers \ {c} : /\ op'[d] = op[d] /\ request'[d] = request[d]
                                   /\ answer'[d] = answer[d]
      BY <1>2, <2>1, <2>4 DEF WorkInv, TypeOK
    <3> QED
      BY <3>1, OthersOpen
  <2>7. reply' = [reply EXCEPT ![c] = "none"]
    BY <1>4 DEF Call
  <2> QED
    BY <1>2, <2>3, <2>5, <2>6, <2>7, EffectType DEF Store!Open
<1> QED
  BY <1>3, <1>4

\* The effect of a call takes place when the server accepts its request, whichever of
\* the two of an update it is.
LEMMA HandleTakes ==
  ASSUME WorkInv, NEW c \in Callers, Handle(c)
  PROVE  Store!Take(c) \/ UNCHANGED Store!vars
<1>1. /\ request[c] \in Requests /\ request[c] # NoRequest /\ op[c] \in Ops
      /\ answer[c] = "none"
  BY Waiting DEF Handle, WorkInv
<1>2. openBar[c] = Effect(op[c], request[c])
  BY <1>1, Mapped DEF WorkInv
<1>3. /\ adriftBar' = adriftBar
      /\ UNCHANGED <<op, request, reply>>
  BY SameAdrift DEF Handle
<1>4. \A d \in Callers \ {c} : /\ op'[d] = op[d] /\ request'[d] = request[d]
                               /\ answer'[d] = answer[d]
  BY <1>3 DEF Handle, WorkInv, TypeOK
<1>5. openBar' = [openBar EXCEPT ![c] = openBar'[c]]
  BY <1>4, OthersOpen
<1>6. CASE answer'[c] = "ok"
  <2>1. Apply(request[c]) /\ Outcome(request[c]) = "ok"
    BY <1>6 DEF Handle, WorkInv, TypeOK
  <2>2. Store!TakePlace(openBar[c])
    BY <1>1, <1>2, <2>1, ApplyTakesPlace DEF WorkInv, TypeOK, Fits
  <2>3. openBar'[c] = Store!Taken
    BY <1>1, <1>3, <1>6 DEF Store!Taken
  <2> QED
    BY <1>1, <1>2, <1>3, <1>5, <2>2, <2>3, EffectType DEF Store!Take
<1>7. CASE answer'[c] # "ok"
  <2>1. UNCHANGED objects
    BY <1>7 DEF Handle, Apply, WorkInv, TypeOK
  <2>2. openBar'[c] = openBar[c]
    BY <1>1, <1>2, <1>3, <1>7
  <2> QED
    BY <1>3, <1>5, <2>1, <2>2 DEF Store!vars
<1> QED
  BY <1>6, <1>7

\* The creation in place of an update is the same effect, still to take place.
LEMMA CreateInsteadStutters ==
  ASSUME WorkInv, NEW c \in Callers, CreateInstead(c)
  PROVE  UNCHANGED Store!vars
<1>1. /\ request[c] \in Requests /\ request[c] # NoRequest /\ op[c] \in Ops
      /\ answer[c] = "not found"
  BY Waiting DEF CreateInstead, FallsBack, WorkInv, Ops
<1>2. openBar[c] = Effect(op[c], request[c])
  BY <1>1, Mapped DEF WorkInv
<1>3. UNCHANGED <<objects, op, reply>> /\ adriftBar' = adriftBar
  BY SameAdrift DEF CreateInstead
<1>4. \A d \in Callers \ {c} : /\ op'[d] = op[d] /\ request'[d] = request[d]
                               /\ answer'[d] = answer[d]
  BY DEF CreateInstead, WorkInv, TypeOK
<1>5. /\ request'[c].key = request[c].key /\ request'[c].to = request[c].to
      /\ request'[c] # NoRequest /\ answer'[c] = "none"
  BY <1>1 DEF CreateInstead, WorkInv, TypeOK, Requests, NoRequest
<1>6. openBar'[c] = openBar[c]
  BY <1>2, <1>3, <1>5 DEF Effect
<1> QED
  BY <1>3, <1>4, <1>6, OthersOpen DEF Store!vars

LEMMA FinishCloses ==
  ASSUME WorkInv, NEW c \in Callers, Finish(c)
  PROVE  Store!Succeed(c) \/ Store!Fail(c)
<1>1. /\ request[c] \in Requests /\ request[c] # NoRequest
      /\ adriftBar' = adriftBar /\ UNCHANGED objects
  BY Waiting, SameAdrift DEF Finish, WorkInv
<1>2. CASE answer[c] = "ok"
  <2>1. openBar[c] = Store!Taken
    BY <1>1, <1>2, Mapped DEF WorkInv
  <2> QED
    BY <1>1, <1>2, <2>1, ReturnIdles DEF Finish, Store!Succeed
<1>3. CASE answer[c] # "ok"
  BY <1>1, <1>3, ReturnIdles DEF Finish, Store!Fail
<1> QED
  BY <1>2, <1>3

\* A call that is given up may leave its effect behind.
LEMMA GiveUpFails ==
  ASSUME WorkInv, NEW c \in Callers, GiveUp(c)
  PROVE  Store!Fail(c)
<1>1. /\ openBar' = [openBar EXCEPT ![c] = Store!Idle]
      /\ reply' = [reply EXCEPT ![c] = "error"] /\ UNCHANGED objects
  BY ReturnIdles DEF GiveUp
<1>2. CASE adrift' = adrift
  BY <1>1, <1>2, SameAdrift DEF Store!Fail
<1>3. CASE adrift' # adrift
  <2>1. request[c] # NoRequest /\ answer[c] = "none" /\ adrift' = adrift \cup {request[c]}
    BY <1>3 DEF GiveUp, Unhandled
  <2>2. adriftBar' = adriftBar \cup {Effect(request[c].verb, request[c])}
    BY <2>1
  <2> QED
    BY <1>1, <2>1, <2>2, EffectRemains DEF Store!Fail
<1> QED
  BY <1>2, <1>3

LEMMA CrashAbandons ==
  ASSUME WorkInv, Crash
  PROVE  Store!Abandon
<1>1. PICK s \in SUBSET UNION {Unhandled(c) : c \in Callers} : adrift' = adrift \cup s
  BY DEF Crash
<1>2. adriftBar' = adriftBar \cup {Effect(r.verb, r) : r \in s}
  BY <1>1
<1>3. ASSUME NEW r \in s
      PROVE  \E c \in Callers : /\ openBar[c] \in Store!Effects
                                /\ Effect(r.verb, r) \in Store!Remains(openBar[c])
  <2>1. PICK c \in Callers : r \in Unhandled(c)
    OBVIOUS
  <2>2. r = request[c] /\ request[c] # NoRequest /\ answer[c] = "none"
    BY <2>1 DEF Unhandled
  <2> QED
    BY <2>2, EffectRemains
<1>4. openBar' = [c \in Callers |-> Store!Idle]
  BY DEF Crash, Store!Idle
<1> QED
  BY <1>2, <1>3, <1>4 DEF Store!Abandon, Crash

LEMMA AdriftSettles ==
  ASSUME WorkInv, HandleAdrift
  PROVE  Store!Settle
<1>1. PICK r \in adrift : adrift' = adrift \ {r} /\ (Apply(r) \/ UNCHANGED objects)
  BY DEF HandleAdrift
<1>2. r \in Requests /\ \A q \in adrift : q \in Requests
  BY DEF WorkInv, TypeOK
<1> DEFINE e == Effect(r.verb, r)
<1>3. e \in adriftBar
  OBVIOUS
<1>4. adriftBar' = adriftBar \ {e}
  BY <1>1, <1>2, EffectInjective
<1>5. Store!TakePlace(e) \/ UNCHANGED objects
  <2>1. r.verb \in Ops
    BY <1>2 DEF Requests
  <2>2. CASE Apply(r) /\ Outcome(r) = "ok"
    BY <1>2, <2>1, <2>2, ApplyTakesPlace
  <2>3. CASE Apply(r) /\ Outcome(r) # "ok"
    BY <2>3 DEF Apply
  <2> QED
    BY <1>1, <2>2, <2>3
<1>6. openBar' = openBar /\ UNCHANGED reply
  BY SameOpen DEF HandleAdrift
<1> QED
  BY <1>3, <1>4, <1>5, <1>6 DEF Store!Settle

\* The calls implement WorkloadStore, for any number of callers, objects and requests
\* adrift: each takes effect at one moment and at most once, whichever answers are
\* lost, whatever others do between the two requests of an update, and whenever the
\* process stops (deployment.go:88-147, daemonset.go:52-104).
THEOREM Refinement == Spec => RefinesStore
<1>1. Init => Store!Init
  <2> SUFFICES ASSUME Init PROVE Store!Init
    OBVIOUS
  <2>1. openBar = [c \in Callers |-> Store!Idle] /\ adriftBar = {}
    BY DEF Init, Store!Idle
  <2> QED
    BY <2>1 DEF Init, Store!Init, Values
<1>2. WorkInv /\ [Next]_vars => [Store!Next]_(Store!vars)
  <2> SUFFICES ASSUME WorkInv, [Next]_vars
               PROVE  Store!Next \/ UNCHANGED Store!vars
    OBVIOUS
  <2>1. CASE UNCHANGED vars
    BY <2>1, SameOpen, SameAdrift DEF vars, Store!vars
  <2>2. CASE Next
    BY <2>2, CallOpens, HandleTakes, CreateInsteadStutters, FinishCloses, GiveUpFails,
       CrashAbandons, AdriftSettles DEF Next, Store!Next
  <2> QED
    BY <2>1, <2>2
<1> QED
  BY <1>1, <1>2, Invariance, PTL DEF Spec, RefinesStore, Store!Spec
==============================================================================

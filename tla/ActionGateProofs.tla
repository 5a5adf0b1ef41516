-------------------------- MODULE ActionGateProofs --------------------------
(* Proofs about ActionGate for every set of calls, timeout, window and quota. *)
EXTENDS ActionGate, FiniteSetTheorems, TLAPS

(* What makes RunsOnlyWhatTheOperatorConfirmed inductive: the fate of a call  *)
(* is tied to its future, its stored arguments and its timestamp.             *)
CallInv(c) ==
  /\ pc[c] = "new" => askedAt[c] = Never
  /\ askedAt[c] = Never => fut[c] = "open" /\ word[c] = "none"
  /\ fut[c] = "confirmed" => word[c] = "true"
  /\ pc[c] \in {"publishing", "waiting"} =>
       /\ askedAt[c] # Never
       /\ session.canAct
       /\ args[c] # NoRequest
       /\ shown[c] = LabelOfRequest(args[c])
       /\ Confined(args[c]) => args[c].namespace = session.namespace
       /\ fut[c] = "open" => word[c] = "none"
  /\ pc[c] \in {"new", "publishing", "waiting"} => ran[c] = NoRequest
  /\ ran[c] # NoRequest =>
       /\ session.canAct
       /\ word[c] = "true"
       /\ ran[c] = args[c] /\ shown[c] = LabelOfRequest(ran[c])
       /\ Confined(ran[c]) => ran[c].namespace = session.namespace

GateInv == OnePendingAndNoneLeaked /\ \A c \in Calls : CallInv(c)

(* What makes RateLimited inductive: a call pruned from _recent is older than *)
(* the window, so every call of an interval that holds now is in _recent.     *)
RateInv ==
  /\ \A c \in Calls : askedAt[c] <= now
  /\ recent \subseteq Asked
  /\ Cardinality(recent) <= MaxPerMinute
  /\ \A c \in Asked \ recent : now - askedAt[c] > RateWindow
  /\ RateLimited
-----------------------------------------------------------------------------
(* What Scoped stores is a request, confined to the session's namespace.      *)
LEMMA ScopedRequest ==
  ASSUME TypeOK, NEW r \in Requests
  PROVE  /\ Scoped(r) \in Requests
         /\ Scoped(r) # NoRequest
         /\ Confined(Scoped(r)) => Scoped(r).namespace = session.namespace
<1>1. session.namespace \in Namespaces \cup {NoNamespace}
  BY GateAssumption DEF TypeOK
<1>2. CASE Confined(r)
  <2>1. r \in [tool : {"restart_ioc"}, namespace : Namespaces \cup {NoNamespace}, tail : Tails]
    BY <1>2 DEF Confined, Requests
  <2>2. Scoped(r) = [tool |-> "restart_ioc", namespace |-> session.namespace, tail |-> r.tail]
    BY <1>2, <2>1 DEF Scoped
  <2> QED
    BY <1>1, <2>2 DEF Requests, NoRequest
<1>3. CASE ~Confined(r)
  BY <1>3 DEF Scoped, Requests, NoRequest
<1> QED
  BY <1>2, <1>3

(* Every step of the gate is one of these.                                    *)
LEMMA TypeStep ==
  ASSUME TypeOK, [Next]_vars
  PROVE  TypeOK'
<1> USE GateAssumption DEF TypeOK, Never
<1>1. CASE Tick
  BY <1>1 DEF Tick
<1>2. CASE Idle
  BY <1>2 DEF Idle, vars
<1>3. ASSUME NEW c \in Calls, Call(c)
      PROVE  TypeOK'
  <2>1. CASE RefuseCapability(c)
    BY <2>1 DEF RefuseCapability, Refuse, PCs, Outcomes
  <2>2. ASSUME NEW r \in Requests, RefuseScope(c, r) \/ RefusePending(c, r)
        PROVE  TypeOK'
    BY <2>2 DEF RefuseScope, RefusePending, Refuse, PCs, Outcomes
  <2>3. ASSUME NEW r \in Requests, RefuseRate(c, r)
        PROVE  TypeOK'
    BY <2>3 DEF RefuseRate, Refuse, Unexpired, PCs, Outcomes
  <2>4. ASSUME NEW r \in Requests, Propose(c, r)
        PROVE  TypeOK'
    <3>1. Scoped(r) \in Requests
      BY ScopedRequest
    <3>2. LabelOfRequest(Scoped(r)) \in Labels
      BY <3>1 DEF Requests, LabelOfRequest, Labels
    <3> QED
      BY <2>4, <3>1, <3>2 DEF Propose, Unexpired, PCs
  <2> QED
    BY <1>3, <2>1, <2>2, <2>3, <2>4 DEF Call
<1>4. ASSUME NEW c \in Calls, Await(c)
      PROVE  TypeOK'
  <2>1. CASE PublishOk(c)
    BY <2>1 DEF PublishOk, PCs
  <2>2. CASE PublishFail(c)
    BY <2>2 DEF PublishFail, Leave, PCs, Outcomes
  <2>3. CASE TimeOut(c) \/ AbortWait(c)
    BY <2>3 DEF TimeOut, AbortWait, CancelFuture
  <2>4. CASE ResumeConfirmed(c)
    BY <2>4 DEF ResumeConfirmed, Leave, PCs
  <2>5. CASE ResumeUnconfirmed(c)
    BY <2>5 DEF ResumeUnconfirmed, Leave, PCs, Outcomes
  <2>6. CASE RunEnds(c)
    BY <2>6 DEF RunEnds, PCs, Outcomes
  <2> QED
    BY <1>4, <2>1, <2>2, <2>3, <2>4, <2>5, <2>6 DEF Await
<1>5. ASSUME NEW c \in Calls, NEW s \in Participants, NEW a \in Answers, OnConfirm(c, s, a)
      PROVE  TypeOK'
  BY <1>5 DEF OnConfirm, Hear, Verdict, Answers
<1>6. CASE UNCHANGED vars
  BY <1>6 DEF vars
<1> QED
  BY <1>1, <1>2, <1>3, <1>4, <1>5, <1>6 DEF Next

(* Type correctness of the gate. *)
THEOREM TypeCorrect == Spec => []TypeOK
<1>1. Init => TypeOK
  BY GateAssumption DEF Init, TypeOK, PCs, Never, LabelOfRequest, NoRequest, Labels
<1>2. TypeOK /\ [Next]_vars => TypeOK'
  BY TypeStep
<1> QED
  BY <1>1, <1>2, PTL DEF Spec
-----------------------------------------------------------------------------
(* One lemma per kind of step: what it does to GateInv.                       *)
LEMMA GateRefuse ==
  ASSUME TypeOK, GateInv, NEW c \in Calls, NEW why \in Outcomes, pc[c] = "new", Refuse(c, why)
  PROVE  GateInv'
<1> USE DEF TypeOK, Refuse, Never
<1>1. OnePendingAndNoneLeaked'
  BY DEF GateInv, OnePendingAndNoneLeaked, Outcomes
<1>2. ASSUME NEW d \in Calls
      PROVE  CallInv(d)'
  BY DEF GateInv, CallInv, Outcomes, Confined
<1> QED
  BY <1>1, <1>2 DEF GateInv

LEMMA GatePropose ==
  ASSUME TypeOK, GateInv, NEW c \in Calls, NEW r \in Requests, Propose(c, r)
  PROVE  GateInv'
<1> USE GateAssumption DEF TypeOK, Propose, Admissible, Never
<1>1. OnePendingAndNoneLeaked'
  BY DEF GateInv, OnePendingAndNoneLeaked
<1>2. /\ Scoped(r) \in Requests
      /\ Scoped(r) # NoRequest
      /\ Confined(Scoped(r)) => Scoped(r).namespace = session.namespace
  BY ScopedRequest
<1>3. CallInv(c)'
  <2>1. CallInv(c)
    BY DEF GateInv
  <2> QED
    BY <1>2, <2>1 DEF CallInv, Confined
<1>4. ASSUME NEW d \in Calls \ {c}
      PROVE  CallInv(d)'
  BY DEF GateInv, CallInv, Confined
<1> QED
  BY <1>1, <1>3, <1>4 DEF GateInv

LEMMA GateAwait ==
  ASSUME TypeOK, GateInv, NEW c \in Calls, Await(c)
  PROVE  GateInv'
<1> USE DEF TypeOK, Never
<1>1. CallInv(c) /\ OnePendingAndNoneLeaked
  BY DEF GateInv
<1>2. OnePendingAndNoneLeaked'
  BY <1>1 DEF OnePendingAndNoneLeaked, Await, PublishOk, PublishFail, TimeOut, AbortWait,
     CancelFuture, ResumeConfirmed, ResumeUnconfirmed, RunEnds, Leave
<1>3. ASSUME NEW d \in Calls \ {c}
      PROVE  CallInv(d)'
  BY DEF GateInv, CallInv, Confined, Await, PublishOk, PublishFail, TimeOut, AbortWait,
     CancelFuture, ResumeConfirmed, ResumeUnconfirmed, RunEnds, Leave
<1>4. CallInv(c)'
  <2>1. CASE PublishOk(c)
    BY <1>1, <2>1 DEF CallInv, Confined, PublishOk
  <2>2. CASE PublishFail(c)
    BY <1>1, <2>2 DEF CallInv, Confined, PublishFail, Leave
  <2>3. CASE TimeOut(c) \/ AbortWait(c)
    BY <1>1, <2>3 DEF CallInv, Confined, TimeOut, AbortWait, CancelFuture
  <2>4. CASE ResumeConfirmed(c)
    BY <1>1, <2>4 DEF CallInv, Confined, ResumeConfirmed, Leave
  <2>5. CASE ResumeUnconfirmed(c)
    BY <1>1, <2>5 DEF CallInv, Confined, ResumeUnconfirmed, Leave
  <2>6. CASE RunEnds(c)
    BY <1>1, <2>6 DEF CallInv, Confined, RunEnds
  <2> QED
    BY <2>1, <2>2, <2>3, <2>4, <2>5, <2>6 DEF Await
<1> QED
  BY <1>2, <1>3, <1>4 DEF GateInv

LEMMA GateConfirm ==
  ASSUME TypeOK, GateInv, NEW c \in Calls, NEW s \in Participants, NEW a \in Answers,
         OnConfirm(c, s, a)
  PROVE  GateInv'
<1> USE DEF TypeOK, OnConfirm, Never
<1>1. CallInv(c) /\ OnePendingAndNoneLeaked
  BY DEF GateInv
<1>2. OnePendingAndNoneLeaked'
  BY <1>1 DEF OnePendingAndNoneLeaked
<1>3. ASSUME NEW d \in Calls \ {c}
      PROVE  CallInv(d)'
  BY DEF GateInv, CallInv, Confined, Hear
<1>4. CallInv(c)'
  <2>1. CASE Accepts(c, s)
    BY <1>1, <2>1 DEF CallInv, Confined, Hear, Accepts, Verdict, Asked, OnePendingAndNoneLeaked, Answers
  <2>2. CASE ~Accepts(c, s)
    BY <1>1, <2>2 DEF CallInv, Confined, Hear, Accepts, Asked, OnePendingAndNoneLeaked, Answers
  <2> QED
    BY <2>1, <2>2
<1> QED
  BY <1>2, <1>3, <1>4 DEF GateInv

LEMMA GateStep ==
  ASSUME TypeOK, GateInv, [Next]_vars
  PROVE  GateInv'
<1>1. CASE Tick \/ Idle \/ UNCHANGED vars
  BY <1>1 DEF Tick, Idle, vars, GateInv, CallInv, OnePendingAndNoneLeaked, Confined
<1>2. ASSUME NEW c \in Calls, Call(c)
      PROVE  GateInv'
  <2>1. ASSUME NEW r \in Requests, Propose(c, r)
        PROVE  GateInv'
    BY <2>1, GatePropose
  <2>2. CASE \E why \in Outcomes : pc[c] = "new" /\ Refuse(c, why)
    BY <2>2, GateRefuse
  <2> QED
    BY <1>2, <2>1, <2>2
       DEF Call, RefuseCapability, RefuseScope, RefusePending, RefuseRate, Admissible, Outcomes
<1>3. ASSUME NEW c \in Calls, Await(c)
      PROVE  GateInv'
  BY <1>3, GateAwait
<1>4. ASSUME NEW c \in Calls, NEW s \in Participants, NEW a \in Answers, OnConfirm(c, s, a)
      PROVE  GateInv'
  BY <1>4, GateConfirm
<1> QED
  BY <1>1, <1>2, <1>3, <1>4 DEF Next

LEMMA GateInvariant == Spec => []GateInv
<1>1. Init => GateInv
  BY DEF Init, GateInv, CallInv, OnePendingAndNoneLeaked, Never
<1>2. TypeOK /\ GateInv /\ [Next]_vars => GateInv'
  BY GateStep
<1> QED
  BY <1>1, <1>2, TypeCorrect, PTL DEF Spec

(* Nothing runs but the call that was stored when the operator was shown its  *)
(* label and confirmed it, whatever the label leaves out (execute and         *)
(* on_confirm, voice-agent/action_gate.py).                                   *)
THEOREM OperatorInControl == Spec => []RunsOnlyWhatTheOperatorConfirmed
<1>1. GateInv => RunsOnlyWhatTheOperatorConfirmed
  BY DEF GateInv, CallInv, RunsOnlyWhatTheOperatorConfirmed
<1> QED
  BY <1>1, GateInvariant, PTL

(* At most one request is pending, and none is ever left behind. *)
THEOREM OnePending == Spec => []OnePendingAndNoneLeaked
<1>1. GateInv => OnePendingAndNoneLeaked
  BY DEF GateInv
<1> QED
  BY <1>1, GateInvariant, PTL
-----------------------------------------------------------------------------
(* A step that neither asks, prunes nor turns the clock back keeps RateInv.   *)
LEMMA RateKept ==
  ASSUME TypeOK, TypeOK', RateInv, now' >= now, UNCHANGED <<askedAt, recent>>
  PROVE  RateInv'
<1> USE GateAssumption DEF TypeOK, RateInv, Never
<1>1. Asked' = Asked
  BY DEF Asked
<1>2. \A c \in Calls : askedAt'[c] <= now'
  OBVIOUS
<1>3. \A c \in Asked' \ recent' : now' - askedAt'[c] > RateWindow
  <2> TAKE c \in Asked' \ recent'
  <2>1. c \in Calls /\ now - askedAt[c] > RateWindow
    BY <1>1 DEF Asked
  <2> QED
    BY <2>1
<1>4. RateLimited'
  <2> SUFFICES ASSUME NEW t \in 0..now'
               PROVE  Cardinality(AskedWithin(t)') <= MaxPerMinute
    BY DEF RateLimited
  <2>1. CASE t <= now
    <3>1. AskedWithin(t)' = AskedWithin(t)
      BY <1>1 DEF AskedWithin
    <3> QED
      BY <2>1, <3>1 DEF RateLimited
  <2>2. CASE t > now
    <3>1. AskedWithin(t)' = {}
      BY <2>2 DEF AskedWithin, Asked
    <3> QED
      BY <3>1, FS_EmptySet
  <2> QED
    BY <2>1, <2>2
<1> QED
  BY <1>1, <1>2, <1>3, <1>4

(* Pruning leaves a small set, all of whose lost members are old.             *)
LEMMA Pruned ==
  ASSUME TypeOK, RateInv
  PROVE  /\ Unexpired \subseteq recent
         /\ IsFiniteSet(Unexpired)
         /\ Cardinality(Unexpired) \in Nat
         /\ Cardinality(Unexpired) <= MaxPerMinute
         /\ \A c \in Asked \ Unexpired : now - askedAt[c] > RateWindow
<1> USE GateAssumption DEF TypeOK, RateInv, Never
<1>1. Unexpired \subseteq recent
  BY DEF Unexpired
<1>2. IsFiniteSet(recent)
  BY FS_Subset
<1>3. IsFiniteSet(Unexpired) /\ Cardinality(Unexpired) <= Cardinality(recent)
  BY <1>1, <1>2, FS_Subset
<1>4. Cardinality(recent) \in Nat /\ Cardinality(Unexpired) \in Nat
  BY <1>2, <1>3, FS_CardinalityType
<1>5. \A c \in Asked \ Unexpired : now - askedAt[c] > RateWindow
  BY DEF Unexpired, Asked
<1> QED
  BY <1>1, <1>3, <1>4, <1>5

LEMMA RateRefuse ==
  ASSUME TypeOK, TypeOK', RateInv, UNCHANGED <<now, askedAt>>, recent' = Unexpired
  PROVE  RateInv'
<1> USE DEF TypeOK, RateInv
<1>1. Asked' = Asked
  BY DEF Asked
<1>2. RateLimited'
  BY <1>1 DEF RateLimited, AskedWithin
<1> QED
  BY <1>1, <1>2, Pruned

LEMMA RatePropose ==
  ASSUME TypeOK, TypeOK', GateInv, RateInv, NEW c \in Calls, NEW r \in Requests, Propose(c, r)
  PROVE  RateInv'
<1> USE GateAssumption DEF TypeOK, Never
<1>1. /\ c \notin Asked
      /\ Asked' = Asked \cup {c}
      /\ \A d \in Asked : askedAt'[d] = askedAt[d] /\ askedAt[d] \in Nat
      /\ askedAt'[c] = now /\ now' = now
      /\ recent' = Unexpired \cup {c}
  BY DEF Propose, Admissible, GateInv, CallInv, Asked
<1>2. /\ IsFiniteSet(recent')
      /\ Cardinality(recent') \in Nat
      /\ Cardinality(recent') <= MaxPerMinute
  <2>1. IsFiniteSet(Unexpired) /\ Cardinality(Unexpired) \in Nat
    BY Pruned
  <2>2. Cardinality(Unexpired) < MaxPerMinute
    BY DEF Propose
  <2>3. /\ IsFiniteSet(Unexpired \cup {c})
        /\ Cardinality(Unexpired \cup {c}) =
             IF c \in Unexpired THEN Cardinality(Unexpired) ELSE Cardinality(Unexpired) + 1
    BY <2>1, FS_AddElement
  <2> QED
    BY <1>1, <2>1, <2>2, <2>3
<1>3. \A d \in Asked' \ recent' : now' - askedAt'[d] > RateWindow
  BY <1>1, Pruned
<1>4. RateLimited'
  <2> SUFFICES ASSUME NEW t \in 0..now
               PROVE  Cardinality(AskedWithin(t)') <= MaxPerMinute
    BY <1>1 DEF RateLimited
  <2>1. CASE now <= t + RateWindow
    <3>1. AskedWithin(t)' \subseteq recent'
      <4> SUFFICES ASSUME NEW d \in AskedWithin(t)', d # c
                   PROVE  d \in Unexpired
        BY <1>1
      <4>1. d \in Asked /\ t <= askedAt[d]
        BY <1>1 DEF AskedWithin
      <4>2. now - askedAt[d] <= RateWindow
        BY <1>1, <2>1, <4>1
      <4> QED
        BY <1>1, <4>1, <4>2, Pruned
    <3>2. /\ IsFiniteSet(AskedWithin(t)')
          /\ Cardinality(AskedWithin(t)') <= Cardinality(recent')
      BY <1>2, <3>1, FS_Subset
    <3>3. Cardinality(AskedWithin(t)') \in Nat
      BY <3>2, FS_CardinalityType
    <3> QED
      BY <1>2, <3>2, <3>3
  <2>2. CASE now > t + RateWindow
    <3>1. AskedWithin(t)' = AskedWithin(t)
      BY <1>1, <2>2 DEF AskedWithin
    <3> QED
      BY <3>1 DEF RateInv, RateLimited
  <2> QED
    BY <2>1, <2>2
<1>5. \A d \in Calls : askedAt'[d] <= now'
  BY <1>1 DEF Propose, RateInv
<1>6. recent' \subseteq Asked'
  BY <1>1, Pruned DEF RateInv
<1> QED
  BY <1>2, <1>3, <1>4, <1>5, <1>6 DEF RateInv

LEMMA RateStep ==
  ASSUME TypeOK, TypeOK', GateInv, RateInv, [Next]_vars
  PROVE  RateInv'
<1>1. CASE Tick \/ Idle \/ UNCHANGED vars
  <2>1. now' >= now /\ UNCHANGED <<askedAt, recent>>
    BY <1>1 DEF Tick, Idle, vars, TypeOK
  <2> QED
    BY <2>1, RateKept
<1>2. ASSUME NEW c \in Calls, Call(c)
      PROVE  RateInv'
  <2>1. ASSUME NEW r \in Requests, Propose(c, r)
        PROVE  RateInv'
    BY <2>1, RatePropose
  <2>2. ASSUME NEW r \in Requests, RefuseRate(c, r)
        PROVE  RateInv'
    BY <2>2, RateRefuse DEF RefuseRate, Refuse
  <2>3. ASSUME UNCHANGED <<now, askedAt, recent>>
        PROVE  RateInv'
    BY <2>3, RateKept DEF TypeOK
  <2> QED
    BY <1>2, <2>1, <2>2, <2>3 DEF Call, RefuseCapability, RefuseScope, RefusePending, Refuse
<1>3. ASSUME NEW c \in Calls, Await(c)
      PROVE  RateInv'
  <2>1. now' = now /\ UNCHANGED <<askedAt, recent>>
    BY <1>3 DEF Await, PublishOk, PublishFail, TimeOut, AbortWait, CancelFuture,
       ResumeConfirmed, ResumeUnconfirmed, RunEnds
  <2> QED
    BY <2>1, RateKept DEF TypeOK
<1>4. ASSUME NEW c \in Calls, NEW s \in Participants, NEW a \in Answers, OnConfirm(c, s, a)
      PROVE  RateInv'
  BY <1>4, RateKept DEF OnConfirm, TypeOK
<1> QED
  BY <1>1, <1>2, <1>3, <1>4 DEF Next

(* The operator is never asked more than MaxPerMinute times in a window. *)
THEOREM RateLimit == Spec => []RateLimited
<1>1. Init => RateInv
  <2> SUFFICES ASSUME Init
               PROVE  RateInv
    OBVIOUS
  <2>1. Asked = {} /\ recent = {} /\ now = 0 /\ Cardinality({}) = 0
    BY FS_EmptySet DEF Init, Asked, Never
  <2>2. \A t \in 0..now : AskedWithin(t) = {}
    BY <2>1 DEF AskedWithin
  <2> QED
    BY <2>1, <2>2, GateAssumption DEF Init, RateInv, RateLimited, Never
<1>2. TypeOK /\ TypeOK' /\ GateInv /\ RateInv /\ [Next]_vars => RateInv'
  BY RateStep
<1>3. RateInv => RateLimited
  BY DEF RateInv
<1> QED
  BY <1>1, <1>2, <1>3, TypeCorrect, GateInvariant, PTL DEF Spec
-----------------------------------------------------------------------------
(* A request is decided once, and nothing happens to a call that has ended. *)
THEOREM DecisionsAreFinal == Spec => DecidedOnce
<1> DEFINE Final == \A c \in Calls :
             /\ fut[c] # "open" => fut'[c] = fut[c]
             /\ pc[c] \in Outcomes => pc'[c] = pc[c] /\ ran'[c] = ran[c]
             /\ ran[c] # NoRequest => ran'[c] = ran[c]
<1>1. TypeOK /\ GateInv /\ [Next]_vars => [Final]_vars
  <2> SUFFICES ASSUME TypeOK, GateInv, Next, NEW d \in Calls
               PROVE  /\ fut[d] # "open" => fut'[d] = fut[d]
                      /\ pc[d] \in Outcomes => pc'[d] = pc[d] /\ ran'[d] = ran[d]
                      /\ ran[d] # NoRequest => ran'[d] = ran[d]
    OBVIOUS
  <2> USE DEF TypeOK, Outcomes
  <2>1. CASE Tick \/ Idle
    BY <2>1 DEF Tick, Idle, vars
  <2>2. ASSUME NEW c \in Calls, Call(c)
        PROVE  /\ UNCHANGED <<fut, ran>>
               /\ pc[c] = "new" /\ \A e \in Calls \ {c} : pc'[e] = pc[e]
    BY <2>2 DEF Call, RefuseCapability, RefuseScope, RefusePending, RefuseRate, Refuse,
       Propose, Admissible
  <2>3. ASSUME NEW c \in Calls, Await(c), c # d
        PROVE  fut'[d] = fut[d] /\ pc'[d] = pc[d] /\ ran'[d] = ran[d]
    BY <2>3 DEF Await, PublishOk, PublishFail, TimeOut, AbortWait, CancelFuture,
       ResumeConfirmed, ResumeUnconfirmed, RunEnds, Leave
  <2>4. ASSUME Await(d)
        PROVE  /\ fut[d] # "open" => fut'[d] = fut[d]
               /\ pc[d] \notin Outcomes
               /\ ran[d] # NoRequest => ran'[d] = ran[d]
    <3>1. pc[d] = "waiting" => ran[d] = NoRequest
      BY DEF GateInv, CallInv
    <3> QED
      BY <2>4, <3>1 DEF Await, PublishOk, PublishFail, TimeOut, AbortWait, CancelFuture,
         ResumeConfirmed, ResumeUnconfirmed, RunEnds, Leave
  <2>5. ASSUME NEW c \in Calls, NEW s \in Participants, NEW a \in Answers, OnConfirm(c, s, a)
        PROVE  /\ UNCHANGED <<pc, ran>>
               /\ fut[d] # "open" => fut'[d] = fut[d]
    BY <2>5 DEF OnConfirm, Accepts
  <2> QED
    BY <2>1, <2>2, <2>3, <2>4, <2>5 DEF Next
<1> QED
  BY <1>1, TypeCorrect, GateInvariant, PTL DEF Spec, DecidedOnce
-----------------------------------------------------------------------------
(* The abstract move that the step of one call makes. *)
LEMMA PhaseMove ==
  ASSUME NEW c \in Calls, NEW from, NEW to, phaseOf[c] \in from, phaseOf'[c] = to,
         \A d \in Calls \ {c} : phaseOf'[d] = phaseOf[d]
  PROVE  Promise!Move(c, from, to)
<1>1. phaseOf' = [phaseOf EXCEPT ![c] = to]
  BY DEF phaseOf
<1> QED
  BY <1>1 DEF Promise!Move
(* PhaseAt, one line per kind of place a call can be in.                      *)
LEMMA PhaseTable ==
  ASSUME NEW f
  PROVE  /\ PhaseAt("new", f) = "idle"
         /\ \A p \in {"publishing", "waiting"} :
              PhaseAt(p, f) = IF f = "open" THEN "asked"
                              ELSE IF f = "confirmed" THEN "approved" ELSE "denied"
         /\ \A p \in {"running", "finished"} : PhaseAt(p, f) = "executed"
         /\ \A p \in Outcomes \ {"finished"} : PhaseAt(p, f) = "over"
BY DEF PhaseAt, Outcomes

LEMMA CallMove ==
  ASSUME TypeOK, GateInv, NEW c \in Calls, Call(c)
  PROVE  Promise!Refuse(c) \/ Promise!Ask(c)
<1> USE DEF TypeOK
<1>1. phaseOf[c] = "idle"
  <2>1. pc[c] = "new"
    BY DEF Call, RefuseCapability, RefuseScope, RefusePending, RefuseRate, Propose, Admissible
  <2> QED
    BY <2>1, PhaseTable DEF phaseOf
<1>2. CASE \E why \in Outcomes \ {"finished"} : Refuse(c, why)
  <2>1. PICK why \in Outcomes \ {"finished"} : Refuse(c, why)
    BY <1>2
  <2>2. phaseOf'[c] = "over" /\ \A d \in Calls \ {c} : phaseOf'[d] = phaseOf[d]
    BY <2>1, PhaseTable DEF Refuse, phaseOf
  <2>3. Promise!Move(c, {"idle"}, "over")
    BY <1>1, <2>2, PhaseMove
  <2> QED
    BY <2>3 DEF Promise!Refuse
<1>3. ASSUME NEW r \in Requests, Propose(c, r)
      PROVE  Promise!Ask(c)
  <2>1. fut[c] = "open"
    BY <1>3 DEF GateInv, CallInv, Propose, Admissible
  <2>2. phaseOf'[c] = "asked" /\ \A d \in Calls \ {c} : phaseOf'[d] = phaseOf[d]
    BY <1>3, <2>1, PhaseTable DEF Propose, phaseOf
  <2>3. Promise!Open = {}
    <3> SUFFICES ASSUME NEW d \in Calls
                 PROVE  phaseOf[d] \notin {"asked", "approved", "denied"}
      BY DEF Promise!Open
    <3>1. pc[d] \in {"new", "running", "finished"} \cup (Outcomes \ {"finished"})
      BY <1>3 DEF Propose, Admissible, GateInv, OnePendingAndNoneLeaked, PCs
    <3> QED
      BY <3>1, PhaseTable DEF phaseOf
  <2>4. Promise!Move(c, {"idle"}, "asked")
    BY <1>1, <2>2, PhaseMove
  <2> QED
    BY <2>3, <2>4 DEF Promise!Ask
<1> QED
  BY <1>2, <1>3 DEF Call, RefuseCapability, RefuseScope, RefusePending, RefuseRate, Outcomes

LEMMA AwaitMove ==
  ASSUME TypeOK, NEW c \in Calls, Await(c)
  PROVE  \/ UNCHANGED phaseOf
         \/ Promise!Deny(c) \/ Promise!Execute(c) \/ Promise!Drop(c)
<1> USE DEF TypeOK
<1>1. \A d \in Calls \ {c} : phaseOf'[d] = phaseOf[d]
  BY DEF phaseOf, Await, PublishOk, PublishFail, TimeOut, AbortWait, CancelFuture,
     ResumeConfirmed, ResumeUnconfirmed, RunEnds, Leave
<1>2. CASE PublishOk(c) \/ RunEnds(c)
  <2>1. phaseOf'[c] = phaseOf[c]
    BY <1>2, PhaseTable DEF PublishOk, RunEnds, phaseOf
  <2> QED
    BY <1>1, <2>1 DEF phaseOf
<1>3. CASE PublishFail(c) \/ ResumeUnconfirmed(c)
  <2>1. phaseOf[c] \in {"asked", "approved", "denied"} /\ phaseOf'[c] = "over"
    BY <1>3, PhaseTable DEF PublishFail, ResumeUnconfirmed, Leave, phaseOf, Outcomes
  <2> QED
    BY <1>1, <2>1, PhaseMove DEF Promise!Drop
<1>4. CASE TimeOut(c) \/ AbortWait(c)
  <2>1. phaseOf[c] \in {"asked"} /\ phaseOf'[c] = "denied"
    BY <1>4, PhaseTable DEF TimeOut, AbortWait, CancelFuture, phaseOf
  <2> QED
    BY <1>1, <2>1, PhaseMove DEF Promise!Deny
<1>5. CASE ResumeConfirmed(c)
  <2>1. phaseOf[c] \in {"approved"} /\ phaseOf'[c] = "executed"
    BY <1>5, PhaseTable DEF ResumeConfirmed, Leave, phaseOf
  <2> QED
    BY <1>1, <2>1, PhaseMove DEF Promise!Execute
<1> QED
  BY <1>2, <1>3, <1>4, <1>5 DEF Await

LEMMA ConfirmMove ==
  ASSUME TypeOK, GateInv, NEW c \in Calls, NEW s \in Participants, NEW a \in Answers,
         OnConfirm(c, s, a)
  PROVE  UNCHANGED phaseOf \/ Promise!Approve(c) \/ Promise!Deny(c)
<1> USE DEF TypeOK, OnConfirm
<1>1. \A d \in Calls \ {c} : phaseOf'[d] = phaseOf[d]
  BY DEF phaseOf
<1>2. CASE ~Accepts(c, s)
  BY <1>2 DEF phaseOf
<1>3. CASE Accepts(c, s)
  <2>1. pc[c] \in {"publishing", "waiting"} /\ fut[c] = "open"
    BY <1>3 DEF Accepts, GateInv, OnePendingAndNoneLeaked
  <2>2. phaseOf[c] \in {"asked"}
    BY <2>1, PhaseTable DEF phaseOf
  <2>3. phaseOf'[c] \in {"approved", "denied"}
    BY <1>3, <2>1, PhaseTable DEF phaseOf, Verdict
  <2> QED
    BY <1>1, <2>2, <2>3, PhaseMove DEF Promise!Approve, Promise!Deny
<1> QED
  BY <1>2, <1>3

(* The gate implements ConfirmedAction. *)
THEOREM ImplementsConfirmedAction == Spec => KeepsPromise
<1>1. Init => Promise!Init
  BY PhaseTable DEF Init, Promise!Init, phaseOf
<1>2. TypeOK /\ GateInv /\ [Next]_vars => [Promise!Next]_phaseOf
  <2> SUFFICES ASSUME TypeOK, GateInv, [Next]_vars
               PROVE  Promise!Next \/ UNCHANGED phaseOf
    OBVIOUS
  <2>1. CASE Tick \/ Idle \/ UNCHANGED vars
    BY <2>1 DEF Tick, Idle, vars, phaseOf
  <2>2. ASSUME NEW c \in Calls, Call(c)
        PROVE  Promise!Next
    BY <2>2, CallMove DEF Promise!Next
  <2>3. ASSUME NEW c \in Calls, Await(c)
        PROVE  Promise!Next \/ UNCHANGED phaseOf
    BY <2>3, AwaitMove DEF Promise!Next
  <2>4. ASSUME NEW c \in Calls, NEW s \in Participants, NEW a \in Answers, OnConfirm(c, s, a)
        PROVE  Promise!Next \/ UNCHANGED phaseOf
    BY <2>4, ConfirmMove DEF Promise!Next
  <2> QED
    BY <2>1, <2>2, <2>3, <2>4 DEF Next
<1> QED
  BY <1>1, <1>2, TypeCorrect, GateInvariant, PTL DEF Spec, KeepsPromise, Promise!Spec
=============================================================================

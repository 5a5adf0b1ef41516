----------------------------- MODULE ActionGate -----------------------------
(* The operator-confirmed gate of the voice agent, class ActionGate of        *)
(* src/files/ai-platform/voice-agent/action_gate.py, one per voice session.   *)
(*                                                                            *)
(* Every tool call of the model that changes state is one execution of        *)
(* execute(): a coroutine that gives up the event loop at three awaits        *)
(* (publish, wait_for, run) and is interleaved there with other calls, with   *)
(* on_confirm() and with the cancellation of its own task.                    *)
EXTENDS Integers, FiniteSets

CONSTANTS
  Calls,          \* executions of execute(); a call is also its own action_id
  Participants,   \* identities that can publish data in the room
  Operator,       \* operator_identity: whom the room belongs to
  Namespaces,     \* Kubernetes namespaces a restart_ioc can name
  Beamline,       \* the namespace of this beamline's MCP server
  NoNamespace,    \* None or "": no namespace given, or none configured
  Tails,          \* what a call may carry that no label has room for
  Sessions,       \* what the constructor may be given: [canAct, namespace]
  Timeout,        \* timeout_s
  RateWindow,     \* the 60 s of line 101
  MaxPerMinute,   \* max_per_minute
  Horizon         \* bound: no request is made after this instant

ASSUME GateAssumption ==
  /\ IsFiniteSet(Calls)
  /\ Operator \in Participants
  /\ Beamline \in Namespaces /\ NoNamespace \notin Namespaces
  /\ Sessions \subseteq [canAct : BOOLEAN, namespace : {Beamline, NoNamespace}]
  /\ Timeout \in Nat /\ RateWindow \in Nat /\ MaxPerMinute \in Nat /\ Horizon \in Nat

VARIABLES
  now,        \* time.monotonic(), which is also the clock of the event loop
  session,    \* what the constructor was given
  pc,         \* where each call is, or how it ended
  args,       \* the stored copy of the call's arguments
  shown,      \* what the published label says will be done
  pending,    \* the keys of _pending
  fut,        \* the future of each call
  deadline,   \* when wait_for gives up
  askedAt,    \* the timestamp appended to _recent, or Never
  recent,     \* the calls whose timestamp is still in _recent
  ran,        \* the arguments run() was called with, or NoRequest
  word        \* history: the first answer the operator sent about each call

vars == <<now, session, pc, args, shown, pending, fut, deadline, askedAt, recent, ran, word>>

Never == -1

(* A tool call as the model issues it. Only restart_ioc's namespace matters   *)
(* to the gate; every other write tool is represented by set_pv. The tail is  *)
(* what the call says past the 120 characters a label gives to each argument, *)
(* or in an argument that it leaves out, the text of a logbook entry.         *)
Requests ==
  [tool : {"set_pv"}, namespace : {NoNamespace}, tail : Tails] \cup
  [tool : {"restart_ioc"}, namespace : Namespaces \cup {NoNamespace}, tail : Tails]
NoRequest == [tool |-> "none", namespace |-> NoNamespace, tail |-> "none"]

Labels == [tool : {"set_pv", "restart_ioc", "none"}, namespace : Namespaces \cup {NoNamespace}]

(* describe_action: the label names the tool and its target, each argument    *)
(* clipped, and no more.                                                      *)
LabelOfRequest(r) == [tool |-> r.tool, namespace |-> r.namespace]

Outcomes == {"not_permitted", "out_of_scope", "busy", "rate_limited", "publish_failed",
             "expired", "cancelled", "aborted", "finished"}
PCs == {"new", "publishing", "waiting", "running"} \cup Outcomes
Answers == {"true", "other"}     \* literal JSON true, or any other value

Asked == {c \in Calls : askedAt[c] # Never}
-----------------------------------------------------------------------------
Init ==
  /\ now = 0
  /\ session \in Sessions
  /\ pc = [c \in Calls |-> "new"]
  /\ args = [c \in Calls |-> NoRequest]
  /\ shown = [c \in Calls |-> LabelOfRequest(NoRequest)]
  /\ pending = {}
  /\ fut = [c \in Calls |-> "open"]
  /\ deadline = [c \in Calls |-> Never]
  /\ askedAt = [c \in Calls |-> Never]
  /\ recent = {}
  /\ ran = [c \in Calls |-> NoRequest]
  /\ word = [c \in Calls |-> "none"]

(* Lines 93-97: restart_ioc is confined to the beamline's namespace.          *)
Confined(r) == r.tool = "restart_ioc" /\ session.namespace # NoNamespace
InScope(r) == Confined(r) => r.namespace \in {NoNamespace, session.namespace}
Scoped(r) == IF Confined(r) THEN [r EXCEPT !.namespace = session.namespace] ELSE r

(* Mutant: prune entries that are exactly RateWindow old.                     *)
UnexpiredStrict == {c \in recent : now - askedAt[c] < RateWindow}

(* Lines 101-102. _recent is appended to in clock order, so dropping old      *)
(* heads keeps exactly the entries at most RateWindow old.                    *)
Unexpired == {c \in recent : now - askedAt[c] <= RateWindow}

\* ---- execute() up to its first await: no other code runs in between ----

Refuse(c, why) ==
  /\ pc' = [pc EXCEPT ![c] = why]
  /\ UNCHANGED <<now, session, args, shown, pending, fut, deadline, askedAt, ran, word>>

RefuseCapability(c) ==
  /\ pc[c] = "new"
  /\ ~session.canAct
  /\ Refuse(c, "not_permitted")
  /\ UNCHANGED recent

RefuseScope(c, r) ==
  /\ pc[c] = "new"
  /\ session.canAct
  /\ ~InScope(r)
  /\ Refuse(c, "out_of_scope")
  /\ UNCHANGED recent

RefusePending(c, r) ==
  /\ pc[c] = "new"
  /\ session.canAct
  /\ InScope(r)
  /\ pending # {}
  /\ Refuse(c, "busy")
  /\ UNCHANGED recent

(* Mutant: no check of _pending.                                              *)
AdmissibleWhilePending(c, r) ==
  /\ pc[c] = "new"
  /\ session.canAct
  /\ InScope(r)

Admissible(c, r) ==
  /\ pc[c] = "new"
  /\ session.canAct
  /\ InScope(r)
  /\ pending = {}

RefuseRate(c, r) ==
  /\ Admissible(c, r)
  /\ Cardinality(Unexpired) >= MaxPerMinute
  /\ Refuse(c, "rate_limited")
  /\ recent' = Unexpired

(* Lines 104-114: the call takes its slot and starts publishing the request.  *)
Propose(c, r) ==
  /\ Admissible(c, r)
  /\ now <= Horizon
  /\ Cardinality(Unexpired) < MaxPerMinute
  /\ recent' = Unexpired \cup {c}
  /\ askedAt' = [askedAt EXCEPT ![c] = now]
  /\ args' = [args EXCEPT ![c] = Scoped(r)]
  /\ shown' = [shown EXCEPT ![c] = LabelOfRequest(Scoped(r))]
  /\ pending' = pending \cup {c}
  /\ pc' = [pc EXCEPT ![c] = "publishing"]
  /\ UNCHANGED <<now, session, fut, deadline, ran, word>>

\* ---- the awaits of execute() ----

(* wait_for starts its timer only once the request has been published.        *)
PublishOk(c) ==
  /\ pc[c] = "publishing"
  /\ pc' = [pc EXCEPT ![c] = "waiting"]
  /\ deadline' = [deadline EXCEPT ![c] = now + Timeout]
  /\ UNCHANGED <<now, session, args, shown, pending, fut, askedAt, recent, ran, word>>

(* The finally clause (lines 120-121), which ends wait_for's timer too, and   *)
(* the way the call ends.                                                     *)
Leave(c, how) ==
  /\ pending' = pending \ {c}
  /\ deadline' = [deadline EXCEPT ![c] = Never]
  /\ pc' = [pc EXCEPT ![c] = how]

(* Mutant: publish is outside the try whose finally clears _pending.          *)
PublishFailLeaks(c) ==
  /\ pc[c] = "publishing"
  /\ pc' = [pc EXCEPT ![c] = "publish_failed"]
  /\ UNCHANGED <<now, session, args, shown, pending, fut, deadline, askedAt, recent, ran, word>>

(* publish raises, or the call's task is cancelled while it publishes.        *)
PublishFail(c) ==
  /\ pc[c] = "publishing"
  /\ Leave(c, "publish_failed")
  /\ UNCHANGED <<now, session, args, shown, fut, askedAt, recent, ran, word>>

(* Mutant: wait_for of Python 3.12, where the timer beats an answer that the  *)
(* call has not yet resumed with.                                             *)
CancelAnsweredFuture(c, why) ==
  /\ pc[c] = "waiting"
  /\ fut[c] \in {"open", "confirmed", "cancelled"}
  /\ fut' = [fut EXCEPT ![c] = why]
  /\ UNCHANGED <<now, session, pc, args, shown, pending, deadline, askedAt, recent, ran, word>>

(* wait_for of Python 3.11, the interpreter of the voice agent's image: when  *)
(* the timer or a cancellation finds the future already answered, the answer  *)
(* stands; otherwise the future is cancelled, and the call goes on after one  *)
(* more turn of the event loop.                                               *)
CancelFuture(c, why) ==
  /\ pc[c] = "waiting"
  /\ fut[c] = "open"
  /\ fut' = [fut EXCEPT ![c] = why]
  /\ UNCHANGED <<now, session, pc, args, shown, pending, deadline, askedAt, recent, ran, word>>

TimeOut(c) == now >= deadline[c] /\ CancelFuture(c, "expired")

AbortWait(c) == CancelFuture(c, "aborted")

(* Lines 116-127: the call resumes with what became of its future.            *)
ResumeConfirmed(c) ==
  /\ pc[c] = "waiting"
  /\ fut[c] = "confirmed"
  /\ Leave(c, "running")
  /\ ran' = [ran EXCEPT ![c] = args[c]]
  /\ UNCHANGED <<now, session, args, shown, fut, askedAt, recent, word>>

(* Mutant: _pending is cleared on a timeout or an answer only.                *)
ResumeWithoutFinally(c) ==
  /\ pc[c] = "waiting"
  /\ fut[c] \in {"cancelled", "expired", "aborted"}
  /\ pc' = [pc EXCEPT ![c] = fut[c]]
  /\ pending' = IF fut[c] = "aborted" THEN pending ELSE pending \ {c}
  /\ deadline' = [deadline EXCEPT ![c] = Never]
  /\ UNCHANGED <<now, session, args, shown, fut, askedAt, recent, ran, word>>

ResumeUnconfirmed(c) ==
  /\ pc[c] = "waiting"
  /\ fut[c] \in {"cancelled", "expired", "aborted"}
  /\ Leave(c, fut[c])
  /\ UNCHANGED <<now, session, args, shown, fut, askedAt, recent, ran, word>>

(* run() returns, raises or is cancelled: the gate treats these alike.        *)
RunEnds(c) ==
  /\ pc[c] = "running"
  /\ pc' = [pc EXCEPT ![c] = "finished"]
  /\ UNCHANGED <<now, session, args, shown, pending, fut, deadline, askedAt, recent, ran, word>>

\* ---- on_confirm(), called by the data-channel handler ----

(* An action_id is a fresh uuid, so a packet can only name a call that has    *)
(* been proposed; any other id finds nothing in _pending and changes nothing. *)
Hear(c, sender, answer) ==
  word' = IF sender = Operator /\ word[c] = "none"
          THEN [word EXCEPT ![c] = answer] ELSE word

(* Mutants: no check of the sender; no check that the future is still open.   *)
AcceptsAnyone(c, sender) == c \in pending /\ fut[c] = "open"
AcceptsAgain(c, sender) == sender = Operator /\ c \in pending

Accepts(c, sender) == sender = Operator /\ c \in pending /\ fut[c] = "open"

Verdict(answer) == IF answer = "true" THEN "confirmed" ELSE "cancelled"

OnConfirm(c, sender, answer) ==
  /\ c \in Asked
  /\ Hear(c, sender, answer)
  /\ fut' = IF Accepts(c, sender) THEN [fut EXCEPT ![c] = Verdict(answer)] ELSE fut
  /\ UNCHANGED <<now, session, pc, args, shown, pending, deadline, askedAt, recent, ran>>

(* Past the horizon the clock runs only to let a waiting call expire.         *)
Tick ==
  /\ now < Horizon \/ \E c \in Calls : pc[c] = "waiting" /\ now < deadline[c]
  /\ now' = now + 1
  /\ UNCHANGED <<session, pc, args, shown, pending, fut, deadline, askedAt, recent, ran, word>>

(* The session is idle: no call in progress, no time left to model.           *)
Idle ==
  /\ now >= Horizon
  /\ \A c \in Calls : pc[c] \in Outcomes \cup {"new"}
  /\ UNCHANGED vars

Await(c) ==
  \/ PublishOk(c) \/ PublishFail(c)
  \/ TimeOut(c) \/ AbortWait(c)
  \/ ResumeConfirmed(c) \/ ResumeUnconfirmed(c)
  \/ RunEnds(c)

Call(c) ==
  \/ RefuseCapability(c)
  \/ \E r \in Requests :
       RefuseScope(c, r) \/ RefusePending(c, r) \/ RefuseRate(c, r) \/ Propose(c, r)

Next ==
  \/ Tick
  \/ Idle
  \/ \E c \in Calls :
       \/ Call(c)
       \/ Await(c)
       \/ \E s \in Participants, a \in Answers : OnConfirm(c, s, a)

Spec == Init /\ [][Next]_vars

(* The event loop runs every ready callback; the clock advances; a publish    *)
(* over the room's data channel returns or raises. Nothing bounds run().      *)
FairSpec ==
  /\ Spec
  /\ WF_vars(Tick)
  /\ \A c \in Calls :
       /\ WF_vars(PublishOk(c) \/ PublishFail(c))
       /\ WF_vars(TimeOut(c))
       /\ WF_vars(ResumeConfirmed(c) \/ ResumeUnconfirmed(c))
-----------------------------------------------------------------------------
(* Every variable keeps its type. *)
TypeOK ==
  /\ now \in Nat
  /\ session \in Sessions
  /\ pc \in [Calls -> PCs]
  /\ args \in [Calls -> Requests \cup {NoRequest}]
  /\ shown \in [Calls -> Labels]
  /\ pending \in SUBSET Calls
  /\ fut \in [Calls -> {"open", "confirmed", "cancelled", "expired", "aborted"}]
  /\ deadline \in [Calls -> Nat \cup {Never}]
  /\ askedAt \in [Calls -> Nat \cup {Never}]
  /\ recent \in SUBSET Calls
  /\ ran \in [Calls -> Requests \cup {NoRequest}]
  /\ word \in [Calls -> Answers \cup {"none"}]

(* What runs was asked for in a session that may act, is the very call that   *)
(* was stored when the operator was shown its label, stays in the beamline's  *)
(* namespace, and the operator's own first answer about it was a literal      *)
(* true: no other participant, no later change of mind and no merely truthy   *)
(* value sets it off (lines 6-15). What the label has no room for runs with   *)
(* it, unseen.                                                                *)
RunsOnlyWhatTheOperatorConfirmed ==
  \A c \in Calls : ran[c] # NoRequest =>
    /\ session.canAct
    /\ word[c] = "true"
    /\ ran[c] = args[c] /\ shown[c] = LabelOfRequest(ran[c])
    /\ Confined(ran[c]) => ran[c].namespace = session.namespace

(* No interval of RateWindow holds more than MaxPerMinute requests to the     *)
(* operator, wherever it starts: refusals, failures and the pruning done on   *)
(* the way of a refusal never open a second quota (lines 100-106).            *)
AskedWithin(t) == {c \in Asked : t <= askedAt[c] /\ askedAt[c] <= t + RateWindow}
RateLimited == \A t \in 0..now : Cardinality(AskedWithin(t)) <= MaxPerMinute

(* _pending holds exactly the calls that are publishing or waiting, at most   *)
(* one: no exit of execute() leaves an entry behind, which would refuse every *)
(* later action of the session (lines 98-99 and 120-121).                     *)
OnePendingAndNoneLeaked ==
  /\ pending = {c \in Calls : pc[c] \in {"publishing", "waiting"}}
  /\ \A c, d \in pending : c = d

(* Once decided, by an answer, a timeout or a cancellation, a request is      *)
(* never decided again, and a call that has left the gate stays out and never *)
(* runs afterwards: a late or repeated answer does nothing (lines 140-143).   *)
DecidedOnce ==
  [][\A c \in Calls :
       /\ fut[c] # "open" => fut'[c] = fut[c]
       /\ pc[c] \in Outcomes => pc'[c] = pc[c] /\ ran'[c] = ran[c]
       /\ ran[c] # NoRequest => ran'[c] = ran[c]]_vars

(* The gate keeps the promise of ConfirmedAction: phase is where a call       *)
(* stands between the model that proposed it and the tool that executes it.   *)
PhaseAt(p, f) ==
  CASE p = "new" -> "idle"
    [] p \in {"publishing", "waiting"} /\ f = "open" -> "asked"
    [] p \in {"publishing", "waiting"} /\ f = "confirmed" -> "approved"
    [] p \in {"publishing", "waiting"} /\ f \notin {"open", "confirmed"} -> "denied"
    [] p \in {"running", "finished"} -> "executed"
    [] OTHER -> "over"

phaseOf == [c \in Calls |-> PhaseAt(pc[c], fut[c])]

Promise == INSTANCE ConfirmedAction WITH phase <- phaseOf

(* Every behaviour of the gate is one of ConfirmedAction.                     *)
KeepsPromise == Promise!Spec

(* A request never holds the gate forever: it is answered, expires or fails   *)
(* (docstring line 16, "expiring").                                           *)
PromptSettles == \A c \in Calls : c \in pending ~> c \notin pending

(* A confirmation accepted while the call waits is honoured, even when the    *)
(* timer or a cancellation strikes before the call resumes (line 116).        *)
ConfirmationHonoured ==
  \A c \in Calls : (pc[c] = "waiting" /\ fut[c] = "confirmed") ~> (ran[c] # NoRequest)
=============================================================================

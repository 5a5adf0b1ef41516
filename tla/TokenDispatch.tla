--------------------------- MODULE TokenDispatch ---------------------------
(* The dispatch of a voice agent by the token service,                        *)
(* src/files/ai-platform/voice-token-server.py: dispatch_agent(), run on one  *)
(* thread per /token request (ThreadingHTTPServer), in one or more replicas,  *)
(* against a LiveKit server that is external to the repository.               *)
EXTENDS Integers, FiniteSets

CONSTANTS
  Requests,       \* accepted /token requests; a request's thread and its agent
                  \* job are named after it
  Replicas,       \* processes of the token service (voiceToken.replicas)
  Rooms, Models,  \* a key of _recent_dispatch is a pair (room, model)
  Window,         \* DISPATCH_DEDUPE_SECONDS
  Horizon,        \* bound: the clock stops here
  Unreliable      \* bound: whether calls to the LiveKit server may fail

ASSUME DispatchAssumption ==
  /\ Window \in Nat /\ Horizon \in Nat
  /\ Unreliable \in BOOLEAN

VARIABLES
  now,            \* time.monotonic()
  pc,             \* where each request's thread is
  home,           \* the replica, room and model of each request
  recent,         \* _recent_dispatch of each replica
  listed,         \* agents a thread still has to evict
  agent,          \* LiveKit: the job of each request, and its participant
  reservedAt,     \* history: when a request made its reservation
  releasedAt,     \* history: when its failure gave the reservation up
  clean           \* history: nothing disturbed a request's eviction

vars == <<now, pc, home, recent, listed, agent, reservedAt, releasedAt, clean>>

Never == -1
Keys == Rooms \X Models
Homes == [replica : Replicas, room : Rooms, model : Models]
PCs == {"start", "listing", "evicting", "dispatching", "failed", "skipped", "dispatched", "released"}
AgentStates == {"none", "assigned", "joined", "left"}

RoomOf(t) == home[t].room
KeyOf(t) == <<home[t].room, home[t].model>>
SameKey(t, u) == home[t] = home[u]
Reservation(t) == recent[home[t].replica][KeyOf(t)]
AgentsIn(room) == {a \in Requests : agent[a] = "joined" /\ RoomOf(a) = room}
-----------------------------------------------------------------------------
Init ==
  /\ now = 0
  /\ pc = [t \in Requests |-> "start"]
  /\ home \in [Requests -> Homes]
  /\ recent = [p \in Replicas |-> [k \in Keys |-> Never]]
  /\ listed = [t \in Requests |-> {}]
  /\ agent = [t \in Requests |-> "none"]
  /\ reservedAt = [t \in Requests |-> Never]
  /\ releasedAt = [t \in Requests |-> Never]
  /\ clean = [t \in Requests |-> FALSE]

Goto(t, label) == pc' = [pc EXCEPT ![t] = label]
Remember(t, stamp) == recent' = [recent EXCEPT ![home[t].replica][KeyOf(t)] = stamp]

(* Lines 182-193, under the lock.                                             *)
Recently(t) == Reservation(t) # Never /\ now - Reservation(t) < Window

Skip(t) ==
  /\ pc[t] = "start"
  /\ Recently(t)
  /\ Goto(t, "skipped")
  /\ UNCHANGED <<now, home, recent, listed, agent, reservedAt, releasedAt, clean>>

(* Mutant: the reservation is not made before the network call.               *)
ReserveNothing(t) ==
  /\ pc[t] = "start"
  /\ ~Recently(t)
  /\ reservedAt' = [reservedAt EXCEPT ![t] = now]
  /\ Goto(t, "listing")
  /\ UNCHANGED <<now, home, recent, listed, agent, releasedAt, clean>>

Reserve(t) ==
  /\ pc[t] = "start"
  /\ ~Recently(t)
  /\ Remember(t, now)
  /\ reservedAt' = [reservedAt EXCEPT ![t] = now]
  /\ Goto(t, "listing")
  /\ UNCHANGED <<now, home, listed, agent, releasedAt, clean>>

\* ---- _remove_existing_agents ----

List(t) ==
  /\ pc[t] = "listing"
  /\ listed' = [listed EXCEPT ![t] = AgentsIn(RoomOf(t))]
  /\ clean' = [clean EXCEPT ![t] = TRUE]
  /\ Goto(t, "evicting")
  /\ UNCHANGED <<now, home, recent, agent, reservedAt, releasedAt>>

Evict(t, a) ==
  /\ pc[t] = "evicting"
  /\ a \in listed[t]
  /\ agent' = [agent EXCEPT ![a] = "left"]
  /\ listed' = [listed EXCEPT ![t] = @ \ {a}]
  /\ UNCHANGED <<now, pc, home, recent, reservedAt, releasedAt, clean>>

(* Lines 149-150: an exception of either call ends the eviction, not the      *)
(* dispatch. LiveKit may raise for a participant that has already left.       *)
EvictionFails(t) ==
  /\ \/ Unreliable /\ pc[t] \in {"listing", "evicting"}
     \/ pc[t] = "evicting" /\ \E a \in listed[t] : agent[a] = "left"
  /\ listed' = [listed EXCEPT ![t] = {}]
  /\ clean' = [clean EXCEPT ![t] = FALSE]
  /\ Goto(t, "dispatching")
  /\ UNCHANGED <<now, home, recent, agent, reservedAt, releasedAt>>

(* Mutant: the loop over the listed agents may stop early.                    *)
EvictionEndsEarly(t) ==
  /\ pc[t] = "evicting"
  /\ Goto(t, "dispatching")
  /\ UNCHANGED <<now, home, recent, listed, agent, reservedAt, releasedAt, clean>>

EvictionEnds(t) ==
  /\ pc[t] = "evicting"
  /\ listed[t] = {}
  /\ Goto(t, "dispatching")
  /\ UNCHANGED <<now, home, recent, listed, agent, reservedAt, releasedAt, clean>>

\* ---- create_dispatch ----

(* Mutant: the job is created first and the room is cleaned up afterwards.    *)
CreateFirst(t) ==
  /\ \/ pc[t] = "listing" /\ agent[t] = "none"
        /\ agent' = [agent EXCEPT ![t] = "assigned"]
        /\ pc' = pc
     \/ pc[t] = "dispatching" /\ Goto(t, "dispatched") /\ agent' = agent
  /\ UNCHANGED <<now, home, recent, listed, reservedAt, releasedAt, clean>>

CreateOk(t) ==
  /\ pc[t] = "dispatching"
  /\ agent' = [agent EXCEPT ![t] = "assigned"]
  /\ Goto(t, "dispatched")
  /\ UNCHANGED <<now, home, recent, listed, reservedAt, releasedAt, clean>>

(* The call raises: before LiveKit created the job, or after, when only the   *)
(* answer is lost.                                                            *)
CreateFail(t) ==
  /\ Unreliable
  /\ pc[t] = "dispatching"
  /\ \E job \in {"none", "assigned"} : agent' = [agent EXCEPT ![t] = job]
  /\ Goto(t, "failed")
  /\ UNCHANGED <<now, home, recent, listed, reservedAt, releasedAt, clean>>

(* Mutant: the reservation of a failed dispatch stays.                        *)
ReleaseNothing(t) ==
  /\ pc[t] = "failed"
  /\ releasedAt' = [releasedAt EXCEPT ![t] = now]
  /\ Goto(t, "released")
  /\ UNCHANGED <<now, home, recent, listed, agent, reservedAt, clean>>

(* Lines 201-203: under the lock, whoever's reservation the key now holds.    *)
Release(t) ==
  /\ pc[t] = "failed"
  /\ Remember(t, Never)
  /\ releasedAt' = [releasedAt EXCEPT ![t] = now]
  /\ Goto(t, "released")
  /\ UNCHANGED <<now, home, listed, agent, reservedAt, clean>>

\* ---- LiveKit and its agent workers ----

AgentJoins(a) ==
  /\ agent[a] = "assigned"
  /\ agent' = [agent EXCEPT ![a] = "joined"]
  /\ clean' = [t \in Requests |-> clean[t] /\ RoomOf(t) # RoomOf(a)]
  /\ UNCHANGED <<now, pc, home, recent, listed, reservedAt, releasedAt>>

(* Its session ends, or no worker was available for the job.                  *)
AgentLeaves(a) ==
  /\ agent[a] \in {"assigned", "joined"}
  /\ agent' = [agent EXCEPT ![a] = "left"]
  /\ UNCHANGED <<now, pc, home, recent, listed, reservedAt, releasedAt, clean>>

Tick ==
  /\ now < Horizon
  /\ now' = now + 1
  /\ UNCHANGED <<pc, home, recent, listed, agent, reservedAt, releasedAt, clean>>

Thread(t) ==
  \/ Skip(t) \/ Reserve(t)
  \/ List(t) \/ (\E a \in Requests : Evict(t, a)) \/ EvictionFails(t) \/ EvictionEnds(t)
  \/ CreateOk(t) \/ CreateFail(t) \/ Release(t)

(* Every request has been answered and the clock is at its bound.             *)
Served ==
  /\ now = Horizon
  /\ \A t \in Requests : pc[t] \in {"skipped", "dispatched", "released"}
  /\ UNCHANGED vars

Next ==
  \/ Tick
  \/ Served
  \/ \E t \in Requests : Thread(t) \/ AgentJoins(t) \/ AgentLeaves(t)

Spec == Init /\ [][Next]_vars
-----------------------------------------------------------------------------
(* Every variable keeps its type. *)
TypeOK ==
  /\ now \in Nat
  /\ pc \in [Requests -> PCs]
  /\ home \in [Requests -> Homes]
  /\ recent \in [Replicas -> [Keys -> Nat \cup {Never}]]
  /\ listed \in [Requests -> SUBSET Requests]
  /\ agent \in [Requests -> AgentStates]
  /\ reservedAt \in [Requests -> Nat \cup {Never}]
  /\ releasedAt \in [Requests -> Nat \cup {Never}]
  /\ clean \in [Requests -> BOOLEAN]

(* Requests for one key that one replica lets through less than Window apart  *)
(* are separated by a failed dispatch of that key: the reservation is made    *)
(* before the network call, so a burst on many threads is one dispatch        *)
(* (lines 190-192).                                                           *)
BurstIsOneDispatch ==
  \A t, u \in Requests :
    /\ t # u /\ SameKey(t, u)
    /\ reservedAt[t] # Never
    /\ reservedAt[t] <= reservedAt[u] /\ reservedAt[u] < reservedAt[t] + Window
    => \E w \in Requests :
         /\ SameKey(w, t)
         /\ reservedAt[t] <= releasedAt[w] /\ releasedAt[w] <= reservedAt[u]

(* A reservation in the table was made by a request that has not given it up: *)
(* a failed dispatch never blocks the client's retry (line 202).              *)
NoDeadReservation ==
  \A p \in Replicas, k \in Keys : recent[p][k] # Never =>
    \E t \in Requests :
      /\ home[t].replica = p /\ KeyOf(t) = k
      /\ reservedAt[t] = recent[p][k]
      /\ pc[t] # "released"

(* When nothing disturbs a request's eviction - neither of its calls fails    *)
(* and no agent joins meanwhile - no agent is left in the room when its own   *)
(* is requested (docstring lines 134-142).                                    *)
EvictionClearsTheRoom ==
  \A t \in Requests :
    pc[t] \in {"dispatching", "dispatched"} /\ clean[t] => AgentsIn(RoomOf(t)) = {}

(* An eviction never removes the agent of a request that is dispatched after  *)
(* the list was taken: in particular, never the agent it makes room for.      *)
EvictsNoNewerAgent ==
  \A t \in Requests : \A a \in listed[t] :
    /\ a # t
    /\ agent[a] \in {"joined", "left"}
    /\ pc[a] \in {"dispatched", "failed", "released"}

(* Two successful dispatches of one key in one replica are never less than    *)
(* Window apart (comment of lines 161-169: such a pair is "one operator       *)
(* action seen twice").                                                       *)
NoDuplicateDispatch ==
  \A t, u \in Requests :
    /\ t # u /\ SameKey(t, u)
    /\ pc[t] = "dispatched" /\ pc[u] = "dispatched"
    /\ reservedAt[t] <= reservedAt[u]
    => reservedAt[u] - reservedAt[t] >= Window
=============================================================================

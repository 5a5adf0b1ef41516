------------------------- MODULE TokenServiceProofs -------------------------
(* Proofs about the token service: TokenDispatch, for every number of         *)
(* requests and replicas, every set of rooms and models and every window, and *)
(* VoiceAccess, for every configuration of beamline servers, every set of     *)
(* operators and every assignment of claims.                                  *)
EXTENDS TokenDispatch, VoiceAccess, WellFoundedInduction, TLAPS
----------------------------------------------------------------------------
(* TokenDispatch.                                                             *)

(* What makes BurstIsOneDispatch inductive: a reservation is still in the     *)
(* table, or was replaced by a later one, or was cleared by a release.        *)
StampInv ==
  /\ \A t \in Requests :
       /\ reservedAt[t] <= now /\ releasedAt[t] <= now
       /\ pc[t] = "start" => reservedAt[t] = Never
       /\ pc[t] # "released" => releasedAt[t] = Never
  /\ \A t \in Requests : reservedAt[t] # Never =>
       \/ reservedAt[t] <= Reservation(t)
       \/ \E w \in Requests : SameKey(w, t) /\ reservedAt[t] <= releasedAt[w]

DedupeInv == StampInv /\ NoDeadReservation /\ BurstIsOneDispatch

(* What makes the two eviction properties inductive: agents exist only after  *)
(* their request was dispatched, and an undisturbed request has every agent   *)
(* of the room on its list.                                                   *)
AgentInv ==
  /\ \A a \in Requests : agent[a] # "none" => pc[a] \in {"dispatched", "failed", "released"}
  /\ \A t \in Requests : clean[t] => pc[t] \notin {"start", "listing"}
  /\ \A t \in Requests : clean[t] /\ pc[t] = "evicting" => AgentsIn(RoomOf(t)) \subseteq listed[t]
  /\ EvictionClearsTheRoom
  /\ EvictsNoNewerAgent
-----------------------------------------------------------------------------
(* A write to the table of one replica changes that key of that replica only. *)
LEMMA Remembered ==
  ASSUME TypeOK, NEW t \in Requests, NEW stamp \in Nat \cup {Never}, Remember(t, stamp)
  PROVE  /\ recent' \in [Replicas -> [Keys -> Nat \cup {Never}]]
         /\ home[t].replica \in Replicas /\ KeyOf(t) \in Keys
         /\ \A p \in Replicas, k \in Keys :
              recent'[p][k] = IF p = home[t].replica /\ k = KeyOf(t) THEN stamp ELSE recent[p][k]
<1>1. home[t].replica \in Replicas /\ KeyOf(t) \in Keys
  BY DEF TypeOK, Homes, KeyOf, Keys
<1> QED
  BY <1>1 DEF TypeOK, Remember

(* Requests share a slot of a table exactly when their homes are equal.       *)
LEMMA SameSlot ==
  ASSUME TypeOK, NEW t \in Requests, NEW u \in Requests
  PROVE  SameKey(t, u) <=> home[t].replica = home[u].replica /\ KeyOf(t) = KeyOf(u)
BY DEF TypeOK, Homes, KeyOf, SameKey

LEMMA TypeStep ==
  ASSUME TypeOK, [Next]_vars
  PROVE  TypeOK'
<1> USE DEF TypeOK, Never
<1>1. CASE Tick \/ Served \/ UNCHANGED vars
  BY <1>1 DEF Tick, Served, vars
<1>2. ASSUME NEW t \in Requests, Thread(t)
      PROVE  TypeOK'
  <2>1. CASE Skip(t)
    BY <2>1 DEF Skip, Goto, PCs
  <2>2. CASE Reserve(t)
    BY <2>2, Remembered DEF Reserve, Goto, PCs
  <2>3. CASE List(t)
    BY <2>3 DEF List, Goto, PCs, AgentsIn
  <2>4. ASSUME NEW a \in Requests, Evict(t, a)
        PROVE  TypeOK'
    BY <2>4 DEF Evict, AgentStates
  <2>5. CASE EvictionFails(t)
    BY <2>5 DEF EvictionFails, Goto, PCs
  <2>6. CASE EvictionEnds(t)
    BY <2>6 DEF EvictionEnds, Goto, PCs
  <2>7. CASE CreateOk(t)
    BY <2>7 DEF CreateOk, Goto, PCs, AgentStates
  <2>8. CASE CreateFail(t)
    BY <2>8 DEF CreateFail, Goto, PCs, AgentStates
  <2>9. CASE Release(t)
    BY <2>9, Remembered DEF Release, Goto, PCs
  <2> QED
    BY <1>2, <2>1, <2>2, <2>3, <2>4, <2>5, <2>6, <2>7, <2>8, <2>9 DEF Thread
<1>3. ASSUME NEW a \in Requests, AgentJoins(a) \/ AgentLeaves(a)
      PROVE  TypeOK'
  BY <1>3 DEF AgentJoins, AgentLeaves, AgentStates
<1> QED
  BY <1>1, <1>2, <1>3 DEF Next

(* Type correctness of the dispatch. *)
THEOREM TypeCorrect == Spec => []TypeOK
<1>1. Init => TypeOK
  BY DEF Init, TypeOK, PCs, AgentStates, Never
<1>2. TypeOK /\ [Next]_vars => TypeOK'
  BY TypeStep
<1> QED
  BY <1>1, <1>2, PTL DEF Spec
-----------------------------------------------------------------------------
LEMMA DedupeReserve ==
  ASSUME TypeOK, TypeOK', DedupeInv, NEW u \in Requests, Reserve(u)
  PROVE  DedupeInv'
<1> USE DispatchAssumption DEF TypeOK, Never
<1> DEFINE slot(p, k) == p = home[u].replica /\ k = KeyOf(u)
<1>1. /\ now \in Nat /\ now' = now /\ home' = home /\ releasedAt' = releasedAt
      /\ \A t \in Requests : reservedAt'[t] = IF t = u THEN now ELSE reservedAt[t]
      /\ \A t \in Requests : pc'[t] = IF t = u THEN "listing" ELSE pc[t]
      /\ pc[u] = "start" /\ reservedAt[u] = Never
  BY DEF Reserve, Goto, DedupeInv, StampInv
<1>2. /\ home[u].replica \in Replicas /\ KeyOf(u) \in Keys
      /\ \A p \in Replicas, k \in Keys : recent'[p][k] = IF slot(p, k) THEN now ELSE recent[p][k]
  BY Remembered DEF Reserve
<1>3. \A t \in Requests : home[t].replica \in Replicas /\ KeyOf(t) \in Keys
  BY DEF Homes, KeyOf, Keys
<1>4. \A t, w \in Requests : (SameKey(t, w))' <=> SameKey(t, w)
  BY <1>1 DEF SameKey
<1>5. \A t \in Requests : (KeyOf(t))' = KeyOf(t)
  BY <1>1 DEF KeyOf
<1>6. \A t \in Requests : (Reservation(t))' = IF SameKey(t, u) THEN now ELSE Reservation(t)
  BY <1>1, <1>2, <1>3, <1>5, SameSlot DEF Reservation
<1>7. StampInv'
  BY <1>1, <1>4, <1>6 DEF DedupeInv, StampInv, SameKey
<1>8. NoDeadReservation'
  <2> SUFFICES ASSUME NEW p \in Replicas, NEW k \in Keys, recent'[p][k] # Never
               PROVE  \E t \in Requests :
                        /\ home[t].replica = p /\ KeyOf(t) = k
                        /\ reservedAt'[t] = recent'[p][k]
                        /\ pc'[t] # "released"
    BY <1>1, <1>5 DEF NoDeadReservation
  <2>1. CASE slot(p, k)
    BY <1>1, <1>2, <2>1
  <2>2. CASE ~slot(p, k)
    <3>1. recent'[p][k] = recent[p][k]
      BY <1>2, <2>2
    <3>2. PICK t \in Requests :
            /\ home[t].replica = p /\ KeyOf(t) = k
            /\ reservedAt[t] = recent[p][k]
            /\ pc[t] # "released"
      BY <3>1 DEF DedupeInv, NoDeadReservation
    <3>3. t # u
      BY <2>2, <3>2
    <3> QED
      BY <1>1, <3>1, <3>2, <3>3
  <2> QED
    BY <2>1, <2>2
<1>9. \A t \in Requests : t # u /\ SameKey(t, u) /\ reservedAt[t] # Never /\ now < reservedAt[t] + Window =>
        \E w \in Requests : SameKey(w, t) /\ reservedAt[t] <= releasedAt[w] /\ releasedAt[w] <= now
  <2> SUFFICES ASSUME NEW t \in Requests, SameKey(t, u), reservedAt[t] # Never,
                      now < reservedAt[t] + Window
               PROVE  \E w \in Requests : SameKey(w, t) /\ reservedAt[t] <= releasedAt[w]
    BY DEF DedupeInv, StampInv
  <2>1. Reservation(t) = Reservation(u) /\ Reservation(u) \in Nat \cup {Never}
    BY <1>3 DEF SameKey, Reservation, KeyOf
  <2>2. ~(reservedAt[t] <= Reservation(t))
    BY <2>1 DEF Reserve, Recently
  <2> QED
    BY <2>2 DEF DedupeInv, StampInv
<1>10. BurstIsOneDispatch'
  <2> SUFFICES ASSUME NEW t \in Requests, NEW v \in Requests, t # v, SameKey(t, v),
                      reservedAt'[t] # Never,
                      reservedAt'[t] <= reservedAt'[v], reservedAt'[v] < reservedAt'[t] + Window
               PROVE  \E w \in Requests :
                        /\ SameKey(w, t)
                        /\ reservedAt'[t] <= releasedAt[w] /\ releasedAt[w] <= reservedAt'[v]
    BY <1>1, <1>4 DEF BurstIsOneDispatch
  <2>1. CASE t # u /\ v # u
    BY <1>1, <2>1 DEF DedupeInv, BurstIsOneDispatch
  <2>2. CASE v = u
    BY <1>1, <1>9, <2>2
  <2>3. CASE t = u
    <3>1. reservedAt[v] = now /\ reservedAt'[v] = now /\ reservedAt'[u] = now
      <4>1. v # u /\ reservedAt'[u] = now /\ reservedAt'[v] = reservedAt[v]
        BY <1>1, <2>3
      <4>2. reservedAt[v] <= now /\ now <= reservedAt[v] /\ reservedAt[v] \in Int
        BY <2>3, <4>1 DEF DedupeInv, StampInv
      <4> QED
        BY <4>1, <4>2
    <3>2. SameKey(v, u) /\ now < reservedAt[v] + Window
      BY <2>3, <3>1 DEF SameKey
    <3>3. PICK w \in Requests : SameKey(w, v) /\ reservedAt[v] <= releasedAt[w] /\ releasedAt[w] <= now
      BY <1>9, <2>3, <3>1, <3>2
    <3> QED
      BY <2>3, <3>1, <3>2, <3>3 DEF SameKey
  <2> QED
    BY <2>1, <2>2, <2>3
<1> QED
  BY <1>7, <1>8, <1>10 DEF DedupeInv
LEMMA DedupeRelease ==
  ASSUME TypeOK, TypeOK', DedupeInv, NEW u \in Requests, Release(u)
  PROVE  DedupeInv'
<1> USE DispatchAssumption DEF TypeOK, Never
<1> DEFINE slot(p, k) == p = home[u].replica /\ k = KeyOf(u)
<1>1. /\ now \in Nat /\ now' = now /\ home' = home /\ reservedAt' = reservedAt
      /\ \A t \in Requests : releasedAt'[t] = IF t = u THEN now ELSE releasedAt[t]
      /\ \A t \in Requests : pc'[t] = IF t = u THEN "released" ELSE pc[t]
      /\ pc[u] = "failed" /\ releasedAt[u] = Never
  BY DEF Release, Goto, DedupeInv, StampInv
<1>2. /\ home[u].replica \in Replicas /\ KeyOf(u) \in Keys
      /\ \A p \in Replicas, k \in Keys : recent'[p][k] = IF slot(p, k) THEN Never ELSE recent[p][k]
  BY Remembered DEF Release
<1>3. \A t \in Requests : home[t].replica \in Replicas /\ KeyOf(t) \in Keys
  BY DEF Homes, KeyOf, Keys
<1>4. \A t, w \in Requests : (SameKey(t, w))' <=> SameKey(t, w)
  BY <1>1 DEF SameKey
<1>5. \A t \in Requests : (KeyOf(t))' = KeyOf(t)
  BY <1>1 DEF KeyOf
<1>6. \A t \in Requests : ~SameKey(t, u) => (Reservation(t))' = Reservation(t)
  BY <1>1, <1>2, <1>3, <1>5, SameSlot DEF Reservation
<1>7. StampInv'
  <2>1. ASSUME NEW t \in Requests, reservedAt[t] # Never
        PROVE  \/ reservedAt[t] <= (Reservation(t))'
               \/ \E w \in Requests : SameKey(w, t) /\ reservedAt[t] <= releasedAt'[w]
    <3>1. reservedAt[t] <= now
      BY DEF DedupeInv, StampInv
    <3>2. CASE SameKey(t, u)
      BY <1>1, <3>1, <3>2 DEF SameKey
    <3>3. CASE ~SameKey(t, u)
      <4>1. CASE reservedAt[t] <= Reservation(t)
        BY <1>6, <3>3, <4>1
      <4>2. CASE \E w \in Requests : SameKey(w, t) /\ reservedAt[t] <= releasedAt[w]
        <5>1. PICK w \in Requests : SameKey(w, t) /\ reservedAt[t] <= releasedAt[w]
          BY <4>2
        <5> QED
          BY <1>1, <3>1, <5>1
      <4> QED
        BY <2>1, <4>1, <4>2 DEF DedupeInv, StampInv
    <3> QED
      BY <3>2, <3>3
  <2>2. \A t \in Requests :
          /\ reservedAt'[t] <= now' /\ releasedAt'[t] <= now'
          /\ pc'[t] = "start" => reservedAt'[t] = Never
          /\ pc'[t] # "released" => releasedAt'[t] = Never
    BY <1>1 DEF DedupeInv, StampInv
  <2> QED
    BY <1>1, <1>4, <2>1, <2>2 DEF StampInv
<1>8. NoDeadReservation'
  <2> SUFFICES ASSUME NEW p \in Replicas, NEW k \in Keys, recent'[p][k] # Never
               PROVE  \E t \in Requests :
                        /\ home[t].replica = p /\ KeyOf(t) = k
                        /\ reservedAt[t] = recent'[p][k]
                        /\ pc'[t] # "released"
    BY <1>1, <1>5 DEF NoDeadReservation
  <2>1. ~slot(p, k) /\ recent'[p][k] = recent[p][k]
    BY <1>2
  <2>2. PICK t \in Requests :
          /\ home[t].replica = p /\ KeyOf(t) = k
          /\ reservedAt[t] = recent[p][k]
          /\ pc[t] # "released"
    BY <2>1 DEF DedupeInv, NoDeadReservation
  <2> QED
    BY <1>1, <2>1, <2>2
<1>9. BurstIsOneDispatch'
  <2> SUFFICES ASSUME NEW t \in Requests, NEW v \in Requests, t # v, SameKey(t, v),
                      reservedAt[t] # Never,
                      reservedAt[t] <= reservedAt[v], reservedAt[v] < reservedAt[t] + Window
               PROVE  \E w \in Requests :
                        /\ SameKey(w, t)
                        /\ reservedAt[t] <= releasedAt'[w] /\ releasedAt'[w] <= reservedAt[v]
    BY <1>1, <1>4 DEF BurstIsOneDispatch
  <2>1. PICK w \in Requests :
          /\ SameKey(w, t)
          /\ reservedAt[t] <= releasedAt[w] /\ releasedAt[w] <= reservedAt[v]
    BY DEF DedupeInv, BurstIsOneDispatch
  <2>2. w # u
    BY <1>1, <2>1
  <2> QED
    BY <1>1, <2>1, <2>2
<1> QED
  BY <1>7, <1>8, <1>9 DEF DedupeInv

(* Every other step leaves the table, the stamps and the homes alone, never   *)
(* turns the clock back and never returns to or leaves an end of the thread.  *)
LEMMA DedupeKept ==
  ASSUME TypeOK, TypeOK', DedupeInv, UNCHANGED <<home, recent, reservedAt, releasedAt>>,
         now' >= now,
         \A t \in Requests :
           /\ pc'[t] = "start" => pc[t] = "start"
           /\ pc'[t] = "released" <=> pc[t] = "released"
  PROVE  DedupeInv'
<1> USE DEF TypeOK, Never
<1>1. \A t, w \in Requests : (SameKey(t, w))' <=> SameKey(t, w)
  BY DEF SameKey
<1>2. \A t \in Requests : (KeyOf(t))' = KeyOf(t) /\ (Reservation(t))' = Reservation(t)
  BY DEF KeyOf, Reservation
<1>3. StampInv'
  <2>1. \A t \in Requests :
          /\ reservedAt'[t] <= now' /\ releasedAt'[t] <= now'
          /\ pc'[t] = "start" => reservedAt'[t] = Never
          /\ pc'[t] # "released" => releasedAt'[t] = Never
    BY DEF DedupeInv, StampInv
  <2> QED
    BY <1>1, <1>2, <2>1 DEF DedupeInv, StampInv
<1>4. NoDeadReservation'
  BY <1>2 DEF DedupeInv, NoDeadReservation
<1>5. BurstIsOneDispatch'
  BY <1>1 DEF DedupeInv, BurstIsOneDispatch
<1> QED
  BY <1>3, <1>4, <1>5 DEF DedupeInv

LEMMA DedupeStep ==
  ASSUME TypeOK, TypeOK', DedupeInv, [Next]_vars
  PROVE  DedupeInv'
<1> USE DEF TypeOK
<1>1. CASE Tick \/ Served \/ UNCHANGED vars
  BY <1>1, DedupeKept DEF Tick, Served, vars
<1>2. ASSUME NEW t \in Requests, Reserve(t)
      PROVE  DedupeInv'
  BY <1>2, DedupeReserve
<1>3. ASSUME NEW t \in Requests, Release(t)
      PROVE  DedupeInv'
  BY <1>3, DedupeRelease
<1>4. ASSUME NEW t \in Requests,
             \/ Skip(t) \/ List(t) \/ EvictionFails(t) \/ EvictionEnds(t)
             \/ CreateOk(t) \/ CreateFail(t)
      PROVE  DedupeInv'
  <2>1. /\ UNCHANGED <<home, recent, reservedAt, releasedAt>> /\ now' >= now
        /\ \A u \in Requests :
             /\ pc'[u] = "start" => pc[u] = "start"
             /\ pc'[u] = "released" <=> pc[u] = "released"
    BY <1>4 DEF Skip, List, EvictionFails, EvictionEnds, CreateOk, CreateFail, Goto
  <2> QED
    BY <2>1, DedupeKept
<1>5. ASSUME NEW t \in Requests, NEW a \in Requests,
             Evict(t, a) \/ AgentJoins(a) \/ AgentLeaves(a)
      PROVE  DedupeInv'
  BY <1>5, DedupeKept DEF Evict, AgentJoins, AgentLeaves
<1> QED
  BY <1>1, <1>2, <1>3, <1>4, <1>5 DEF Next, Thread

LEMMA DedupeInvariant == Spec => []DedupeInv
<1>1. Init => DedupeInv
  BY DEF Init, DedupeInv, StampInv, NoDeadReservation, BurstIsOneDispatch, Never
<1>2. TypeOK /\ TypeOK' /\ DedupeInv /\ [Next]_vars => DedupeInv'
  BY DedupeStep
<1> QED
  BY <1>1, <1>2, TypeCorrect, PTL DEF Spec

(* A burst of requests for one key is one dispatch, unless one failed. *)
THEOREM BurstCollapses == Spec => []BurstIsOneDispatch
<1>1. DedupeInv => BurstIsOneDispatch
  BY DEF DedupeInv
<1> QED
  BY <1>1, DedupeInvariant, PTL

(* A failed dispatch leaves no reservation behind. *)
THEOREM RetryIsNotBlocked == Spec => []NoDeadReservation
<1>1. DedupeInv => NoDeadReservation
  BY DEF DedupeInv
<1> QED
  BY <1>1, DedupeInvariant, PTL
-----------------------------------------------------------------------------
(* A step of one thread before its dispatch, which changes no agent.          *)
LEMMA AgentThread ==
  ASSUME TypeOK, AgentInv, NEW t \in Requests,
         \/ Skip(t) \/ Reserve(t) \/ List(t) \/ EvictionFails(t) \/ EvictionEnds(t) \/ Release(t)
  PROVE  AgentInv'
<1> USE DEF TypeOK
<1>1. /\ home' = home /\ agent' = agent
      /\ \A r : AgentsIn(r)' = AgentsIn(r)
      /\ \A u \in Requests : (RoomOf(u))' = RoomOf(u)
      /\ \A u \in Requests \ {t} : pc'[u] = pc[u] /\ listed'[u] = listed[u] /\ clean'[u] = clean[u]
  BY DEF Skip, Reserve, List, EvictionFails, EvictionEnds, Release, Goto, AgentsIn, RoomOf
<1>2. /\ pc[t] \in {"dispatched", "failed", "released"} => pc'[t] \in {"dispatched", "failed", "released"}
      /\ clean'[t] => pc'[t] \notin {"start", "listing"}
      /\ clean'[t] /\ pc'[t] = "evicting" => AgentsIn(RoomOf(t)) \subseteq listed'[t]
      /\ pc'[t] \in {"dispatching", "dispatched"} /\ clean'[t] => AgentsIn(RoomOf(t)) = {}
  BY DEF AgentInv, Skip, Reserve, List, EvictionFails, EvictionEnds, Release, Goto
<1>3. \A a \in listed'[t] : a \in listed[t] \/ (pc[t] = "listing" /\ a \in AgentsIn(RoomOf(t)))
  BY DEF Skip, Reserve, List, EvictionFails, EvictionEnds, Release
<1>4. \A a \in listed'[t] :
        /\ a \in Requests /\ a # t
        /\ agent[a] \in {"joined", "left"}
        /\ pc[a] \in {"dispatched", "failed", "released"}
  BY <1>3 DEF AgentInv, EvictsNoNewerAgent, AgentsIn
<1>5. EvictsNoNewerAgent'
  BY <1>1, <1>2, <1>4 DEF AgentInv, EvictsNoNewerAgent
<1>6. EvictionClearsTheRoom'
  BY <1>1, <1>2 DEF AgentInv, EvictionClearsTheRoom
<1>7. \A u \in Requests :
        /\ agent'[u] # "none" => pc'[u] \in {"dispatched", "failed", "released"}
        /\ clean'[u] => pc'[u] \notin {"start", "listing"}
        /\ clean'[u] /\ pc'[u] = "evicting" => AgentsIn(RoomOf(u))' \subseteq listed'[u]
  BY <1>1, <1>2 DEF AgentInv
<1> QED
  BY <1>5, <1>6, <1>7 DEF AgentInv

LEMMA AgentCreate ==
  ASSUME TypeOK, AgentInv, NEW t \in Requests, CreateOk(t) \/ CreateFail(t)
  PROVE  AgentInv'
<1> USE DEF TypeOK
<1>1. /\ home' = home /\ listed' = listed /\ clean' = clean
      /\ pc[t] = "dispatching" /\ agent[t] = "none"
      /\ pc'[t] \in {"dispatched", "failed"} /\ agent'[t] \in {"none", "assigned"}
      /\ \A u \in Requests \ {t} : pc'[u] = pc[u] /\ agent'[u] = agent[u]
      /\ \A u \in Requests : (RoomOf(u))' = RoomOf(u)
  BY DEF CreateOk, CreateFail, Goto, AgentInv, RoomOf
<1>2. \A r : AgentsIn(r)' = AgentsIn(r)
  BY <1>1 DEF AgentsIn
<1>3. EvictionClearsTheRoom'
  BY <1>1, <1>2 DEF AgentInv, EvictionClearsTheRoom
<1>4. EvictsNoNewerAgent'
  <2> SUFFICES ASSUME NEW u \in Requests, NEW a \in listed[u]
               PROVE  /\ a # u
                      /\ agent'[a] \in {"joined", "left"}
                      /\ pc'[a] \in {"dispatched", "failed", "released"}
    BY <1>1 DEF EvictsNoNewerAgent
  <2>1. /\ a \in Requests /\ a # u
        /\ agent[a] \in {"joined", "left"}
        /\ pc[a] \in {"dispatched", "failed", "released"}
    BY DEF AgentInv, EvictsNoNewerAgent
  <2> QED
    BY <1>1, <2>1
<1>5. \A u \in Requests :
        /\ agent'[u] # "none" => pc'[u] \in {"dispatched", "failed", "released"}
        /\ clean'[u] => pc'[u] \notin {"start", "listing"}
        /\ clean'[u] /\ pc'[u] = "evicting" => AgentsIn(RoomOf(u))' \subseteq listed'[u]
  BY <1>1, <1>2 DEF AgentInv
<1> QED
  BY <1>3, <1>4, <1>5 DEF AgentInv

(* An agent leaves, of itself or evicted.                                     *)
LEMMA AgentGone ==
  ASSUME TypeOK, AgentInv, NEW t \in Requests, NEW a \in Requests, Evict(t, a) \/ AgentLeaves(a)
  PROVE  AgentInv'
<1> USE DEF TypeOK
<1>1. /\ home' = home /\ pc' = pc /\ clean' = clean
      /\ agent[a] # "none" /\ agent'[a] = "left"
      /\ \A u \in Requests \ {a} : agent'[u] = agent[u]
      /\ \A u \in Requests : (RoomOf(u))' = RoomOf(u)
  BY DEF Evict, AgentLeaves, AgentInv, EvictsNoNewerAgent, RoomOf
<1>2. \A r : AgentsIn(r)' = AgentsIn(r) \ {a}
  BY <1>1 DEF AgentsIn, RoomOf
<1>3. \A u \in Requests : listed'[u] \subseteq listed[u] /\ listed[u] \ {a} \subseteq listed'[u]
  BY DEF Evict, AgentLeaves
<1>4. EvictionClearsTheRoom'
  BY <1>1, <1>2 DEF AgentInv, EvictionClearsTheRoom
<1>5. EvictsNoNewerAgent'
  BY <1>1, <1>3 DEF AgentInv, EvictsNoNewerAgent
<1>6. \A u \in Requests : clean'[u] /\ pc'[u] = "evicting" => AgentsIn(RoomOf(u))' \subseteq listed'[u]
  BY <1>1, <1>2, <1>3 DEF AgentInv
<1>7. \A u \in Requests :
        /\ agent'[u] # "none" => pc'[u] \in {"dispatched", "failed", "released"}
        /\ clean'[u] => pc'[u] \notin {"start", "listing"}
  BY <1>1 DEF AgentInv
<1> QED
  BY <1>4, <1>5, <1>6, <1>7 DEF AgentInv

LEMMA AgentArrives ==
  ASSUME TypeOK, AgentInv, NEW a \in Requests, AgentJoins(a)
  PROVE  AgentInv'
<1> USE DEF TypeOK
<1>1. /\ home' = home /\ pc' = pc /\ listed' = listed
      /\ agent[a] = "assigned" /\ agent'[a] = "joined"
      /\ \A u \in Requests \ {a} : agent'[u] = agent[u]
      /\ \A u \in Requests : clean'[u] <=> clean[u] /\ RoomOf(u) # RoomOf(a)
      /\ \A u \in Requests : (RoomOf(u))' = RoomOf(u)
  BY DEF AgentJoins, RoomOf
<1>2. \A u \in Requests : clean'[u] => AgentsIn(RoomOf(u))' = AgentsIn(RoomOf(u))
  BY <1>1 DEF AgentsIn, RoomOf
<1>3. EvictionClearsTheRoom'
  BY <1>1, <1>2 DEF AgentInv, EvictionClearsTheRoom
<1>4. EvictsNoNewerAgent'
  BY <1>1 DEF AgentInv, EvictsNoNewerAgent
<1>5. \A u \in Requests :
        /\ agent'[u] # "none" => pc'[u] \in {"dispatched", "failed", "released"}
        /\ clean'[u] => pc'[u] \notin {"start", "listing"}
        /\ clean'[u] /\ pc'[u] = "evicting" => AgentsIn(RoomOf(u))' \subseteq listed'[u]
  BY <1>1, <1>2 DEF AgentInv
<1> QED
  BY <1>3, <1>4, <1>5 DEF AgentInv

LEMMA AgentInvariant == Spec => []AgentInv
<1>1. Init => AgentInv
  BY DEF Init, AgentInv, EvictionClearsTheRoom, EvictsNoNewerAgent, AgentsIn
<1>2. TypeOK /\ AgentInv /\ [Next]_vars => AgentInv'
  <2> SUFFICES ASSUME TypeOK, AgentInv, [Next]_vars
               PROVE  AgentInv'
    OBVIOUS
  <2>1. CASE Tick \/ Served \/ UNCHANGED vars
    BY <2>1 DEF Tick, Served, vars, AgentInv, EvictionClearsTheRoom, EvictsNoNewerAgent,
       AgentsIn, RoomOf
  <2>2. ASSUME NEW t \in Requests, Thread(t)
        PROVE  AgentInv'
    BY <2>2, AgentThread, AgentCreate, AgentGone DEF Thread
  <2>3. ASSUME NEW a \in Requests, AgentJoins(a) \/ AgentLeaves(a)
        PROVE  AgentInv'
    BY <2>3, AgentArrives, AgentGone
  <2> QED
    BY <2>1, <2>2, <2>3 DEF Next
<1> QED
  BY <1>1, <1>2, TypeCorrect, PTL DEF Spec

(* An undisturbed eviction leaves no agent in the room. *)
THEOREM EvictionClears == Spec => []EvictionClearsTheRoom
<1>1. AgentInv => EvictionClearsTheRoom
  BY DEF AgentInv
<1> QED
  BY <1>1, AgentInvariant, PTL

(* No request evicts an agent that is newer than its own list. *)
THEOREM EvictionIsOfOlderAgents == Spec => []EvictsNoNewerAgent
<1>1. AgentInv => EvictsNoNewerAgent
  BY DEF AgentInv
<1> QED
  BY <1>1, AgentInvariant, PTL

----------------------------------------------------------------------------
(* VoiceAccess.                                                               *)

(* What is known of a voice token: its room is the holder's private copy of   *)
(* an allowed room, and the holder was authorised for that room's beamline.   *)
TokenInv(k) ==
  loginRequired =>
    /\ k.base \in AllowedRooms
    /\ k.holder \in Operators
    /\ k.room = OperatorRoom(k.base, k.holder)
    /\ \E b \in RoomBeamlines(k.base) : AuthorizeVoice(k.claims, b)

(* What is known of a dispatched job, and of the session it becomes: it can   *)
(* act only on behalf of a token minted along with it.                        *)
BackedBy(j, minted) ==
  j.canAct =>
    /\ loginRequired
    /\ \E k \in minted :
         k.room = j.room /\ k.identity = j.identity /\ k.claims = j.claims /\ MayAct(k.claims)

AccessInv ==
  /\ \A k \in tokens : TokenInv(k)
  /\ \A j \in jobs : BackedBy(j, tokens)
  /\ \A a \in sessions : BackedBy(a, tokens) /\ Selected(a.room, a.server)
-----------------------------------------------------------------------------
(* A slug is not empty, does not begin with a dash and has no two in a row,   *)
(* wherever it was cut.                                                       *)
LEMMA SlugIsPlain ==
  ASSUME NEW o \in Operators
  PROVE  /\ Slug(o) \in Seq(Chars) /\ Len(Slug(o)) > 0 /\ Slug(o)[1] # Dash
         /\ \A i \in 1 .. Len(Slug(o)) - 1 : ~(Slug(o)[i] = Dash /\ Slug(o)[i + 1] = Dash)
<1> DEFINE n == Name[o]
<1>1. Plain(n) /\ Plain(User) /\ User # <<>> /\ SlugLength \in Nat \ {0}
  BY AccessAssumption
<1> HIDE DEF n
<1>2. CASE n = <<>>
  <2>1. Slug(o) = User
    BY <1>2 DEF Slug, n
  <2> QED BY <1>1, <2>1 DEF Plain
<1>3. CASE n # <<>> /\ Len(n) <= SlugLength
  <2>1. Slug(o) = n
    BY <1>3 DEF Slug, n
  <2> QED BY <1>1, <1>3, <2>1 DEF Plain
<1>4. CASE n # <<>> /\ ~(Len(n) <= SlugLength)
  <2>1. Slug(o) = SubSeq(n, 1, SlugLength)
    BY <1>4 DEF Slug, n
  <2>2. n \in Seq(Chars) /\ SlugLength < Len(n)
    BY <1>1, <1>4 DEF Plain
  <2>3. /\ Slug(o) \in Seq(Chars) /\ Len(Slug(o)) = SlugLength
        /\ \A i \in 1 .. SlugLength : Slug(o)[i] = n[i]
    BY <1>1, <2>1, <2>2
  <2> QED BY <1>1, <1>4, <2>2, <2>3 DEF Plain
<1> QED BY <1>2, <1>3, <1>4

(* A private room, character by character.                                    *)
RoomParts(room, base, slug, digest) ==
  /\ room \in Seq(Chars) /\ Len(room) = (Len(base) + Len(slug)) + (3 + Len(digest))
  /\ \A i \in 1 .. Len(base) : room[i] = base[i]
  /\ room[Len(base) + 1] = Dash /\ room[Len(base) + 2] = Dash
  /\ \A i \in 1 .. Len(slug) : room[(Len(base) + 2) + i] = slug[i]
  /\ \A i \in 1 .. Len(digest) : room[(Len(base) + Len(slug)) + (3 + i)] = digest[i]

LEMMA ConcatParts ==
  ASSUME NEW s \in Seq(Chars), NEW t \in Seq(Chars)
  PROVE  /\ s \o t \in Seq(Chars) /\ Len(s \o t) = Len(s) + Len(t)
         /\ \A i \in 1 .. Len(s) : (s \o t)[i] = s[i]
         /\ \A i \in 1 .. Len(t) : (s \o t)[Len(s) + i] = t[i]
  OBVIOUS

LEMMA RoomIsMadeOf ==
  ASSUME NEW base \in Seq(Chars), NEW slug \in Seq(Chars), NEW digest \in Seq(Chars)
  PROVE  RoomParts(base \o Sep \o slug \o <<Dash>> \o digest, base, slug, digest)
<1> DEFINE r1 == base \o Sep
           r2 == r1 \o slug
           r3 == r2 \o <<Dash>>
           room == r3 \o digest
<1>1. /\ Sep \in Seq(Chars) /\ Len(Sep) = 2 /\ Sep[1] = Dash /\ Sep[2] = Dash
      /\ <<Dash>> \in Seq(Chars) /\ Len(<<Dash>>) = 1
  BY AccessAssumption DEF Sep
<1>2. /\ r1 \in Seq(Chars) /\ Len(r1) = Len(base) + Len(Sep)
      /\ \A i \in 1 .. Len(base) : r1[i] = base[i]
      /\ \A i \in 1 .. Len(Sep) : r1[Len(base) + i] = Sep[i]
  <2>1. Sep \in Seq(Chars)
    BY <1>1
  <2> HIDE DEF Sep
  <2> QED BY <2>1, ConcatParts
<1> HIDE DEF r1
<1>3. /\ r2 \in Seq(Chars) /\ Len(r2) = Len(r1) + Len(slug)
      /\ \A i \in 1 .. Len(r1) : r2[i] = r1[i]
      /\ \A i \in 1 .. Len(slug) : r2[Len(r1) + i] = slug[i]
  <2>1. r1 \in Seq(Chars)
    BY <1>2
  <2> QED BY <2>1, ConcatParts
<1> HIDE DEF r2
<1>4. /\ r3 \in Seq(Chars) /\ Len(r3) = Len(r2) + 1
      /\ \A i \in 1 .. Len(r2) : r3[i] = r2[i]
  <2>1. r2 \in Seq(Chars)
    BY <1>3
  <2> QED BY <1>1, <2>1, ConcatParts
<1> HIDE DEF r3
<1>5. /\ room \in Seq(Chars) /\ Len(room) = Len(r3) + Len(digest)
      /\ \A i \in 1 .. Len(r3) : room[i] = r3[i]
      /\ \A i \in 1 .. Len(digest) : room[Len(r3) + i] = digest[i]
  <2>1. r3 \in Seq(Chars)
    BY <1>4
  <2> QED BY <2>1, ConcatParts
<1> HIDE DEF room
<1>6. /\ Len(base) \in Nat /\ Len(slug) \in Nat /\ Len(digest) \in Nat
      /\ Len(r1) = Len(base) + 2 /\ Len(r2) = (Len(base) + 2) + Len(slug)
      /\ Len(r3) = (Len(base) + Len(slug)) + 3
  BY <1>1, <1>2, <1>3, <1>4
<1>7. \A i \in 1 .. Len(base) : room[i] = base[i]
  BY <1>2, <1>3, <1>4, <1>5, <1>6
<1>8. room[Len(base) + 1] = Dash /\ room[Len(base) + 2] = Dash
  <2>1. r1[Len(base) + 1] = Dash /\ r1[Len(base) + 2] = Dash
    BY <1>1, <1>2
  <2>2. /\ Len(base) + 1 \in 1 .. Len(r1) /\ Len(base) + 2 \in 1 .. Len(r1)
        /\ \A i \in 1 .. Len(r1) : i \in 1 .. Len(r2) /\ i \in 1 .. Len(r3)
    BY <1>6
  <2> QED BY <1>3, <1>4, <1>5, <2>1, <2>2
<1>9. \A i \in 1 .. Len(slug) : room[(Len(base) + 2) + i] = slug[i]
  <2> SUFFICES ASSUME NEW i \in 1 .. Len(slug)
               PROVE  room[(Len(base) + 2) + i] = slug[i]
    OBVIOUS
  <2>1. /\ (Len(base) + 2) + i \in 1 .. Len(r2) /\ (Len(base) + 2) + i \in 1 .. Len(r3)
        /\ Len(r1) + i = (Len(base) + 2) + i
    BY <1>6
  <2> QED BY <1>3, <1>4, <1>5, <2>1
<1>10. \A i \in 1 .. Len(digest) : room[(Len(base) + Len(slug)) + (3 + i)] = digest[i]
  <2> SUFFICES ASSUME NEW i \in 1 .. Len(digest)
               PROVE  room[(Len(base) + Len(slug)) + (3 + i)] = digest[i]
    OBVIOUS
  <2>1. Len(r3) + i = (Len(base) + Len(slug)) + (3 + i)
    BY <1>6
  <2> QED BY <1>5, <2>1
<1>11. Len(room) = (Len(base) + Len(slug)) + (3 + Len(digest))
  BY <1>3, <1>4, <1>5, <1>6
<1>12. RoomParts(room, base, slug, digest)
  BY <1>5, <1>7, <1>8, <1>9, <1>10, <1>11 DEF RoomParts
<1> QED BY <1>12 DEF room, r1, r2, r3

LEMMA DigestIsText ==
  ASSUME NEW o \in Operators
  PROVE  Digest[o] \in Seq(Chars) /\ Len(Digest[o]) = DigestLength
<1>1. DigestLength \in Nat /\ Digest[o] \in [1 .. DigestLength -> Chars \ {Dash}]
  BY AccessAssumption
<1> QED BY <1>1

LEMMA PrivateRoomParts ==
  ASSUME NEW base \in Seq(Chars), NEW o \in Operators
  PROVE  RoomParts(OperatorRoom(base, o), base, Slug(o), Digest[o])
  BY SlugIsPlain, DigestIsText, RoomIsMadeOf DEF OperatorRoom

(* Were the base of one of two rooms of one name the shorter, the separator   *)
(* behind the other's base would be in the slug.                              *)
LEMMA NoShorterBase ==
  ASSUME NEW b \in Seq(Chars), NEW c \in Seq(Chars), NEW o \in Operators, NEW q \in Operators,
         OperatorRoom(b, o) = OperatorRoom(c, q)
  PROVE  ~(Len(b) < Len(c))
<1> DEFINE room == OperatorRoom(b, o)
           slug == Slug(o)
<1>1. RoomParts(room, b, slug, Digest[o]) /\ RoomParts(room, c, Slug(q), Digest[q])
  BY PrivateRoomParts
<1>2. /\ slug \in Seq(Chars) /\ Len(slug) > 0 /\ slug[1] # Dash
      /\ \A i \in 1 .. Len(slug) - 1 : ~(slug[i] = Dash /\ slug[i + 1] = Dash)
      /\ Slug(q) \in Seq(Chars) /\ Len(Slug(q)) > 0
  BY SlugIsPlain
<1>3. Len(Digest[o]) = DigestLength /\ Len(Digest[q]) = DigestLength /\ DigestLength \in Nat
  BY DigestIsText, AccessAssumption
<1> HIDE DEF room, slug
<1>4. Len(b) \in Nat /\ Len(c) \in Nat /\ Len(slug) \in Nat /\ Len(Slug(q)) \in Nat
  BY <1>2
<1>5. Len(b) + Len(slug) = Len(c) + Len(Slug(q))
  <2>1. /\ Len(room) = (Len(b) + Len(slug)) + (3 + DigestLength)
        /\ Len(room) = (Len(c) + Len(Slug(q))) + (3 + DigestLength)
    BY <1>1, <1>3 DEF RoomParts
  <2> QED BY <1>3, <1>4, <2>1
<1>6. room[Len(c) + 1] = Dash /\ room[Len(c) + 2] = Dash
  BY <1>1 DEF RoomParts
<1>7. \A i \in 1 .. Len(slug) : room[(Len(b) + 2) + i] = slug[i]
  BY <1>1 DEF RoomParts
<1>8. ASSUME Len(c) = Len(b) + 1
      PROVE  FALSE
  <2>1. Len(c) + 2 = (Len(b) + 2) + 1 /\ 1 \in 1 .. Len(slug)
    BY <1>2, <1>4, <1>8
  <2> QED BY <1>2, <1>6, <1>7, <2>1
<1>9. ASSUME Len(c) > Len(b) + 1
      PROVE  FALSE
  <2> DEFINE i == Len(c) - (Len(b) + 1)
  <2>1. /\ i \in 1 .. Len(slug) - 1 /\ i + 1 \in 1 .. Len(slug) /\ i \in 1 .. Len(slug)
        /\ Len(c) + 1 = (Len(b) + 2) + i /\ Len(c) + 2 = (Len(b) + 2) + (i + 1)
    BY <1>2, <1>4, <1>5, <1>9
  <2> HIDE DEF i
  <2>2. slug[i] = Dash /\ slug[i + 1] = Dash
    BY <1>6, <1>7, <2>1
  <2> QED BY <1>2, <2>1, <2>2
<1> QED BY <1>4, <1>8, <1>9

(* Private rooms of one name have one base, one slug and one digest.          *)
LEMMA RoomsApart ==
  ASSUME NEW b \in Seq(Chars), NEW c \in Seq(Chars), NEW o \in Operators, NEW q \in Operators,
         OperatorRoom(b, o) = OperatorRoom(c, q)
  PROVE  b = c /\ Slug(o) = Slug(q) /\ Digest[o] = Digest[q]
<1> DEFINE room == OperatorRoom(b, o)
<1>1. RoomParts(room, b, Slug(o), Digest[o]) /\ RoomParts(room, c, Slug(q), Digest[q])
  BY PrivateRoomParts
<1>2. ~(Len(b) < Len(c)) /\ ~(Len(c) < Len(b))
  BY NoShorterBase
<1>3. /\ Slug(o) \in Seq(Chars) /\ Slug(q) \in Seq(Chars)
      /\ Digest[o] \in Seq(Chars) /\ Digest[q] \in Seq(Chars)
      /\ Len(Digest[o]) = DigestLength /\ Len(Digest[q]) = DigestLength /\ DigestLength \in Nat
  BY SlugIsPlain, DigestIsText, AccessAssumption
<1> HIDE DEF room
<1>4. Len(b) = Len(c) /\ Len(b) \in Nat /\ Len(Slug(o)) \in Nat /\ Len(Slug(q)) \in Nat
  BY <1>2, <1>3
<1>5. Len(Slug(o)) = Len(Slug(q))
  <2>1. /\ Len(room) = (Len(b) + Len(Slug(o))) + (3 + DigestLength)
        /\ Len(room) = (Len(b) + Len(Slug(q))) + (3 + DigestLength)
    BY <1>1, <1>3, <1>4 DEF RoomParts
  <2> QED BY <1>3, <1>4, <2>1
<1>6. b = c
  <2>1. \A i \in 1 .. Len(b) : b[i] = c[i]
    BY <1>1, <1>4 DEF RoomParts
  <2> QED BY <1>4, <2>1
<1>7. Slug(o) = Slug(q)
  <2>1. \A i \in 1 .. Len(Slug(o)) : Slug(o)[i] = Slug(q)[i]
    BY <1>1, <1>4, <1>5 DEF RoomParts
  <2> HIDE DEF Slug
  <2> QED BY <1>3, <1>5, <2>1
<1>8. Digest[o] = Digest[q]
  <2>1. \A i \in 1 .. DigestLength : Digest[o][i] = Digest[q][i]
    BY <1>1, <1>3, <1>4, <1>5 DEF RoomParts
  <2> QED BY <1>3, <2>1
<1> QED BY <1>6, <1>7, <1>8

(* A room's private copies begin with its name and a separator, so its        *)
(* servers match them.                                                        *)
LEMMA PrivateRoomMatches ==
  ASSUME NEW s \in Servers, s.roomName # <<>>, NEW o \in Operators
  PROVE  s \in Matches(OperatorRoom(s.roomName, o))
<1> DEFINE base == s.roomName
           room == OperatorRoom(base, o)
<1>1. base \in Seq(Chars)
  BY AccessAssumption
<1>2. RoomParts(room, base, Slug(o), Digest[o])
  BY <1>1, PrivateRoomParts
<1>3. Len(Slug(o)) \in Nat /\ Len(Digest[o]) \in Nat
  BY SlugIsPlain, DigestIsText
<1> HIDE DEF room
<1>4. Sep \in Seq(Chars) /\ Len(Sep) = 2 /\ Sep[1] = Dash /\ Sep[2] = Dash
  BY AccessAssumption DEF Sep
<1>5. /\ Len(base \o Sep) = Len(base) + Len(Sep)
      /\ \A i \in 1 .. Len(base) : (base \o Sep)[i] = base[i]
      /\ \A i \in 1 .. Len(Sep) : (base \o Sep)[Len(base) + i] = Sep[i]
  <2>1. base \in Seq(Chars) /\ Sep \in Seq(Chars)
    BY <1>1, <1>4
  <2> HIDE DEF base, Sep
  <2> QED BY <2>1, ConcatParts
<1>6. StartsWith(room, base \o Sep)
  <2> DEFINE prefix == base \o Sep
  <2>1. Len(prefix) = Len(base) + 2 /\ Len(base) \in Nat
    BY <1>1, <1>4, <1>5
  <2>2. /\ \A i \in 1 .. Len(base) : prefix[i] = base[i]
        /\ prefix[Len(base) + 1] = Dash /\ prefix[Len(base) + 2] = Dash
    BY <1>4, <1>5
  <2> HIDE DEF prefix
  <2>3. /\ Len(room) = (Len(base) + Len(Slug(o))) + (3 + Len(Digest[o]))
        /\ \A i \in 1 .. Len(base) : room[i] = base[i]
        /\ room[Len(base) + 1] = Dash /\ room[Len(base) + 2] = Dash
    BY <1>2 DEF RoomParts
  <2>4. Len(prefix) <= Len(room)
    <3> DEFINE b == Len(base)
               m == Len(Slug(o))
               d == Len(Digest[o])
               whole == Len(room)
               part == Len(prefix)
    <3>1. /\ whole = (b + m) + (3 + d) /\ part = b + 2
          /\ b \in Nat /\ m \in Nat /\ d \in Nat
      BY <1>3, <2>1, <2>3
    <3> HIDE DEF b, m, d, whole, part
    <3>2. part <= whole
      BY <3>1
    <3> QED BY <3>2 DEF whole, part
  <2>5. \A i \in 1 .. Len(prefix) : i \in 1 .. Len(base) \/ i = Len(base) + 1 \/ i = Len(base) + 2
    BY <2>1
  <2>6. StartsWith(room, prefix)
    BY <2>2, <2>3, <2>4, <2>5 DEF StartsWith
  <2> QED BY <2>6 DEF prefix
<1>7. Under(base, room)
  BY <1>6 DEF Under
<1> QED
  BY <1>7 DEF Matches, room

LEMMA AccessStep ==
  ASSUME AccessInv, [AccessNext]_accessVars
  PROVE  AccessInv'
<1>0. loginRequired' = loginRequired
  BY DEF AccessNext, accessVars, ChangeClaims, Login, Logout, PostWithLogin, PostAnonymous, AgentStarts,
     AgentRefuses, SessionEnds
<1>1. CASE UNCHANGED <<tokens, jobs, sessions>>
  BY <1>0, <1>1 DEF AccessInv, TokenInv, BackedBy
<1>2. ASSUME NEW o \in Operators, NEW base \in AllowedRooms, NEW b, PostWithLogin(o, base, b)
      PROVE  AccessInv'
  <2> DEFINE room == OperatorRoom(base, o)
             new == [room |-> room, identity |-> Identity(room), holder |-> o, base |-> base,
                     claims |-> bearer[o]]
             job == [room |-> room, identity |-> Identity(room),
                     canAct |-> MayAct(bearer[o]), claims |-> bearer[o]]
  <2>1. tokens' = tokens \cup {new} /\ jobs' \subseteq jobs \cup {job} /\ sessions' = sessions
    BY <1>2 DEF PostWithLogin, Dispatch
  <2>2. TokenInv(new)
    BY <1>2 DEF TokenInv, PostWithLogin
  <2>3. BackedBy(job, tokens')
    <3>1. new \in tokens' /\ loginRequired
      BY <1>2, <2>1 DEF PostWithLogin
    <3>2. /\ new.room = job.room /\ new.identity = job.identity
          /\ new.claims = job.claims /\ job.canAct = MayAct(new.claims)
      OBVIOUS
    <3> HIDE DEF new, job
    <3> QED
      BY <3>1, <3>2 DEF BackedBy
  <2>4. \A j \in jobs \cup sessions : BackedBy(j, tokens')
    BY <1>0, <2>1 DEF AccessInv, BackedBy
  <2> HIDE DEF new, job
  <2> QED
    BY <1>0, <2>1, <2>2, <2>3, <2>4 DEF AccessInv, TokenInv, BackedBy
<1>3. ASSUME NEW o \in Operators, NEW base \in AllowedRooms, NEW i \in Operators,
             PostAnonymous(o, base, Digest[i])
      PROVE  AccessInv'
  <2> DEFINE new == [room |-> base, identity |-> Digest[i], holder |-> o, base |-> base,
                     claims |-> NoToken]
             job == [room |-> base, identity |-> Anonymous, canAct |-> FALSE, claims |-> NoToken]
  <2>1. tokens' = tokens \cup {new} /\ jobs' \subseteq jobs \cup {job} /\ sessions' = sessions
    BY <1>3 DEF PostAnonymous, Dispatch
  <2>2. TokenInv(new) /\ BackedBy(job, tokens')
    BY <1>3 DEF TokenInv, BackedBy, PostAnonymous
  <2>3. \A j \in jobs \cup sessions : BackedBy(j, tokens')
    BY <1>0, <2>1 DEF AccessInv, BackedBy
  <2> HIDE DEF new, job
  <2> QED
    BY <1>0, <2>1, <2>2, <2>3 DEF AccessInv, TokenInv, BackedBy
<1>4. ASSUME NEW job \in jobs, NEW s \in Servers, AgentStarts(job, s)
      PROVE  AccessInv'
  <2> DEFINE new == [room |-> job.room, identity |-> job.identity, server |-> s,
                     canAct |-> job.canAct /\ job.identity # Anonymous, claims |-> job.claims]
  <2>1. tokens' = tokens /\ jobs' \subseteq jobs /\ sessions' = sessions \cup {new}
    BY <1>4 DEF AgentStarts
  <2>2. BackedBy(new, tokens') /\ Selected(new.room, new.server)
    BY <1>0, <1>4, <2>1 DEF AgentStarts, AccessInv, BackedBy
  <2> HIDE DEF new
  <2> QED
    BY <1>0, <2>1, <2>2 DEF AccessInv, TokenInv, BackedBy
<1>5. ASSUME NEW job \in jobs, AgentRefuses(job)
      PROVE  AccessInv'
  BY <1>0, <1>5 DEF AgentRefuses, AccessInv, TokenInv, BackedBy
<1>6. ASSUME NEW a \in sessions, SessionEnds(a)
      PROVE  AccessInv'
  BY <1>0, <1>6 DEF SessionEnds, AccessInv, TokenInv, BackedBy
<1> QED
  BY <1>1, <1>2, <1>3, <1>4, <1>5, <1>6 DEF AccessNext, accessVars, ChangeClaims, Login, Logout

LEMMA AccessInvariant == AccessSpec => []AccessInv
<1>1. AccessInit => AccessInv
  BY DEF AccessInit, AccessInv
<1>2. AccessInv /\ [AccessNext]_accessVars => AccessInv'
  BY AccessStep
<1> QED
  BY <1>1, <1>2, PTL DEF AccessSpec

LEMMA LeastNumber ==
  ASSUME NEW T, T \subseteq Nat, T # {}
  PROVE  \E n \in T : \A m \in T : n <= m
<1>1. PICK n \in T : \A m \in T : ~(<<m, n>> \in OpToRel(<, Nat))
  BY NatLessThanWellFounded, WFMin
<1>2. \A m \in T : ~(m < n)
  BY <1>1 DEF OpToRel
<1> QED BY <1>2

(* A private room has a separator, so a last one, and what follows is text.   *)
LEMMA IdentityIsText ==
  ASSUME NEW base \in Seq(Chars), NEW o \in Operators
  PROVE  OperatorRoom(base, o) \in Seq(Chars) /\ Identity(OperatorRoom(base, o)) \in Seq(Chars)
<1> DEFINE room == OperatorRoom(base, o)
           rest == {Len(room) - i : i \in Seps(room)}
<1>1. RoomParts(room, base, Slug(o), Digest[o])
  BY PrivateRoomParts
<1>2. Len(Slug(o)) \in Nat /\ Len(Digest[o]) \in Nat /\ Len(base) \in Nat
  BY SlugIsPlain, DigestIsText
<1> HIDE DEF room
<1>3. room \in Seq(Chars) /\ Len(room) \in Nat
  <2>1. room \in Seq(Chars)
    BY <1>1 DEF RoomParts
  <2> QED BY <2>1
<1>4. Len(base) + 1 \in Seps(room)
  <2>1. /\ Len(room) = (Len(base) + Len(Slug(o))) + (3 + Len(Digest[o]))
        /\ room[Len(base) + 1] = Dash /\ room[Len(base) + 2] = Dash
    BY <1>1 DEF RoomParts
  <2> DEFINE m == Len(Slug(o))
             d == Len(Digest[o])
  <2>2. Len(room) = (Len(base) + m) + (3 + d) /\ m \in Nat /\ d \in Nat /\ Len(base) \in Nat
    BY <1>2, <2>1
  <2> HIDE DEF m, d
  <2>3. Len(base) + 1 \in 1 .. Len(room) - 1 /\ (Len(base) + 1) + 1 = Len(base) + 2
    BY <2>2
  <2> QED BY <2>1, <2>3 DEF Seps
<1>5. \E i \in Seps(room) : \A j \in Seps(room) : j <= i
  <2>1. rest \subseteq Nat /\ rest # {}
    <3>1. \A i \in Seps(room) : i \in 1 .. Len(room) - 1
      BY DEF Seps
    <3>2. \A i \in Seps(room) : Len(room) - i \in Nat
      BY <1>3, <3>1
    <3> QED BY <1>4, <3>2
  <2>2. PICK n \in rest : \A m \in rest : n <= m
    <3> HIDE DEF rest
    <3> QED BY <2>1, LeastNumber
  <2>3. PICK i \in Seps(room) : n = Len(room) - i
    OBVIOUS
  <2>4. \A j \in Seps(room) : Len(room) - i <= Len(room) - j
    BY <2>2, <2>3
  <2>5. Seps(room) \subseteq Int
    BY <1>3 DEF Seps
  <2> QED BY <1>3, <2>4, <2>5
<1>6. LastSep(room) \in Seps(room)
  BY <1>5 DEF LastSep
<1>7. LastSep(room) \in 1 .. Len(room) - 1
  BY <1>6 DEF Seps
<1>8. Identity(room) \in Seq(Chars)
  BY <1>3, <1>7 DEF Identity
<1> QED BY <1>3, <1>8 DEF room

(* Rooms and identities are text, the latter also of the job that nobody      *)
(* signed for; a session's server is one of the deployed ones.                *)
LEMMA AccessTypeStep ==
  ASSUME AccessTypeOK, [AccessNext]_accessVars
  PROVE  AccessTypeOK'
<1>1. ASSUME NEW o \in Operators, ChangeClaims(o) \/ Login(o) \/ Logout(o)
      PROVE  AccessTypeOK'
  BY <1>1 DEF AccessTypeOK, ChangeClaims, Login, Logout, NoToken, AllowedRooms
<1>2. ASSUME NEW o \in Operators, NEW base \in AllowedRooms, NEW b, PostWithLogin(o, base, b)
      PROVE  AccessTypeOK'
  <2> DEFINE room == OperatorRoom(base, o)
             new == [room |-> room, identity |-> Identity(room), holder |-> o, base |-> base,
                     claims |-> bearer[o]]
             job == [room |-> room, identity |-> Identity(room),
                     canAct |-> MayAct(bearer[o]), claims |-> bearer[o]]
  <2>1. /\ tokens' = tokens \cup {new} /\ jobs' \subseteq jobs \cup {job}
        /\ UNCHANGED <<loginRequired, claims, bearer, sessions>>
    BY <1>2 DEF PostWithLogin, Dispatch
  <2>2. room \in Seq(Chars) /\ Identity(room) \in Seq(Chars)
    BY IdentityIsText, AccessAssumption DEF AllowedRooms
  <2>3. /\ new.base \in AllowedRooms /\ new.holder \in Operators
        /\ new.room \in Seq(Chars) /\ new.identity \in Seq(Chars)
    BY <2>2
  <2>4. job.canAct \in BOOLEAN /\ job.identity \in Seq(Chars)
    BY <2>2 DEF MayAct, IsAdmin
  <2> HIDE DEF new, job
  <2> QED
    BY <2>1, <2>3, <2>4 DEF AccessTypeOK
<1>3. ASSUME NEW o \in Operators, NEW base \in AllowedRooms, NEW i \in Operators,
             PostAnonymous(o, base, Digest[i])
      PROVE  AccessTypeOK'
  <2> DEFINE new == [room |-> base, identity |-> Digest[i], holder |-> o, base |-> base,
                     claims |-> NoToken]
             job == [room |-> base, identity |-> Anonymous, canAct |-> FALSE, claims |-> NoToken]
  <2>1. /\ tokens' = tokens \cup {new} /\ jobs' \subseteq jobs \cup {job}
        /\ UNCHANGED <<loginRequired, claims, bearer, sessions>>
    BY <1>3 DEF PostAnonymous, Dispatch
  <2>2. /\ new.base \in AllowedRooms /\ new.holder \in Operators
        /\ new.room \in Seq(Chars) /\ new.identity \in Seq(Chars)
        /\ job.canAct \in BOOLEAN /\ job.identity \in Seq(Chars)
    BY DigestIsText, AccessAssumption DEF AllowedRooms, Anonymous
  <2> HIDE DEF new, job
  <2> QED
    BY <2>1, <2>2 DEF AccessTypeOK
<1>4. ASSUME NEW job \in jobs, NEW s \in Servers, AgentStarts(job, s)
      PROVE  AccessTypeOK'
  <2> DEFINE new == [room |-> job.room, identity |-> job.identity, server |-> s,
                     canAct |-> job.canAct /\ job.identity # Anonymous, claims |-> job.claims]
  <2>1. /\ jobs' \subseteq jobs /\ sessions' = sessions \cup {new}
        /\ UNCHANGED <<loginRequired, claims, bearer, tokens>>
    BY <1>4 DEF AgentStarts
  <2>2. new.canAct \in BOOLEAN /\ new.identity = job.identity /\ new.server = s
    OBVIOUS
  <2> HIDE DEF new
  <2> QED
    BY <2>1, <2>2 DEF AccessTypeOK
<1>5. ASSUME NEW job \in jobs, AgentRefuses(job)
      PROVE  AccessTypeOK'
  BY <1>5 DEF AccessTypeOK, AgentRefuses
<1>6. ASSUME NEW a \in sessions, SessionEnds(a)
      PROVE  AccessTypeOK'
  BY <1>6 DEF AccessTypeOK, SessionEnds
<1>7. CASE UNCHANGED accessVars
  BY <1>7 DEF AccessTypeOK, accessVars
<1> QED
  BY <1>1, <1>2, <1>3, <1>4, <1>5, <1>6, <1>7 DEF AccessNext

(* The type invariant of VoiceAccess: in particular no session works on a     *)
(* server that is not deployed, and every identity can be read off its room.  *)
THEOREM AccessTypeCorrect == AccessSpec => []AccessTypeOK
<1>1. AccessInit => AccessTypeOK
  BY DEF AccessInit, AccessTypeOK, NoToken
<1>2. AccessTypeOK /\ [AccessNext]_accessVars => AccessTypeOK'
  BY AccessTypeStep
<1> QED
  BY <1>1, <1>2, PTL DEF AccessSpec

(* Rooms of one name are of one base, one slug and one digest, whatever the   *)
(* names, wherever the slug is cut and whichever digests collide.             *)
THEOREM RoomsArePrivate == AccessSpec => []PrivateRooms
<1>1. AccessInv => PrivateRooms
  <2> SUFFICES ASSUME AccessInv, loginRequired, NEW k \in tokens, NEW m \in tokens, k.room = m.room
               PROVE  /\ k.base = m.base
                      /\ Slug(k.holder) = Slug(m.holder) /\ Digest[k.holder] = Digest[m.holder]
    BY DEF PrivateRooms
  <2>1. TokenInv(k) /\ TokenInv(m)
    BY DEF AccessInv
  <2>2. k.base \in Seq(Chars) /\ m.base \in Seq(Chars) /\ k.holder \in Operators /\ m.holder \in Operators
    BY <2>1, AccessAssumption DEF TokenInv, AllowedRooms
  <2>3. OperatorRoom(k.base, k.holder) = OperatorRoom(m.base, m.holder)
    BY <2>1 DEF TokenInv
  <2> QED
    BY <2>2, <2>3, RoomsApart
<1> QED
  BY <1>1, AccessInvariant, PTL

(* The token service and the agent agree on the beamline of every room. *)
THEOREM BeamlinesAreIsolated == AccessSpec => []OnlyAuthorisedBeamline
<1>1. AccessInv => OnlyAuthorisedBeamline
  <2> SUFFICES ASSUME AccessInv, loginRequired, NEW a \in sessions, NEW k \in tokens,
                      k.room = a.room
               PROVE  AuthorizeVoice(k.claims, a.server.beamline)
    BY DEF OnlyAuthorisedBeamline
  <2>1. TokenInv(k) /\ Matches(k.room) = {a.server}
    BY DEF AccessInv, Selected
  <2>2. PICK b \in RoomBeamlines(k.base) : AuthorizeVoice(k.claims, b)
    BY <2>1 DEF TokenInv
  <2>3. PICK s \in Servers : s.roomName = k.base /\ s.beamline = b
    BY <2>2 DEF RoomBeamlines
  <2>4. s \in Matches(k.room)
    BY <2>1, <2>3, PrivateRoomMatches DEF TokenInv, AllowedRooms
  <2> QED
    BY <2>1, <2>2, <2>3, <2>4
<1> QED
  BY <1>1, AccessInvariant, PTL

(* No session can act without a signed-in operator who has the role. *)
THEOREM ActionsAreAuthorised == AccessSpec => []ActionsNeedTheRole
<1>1. AccessInv => ActionsNeedTheRole
  BY DEF AccessInv, BackedBy, ActionsNeedTheRole
<1> QED
  BY <1>1, AccessInvariant, PTL
=============================================================================

----------------------- MODULE ConfluenceIngestProofs -----------------------
(* Proofs about ConfluenceIngest for any number of jobs, pages, edits and     *)
(* failures: what a search in Qdrant may find, and what a run has stored that *)
(* ends well.                                                                 *)
EXTENDS ConfluenceIngest, TLAPS

----------------------------------------------------------------------------
(* Types.                                                                     *)

(* What the control of the jobs and the requests leave in their variables.    *)
LEMMA FinishTypes ==
  ASSUME TypeOK, NEW j \in Jobs, NEW how \in Ended, Finish(j, how)
  PROVE  /\ pc' \in [Jobs -> Ended \union {"fetch", "embed", "ensure", "create", "upsert"}]
         /\ start' \in [Jobs -> Nat]
         /\ todo' \in [Jobs -> SUBSET Item] /\ built' \in [Jobs -> SUBSET BuiltItem]
BY DEF TypeOK, Finish, Goto

LEMMA FetchedTypes ==
  ASSUME TypeOK, NEW j \in Jobs
  PROVE  Fetched(j) \subseteq Item
<1>1. Len(order) \in Nat /\ DOMAIN order = 1 .. Len(order) /\ \A i \in DOMAIN order : order[i] \in Pages
  BY IngestAssumption DEF TypeOK
<1>2. \A p \in Pages : version[p] \in Versions
  BY DEF TypeOK
<1>3. todo[j] \subseteq Item
  BY DEF TypeOK
<1>4. \A i \in DOMAIN order : i \in Nat
  BY <1>1
<1> QED
  BY <1>1, <1>2, <1>3, <1>4 DEF Fetched, Matches, Results, Item

LEMMA FetchTypes ==
  ASSUME TypeOK, NEW j \in Jobs, Fetch(j)
  PROVE  TypeOK'
<1> USE DEF space, store
<1>1. Fetched(j) \in SUBSET Item /\ start[j] + PageLimit \in Nat
  <2>1. start[j] \in Nat /\ PageLimit \in Nat
    BY IngestAssumption DEF TypeOK
  <2> QED
    BY <2>1, FetchedTypes
<1>2. CASE ~LastPage(start[j])
  <2>1. /\ start' = [start EXCEPT ![j] = @ + PageLimit] /\ todo' = [todo EXCEPT ![j] = Fetched(j)]
        /\ UNCHANGED <<pc, built, mode, order, version, collection, points, faults, base, disturbed, fellBack>>
    BY <1>2 DEF Fetch
  <2> QED
    BY <1>1, <2>1 DEF TypeOK
<1>3. CASE LastPage(start[j]) /\ Fetched(j) # {}
  <2>1. /\ pc' = [pc EXCEPT ![j] = "embed"] /\ start' = [start EXCEPT ![j] = 0]
        /\ todo' = [todo EXCEPT ![j] = Fetched(j)]
        /\ UNCHANGED <<built, mode, order, version, collection, points, faults, base, disturbed, fellBack>>
    BY <1>3 DEF Fetch, Goto
  <2> QED
    BY <1>1, <2>1 DEF TypeOK
<1>4. CASE LastPage(start[j]) /\ Fetched(j) = {}
  <2>1. Finish(j, "succeeded") /\ UNCHANGED <<mode, space, store, faults, base, disturbed, fellBack>>
    BY <1>4 DEF Fetch
  <2> QED
    BY <2>1, FinishTypes DEF TypeOK, Ended
<1> QED
  BY <1>2, <1>3, <1>4

(* A page is built, or skipped.                                               *)
LEMMA BuildTypes ==
  ASSUME TypeOK, NEW j \in Jobs, NEW item \in todo[j], NEW by \in {"model", "hash"}, Build(j, item, by)
  PROVE  todo' \in [Jobs -> SUBSET Item] /\ built' \in [Jobs -> SUBSET BuiltItem]
<1> DEFINE new == [at |-> item.at, page |-> item.page, version |-> item.version, by |-> by]
<1>1. item \in Item
  BY DEF TypeOK
<1>2. new \in BuiltItem
  BY <1>1 DEF Item, BuiltItem
<1>3. built' = [built EXCEPT ![j] = @ \union {new}] /\ todo' = [todo EXCEPT ![j] = @ \ {item}]
  BY DEF Build
<1> HIDE DEF new
<1> QED
  BY <1>2, <1>3 DEF TypeOK

LEMMA EmbedTypes ==
  ASSUME TypeOK, NEW j \in Jobs, SkipEmpty(j) \/ Embed(j) \/ FallBack(j)
  PROVE  TypeOK'
<1> USE DEF space, store
<1>1. CASE SkipEmpty(j)
  BY <1>1 DEF SkipEmpty, TypeOK
<1>2. CASE Embed(j)
  <2>1. PICK item \in todo[j] : Build(j, item, IF mode = "local-hash" THEN "hash" ELSE "model")
    BY <1>2 DEF Embed
  <2>2. todo' \in [Jobs -> SUBSET Item] /\ built' \in [Jobs -> SUBSET BuiltItem]
    BY <2>1, BuildTypes
  <2> QED
    BY <1>2, <2>2 DEF Embed, TypeOK
<1>3. CASE FallBack(j)
  <2>1. PICK item \in todo[j] : Build(j, item, "hash")
    BY <1>3 DEF FallBack
  <2>2. todo' \in [Jobs -> SUBSET Item] /\ built' \in [Jobs -> SUBSET BuiltItem]
    BY <2>1, BuildTypes
  <2>3. faults' \in 0 .. MaxFaults
    BY <1>3, IngestAssumption DEF FallBack, TypeOK
  <2> QED
    BY <1>3, <2>2, <2>3 DEF FallBack, TypeOK
<1> QED
  BY <1>1, <1>2, <1>3

(* A collection has one of the two sizes; a batch is made of points.          *)
LEMMA VectorSizeTypes ==
  ASSUME TypeOK, NEW j \in Jobs
  PROVE  VectorSize(j) \subseteq {Size["model"], Size["hash"]}
<1>1. built[j] \subseteq BuiltItem
  BY DEF TypeOK
<1> QED
  BY <1>1 DEF VectorSize, BuiltItem

LEMMA BatchTypes ==
  ASSUME TypeOK, NEW j \in Jobs
  PROVE  Batch(j) \subseteq [page : Wanted, version : Versions, index : Nat]
<1>1. \A item \in built[j] : item.page \in Wanted /\ item.version \in Versions
  BY DEF TypeOK, BuiltItem
<1>2. \A v \in Versions : ChunkIndexes(v) \subseteq Nat
  BY IngestAssumption DEF ChunkIndexes
<1>3. \A item \in built[j] :
        PointsOf(item.page, item.version) \subseteq [page : Wanted, version : Versions, index : Nat]
  BY <1>1, <1>2 DEF PointsOf
<1> QED
  BY <1>3 DEF Batch

LEMMA StoreTypes ==
  ASSUME TypeOK, NEW j \in Jobs, EndBuild(j) \/ Ensure(j) \/ EnsureRefused(j) \/ Create(j) \/ Upsert(j)
  PROVE  TypeOK'
<1> USE DEF space, store
<1>1. CASE EndBuild(j)
  <2>1. CASE built[j] = {}
    BY <1>1, <2>1, FinishTypes DEF EndBuild, TypeOK, Ended
  <2>2. CASE built[j] # {}
    BY <1>1, <2>2 DEF EndBuild, TypeOK, Goto
  <2> QED BY <2>1, <2>2
<1>2. CASE Ensure(j)
  BY <1>2 DEF Ensure, TypeOK, Goto
<1>3. CASE EnsureRefused(j)
  BY <1>3, IngestAssumption DEF EnsureRefused, TypeOK, Goto
<1>4. CASE Create(j)
  <2>1. CASE collection = 0
    BY <1>4, <2>1, VectorSizeTypes DEF Create, TypeOK, Goto
  <2>2. CASE collection # 0
    BY <1>4, <2>2, FinishTypes DEF Create, TypeOK, Ended
  <2> QED BY <2>1, <2>2
<1>5. CASE Upsert(j)
  <2>1. CASE Fits(j)
    BY <1>5, <2>1, FinishTypes, BatchTypes DEF Upsert, TypeOK, Ended
  <2>2. CASE ~Fits(j)
    BY <1>5, <2>2, FinishTypes DEF Upsert, TypeOK, Ended
  <2> QED BY <2>1, <2>2
<1> QED
  BY <1>1, <1>2, <1>3, <1>4, <1>5

LEMMA FaultTypes ==
  ASSUME TypeOK, NEW j \in Jobs, FetchFault(j) \/ EmbedFault(j) \/ StoreFault(j)
  PROVE  TypeOK'
<1> USE DEF space
<1>1. Fault(j) /\ UNCHANGED <<mode, space, base, disturbed, fellBack>>
  BY DEF FetchFault, EmbedFault, StoreFault
<1>2. Finish(j, "failed") /\ faults' \in 0 .. MaxFaults
  BY <1>1, IngestAssumption DEF Fault, TypeOK
<1>3. collection' \in {0, Size["model"], Size["hash"]}
  BY VectorSizeTypes DEF TypeOK, FetchFault, EmbedFault, StoreFault, store
<1>4. points' \subseteq [page : Wanted, version : Versions, index : Nat]
  BY BatchTypes DEF TypeOK, FetchFault, EmbedFault, StoreFault, store
<1> QED
  BY <1>1, <1>2, <1>3, <1>4, FinishTypes DEF TypeOK, Ended

LEMMA TypeStep ==
  ASSUME TypeOK, [Next]_vars
  PROVE  TypeOK'
<1>1. ASSUME NEW j \in Jobs, Begin(j) PROVE TypeOK'
  BY <1>1 DEF Begin, TypeOK, Goto, Ended, space, store
<1>2. ASSUME NEW j \in Jobs, Work(j) \/ Fails(j), ~Begin(j) PROVE TypeOK'
  BY <1>2, FetchTypes, EmbedTypes, StoreTypes, FaultTypes DEF Work, Fails
<1>3. ASSUME NEW p \in Pages, Edit(p) PROVE TypeOK'
  <2>0. version \in [Pages -> 1 .. MaxEdits + 1] /\ MaxEdits \in Nat
    BY IngestAssumption DEF TypeOK, Versions
  <2>1. version' \in [Pages -> Versions]
    BY <1>3, <2>0 DEF Edit, Versions
  <2>2. disturbed' \in [Jobs -> BOOLEAN]
    BY <1>3 DEF Edit, TypeOK
  <2> QED
    BY <1>3, <2>1, <2>2 DEF Edit, TypeOK, run, store
<1>4. CASE UNCHANGED vars
  BY <1>4 DEF TypeOK, vars, space, run, store
<1> QED
  BY <1>1, <1>2, <1>3, <1>4 DEF Next

(* The type invariant of ConfluenceIngest: jobs hold pages of the wanted      *)
(* spaces only, and nothing else is stored.                                   *)
THEOREM TypeCorrect == Spec => []TypeOK
<1>1. Init => TypeOK
  <2>1. 1 \in Versions /\ 0 \in 0 .. MaxFaults
    BY IngestAssumption DEF Versions
  <2> SUFFICES ASSUME Init PROVE TypeOK
    OBVIOUS
  <2>2. version \in [Pages -> Versions] /\ base \in [Jobs -> [Pages -> Versions]]
    BY <2>1 DEF Init
  <2>3. todo \in [Jobs -> SUBSET Item] /\ built \in [Jobs -> SUBSET BuiltItem]
    BY DEF Init
  <2> QED
    BY <2>1, <2>2, <2>3 DEF Init, TypeOK, Ended
<1>2. TypeOK /\ [Next]_vars => TypeOK'
  BY TypeStep
<1> QED BY <1>1, <1>2, PTL DEF Spec

----------------------------------------------------------------------------
(* No part of a page.                                                         *)

(* The chunks of a text leave no character out.                               *)
LEMMA ChunksCover ==
  ASSUME NEW v \in Versions, NEW c \in 1 .. Length[v]
  PROVE  \E k \in ChunkIndexes(v) : k * Step < c /\ c <= k * Step + ChunkSize
<1>1. /\ Step \in Nat \ {0} /\ Step <= ChunkSize /\ ChunkSize \in Nat
      /\ Length[v] \in Nat /\ c \in Nat /\ 1 <= c /\ c <= Length[v]
  BY IngestAssumption DEF Step
<1>2. CASE Length[v] <= ChunkSize
  <2>1. 0 \in ChunkIndexes(v) /\ 0 * Step = 0
    BY <1>1, <1>2 DEF ChunkIndexes
  <2> QED BY <1>1, <1>2, <2>1
<1>3. CASE ~(Length[v] <= ChunkSize)
  <2> DEFINE k == (c - 1) \div Step
  <2>1. k \in Nat /\ k * Step <= c - 1 /\ c - 1 < k * Step + Step
    <3> HIDE DEF Step
    <3> QED BY <1>1
  <2>2. k <= k * Step
    <3> HIDE DEF k
    <3> QED BY <1>1, <2>1
  <2> HIDE DEF k
  <2>3. k * Step \in Int
    BY <1>1, <2>1
  <2>4. k * Step < Length[v] /\ k \in 0 .. Length[v]
    BY <1>1, <2>1, <2>2, <2>3
  <2>5. k \in ChunkIndexes(v)
    BY <1>3, <2>4 DEF ChunkIndexes
  <2> QED BY <1>1, <2>1, <2>3, <2>5
<1> QED BY <1>2, <1>3

(* A version is whole in any set of points that has all of its chunks.        *)
LEMMA AllChunksAreWhole ==
  ASSUME NEW p, NEW v \in Versions, PointsOf(p, v) \subseteq points'
  PROVE  Whole(p, v)'
<1> SUFFICES ASSUME NEW c \in 1 .. Length[v]
             PROVE  \E q \in points' : /\ q.page = p /\ q.version = v
                                       /\ q.index * Step < c /\ c <= q.index * Step + ChunkSize
  BY DEF Whole
<1>1. PICK k \in ChunkIndexes(v) : k * Step < c /\ c <= k * Step + ChunkSize
  BY ChunksCover
<1> DEFINE q == [page |-> p, version |-> v, index |-> k]
<1>2. q \in points'
  BY DEF PointsOf
<1>3. q.page = p /\ q.version = v /\ q.index = k
  OBVIOUS
<1> HIDE DEF q
<1> QED BY <1>1, <1>2, <1>3

LEMMA WholeStaysWhole ==
  ASSUME NEW p, NEW v, Whole(p, v), points \subseteq points'
  PROVE  Whole(p, v)'
BY DEF Whole

(* An upsert, answered or not, keeps the versions whole.                      *)
LEMMA UpsertKeepsWhole ==
  ASSUME TypeOK, NEW j \in Jobs, VersionsAreWhole, points' = points \union Batch(j)
  PROVE  VersionsAreWhole'
<1> SUFFICES ASSUME NEW q \in points' PROVE Whole(q.page, q.version)'
  BY DEF VersionsAreWhole
<1>1. CASE q \in points
  BY <1>1, WholeStaysWhole DEF VersionsAreWhole
<1>2. CASE q \in Batch(j)
  <2>1. PICK item \in built[j] : q \in PointsOf(item.page, item.version)
    BY <1>2 DEF Batch
  <2>2. q.page = item.page /\ q.version = item.version
    BY <2>1 DEF PointsOf
  <2>3. item.version \in Versions
    BY DEF TypeOK, BuiltItem
  <2>4. PointsOf(q.page, q.version) \subseteq points'
    BY <2>2 DEF Batch
  <2> QED BY <2>2, <2>3, <2>4, AllChunksAreWhole
<1> QED BY <1>1, <1>2

(* No other action touches the points.                                        *)
LEMMA OthersKeepPoints ==
  ASSUME NEW j, \/ Begin(j) \/ Fetch(j) \/ SkipEmpty(j) \/ Embed(j) \/ EndBuild(j) \/ Ensure(j) \/ Create(j)
                \/ FetchFault(j) \/ FallBack(j) \/ EmbedFault(j) \/ EnsureRefused(j)
  PROVE  points' = points
<1>1. CASE Begin(j) \/ Fetch(j) \/ SkipEmpty(j) \/ Embed(j) \/ EndBuild(j)
  BY <1>1 DEF Begin, Fetch, SkipEmpty, Embed, EndBuild, store
<1>2. CASE Ensure(j) \/ Create(j)
  BY <1>2 DEF Ensure, Create, store
<1>3. CASE FetchFault(j) \/ FallBack(j) \/ EmbedFault(j) \/ EnsureRefused(j)
  BY <1>3 DEF FetchFault, FallBack, EmbedFault, EnsureRefused, store
<1> QED BY <1>1, <1>2, <1>3

LEMMA StepKeepsWhole ==
  ASSUME TypeOK, VersionsAreWhole, [Next]_vars
  PROVE  VersionsAreWhole'
<1>1. CASE points' = points
  BY <1>1 DEF VersionsAreWhole, Whole
<1>2. ASSUME NEW j \in Jobs, Upsert(j) PROVE VersionsAreWhole'
  <2>1. CASE Fits(j)
    BY <1>2, <2>1, UpsertKeepsWhole DEF Upsert
  <2>2. CASE ~Fits(j)
    BY <1>1, <1>2, <2>2 DEF Upsert
  <2> QED BY <2>1, <2>2
<1>3. ASSUME NEW j \in Jobs, StoreFault(j) PROVE VersionsAreWhole'
  BY <1>1, <1>3, UpsertKeepsWhole DEF StoreFault, store
<1>4. ASSUME NEW j \in Jobs, Work(j) \/ Fails(j), ~Upsert(j), ~StoreFault(j) PROVE VersionsAreWhole'
  BY <1>1, <1>4, OthersKeepPoints DEF Work, Fails
<1>5. ASSUME NEW p \in Pages, Edit(p) PROVE VersionsAreWhole'
  BY <1>1, <1>5 DEF Edit, store
<1>6. CASE UNCHANGED vars
  BY <1>1, <1>6 DEF vars, store
<1> QED BY <1>2, <1>3, <1>4, <1>5, <1>6 DEF Next

(* Whatever jobs overlap, whatever requests fail before or after their effect *)
(* and however often a run is repeated, no part of a page's version is found  *)
(* without the rest (225-233, 247-282).                                       *)
THEOREM NoPartOfAPage == Spec => []VersionsAreWhole
<1>1. Init => VersionsAreWhole
  BY DEF Init, VersionsAreWhole
<1>2. TypeOK /\ VersionsAreWhole /\ [Next]_vars => VersionsAreWhole'
  BY StepKeepsWhole
<1> QED BY <1>1, <1>2, TypeCorrect, PTL DEF Spec
----------------------------------------------------------------------------
(* Nothing missing.                                                           *)

Held(items, p, v) == \E i \in items : i.page = p /\ i.version = v

(* How far a run that nobody disturbed has come: what it searched it holds;   *)
(* what it holds has been built, or has no text; what is built is stored.     *)
Covered(j) ==
  ~disturbed[j] =>
    /\ pc[j] = "fetch" =>
         /\ version = base[j]
         /\ \A i \in DOMAIN order : i <= start[j] /\ order[i] \in Wanted =>
              Held(todo[j], order[i], base[j][order[i]])
    /\ pc[j] = "embed" =>
         \A p \in Wanted :
           Held(todo[j], p, base[j][p]) \/ Held(built[j], p, base[j][p]) \/ Length[base[j][p]] = 0
    /\ pc[j] \in {"ensure", "create", "upsert"} =>
         \A p \in Wanted : Held(built[j], p, base[j][p]) \/ Length[base[j][p]] = 0
    /\ pc[j] = "succeeded" => \A p \in Wanted : Whole(p, base[j][p])

AtRest(j) == pc[j] \in Ended => start[j] = 0

CoverInv == \A j \in Jobs : Covered(j) /\ AtRest(j)

(* A job keeps what it has while others work, for nothing is deleted.         *)
LEMMA OthersKeepCovered ==
  ASSUME NEW k \in Jobs, Covered(k), AtRest(k), points \subseteq points',
         UNCHANGED <<version, order, pc[k], start[k], todo[k], built[k], base[k], disturbed[k]>>
  PROVE  Covered(k)' /\ AtRest(k)'
<1>1. \A p, v : Whole(p, v) => Whole(p, v)'
  BY DEF Whole
<1>2. AtRest(k)'
  BY DEF AtRest
<1>3. Covered(k)'
  BY <1>1 DEF Covered, Held
<1> QED BY <1>2, <1>3

LEMMA BeginCovers ==
  ASSUME TypeOK, CoverInv, NEW j \in Jobs, Begin(j)
  PROVE  Covered(j)' /\ AtRest(j)'
<1>1. /\ pc'[j] = "fetch" /\ start'[j] = 0 /\ base'[j] = version
      /\ order' = order /\ version' = version
  BY DEF Begin, TypeOK, Goto, CoverInv, AtRest, space
<1>2. \A i \in DOMAIN order : ~(i <= 0)
  BY IngestAssumption DEF TypeOK
<1> QED
  BY <1>1, <1>2 DEF Covered, AtRest, Ended

(* What is fetched holds every wanted page among the places returned.         *)
LEMMA FetchedHolds ==
  ASSUME TypeOK, NEW j \in Jobs, Covered(j), pc[j] = "fetch", ~disturbed[j],
         NEW i \in DOMAIN order, order[i] \in Wanted, i <= start[j] + PageLimit
  PROVE  Held(Fetched(j), order[i], base[j][order[i]])
<1>1. version = base[j]
  BY DEF Covered
<1>2. CASE i <= start[j]
  BY <1>2 DEF Covered, Held, Fetched
<1>3. CASE ~(i <= start[j])
  <2> DEFINE item == [at |-> i, page |-> order[i], version |-> version[order[i]]]
  <2>1. i \in Nat /\ start[j] \in Nat
    BY IngestAssumption DEF TypeOK
  <2>2. i \in {k \in Results(start[j]) : Matches(order[k])}
    BY <1>3, <2>1 DEF Results, Matches
  <2>3. item \in Fetched(j)
    BY <2>2 DEF Fetched
  <2> QED
    BY <1>1, <2>3 DEF Held
<1> QED BY <1>2, <1>3

LEMMA FetchCovers ==
  ASSUME TypeOK, CoverInv, NEW j \in Jobs, Fetch(j)
  PROVE  Covered(j)' /\ AtRest(j)'
<1>1. /\ pc[j] = "fetch" /\ Covered(j) /\ start[j] \in Nat /\ PageLimit \in Nat
      /\ UNCHANGED <<order, version, points, base, disturbed>>
  BY IngestAssumption DEF Fetch, CoverInv, TypeOK, space, store
<1>2. \A p \in Wanted : \E i \in DOMAIN order : order[i] = p
  BY IngestAssumption DEF TypeOK
<1>3. \A i \in DOMAIN order : i \in 1 .. Len(order) /\ Len(order) \in Nat
  BY IngestAssumption DEF TypeOK
<1>4. LastPage(start[j]) => \A i \in DOMAIN order : i <= start[j] + PageLimit
  BY <1>1, <1>3 DEF LastPage
<1>5. CASE ~LastPage(start[j])
  <2>1. pc'[j] = "fetch" /\ start'[j] = start[j] + PageLimit /\ todo'[j] = Fetched(j)
    BY <1>1, <1>5 DEF Fetch, TypeOK
  <2>2. AtRest(j)'
    BY <2>1 DEF AtRest, Ended
  <2>3. ~disturbed[j] => version = base[j]
    BY <1>1 DEF Covered
  <2>4. ~disturbed[j] => \A i \in DOMAIN order : i <= start[j] + PageLimit /\ order[i] \in Wanted =>
                           Held(Fetched(j), order[i], base[j][order[i]])
    BY <1>1, FetchedHolds
  <2>5. Covered(j)'
    BY <1>1, <2>1, <2>3, <2>4 DEF Covered, Held
  <2> QED BY <2>2, <2>5
<1>6. CASE LastPage(start[j])
  <2>1. ~disturbed[j] => \A p \in Wanted : Held(Fetched(j), p, base[j][p])
    BY <1>1, <1>2, <1>4, <1>6, FetchedHolds
  <2>2. CASE Fetched(j) # {}
    <3>1. pc'[j] = "embed" /\ start'[j] = 0 /\ todo'[j] = Fetched(j)
      BY <1>6, <2>2 DEF Fetch, TypeOK, Goto
    <3> QED
      BY <1>1, <2>1, <3>1 DEF Covered, AtRest, Held
  <2>3. CASE Fetched(j) = {}
    <3>1. pc'[j] = "succeeded" /\ start'[j] = 0
      BY <1>6, <2>3 DEF Fetch, Finish, TypeOK, Goto
    <3>2. ~disturbed[j] => Wanted = {}
      BY <2>1, <2>3 DEF Held
    <3> QED
      BY <1>1, <3>1, <3>2 DEF Covered, AtRest
  <2> QED BY <2>2, <2>3
<1> QED BY <1>5, <1>6

(* A page that is built or skipped is still accounted for.                    *)
LEMMA EmbedCovers ==
  ASSUME TypeOK, CoverInv, NEW j \in Jobs, SkipEmpty(j) \/ Embed(j) \/ FallBack(j)
  PROVE  Covered(j)' /\ AtRest(j)'
<1>1. /\ UNCHANGED <<order, version, points, base, disturbed, pc, start>>
      /\ pc[j] = "embed" /\ Covered(j)
  BY DEF SkipEmpty, Embed, FallBack, NextPage, space, store, CoverInv
<1>2. PICK item \in todo[j] :
        /\ todo'[j] = todo[j] \ {item} /\ built[j] \subseteq built'[j]
        /\ Held(built'[j], item.page, item.version) \/ Length[item.version] = 0
  <2>1. CASE SkipEmpty(j)
    <3>1. PICK item \in todo[j] : ~HasText(item) /\ todo' = [todo EXCEPT ![j] = @ \ {item}] /\ built' = built
      BY <2>1 DEF SkipEmpty
    <3>2. item.version \in Versions
      BY DEF TypeOK, Item
    <3>3. Length[item.version] = 0
      BY <3>1, <3>2, IngestAssumption DEF HasText
    <3> QED BY <3>1, <3>3 DEF TypeOK
  <2>2. CASE Embed(j) \/ FallBack(j)
    <3>1. PICK item \in todo[j], by \in {"model", "hash"} : Build(j, item, by)
      BY <2>2 DEF Embed, FallBack
    <3> DEFINE new == [at |-> item.at, page |-> item.page, version |-> item.version, by |-> by]
    <3>2. built'[j] = built[j] \union {new} /\ todo'[j] = todo[j] \ {item}
      BY <3>1 DEF Build, TypeOK
    <3>3. new.page = item.page /\ new.version = item.version
      OBVIOUS
    <3> HIDE DEF new
    <3> QED BY <3>2, <3>3 DEF Held
  <2> QED BY <2>1, <2>2
<1>3. ASSUME NEW p \in Wanted, ~disturbed[j]
      PROVE  Held(todo'[j], p, base[j][p]) \/ Held(built'[j], p, base[j][p]) \/ Length[base[j][p]] = 0
  BY <1>1, <1>2, <1>3 DEF Covered, Held
<1> QED
  BY <1>1, <1>3 DEF Covered, AtRest, Ended, Held

LEMMA StoreCovers ==
  ASSUME TypeOK, CoverInv, NEW j \in Jobs,
         EndBuild(j) \/ Ensure(j) \/ EnsureRefused(j) \/ Create(j) \/ Upsert(j)
  PROVE  Covered(j)' /\ AtRest(j)'
<1>1. UNCHANGED <<order, version, base, disturbed>> /\ Covered(j)
  BY DEF EndBuild, Ensure, EnsureRefused, Create, Upsert, space, CoverInv
<1>2. \A p \in Wanted : base[j][p] \in Versions /\ Length[base[j][p]] \in Nat
  BY IngestAssumption DEF TypeOK
<1>3. \A p \in Wanted : Length[base[j][p]] = 0 => Whole(p, base[j][p])'
  BY <1>1, <1>2 DEF Whole
<1>4. CASE EndBuild(j)
  <2>1. CASE built[j] = {}
    <3>1. pc[j] = "embed" /\ todo[j] = {} /\ pc'[j] = "succeeded" /\ start'[j] = 0
      BY <1>4, <2>1 DEF EndBuild, Finish, Goto, TypeOK
    <3>2. ~disturbed[j] => \A p \in Wanted : Length[base[j][p]] = 0
      BY <1>1, <2>1, <3>1 DEF Covered, Held
    <3> QED BY <1>1, <1>3, <3>1, <3>2 DEF Covered, AtRest
  <2>2. CASE built[j] # {}
    <3>1. /\ pc[j] = "embed" /\ todo[j] = {} /\ pc'[j] = "ensure" /\ UNCHANGED <<start, built>>
      BY <1>4, <2>2 DEF EndBuild, Goto, TypeOK
    <3> QED BY <1>1, <3>1 DEF Covered, AtRest, Ended, Held
  <2> QED BY <2>1, <2>2
<1>5. CASE Ensure(j) \/ EnsureRefused(j)
  <2>1. pc[j] = "ensure" /\ pc'[j] \in {"create", "upsert"} /\ UNCHANGED <<start, built>>
    BY <1>5 DEF Ensure, EnsureRefused, Goto, TypeOK
  <2> QED BY <1>1, <2>1 DEF Covered, AtRest, Ended, Held
<1>6. CASE Create(j)
  <2>1. CASE collection = 0
    <3>1. pc[j] = "create" /\ pc'[j] = "upsert" /\ UNCHANGED <<start, built>>
      BY <1>6, <2>1 DEF Create, Goto, TypeOK
    <3> QED BY <1>1, <3>1 DEF Covered, AtRest, Ended, Held
  <2>2. CASE collection # 0
    <3>1. pc'[j] = "failed" /\ start'[j] = 0
      BY <1>6, <2>2 DEF Create, Finish, Goto, TypeOK
    <3> QED BY <3>1 DEF Covered, AtRest
  <2> QED BY <2>1, <2>2
<1>7. CASE Upsert(j)
  <2>1. CASE Fits(j)
    <3>1. /\ pc[j] = "upsert" /\ pc'[j] = "succeeded" /\ start'[j] = 0
          /\ points' = points \union Batch(j)
      BY <1>7, <2>1 DEF Upsert, Finish, Goto, TypeOK
    <3>2. ASSUME NEW p \in Wanted, Held(built[j], p, base[j][p]) PROVE Whole(p, base[j][p])'
      <4>1. PointsOf(p, base[j][p]) \subseteq points'
        BY <3>1, <3>2 DEF Held, Batch
      <4> QED BY <1>1, <1>2, <4>1, AllChunksAreWhole
    <3> QED BY <1>1, <1>3, <3>1, <3>2 DEF Covered, AtRest
  <2>2. CASE ~Fits(j)
    <3>1. pc'[j] = "failed" /\ start'[j] = 0
      BY <1>7, <2>2 DEF Upsert, Finish, Goto, TypeOK
    <3> QED BY <3>1 DEF Covered, AtRest
  <2> QED BY <2>1, <2>2
<1> QED BY <1>4, <1>5, <1>6, <1>7

LEMMA FaultCovers ==
  ASSUME TypeOK, NEW j \in Jobs, FetchFault(j) \/ EmbedFault(j) \/ StoreFault(j)
  PROVE  Covered(j)' /\ AtRest(j)'
<1>1. pc'[j] = "failed" /\ start'[j] = 0
  BY DEF FetchFault, EmbedFault, StoreFault, Fault, Finish, Goto, TypeOK
<1> QED BY <1>1 DEF Covered, AtRest

(* What a step of one job leaves to the others.                               *)
LEMMA OtherJobs ==
  ASSUME TypeOK, NEW j \in Jobs, NEW k \in Jobs, k # j, Work(j) \/ Fails(j)
  PROVE  /\ UNCHANGED <<version, order, pc[k], start[k], todo[k], built[k], base[k], disturbed[k]>>
         /\ points \subseteq points'
<1> USE DEF TypeOK, Goto, Finish, space, store
<1>1. CASE Begin(j)
  BY <1>1 DEF Begin
<1>2. CASE Fetch(j)
  BY <1>2 DEF Fetch
<1>3. CASE SkipEmpty(j)
  BY <1>3 DEF SkipEmpty
<1>4. CASE Embed(j)
  BY <1>4 DEF Embed, Build
<1>5. CASE FallBack(j)
  BY <1>5 DEF FallBack, Build
<1>6. CASE EndBuild(j) \/ Ensure(j) \/ EnsureRefused(j)
  BY <1>6 DEF EndBuild, Ensure, EnsureRefused
<1>7. CASE Create(j)
  BY <1>7 DEF Create
<1>8. CASE Upsert(j)
  BY <1>8 DEF Upsert
<1>9. CASE FetchFault(j) \/ EmbedFault(j)
  BY <1>9 DEF FetchFault, EmbedFault, Fault
<1>10. CASE StoreFault(j)
  BY <1>10 DEF StoreFault, Fault
<1> QED
  BY <1>1, <1>2, <1>3, <1>4, <1>5, <1>6, <1>7, <1>8, <1>9, <1>10 DEF Work, Fails

LEMMA EditCovers ==
  ASSUME TypeOK, CoverInv, NEW p \in Pages, Edit(p), NEW k \in Jobs
  PROVE  Covered(k)' /\ AtRest(k)'
<1>1. UNCHANGED <<pc, start, todo, built, points, base>>
  BY DEF Edit, run, store
<1>2. disturbed'[k] = (disturbed[k] \/ pc[k] = "fetch")
  BY DEF Edit
<1>3. Covered(k) /\ AtRest(k)
  BY DEF CoverInv
<1>4. \A q, v : Whole(q, v)' = Whole(q, v)
  BY <1>1 DEF Whole
<1>5. Covered(k)'
  <2>1. CASE pc[k] = "fetch"
    BY <1>2, <2>1 DEF Covered
  <2>2. CASE pc[k] # "fetch" /\ disturbed[k]
    BY <1>2, <2>2 DEF Covered
  <2>3. CASE pc[k] # "fetch" /\ ~disturbed[k]
    BY <1>1, <1>3, <1>4, <2>3 DEF Covered, Held
  <2> QED BY <2>1, <2>2, <2>3
<1> QED BY <1>1, <1>3, <1>5 DEF AtRest

LEMMA CoverStep ==
  ASSUME TypeOK, CoverInv, [Next]_vars
  PROVE  CoverInv'
<1> SUFFICES ASSUME NEW k \in Jobs PROVE Covered(k)' /\ AtRest(k)'
  BY DEF CoverInv
<1>1. Covered(k) /\ AtRest(k)
  BY DEF CoverInv
<1>2. ASSUME NEW j \in Jobs, Work(j) \/ Fails(j) PROVE Covered(k)' /\ AtRest(k)'
  <2>1. CASE k # j
    BY <1>1, <1>2, <2>1, OtherJobs, OthersKeepCovered
  <2>2. CASE k = j
    BY <1>2, <2>2, BeginCovers, FetchCovers, EmbedCovers, StoreCovers, FaultCovers DEF Work, Fails
  <2> QED BY <2>1, <2>2
<1>3. ASSUME NEW p \in Pages, Edit(p) PROVE Covered(k)' /\ AtRest(k)'
  BY <1>3, EditCovers
<1>4. CASE UNCHANGED vars
  BY <1>1, <1>4, OthersKeepCovered DEF vars, space, run, store
<1> QED BY <1>2, <1>3, <1>4 DEF Next

(* A run that ends well after an undisturbed search has stored every page of  *)
(* the wanted spaces, whatever order they are listed in, whatever the limit   *)
(* of a page of results, and whatever other runs do meanwhile (110-134,       *)
(* 247-302).                                                                  *)
THEOREM SuccessIsComplete == Spec => []SuccessMeansIndexed
<1>1. Init => CoverInv
  <2> SUFFICES ASSUME Init, NEW j \in Jobs PROVE Covered(j) /\ AtRest(j)
    BY DEF CoverInv
  <2>1. pc[j] = "idle" /\ start[j] = 0
    BY DEF Init
  <2> QED BY <2>1 DEF Covered, AtRest
<1>2. TypeOK /\ CoverInv /\ [Next]_vars => CoverInv'
  BY CoverStep
<1>3. CoverInv => SuccessMeansIndexed
  BY DEF CoverInv, Covered, SuccessMeansIndexed
<1> QED BY <1>1, <1>2, <1>3, TypeCorrect, PTL DEF Spec
=============================================================================

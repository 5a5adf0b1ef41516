---------------------------- MODULE AnswersProofs ----------------------------
(* Proofs about the answers of the cluster's tools, for every value of the    *)
(* constants: the lists that are cut (Ranking, KubernetesQueries), what the   *)
(* dashboard shows of a result (ArgusContent), and the search of the          *)
(* documentation (RagSearch). The composition Answers takes the steps of each *)
(* specification and no others.                                               *)
EXTENDS Answers, FiniteSetTheorems, SequenceTheorems, TLAPS
----------------------------------------------------------------------------
(* Ranking: what a sort and a slice keep.                                     *)

(* What the orders of the sorts are: strict and total.                        *)
Orders(before, rows) ==
  /\ \A i \in rows : <<i, i>> \notin before
  /\ \A i, j \in rows : i = j \/ <<i, j>> \in before \/ <<j, i>> \in before
  /\ \A i, j, l \in rows : <<i, j>> \in before /\ <<j, l>> \in before => <<i, l>> \in before

LEMMA LeastNatural ==
  ASSUME NEW T, T \subseteq Nat, T # {}
  PROVE  \E n \in T : \A m \in T : n <= m
<1>1. PICK n \in T : \A m \in T : ~(<<m, n>> \in OpToRel(<, Nat))
  BY NatLessThanWellFounded, WFMin
<1>2. \A m \in T : ~(m < n)
  BY <1>1 DEF OpToRel
<1> QED BY <1>2

(* Induction over the natural numbers, for a set of them.                     *)
LEMMA CountingUp ==
  ASSUME NEW T, T \subseteq Nat, 0 \in T, \A n \in T : n + 1 \in T
  PROVE  T = Nat
<1> SUFFICES ASSUME Nat \ T # {} PROVE FALSE
  OBVIOUS
<1>1. PICK n \in Nat \ T : \A m \in Nat \ T : n <= m
  <2> DEFINE rest == Nat \ T
  <2>1. rest \subseteq Nat /\ rest # {}
    OBVIOUS
  <2> HIDE DEF rest
  <2>2. \E n \in rest : \A m \in rest : n <= m
    BY <2>1, LeastNatural
  <2> QED BY <2>2 DEF rest
<1>2. n # 0 /\ n - 1 \in Nat /\ n - 1 < n
  BY <1>1
<1>3. n - 1 \in T
  BY <1>1, <1>2
<1> QED BY <1>1, <1>3

LEMMA PlaceIsNatural ==
  ASSUME NEW rows, IsFiniteSet(rows), NEW before, NEW i
  PROVE  /\ IsFiniteSet({j \in rows : <<j, i>> \in before})
         /\ Place(rows, before, i) \in Nat
<1> DEFINE ahead == {j \in rows : <<j, i>> \in before}
<1>1. ahead \in SUBSET rows
  OBVIOUS
<1>2. IsFiniteSet(ahead)
  BY <1>1, FS_Subset
<1>3. Cardinality(ahead) \in Nat
  BY <1>2, FS_CardinalityType
<1> QED BY <1>2, <1>3 DEF Place

LEMMA PlaceGrows ==
  ASSUME NEW rows, IsFiniteSet(rows), NEW before, Orders(before, rows),
         NEW i \in rows, NEW j \in rows, <<i, j>> \in before
  PROVE  Place(rows, before, i) < Place(rows, before, j)
<1> DEFINE A == {l \in rows : <<l, i>> \in before}
           B == {l \in rows : <<l, j>> \in before}
<1>1. IsFiniteSet(A) /\ IsFiniteSet(B) /\ Cardinality(A) \in Nat /\ Cardinality(B) \in Nat
  BY PlaceIsNatural DEF Place
<1>2. i \notin A /\ A \union {i} \in SUBSET B
  BY DEF Orders
<1> HIDE DEF A, B
<1>3. Cardinality(A \union {i}) = Cardinality(A) + 1
  BY <1>1, <1>2, FS_AddElement
<1>4. Cardinality(A \union {i}) <= Cardinality(B)
  BY <1>1, <1>2, FS_Subset
<1>5. Cardinality(A) < Cardinality(B)
  BY <1>1, <1>3, <1>4
<1> QED BY <1>5 DEF Place, A, B

LEMMA SliceIsBounded ==
  ASSUME NEW n \in Nat, NEW k \in Int
  PROVE  SliceLength(n, k) \in 0 .. n
BY DEF SliceLength

(* Nothing that is left out comes before something that is kept.              *)
LEMMA KeptComesFirst ==
  ASSUME NEW rows, IsFiniteSet(rows), NEW before, Orders(before, rows), NEW k \in Int,
         NEW i \in rows \ Kept(rows, before, k), NEW j \in Kept(rows, before, k)
  PROVE  <<j, i>> \in before
<1>1. i \in rows /\ j \in rows /\ i # j
  BY DEF Kept
<1>2. SUFFICES ASSUME <<i, j>> \in before PROVE FALSE
  BY <1>1 DEF Orders
<1>3. Place(rows, before, i) < Place(rows, before, j)
  BY <1>1, <1>2, PlaceGrows
<1>4. /\ ~(Place(rows, before, i) < SliceLength(Cardinality(rows), k))
      /\ Place(rows, before, j) < SliceLength(Cardinality(rows), k)
  BY DEF Kept
<1>5. Place(rows, before, i) \in Nat /\ Place(rows, before, j) \in Nat
  BY PlaceIsNatural
<1>6. SliceLength(Cardinality(rows), k) \in Nat
  <2>1. Cardinality(rows) \in Nat
    BY FS_CardinalityType
  <2> QED BY <2>1, SliceIsBounded
<1> QED BY <1>3, <1>4, <1>5, <1>6

(* A limit that is large enough leaves nothing out.                           *)
LEMMA AllAreKept ==
  ASSUME NEW rows, IsFiniteSet(rows), NEW before, Orders(before, rows),
         NEW k \in Int, k >= Cardinality(rows)
  PROVE  Kept(rows, before, k) = rows
<1>1. Cardinality(rows) \in Nat
  BY FS_CardinalityType
<1>2. SliceLength(Cardinality(rows), k) = Cardinality(rows)
  BY <1>1 DEF SliceLength
<1>3. ASSUME NEW i \in rows PROVE Place(rows, before, i) < Cardinality(rows)
  <2> DEFINE ahead == {j \in rows : <<j, i>> \in before}
  <2>1. ahead \in SUBSET (rows \ {i})
    BY DEF Orders
  <2>2. IsFiniteSet(rows \ {i}) /\ Cardinality(rows \ {i}) = Cardinality(rows) - 1
    BY FS_RemoveElement
  <2>3. Cardinality(ahead) <= Cardinality(rows) - 1
    BY <2>1, <2>2, FS_Subset
  <2>4. Cardinality(ahead) \in Nat
    BY PlaceIsNatural DEF Place
  <2> QED BY <1>1, <2>3, <2>4 DEF Place
<1> QED BY <1>2, <1>3 DEF Kept

(* As many are kept as Python's slice has.                                    *)
LEMMA HowManyAreKept ==
  ASSUME NEW rows, IsFiniteSet(rows), NEW before, Orders(before, rows), NEW k \in Int
  PROVE  Cardinality(Kept(rows, before, k)) = SliceLength(Cardinality(rows), k)
<1> DEFINE kept == Kept(rows, before, k)
           n == SliceLength(Cardinality(rows), k)
           ahead == [i \in rows |-> {j \in rows : <<j, i>> \in before}]
           p == [i \in rows |-> Place(rows, before, i)]
<1>0. Cardinality(rows) \in Nat
  BY FS_CardinalityType
<1>1. n \in Nat /\ n <= Cardinality(rows)
  BY <1>0, SliceIsBounded
<1>2. kept \in SUBSET rows /\ \A i \in rows : i \in kept <=> p[i] < n
  BY DEF Kept
<1>3. IsFiniteSet(kept) /\ Cardinality(kept) \in Nat
  BY <1>2, FS_Subset, FS_CardinalityType
<1>4. \A i \in rows : IsFiniteSet(ahead[i]) /\ p[i] = Cardinality(ahead[i]) /\ p[i] \in Nat
  BY PlaceIsNatural DEF Place
<1>5. \A i, j \in rows : j \in ahead[i] => p[j] < p[i]
  BY PlaceGrows
<1>6. \A i, j \in rows : i = j \/ i \in ahead[j] \/ j \in ahead[i]
  BY DEF Orders
<1>7. \A i \in rows : ahead[i] \subseteq rows
  OBVIOUS
<1> HIDE DEF kept, n, p, ahead
<1>8. Cardinality(kept) <= n
  <2>1. CASE kept = {}
    BY <1>1, <2>1, FS_EmptySet
  <2>2. CASE kept # {}
    <3> DEFINE T == {n - p[i] : i \in kept}
    <3>1. T \subseteq Nat /\ T # {}
      BY <1>1, <1>2, <1>4, <2>2
    <3>2. PICK m \in T : \A l \in T : m <= l
      <4> HIDE DEF T
      <4> QED BY <3>1, LeastNatural
    <3>3. PICK j \in kept : m = n - p[j]
      OBVIOUS
    <3>4. ASSUME NEW i \in kept PROVE p[i] <= p[j]
      <4>1. n - p[i] \in T
        OBVIOUS
      <4>2. n - p[j] <= n - p[i]
        BY <3>2, <3>3, <4>1
      <4>3. p[i] \in Nat /\ p[j] \in Nat
        BY <1>2, <1>4
      <4> QED BY <1>1, <4>2, <4>3
    <3>5. ASSUME NEW i \in kept, i # j PROVE i \in ahead[j]
      BY <1>2, <1>4, <1>5, <1>6, <3>4, <3>5
    <3>6. kept \ {j} \in SUBSET ahead[j]
      BY <3>5
    <3>7. Cardinality(kept \ {j}) <= p[j]
      BY <1>2, <1>4, <3>6, FS_Subset
    <3>8. Cardinality(kept \ {j}) = Cardinality(kept) - 1
      BY <1>3, FS_RemoveElement
    <3>9. p[j] < n /\ p[j] \in Nat
      BY <1>2, <1>4
    <3> QED BY <1>1, <1>3, <3>7, <3>8, <3>9
  <2> QED BY <2>1, <2>2
<1>9. n <= Cardinality(kept)
  <2>1. CASE kept = rows
    BY <1>1, <2>1
  <2>2. CASE kept # rows
    <3> DEFINE T == {p[i] : i \in rows \ kept}
    <3>1. T \subseteq Nat /\ T # {}
      BY <1>2, <1>4, <2>2
    <3>2. PICK m \in T : \A l \in T : m <= l
      <4> HIDE DEF T
      <4> QED BY <3>1, LeastNatural
    <3>3. PICK i \in rows \ kept : m = p[i]
      OBVIOUS
    <3>4. ASSUME NEW j \in ahead[i] PROVE j \in kept
      <4>1. j \in rows /\ p[j] < p[i] /\ p[j] \in Nat /\ p[i] \in Nat
        BY <1>4, <1>5, <1>7
      <4>2. j \notin kept => p[i] <= p[j]
        BY <3>2, <3>3, <4>1
      <4> QED BY <4>1, <4>2
    <3>5. Cardinality(ahead[i]) <= Cardinality(kept)
      BY <1>3, <3>4, FS_Subset
    <3>6. ~(p[i] < n) /\ p[i] \in Nat /\ p[i] = Cardinality(ahead[i])
      BY <1>2, <1>4
    <3> QED BY <1>1, <1>3, <3>5, <3>6
  <2> QED BY <2>1, <2>2
<1> QED BY <1>1, <1>3, <1>8, <1>9 DEF kept, n

----------------------------------------------------------------------------
(* KubernetesQueries.                                                         *)

(* The sorts of the servers are such orders.                                  *)
LEMMA ByScoreOrders ==
  ASSUME NEW rows \in SUBSET Nat, NEW score, \A i \in rows : score[i] \in Int
  PROVE  Orders(ByScore(rows, score), rows)
BY DEF Orders, ByScore, Sorted

LEMMA InOrderOrders ==
  ASSUME NEW rows \in SUBSET Nat
  PROVE  Orders(InOrder(rows), rows)
BY DEF Orders, InOrder, Sorted

LEMMA Positions ==
  ASSUME NEW S, NEW s \in Seq(S), NEW rows \in SUBSET (DOMAIN s)
  PROVE  /\ IsFiniteSet(rows) /\ rows \in SUBSET Nat /\ Cardinality(rows) \in Nat
         /\ Cardinality(rows) <= Len(s)
<1>1. Len(s) \in Nat /\ DOMAIN s = 1 .. Len(s)
  OBVIOUS
<1>2. \A n \in Nat : IsFiniteSet(1 .. n) /\ Cardinality(1 .. n) = n
  <2> SUFFICES ASSUME NEW n \in Nat PROVE IsFiniteSet(1 .. n) /\ Cardinality(1 .. n) = n
    OBVIOUS
  <2>1. 1 \in Int /\ n \in Int
    OBVIOUS
  <2>2. IsFiniteSet(1 .. n) /\ Cardinality(1 .. n) = IF 1 > n THEN 0 ELSE n - 1 + 1
    BY <2>1, FS_Interval
  <2> QED BY <2>1, <2>2
<1> QED BY <1>1, <1>2, FS_Subset, FS_CardinalityType

LEMMA ByUrgencyOrders ==
  ASSUME NEW pods \in PodLists
  PROVE  Orders(ByUrgency(pods), Issues(pods))
<1>1. pods \in Seq([phase : STRING, restarts : Nat, waiting : BOOLEAN])
  BY KubeAssumption
<1>2. \A i \in Issues(pods) : i \in Nat /\ pods[i].restarts \in Nat /\ NotRunning(pods[i]) \in Nat
  <2> SUFFICES ASSUME NEW i \in Issues(pods)
               PROVE  i \in Nat /\ pods[i].restarts \in Nat /\ NotRunning(pods[i]) \in Nat
    OBVIOUS
  <2>1. i \in 1 .. Len(pods) /\ Len(pods) \in Nat
    BY <1>1 DEF Issues
  <2>2. pods[i] \in [phase : STRING, restarts : Nat, waiting : BOOLEAN]
    <3> HIDE DEF Issues
    <3> QED BY <1>1, <2>1, ElementOfSeq
  <2> QED BY <2>1, <2>2 DEF NotRunning
<1> DEFINE r == [i \in Issues(pods) |-> pods[i].restarts]
           n == [i \in Issues(pods) |-> NotRunning(pods[i])]
<1>3. \A i, j \in Issues(pods) :
        MoreUrgent(pods, i, j) <=> n[i] > n[j] \/ (n[i] = n[j] /\ r[i] > r[j])
  BY DEF MoreUrgent
<1>4. \A i \in Issues(pods) : i \in Nat /\ r[i] \in Nat /\ n[i] \in Nat
  BY <1>2
<1>5. \A i, j \in Issues(pods) : <<i, j>> \in ByUrgency(pods) <=>
        MoreUrgent(pods, i, j) \/ (~MoreUrgent(pods, j, i) /\ i < j)
  BY DEF ByUrgency, Sorted
<1> HIDE DEF r, n
<1>6. \A i, j \in Issues(pods) : <<i, j>> \in ByUrgency(pods) <=>
        n[i] > n[j] \/ (n[i] = n[j] /\ (r[i] > r[j] \/ (r[i] = r[j] /\ i < j)))
  <2> SUFFICES ASSUME NEW i \in Issues(pods), NEW j \in Issues(pods)
               PROVE  <<i, j>> \in ByUrgency(pods) <=>
                        n[i] > n[j] \/ (n[i] = n[j] /\ (r[i] > r[j] \/ (r[i] = r[j] /\ i < j)))
    OBVIOUS
  <2>1. /\ i \in Nat /\ j \in Nat /\ r[i] \in Nat /\ r[j] \in Nat /\ n[i] \in Nat /\ n[j] \in Nat
        /\ MoreUrgent(pods, i, j) <=> n[i] > n[j] \/ (n[i] = n[j] /\ r[i] > r[j])
        /\ MoreUrgent(pods, j, i) <=> n[j] > n[i] \/ (n[j] = n[i] /\ r[j] > r[i])
    BY <1>3, <1>4
  <2>2. <<i, j>> \in ByUrgency(pods) <=> MoreUrgent(pods, i, j) \/ (~MoreUrgent(pods, j, i) /\ i < j)
    BY <1>5
  <2> QED BY <2>1, <2>2
<1> QED BY <1>4, <1>6 DEF Orders

----------------------------------------------------------------------------
(* What a call of the Kubernetes server has read are answers of its requests. *)
Listings == NodeLists \union PodLists \union EventLists \union MetricLists \union SampleLists

ReadOK ==
  /\ query.read \in Seq(Listings)
  /\ query.at \in {"idle", "reading", "done", "raised"} /\ query.k \in Int
  /\ query.at \in {"reading", "done"} =>
       /\ query.tool \in DOMAIN Requests
       /\ \A n \in 1 .. Len(query.read) : query.read[n] \in Requests[query.tool][n]
  /\ query.at = "reading" => Len(query.read) < Len(Requests[query.tool])
  /\ query.at = "done" => Len(query.read) = Len(Requests[query.tool])

LEMMA RequestsOfTools ==
  /\ DOMAIN Requests = {"health", "issues", "pressure", "usage", "storage", "talkers"}
  /\ Requests["health"] = <<NodeLists, PodLists>>
  /\ Requests["issues"] = <<PodLists, EventLists>>
  /\ Requests["usage"] = <<MetricLists>>
  /\ Requests["storage"] = <<SampleLists, SampleLists, SampleLists>>
  /\ \A tool \in DOMAIN Requests :
       /\ Len(Requests[tool]) \in Nat /\ 0 < Len(Requests[tool])
       /\ \A n \in 1 .. Len(Requests[tool]) : Requests[tool][n] \subseteq Listings
<1>1. /\ DOMAIN Requests = {"health", "issues", "pressure", "usage", "storage", "talkers"}
      /\ Requests["health"] = <<NodeLists, PodLists>>
      /\ Requests["issues"] = <<PodLists, EventLists>>
      /\ Requests["pressure"] = <<NodeLists>>
      /\ Requests["usage"] = <<MetricLists>>
      /\ Requests["storage"] = <<SampleLists, SampleLists, SampleLists>>
      /\ Requests["talkers"] = <<SampleLists>>
  BY DEF Requests
<1>2. /\ Len(Requests["health"]) = 2 /\ Len(Requests["issues"]) = 2 /\ Len(Requests["pressure"]) = 1
      /\ Len(Requests["usage"]) = 1 /\ Len(Requests["storage"]) = 3 /\ Len(Requests["talkers"]) = 1
  BY <1>1
<1>3. /\ \A n \in 1 .. 2 : Requests["health"][n] \subseteq Listings /\ Requests["issues"][n] \subseteq Listings
      /\ Requests["pressure"][1] \subseteq Listings /\ Requests["usage"][1] \subseteq Listings
      /\ \A n \in 1 .. 3 : Requests["storage"][n] \subseteq Listings
      /\ Requests["talkers"][1] \subseteq Listings
  BY <1>1 DEF Listings
<1>4. ASSUME NEW tool \in DOMAIN Requests
      PROVE  /\ Len(Requests[tool]) \in Nat /\ 0 < Len(Requests[tool])
             /\ \A n \in 1 .. Len(Requests[tool]) : Requests[tool][n] \subseteq Listings
  BY <1>1, <1>2, <1>3
<1> QED BY <1>1, <1>4

LEMMA ReadStep ==
  ASSUME ReadOK, [KubeNext]_query
  PROVE  ReadOK'
<1>1. ASSUME NEW tool \in DOMAIN Requests, NEW k \in Ks, Ask(tool, k)
      PROVE  ReadOK'
  <2>1. query' = [tool |-> tool, k |-> k, read |-> <<>>, at |-> "reading"]
    BY <1>1 DEF Ask
  <2>2. 0 < Len(Requests[tool]) /\ k \in Int /\ <<>> \in Seq(Listings)
    BY RequestsOfTools, KubeAssumption
  <2>3. /\ query'.at = "reading" /\ query'.tool = tool /\ query'.k = k /\ query'.read = <<>>
        /\ Len(query'.read) = 0 /\ DOMAIN query'.read = {} /\ 1 .. 0 = {}
    BY <2>1
  <2>4. \A m \in 1 .. Len(query'.read) : FALSE
    BY <2>3
  <2>5. Requests' = Requests
    BY DEF Requests
  <2> QED BY <2>2, <2>3, <2>4, <2>5 DEF ReadOK
<1>2. CASE Read
  <2> DEFINE n == Len(query.read) + 1
             all == Requests[query.tool]
  <2>1. /\ query.at = "reading" /\ query.tool \in DOMAIN Requests /\ query.k \in Int
        /\ query.read \in Seq(Listings) /\ Len(query.read) \in Nat
        /\ \A m \in 1 .. Len(query.read) : query.read[m] \in all[m]
        /\ Len(query.read) < Len(all) /\ Len(all) \in Nat
    BY <1>2, RequestsOfTools DEF Read, ReadOK
  <2>2. PICK list \in all[n] :
          query' = [query EXCEPT !.read = Append(@, list), !.at = IF n = Len(all) THEN "done" ELSE @]
    BY <1>2 DEF Read
  <2>3. Requests' = Requests
    BY DEF Requests
  <2> DEFINE read == Append(query.read, list)
  <2>4. /\ query'.k = query.k /\ query'.tool = query.tool /\ query'.read = read
        /\ query'.at = IF n = Len(all) THEN "done" ELSE "reading"
    BY <2>1, <2>2
  <2>5. /\ read \in Seq(Listings) /\ Len(read) = n /\ read[n] = list
        /\ \A m \in 1 .. Len(query.read) : read[m] = query.read[m]
    <3>1. n \in 1 .. Len(all)
      BY <2>1
    <3>2. list \in Listings
      BY <2>1, <2>2, <3>1, RequestsOfTools
    <3> QED BY <2>1, <3>2, AppendProperties
  <2>6. \A m \in 1 .. n : read[m] \in all[m]
    BY <2>1, <2>5
  <2> HIDE DEF read
  <2> QED BY <2>1, <2>3, <2>4, <2>5, <2>6 DEF ReadOK
<1>3. CASE QueryRaises
  <2>1. query'.at = "raised" /\ query'.k = query.k /\ query'.read = query.read
    BY <1>3 DEF QueryRaises, ReadOK
  <2> QED BY <2>1 DEF ReadOK
<1>4. CASE UNCHANGED query
  BY <1>4 DEF ReadOK
<1> QED BY <1>1, <1>2, <1>3, <1>4 DEF KubeNext

LEMMA ReadAlways == KubeSpec => []ReadOK
<1>1. KubeInit => ReadOK
  BY DEF KubeInit, NoQuery, ReadOK
<1>2. ReadOK /\ [KubeNext]_query => ReadOK'
  BY ReadStep
<1> QED BY <1>1, <1>2, PTL DEF KubeSpec

(* What the calls that cut or compare something have read.                    *)
LEMMA AnsweredLists ==
  ASSUME ReadOK
  PROVE  /\ Answered("issues") => query.read[1] \in PodLists /\ query.read[2] \in EventLists
         /\ Answered("storage") => query.read[2] \in SampleLists
         /\ Answered("health") => query.read[2] \in PodLists
         /\ Answered("usage") => query.read[1] \in MetricLists
         /\ query.k \in Int
<1>1. ASSUME NEW tool \in DOMAIN Requests, Answered(tool), NEW n \in 1 .. Len(Requests[tool])
      PROVE  query.read[n] \in Requests[tool][n]
  BY <1>1 DEF ReadOK, Answered
<1>2. /\ Len(Requests["issues"]) = 2 /\ Len(Requests["storage"]) = 3 /\ Len(Requests["health"]) = 2
      /\ Len(Requests["usage"]) = 1 /\ Requests["usage"][1] = MetricLists
      /\ Requests["issues"][1] = PodLists /\ Requests["issues"][2] = EventLists
      /\ Requests["storage"][2] = SampleLists /\ Requests["health"][2] = PodLists
      /\ {"issues", "storage", "health", "usage"} \subseteq DOMAIN Requests
  BY RequestsOfTools
<1>3. query.k \in Int
  BY DEF ReadOK
<1> QED BY <1>1, <1>2, <1>3

(* A cut of rows that are sorted by a score, or by the urgency of pods.       *)
LEMMA CutByScore ==
  ASSUME NEW S, NEW s \in Seq(S), NEW rows \in SUBSET (DOMAIN s), query.k \in Int,
         NEW score, \A i \in rows : score[i] \in Int,
         NEW k \in Int, k >= query.k
  PROVE  LET shown == Kept(rows, ByScore(rows, score), k)
         IN /\ \A i \in rows \ shown, j \in shown : score[j] >= score[i]
            /\ query.k >= Cardinality(rows) => shown = rows
<1> DEFINE before == ByScore(rows, score)
           shown == Kept(rows, before, k)
<1>1. IsFiniteSet(rows) /\ rows \in SUBSET Nat /\ Cardinality(rows) \in Nat
  BY Positions
<1>2. Orders(before, rows)
  BY <1>1, ByScoreOrders
<1>3. \A i, j \in rows : <<j, i>> \in before => score[j] >= score[i]
  BY DEF ByScore, Sorted
<1> HIDE DEF before
<1>4. \A i \in rows \ shown, j \in shown : <<j, i>> \in before
  BY <1>1, <1>2, KeptComesFirst
<1>5. shown \subseteq rows
  BY DEF Kept
<1>6. query.k >= Cardinality(rows) => shown = rows
  <2> SUFFICES ASSUME query.k >= Cardinality(rows) PROVE shown = rows
    OBVIOUS
  <2>1. k >= Cardinality(rows)
    BY <1>1
  <2> QED BY <1>1, <1>2, <2>1, AllAreKept
<1> QED BY <1>3, <1>4, <1>5, <1>6 DEF before

(* For every cluster and every limit a model may choose: no pod that does not *)
(* run is cut off for one that runs, no warning for an older one, and no      *)
(* namespace for one with less storage in use (get_cluster_issues,            *)
(* get_recent_warnings and get_storage_usage, kubernetes-mcp-server.py).      *)
THEOREM IssuesWorstFirst == KubeSpec => []WorstFirst
<1>1. ReadOK => WorstFirst
  <2> SUFFICES ASSUME ReadOK PROVE WorstFirst
    OBVIOUS
  <2>1. ASSUME Answered("issues")
        PROVE  CutAtTheEnd(Issues(query.read[1]), ReportedIssues(query.read[1], query.k),
                 LAMBDA i, j : query.read[1][i].phase # "Running" /\ query.read[1][j].phase = "Running")
    <3> DEFINE pods == query.read[1]
               rows == Issues(pods)
               shown == ReportedIssues(pods, query.k)
    <3>1. pods \in PodLists /\ query.k \in Int
      BY <2>1, AnsweredLists
    <3>2. pods \in Seq([phase : STRING, restarts : Nat, waiting : BOOLEAN]) /\ rows \in SUBSET (DOMAIN pods)
      BY <3>1, KubeAssumption DEF Issues
    <3>3. IsFiniteSet(rows) /\ Orders(ByUrgency(pods), rows)
      BY <3>1, <3>2, Positions, ByUrgencyOrders
    <3>4. ASSUME NEW i \in rows \ shown, NEW j \in shown, pods[i].phase # "Running", pods[j].phase = "Running"
          PROVE  FALSE
      <4>1. <<j, i>> \in ByUrgency(pods)
        BY <3>1, <3>3, KeptComesFirst DEF ReportedIssues
      <4>2. NotRunning(pods[i]) = 1 /\ NotRunning(pods[j]) = 0
        BY <3>4 DEF NotRunning
      <4> QED BY <4>1, <4>2 DEF ByUrgency, Sorted, MoreUrgent
    <3>5. query.k >= Cardinality(rows) => shown = rows
      BY <3>1, <3>3, AllAreKept DEF ReportedIssues
    <3> QED BY <3>4, <3>5 DEF CutAtTheEnd
  <2>2. ASSUME Answered("issues")
        PROVE  CutAtTheEnd(Warnings(query.read[2]), ReportedWarnings(query.read[2], query.k),
                 LAMBDA i, j : query.read[2][i].stamp > query.read[2][j].stamp)
    <3> DEFINE events == query.read[2]
               rows == Warnings(events)
               stamps == [i \in DOMAIN events |-> events[i].stamp]
    <3>1. events \in EventLists /\ query.k \in Int
      BY <2>2, AnsweredLists
    <3>2. events \in Seq([warning : BOOLEAN, stamp : Nat]) /\ rows \in SUBSET (DOMAIN events)
      BY <3>1, KubeAssumption DEF Warnings
    <3>3. \A i \in rows : stamps[i] = events[i].stamp /\ stamps[i] \in Int
      <4> SUFFICES ASSUME NEW i \in DOMAIN events PROVE events[i].stamp \in Int
        BY <3>2
      <4>1. events[i] \in [warning : BOOLEAN, stamp : Nat]
        <5>1. i \in 1 .. Len(events)
          BY <3>2
        <5> HIDE DEF events
        <5> QED BY <3>2, <5>1, ElementOfSeq
      <4> QED BY <4>1
    <3> HIDE DEF stamps, rows
    <3>4. LET shown == Kept(rows, ByScore(rows, stamps), query.k)
          IN /\ \A i \in rows \ shown, j \in shown : stamps[j] >= stamps[i]
             /\ query.k >= Cardinality(rows) => shown = rows
      BY <3>1, <3>2, <3>3, CutByScore
    <3>5. ReportedWarnings(events, query.k) = Kept(rows, ByScore(rows, stamps), query.k)
      BY DEF ReportedWarnings, rows, stamps
    <3>6. Kept(rows, ByScore(rows, stamps), query.k) \subseteq rows
      BY DEF Kept
    <3> QED BY <3>3, <3>4, <3>5, <3>6 DEF CutAtTheEnd, rows
  <2>3. ASSUME Answered("storage")
        PROVE  CutAtTheEnd(DOMAIN query.read[2], ReportedNamespaces(query.read[2], query.k),
                 LAMBDA i, j : query.read[2][i] > query.read[2][j])
    <3> DEFINE samples == query.read[2]
    <3>1. samples \in Seq(Int) /\ query.k \in Int
      BY <2>3, AnsweredLists, KubeAssumption
    <3>2. TopK(query.k) \in Int /\ TopK(query.k) >= query.k
      BY <3>1 DEF TopK
    <3>3. \A i \in DOMAIN samples : samples[i] \in Int
      BY <3>1, ElementOfSeq
    <3>4. LET shown == Kept(DOMAIN samples, ByScore(DOMAIN samples, samples), TopK(query.k))
          IN /\ \A i \in DOMAIN samples \ shown, j \in shown : samples[j] >= samples[i]
             /\ query.k >= Cardinality(DOMAIN samples) => shown = DOMAIN samples
      BY <3>1, <3>2, <3>3, CutByScore
    <3>5. ReportedNamespaces(samples, query.k) \subseteq DOMAIN samples
      BY DEF ReportedNamespaces, Kept
    <3> QED BY <3>3, <3>4, <3>5 DEF CutAtTheEnd, ReportedNamespaces
  <2> QED BY <2>1, <2>2, <2>3 DEF WorstFirst
<1> QED BY <1>1, ReadAlways, PTL

----------------------------------------------------------------------------
(* Sums over a set. MapThenSumSet adds up by a recursive function on the      *)
(* subsets, and such a function is whatever satisfies its equation: that one  *)
(* does is shown for ever larger subsets. Given one, its values are numbers.  *)
Pick(s) == CHOOSE x \in s : TRUE
Fewer(s) == s \ {Pick(s)}
SumStep(a, g, s) == IF s = {} THEN 0 ELSE a[Pick(s)] + g[Fewer(s)]

SumFrom(a, g, S) == [s \in SUBSET S |-> SumStep(a, g, s)]

LEMMA PickOne ==
  ASSUME NEW S, IsFiniteSet(S), NEW s \in SUBSET S, s # {}
  PROVE  /\ Pick(s) \in s /\ Fewer(s) \in SUBSET S
         /\ Cardinality(s) \in Nat /\ Cardinality(Fewer(s)) = Cardinality(s) - 1
         /\ Cardinality(Fewer(s)) \in Nat
<1>1. Pick(s) \in s
  BY DEF Pick
<1>2. IsFiniteSet(s)
  BY FS_Subset
<1>3. Cardinality(s) \in Nat /\ Cardinality(Fewer(s)) = Cardinality(s) - 1 /\ IsFiniteSet(Fewer(s))
  BY <1>1, <1>2, FS_RemoveElement, FS_CardinalityType DEF Fewer
<1>4. Cardinality(Fewer(s)) \in Nat
  BY <1>3, FS_CardinalityType
<1> QED BY <1>1, <1>3, <1>4 DEF Fewer

LEMMA CardinalityZero ==
  ASSUME NEW S, IsFiniteSet(S), NEW s \in SUBSET S
  PROVE  IsFiniteSet(s) /\ Cardinality(s) \in Nat /\ (Cardinality(s) = 0 <=> s = {})
  BY FS_Subset, FS_EmptySet, FS_CardinalityType

(* The function by which a sum over a set is computed exists, *)
LEMMA SumExists ==
  ASSUME NEW S, IsFiniteSet(S), NEW a, \A x \in S : a[x] \in Nat
  PROVE  \E g : g = SumFrom(a, g, S)
<1> DEFINE UpTo(n, g) == \A s \in SUBSET S : Cardinality(s) <= n => g[s] = SumStep(a, g, s)
           T == {n \in Nat : \E g \in [SUBSET S -> Nat] : UpTo(n, g)}
<1>1. 0 \in T
  <2> DEFINE g == [s \in SUBSET S |-> 0]
  <2>1. UpTo(0, g)
    BY CardinalityZero DEF SumStep
  <2> QED BY <2>1
<1>2. ASSUME NEW n \in T PROVE n + 1 \in T
  <2>1. n \in Nat
    OBVIOUS
  <2>2. PICK g \in [SUBSET S -> Nat] : UpTo(n, g)
    OBVIOUS
  <2> DEFINE h == [s \in SUBSET S |-> SumStep(a, g, s)]
  <2>3. h \in [SUBSET S -> Nat]
    <3> SUFFICES ASSUME NEW s \in SUBSET S PROVE SumStep(a, g, s) \in Nat
      OBVIOUS
    <3>1. CASE s = {}
      BY <3>1 DEF SumStep
    <3>2. CASE s # {}
      BY <3>2, PickOne DEF SumStep
    <3> QED BY <3>1, <3>2
  <2>4. ASSUME NEW s \in SUBSET S, Cardinality(s) <= n + 1
        PROVE  SumStep(a, g, s) = SumStep(a, h, s)
    <3>1. CASE s = {}
      BY <3>1 DEF SumStep
    <3>2. CASE s # {}
      <4>1. Fewer(s) \in SUBSET S /\ Cardinality(Fewer(s)) <= n
        BY <2>1, <2>4, <3>2, PickOne
      <4>2. g[Fewer(s)] = SumStep(a, g, Fewer(s))
        BY <2>2, <4>1
      <4>3. h[Fewer(s)] = g[Fewer(s)]
        BY <4>1, <4>2
      <4> QED BY <3>2, <4>3 DEF SumStep
    <3> QED BY <3>1, <3>2
  <2>5. UpTo(n + 1, h)
    <3> SUFFICES ASSUME NEW s \in SUBSET S, Cardinality(s) <= n + 1
                 PROVE  h[s] = SumStep(a, h, s)
      OBVIOUS
    <3>1. h[s] = SumStep(a, g, s)
      OBVIOUS
    <3> QED BY <2>4, <3>1
  <2> HIDE DEF h, UpTo
  <2>6. \E f \in [SUBSET S -> Nat] : UpTo(n + 1, f)
    BY <2>3, <2>5
  <2>7. n + 1 \in Nat
    BY <2>1
  <2> QED BY <2>6, <2>7
<1>3. T = Nat
  <2>1. T \subseteq Nat
    OBVIOUS
  <2> HIDE DEF T
  <2> QED BY <1>1, <1>2, <2>1, CountingUp
<1>4. PICK g \in [SUBSET S -> Nat] : UpTo(Cardinality(S), g)
  BY <1>3, FS_CardinalityType
<1>5. ASSUME NEW s \in SUBSET S PROVE g[s] = SumStep(a, g, s)
  <2>1. Cardinality(s) <= Cardinality(S)
    BY FS_Subset
  <2> QED BY <1>4, <2>1
<1>6. g = [s \in SUBSET S |-> SumStep(a, g, s)]
  BY <1>5
<1> QED BY <1>6, Zenon DEF SumFrom

(* and its values are natural numbers.                                        *)
LEMMA SumIsNatural ==
  ASSUME NEW S, IsFiniteSet(S), NEW a, \A x \in S : a[x] \in Nat,
         NEW g, g = SumFrom(a, g, S)
  PROVE  g[S] \in Nat
<1> DEFINE P(n) == \A s \in SUBSET S : Cardinality(s) = n => g[s] \in Nat
           T == {n \in Nat : P(n)}
<1>0. ASSUME NEW s \in SUBSET S PROVE g[s] = SumStep(a, g, s)
  <2> DEFINE f == [t \in SUBSET S |-> SumStep(a, g, t)]
  <2>1. f[s] = SumStep(a, g, s)
    OBVIOUS
  <2>2. g = f
    BY DEF SumFrom
  <2> HIDE DEF f
  <2> QED BY <2>1, <2>2, Zenon
<1>1. P(0)
  <2> SUFFICES ASSUME NEW s \in SUBSET S, Cardinality(s) = 0 PROVE g[s] \in Nat
    OBVIOUS
  <2>1. s = {}
    BY CardinalityZero
  <2>2. SumStep(a, g, s) = 0
    BY <2>1 DEF SumStep
  <2> QED BY <1>0, <2>2
<1>2. ASSUME NEW n \in Nat, P(n) PROVE P(n + 1)
  <2> SUFFICES ASSUME NEW s \in SUBSET S, Cardinality(s) = n + 1 PROVE g[s] \in Nat
    OBVIOUS
  <2>1. s # {}
    BY CardinalityZero
  <2>2. Pick(s) \in S /\ Fewer(s) \in SUBSET S /\ Cardinality(Fewer(s)) = n
    BY <2>1, PickOne
  <2>3. g[s] = a[Pick(s)] + g[Fewer(s)]
    BY <1>0, <2>1 DEF SumStep
  <2>4. g[Fewer(s)] \in Nat
    BY <1>2, <2>2
  <2>5. a[Pick(s)] \in Nat
    BY <2>2
  <2> QED BY <2>3, <2>4, <2>5
<1> HIDE DEF P
<1>3. T = Nat
  <2>1. T \subseteq Nat /\ 0 \in T /\ \A n \in T : n + 1 \in T
    BY <1>1, <1>2
  <2> HIDE DEF T
  <2> QED BY <2>1, CountingUp
<1>4. P(Cardinality(S))
  BY <1>3, FS_CardinalityType
<1> QED BY <1>4 DEF P

LEMMA CpuIsNatural ==
  ASSUME NEW metrics, NEW i, IsFiniteSet(Of(metrics, i)),
         \A j \in Of(metrics, i) : metrics[j].cpu \in Nat
  PROVE  Cpu(metrics, i) \in Nat
<1> DEFINE S == Of(metrics, i)
           a == [j \in S |-> metrics[j].cpu]
           F(g) == [s \in SUBSET S |-> IF s = {} THEN 0 ELSE
                                       metrics[CHOOSE x \in s : TRUE].cpu + g[s \ {CHOOSE x \in s : TRUE}]]
           sum == CHOOSE g : g = F(g)
<1>1. Cpu(metrics, i) = sum[S]
  BY Zenon DEF Cpu, MapThenSumSet, MapThenFoldSet
<1>2. ASSUME NEW g PROVE F(g) = SumFrom(a, g, S)
  <2> SUFFICES ASSUME NEW s \in SUBSET S
               PROVE  F(g)[s] = SumStep(a, g, s)
    BY Zenon DEF SumFrom
  <2>1. CASE s = {}
    BY <2>1 DEF SumStep
  <2>2. CASE s # {}
    <3>1. Pick(s) \in S
      BY <2>2, PickOne
    <3>2. a[Pick(s)] = metrics[Pick(s)].cpu
      BY <3>1
    <3> QED BY <2>2, <3>2 DEF SumStep, Pick, Fewer
  <2> QED BY <2>1, <2>2
<1>3. \A x \in S : a[x] \in Nat
  OBVIOUS
<1> HIDE DEF a, F
<1>4. \E g : g = F(g)
  <2>0. IsFiniteSet(S)
    OBVIOUS
  <2> HIDE DEF S
  <2>1. PICK g : g = SumFrom(a, g, S)
    BY <1>3, <2>0, SumExists
  <2>2. g = F(g)
    BY <1>2, <2>1, Zenon
  <2> QED BY <2>2
<1>5. sum = F(sum)
  BY <1>4, Zenon
<1> HIDE DEF sum
<1>6. sum = SumFrom(a, sum, S)
  BY <1>2, <1>5, Zenon
<1>7. sum[S] \in Nat
  <2> HIDE DEF S
  <2> QED BY <1>3, <1>6, SumIsNatural DEF S
<1> QED BY <1>1, <1>7

LEMMA MemoryIsNatural ==
  ASSUME NEW metrics, NEW i, IsFiniteSet(Of(metrics, i)),
         \A j \in Of(metrics, i) : metrics[j].memory \in Nat
  PROVE  Memory(metrics, i) \in Nat
<1> DEFINE S == Of(metrics, i)
           a == [j \in S |-> metrics[j].memory]
           F(g) == [s \in SUBSET S |-> IF s = {} THEN 0 ELSE
                                       metrics[CHOOSE x \in s : TRUE].memory + g[s \ {CHOOSE x \in s : TRUE}]]
           sum == CHOOSE g : g = F(g)
<1>1. Memory(metrics, i) = sum[S]
  BY Zenon DEF Memory, MapThenSumSet, MapThenFoldSet
<1>2. ASSUME NEW g PROVE F(g) = SumFrom(a, g, S)
  <2> SUFFICES ASSUME NEW s \in SUBSET S
               PROVE  F(g)[s] = SumStep(a, g, s)
    BY Zenon DEF SumFrom
  <2>1. CASE s = {}
    BY <2>1 DEF SumStep
  <2>2. CASE s # {}
    <3>1. Pick(s) \in S
      BY <2>2, PickOne
    <3>2. a[Pick(s)] = metrics[Pick(s)].memory
      BY <3>1
    <3> QED BY <2>2, <3>2 DEF SumStep, Pick, Fewer
  <2> QED BY <2>1, <2>2
<1>3. \A x \in S : a[x] \in Nat
  OBVIOUS
<1> HIDE DEF a, F
<1>4. \E g : g = F(g)
  <2>0. IsFiniteSet(S)
    OBVIOUS
  <2> HIDE DEF S
  <2>1. PICK g : g = SumFrom(a, g, S)
    BY <1>3, <2>0, SumExists
  <2>2. g = F(g)
    BY <1>2, <2>1, Zenon
  <2> QED BY <2>2
<1>5. sum = F(sum)
  BY <1>4, Zenon
<1> HIDE DEF sum
<1>6. sum = SumFrom(a, sum, S)
  BY <1>2, <1>5, Zenon
<1>7. sum[S] \in Nat
  <2> HIDE DEF S
  <2> QED BY <1>3, <1>6, SumIsNatural DEF S
<1> QED BY <1>1, <1>7

(* The namespaces, and what their containers use together.                    *)
LEMMA MetricRows ==
  ASSUME NEW metrics \in MetricLists
  PROVE  /\ IsFiniteSet(Namespaces(metrics)) /\ Namespaces(metrics) \in SUBSET Nat
         /\ \A i \in Namespaces(metrics) : Cpu(metrics, i) \in Nat /\ Memory(metrics, i) \in Nat
<1>1. metrics \in Seq([namespace : STRING, cpu : Nat, memory : Nat])
  BY KubeAssumption
<1>2. \A j \in DOMAIN metrics : metrics[j].cpu \in Nat /\ metrics[j].memory \in Nat
  <2> SUFFICES ASSUME NEW j \in DOMAIN metrics PROVE metrics[j].cpu \in Nat /\ metrics[j].memory \in Nat
    OBVIOUS
  <2>1. j \in 1 .. Len(metrics)
    BY <1>1
  <2>2. metrics[j] \in [namespace : STRING, cpu : Nat, memory : Nat]
    BY <1>1, <2>1, ElementOfSeq
  <2> QED BY <2>2
<1>3. ASSUME NEW i \in Namespaces(metrics)
      PROVE  Cpu(metrics, i) \in Nat /\ Memory(metrics, i) \in Nat
  <2>1. Of(metrics, i) \in SUBSET (DOMAIN metrics)
    BY DEF Of
  <2>2. IsFiniteSet(Of(metrics, i))
    BY <1>1, <2>1, Positions
  <2> QED BY <1>2, <2>1, <2>2, CpuIsNatural, MemoryIsNatural
<1>4. Namespaces(metrics) \in SUBSET (DOMAIN metrics)
  BY DEF Namespaces
<1> QED BY <1>1, <1>3, <1>4, Positions

(* round takes a sum to its nearest multiple, and keeps the order of sums.    *)
LEMMA RoundedIsNearest ==
  ASSUME NEW x \in Nat, NEW unit \in Nat \ {0}
  PROVE  /\ Rounded(x, unit) \in Nat
         /\ 2 * x - unit <= 2 * (unit * Rounded(x, unit))
         /\ 2 * (unit * Rounded(x, unit)) <= 2 * x + unit
<1> DEFINE whole == x \div unit
           rest  == x % unit
<1>1. whole \in Nat /\ rest \in Nat /\ rest < unit /\ x = unit * whole + rest
  OBVIOUS
<1>2. Rounded(x, unit) = IF 2 * rest > unit \/ (2 * rest = unit /\ x \in HalvesUp) THEN whole + 1 ELSE whole
  BY DEF Rounded
<1> HIDE DEF whole, rest
<1>3. CASE 2 * rest > unit \/ (2 * rest = unit /\ x \in HalvesUp)
  <2>1. Rounded(x, unit) = whole + 1 /\ 2 * rest >= unit
    BY <1>1, <1>2, <1>3
  <2>2. unit * Rounded(x, unit) = unit * whole + unit
    BY <1>1, <2>1
  <2> DEFINE product == unit * whole
  <2>3. product \in Nat /\ x = product + rest /\ unit * Rounded(x, unit) = product + unit
    BY <1>1, <2>2
  <2> HIDE DEF product
  <2> QED BY <1>1, <2>1, <2>3
<1>4. CASE ~(2 * rest > unit \/ (2 * rest = unit /\ x \in HalvesUp))
  <2>1. Rounded(x, unit) = whole /\ 2 * rest <= unit
    BY <1>1, <1>2, <1>4
  <2> DEFINE product == unit * whole
  <2>2. product \in Nat /\ x = product + rest /\ unit * Rounded(x, unit) = product
    BY <1>1, <2>1
  <2> HIDE DEF product
  <2> QED BY <1>1, <2>1, <2>2
<1> QED BY <1>3, <1>4

LEMMA RoundedKeepsOrder ==
  ASSUME NEW x \in Nat, NEW y \in Nat, NEW unit \in Nat \ {0}, x > y
  PROVE  Rounded(x, unit) >= Rounded(y, unit)
<1> DEFINE wx == x \div unit
           rx == x % unit
           wy == y \div unit
           ry == y % unit
<1>1. /\ wx \in Nat /\ rx \in Nat /\ rx < unit /\ x = unit * wx + rx
      /\ wy \in Nat /\ ry \in Nat /\ ry < unit /\ y = unit * wy + ry
  OBVIOUS
<1>2. /\ Rounded(x, unit) = IF 2 * rx > unit \/ (2 * rx = unit /\ x \in HalvesUp) THEN wx + 1 ELSE wx
      /\ Rounded(y, unit) = IF 2 * ry > unit \/ (2 * ry = unit /\ y \in HalvesUp) THEN wy + 1 ELSE wy
  BY DEF Rounded
<1>3. wx >= wy
  <2>1. SUFFICES ASSUME wx < wy PROVE FALSE
    BY <1>1
  <2> HIDE DEF wx, wy, rx, ry
  <2>2. PICK d \in Nat : wy = wx + 1 + d
    <3>1. wy - wx - 1 \in Nat /\ wy = wx + 1 + (wy - wx - 1)
      BY <1>1, <2>1
    <3> QED BY <3>1
  <2>3. unit * wy = unit * wx + unit + unit * d
    BY <1>1, <2>2
  <2> DEFINE a == unit * wx
             b == unit * d
             c == unit * wy
  <2>4. a \in Nat /\ b \in Nat /\ c = a + unit + b /\ x = a + rx /\ y = c + ry
    BY <1>1, <2>2, <2>3
  <2> HIDE DEF a, b, c
  <2> QED BY <1>1, <2>4
<1> HIDE DEF wx, wy, rx, ry
<1>4. CASE wx = wy
  <2> DEFINE a == unit * wx
  <2>1. a \in Nat /\ x = a + rx /\ y = a + ry
    BY <1>1, <1>4
  <2> HIDE DEF a
  <2>2. rx > ry
    BY <1>1, <2>1
  <2> QED BY <1>1, <1>2, <1>4, <2>2
<1>5. CASE wx > wy
  BY <1>1, <1>2, <1>5
<1> QED BY <1>1, <1>3, <1>4, <1>5

(* Sums more than a unit apart are shown apart.                               *)
LEMMA ApartStaysApart ==
  ASSUME NEW x \in Nat, NEW y \in Nat, NEW unit \in Nat \ {0}, x - y > unit
  PROVE  Rounded(x, unit) > Rounded(y, unit)
<1> DEFINE p == Rounded(x, unit)
           q == Rounded(y, unit)
<1>1. /\ p \in Nat /\ 2 * x - unit <= 2 * (unit * p)
      /\ q \in Nat /\ 2 * (unit * q) <= 2 * y + unit
  BY RoundedIsNearest
<1>2. x > y
  OBVIOUS
<1>3. p >= q
  BY <1>2, RoundedKeepsOrder
<1> HIDE DEF p, q
<1>4. SUFFICES ASSUME p = q PROVE FALSE
  BY <1>1, <1>3 DEF p, q
<1> DEFINE a == unit * p
<1>5. a \in Int /\ 2 * x - unit <= 2 * a /\ 2 * a <= 2 * y + unit
  BY <1>1, <1>4
<1> HIDE DEF a
<1> QED BY <1>5

LEMMA ShownRows ==
  ASSUME NEW metrics \in MetricLists, NEW i \in Namespaces(metrics)
  PROVE  ShownCpu(metrics, i) \in Nat /\ ShownMemory(metrics, i) \in Nat
<1>1. Cpu(metrics, i) \in Nat /\ Memory(metrics, i) \in Nat
  BY MetricRows
<1>2. CpuUnit \in Nat \ {0} /\ MemoryUnit \in Nat \ {0}
  BY KubeAssumption
<1> QED BY <1>1, <1>2, RoundedIsNearest DEF ShownCpu, ShownMemory

BySums(metrics) == Sorted(Namespaces(metrics), LAMBDA i, j : Uses(metrics, i, j))

LEMMA ByUseOrders ==
  ASSUME NEW metrics \in MetricLists
  PROVE  Orders(BySums(metrics), Namespaces(metrics))
<1> DEFINE rows == Namespaces(metrics)
           before == BySums(metrics)
           c == [i \in rows |-> ShownCpu(metrics, i)]
           m == [i \in rows |-> ShownMemory(metrics, i)]
<1>1. \A i \in rows : i \in Nat /\ c[i] \in Nat /\ m[i] \in Nat
  BY MetricRows, ShownRows
<1>2. \A i, j \in rows : <<i, j>> \in before <=>
        Uses(metrics, i, j) \/ (~Uses(metrics, j, i) /\ i < j)
  BY DEF BySums, Sorted
<1>3. \A i, j \in rows : Uses(metrics, i, j) <=> c[i] > c[j] \/ (c[i] = c[j] /\ m[i] > m[j])
  BY DEF Uses
<1> HIDE DEF rows, before, c, m
<1>4. \A i, j \in rows : <<i, j>> \in before <=>
        c[i] > c[j] \/ (c[i] = c[j] /\ (m[i] > m[j] \/ (m[i] = m[j] /\ i < j)))
  <2> SUFFICES ASSUME NEW i \in rows, NEW j \in rows
               PROVE  <<i, j>> \in before <=>
                        c[i] > c[j] \/ (c[i] = c[j] /\ (m[i] > m[j] \/ (m[i] = m[j] /\ i < j)))
    OBVIOUS
  <2>1. /\ i \in Nat /\ j \in Nat /\ c[i] \in Nat /\ c[j] \in Nat /\ m[i] \in Nat /\ m[j] \in Nat
        /\ Uses(metrics, i, j) <=> c[i] > c[j] \/ (c[i] = c[j] /\ m[i] > m[j])
        /\ Uses(metrics, j, i) <=> c[j] > c[i] \/ (c[j] = c[i] /\ m[j] > m[i])
    BY <1>1, <1>3
  <2>2. <<i, j>> \in before <=> Uses(metrics, i, j) \/ (~Uses(metrics, j, i) /\ i < j)
    BY <1>2
  <2> QED BY <2>1, <2>2
<1>5. Orders(before, rows)
  BY <1>1, <1>4 DEF Orders
<1> QED BY <1>5 DEF before, rows

(* A row that comes no later in the order of what is shown, though it uses    *)
(* less, is within a shown digit of the other.                                *)
LEMMA CloseIfRoundedAway ==
  ASSUME NEW metrics \in MetricLists, NEW i \in Namespaces(metrics), NEW j \in Namespaces(metrics),
         ~Uses(metrics, i, j), Cpu(metrics, i) > Cpu(metrics, j)
  PROVE  /\ ~(Cpu(metrics, i) - Cpu(metrics, j) > CpuUnit)
         /\ ~(Memory(metrics, i) - Memory(metrics, j) > MemoryUnit)
<1>1. /\ Cpu(metrics, i) \in Nat /\ Cpu(metrics, j) \in Nat
      /\ Memory(metrics, i) \in Nat /\ Memory(metrics, j) \in Nat
      /\ CpuUnit \in Nat \ {0} /\ MemoryUnit \in Nat \ {0}
  BY MetricRows, KubeAssumption
<1>2. /\ ShownCpu(metrics, i) \in Nat /\ ShownCpu(metrics, j) \in Nat
      /\ ShownMemory(metrics, i) \in Nat /\ ShownMemory(metrics, j) \in Nat
  BY ShownRows
<1>3. ShownCpu(metrics, i) >= ShownCpu(metrics, j)
  BY <1>1, RoundedKeepsOrder DEF ShownCpu
<1>4. ~(ShownCpu(metrics, i) > ShownCpu(metrics, j))
  BY DEF Uses
<1>5. ~(ShownMemory(metrics, i) > ShownMemory(metrics, j))
  BY <1>2, <1>3, <1>4 DEF Uses
<1>6. Cpu(metrics, i) - Cpu(metrics, j) > CpuUnit => ShownCpu(metrics, i) > ShownCpu(metrics, j)
  BY <1>1, ApartStaysApart DEF ShownCpu
<1>7. Memory(metrics, i) - Memory(metrics, j) > MemoryUnit => ShownMemory(metrics, i) > ShownMemory(metrics, j)
  BY <1>1, ApartStaysApart DEF ShownMemory
<1> QED BY <1>4, <1>5, <1>6, <1>7

(* For every set of metrics, every limit, every unit and every rounding of    *)
(* halves: a namespace is cut off for one whose containers use less processor *)
(* time together only if the two are within a shown digit of each other       *)
(* (get_namespace_resource_usage, kubernetes-mcp-server.py 184-214).          *)
THEOREM NamespacesBusiestFirst == KubeSpec => []BusiestFirst
<1> DEFINE outranks(metrics, i, j) ==
             /\ Cpu(metrics, i) > Cpu(metrics, j)
             /\ \/ Cpu(metrics, i) - Cpu(metrics, j) > CpuUnit
                \/ Memory(metrics, i) - Memory(metrics, j) > MemoryUnit
<1>1. ReadOK => BusiestFirst
  <2> SUFFICES ASSUME ReadOK, Answered("usage")
               PROVE  CutAtTheEnd(Namespaces(query.read[1]), ReportedUsage(query.read[1], query.k),
                        LAMBDA i, j : outranks(query.read[1], i, j))
    BY DEF BusiestFirst
  <2> DEFINE metrics == query.read[1]
             rows == Namespaces(metrics)
             shown == ReportedUsage(metrics, query.k)
             before == BySums(metrics)
             k == TopK(query.k)
  <2>1. metrics \in MetricLists /\ query.k \in Int
    BY AnsweredLists
  <2>2. k \in Int /\ k >= query.k
    BY <2>1 DEF TopK
  <2>3. shown = Kept(rows, before, k) /\ shown \subseteq rows
    BY DEF ReportedUsage, BySums, Kept
  <2>4. IsFiniteSet(rows) /\ Orders(before, rows) /\ Cardinality(rows) \in Nat /\ rows \subseteq Nat
    BY <2>1, MetricRows, ByUseOrders, FS_CardinalityType
  <2>5. \A i, j \in rows : <<j, i>> \in before => Uses(metrics, j, i) \/ ~Uses(metrics, i, j)
    BY DEF BySums, Sorted
  <2>6. \A i, j \in rows : Uses(metrics, j, i) => ~Uses(metrics, i, j)
    <3> SUFFICES ASSUME NEW i \in rows, NEW j \in rows, Uses(metrics, j, i), Uses(metrics, i, j)
                 PROVE  FALSE
      OBVIOUS
    <3>1. /\ ShownCpu(metrics, i) \in Nat /\ ShownCpu(metrics, j) \in Nat
          /\ ShownMemory(metrics, i) \in Nat /\ ShownMemory(metrics, j) \in Nat
      BY <2>1, ShownRows
    <3> QED BY <3>1 DEF Uses
  <2>7. \A i, j \in rows : ~Uses(metrics, i, j) => ~outranks(metrics, i, j)
    BY <2>1, CloseIfRoundedAway
  <2> HIDE DEF metrics, rows, shown, before, k, outranks
  <2>8. ASSUME NEW i \in rows \ shown, NEW j \in shown
        PROVE  ~outranks(metrics, i, j)
    <3>1. <<j, i>> \in before
      BY <2>2, <2>3, <2>4, KeptComesFirst
    <3> QED BY <2>3, <2>5, <2>6, <2>7, <3>1
  <2>9. query.k >= Cardinality(rows) => shown = rows
    <3> SUFFICES ASSUME query.k >= Cardinality(rows) PROVE shown = rows
      OBVIOUS
    <3>1. k >= Cardinality(rows)
      BY <2>1, <2>2, <2>4
    <3> QED BY <2>2, <2>3, <2>4, <3>1, AllAreKept
  <2>10. CutAtTheEnd(rows, shown, LAMBDA i, j : outranks(metrics, i, j))
    BY <2>8, <2>9 DEF CutAtTheEnd
  <2> QED BY <2>10 DEF metrics, rows, shown
<1> QED BY <1>1, ReadAlways, PTL

(* get_cluster_health, get_node_pressure and get_pod_issues judge every       *)
(* listing alike but for the completed pods: one without a restart or a       *)
(* waiting container is healthy to the first tool and an issue to the last,   *)
(* and no other pod is (kubernetes-mcp-server.py 80-110, 123-141, 166-181).   *)
THEOREM ToolsDifferOnlyOnCompleted == KubeSpec => []ToolsDifferOnCompleted
<1>1. ReadOK => ToolsDifferOnCompleted
  <2> SUFFICES ASSUME ReadOK, Answered("health") PROVE ToolsDifferOnCompleted
    BY DEF ToolsDifferOnCompleted
  <2> DEFINE nodes == query.read[1]
             pods == query.read[2]
             quiet == {i \in DOMAIN pods : pods[i].restarts = 0 /\ ~pods[i].waiting}
  <2>1. ReadyNodes(nodes) = {i \in DOMAIN nodes : Condition(nodes[i], "Ready") = "True"}
    BY DEF ReadyNodes, Condition
  <2>2. pods \in PodLists
    BY AnsweredLists
  <2>3. /\ pods \in Seq([phase : STRING, restarts : Nat, waiting : BOOLEAN]) /\ Len(pods) \in Int
        /\ Issues(pods) \in SUBSET (DOMAIN pods)
    BY <2>2, KubeAssumption DEF Issues
  <2>4. ReportedIssues(pods, Len(pods)) = Issues(pods)
    <3>1. IsFiniteSet(Issues(pods)) /\ Cardinality(Issues(pods)) \in Nat /\ Cardinality(Issues(pods)) <= Len(pods)
      BY <2>3, Positions
    <3>2. Orders(ByUrgency(pods), Issues(pods)) /\ Len(pods) >= Cardinality(Issues(pods))
      BY <2>2, <2>3, <3>1, ByUrgencyOrders
    <3> QED BY <2>3, <3>1, <3>2, AllAreKept DEF ReportedIssues
  <2>5. NamedUnhealthy(pods) \subseteq Issues(pods)
    BY DEF NamedUnhealthy, Kept, Unhealthy, Issues
  <2>6. (Issues(pods) \cap quiet) \ Unhealthy(pods) = {i \in quiet : pods[i].phase = "Succeeded"}
    BY DEF Issues, Unhealthy
  <2> QED BY <2>1, <2>4, <2>5, <2>6 DEF ToolsDifferOnCompleted
<1> QED BY <1>1, ReadAlways, PTL

----------------------------------------------------------------------------
(* ArgusContent.                                                              *)

(* What is shown comes from the tool it is shown for.                         *)
PayloadOK ==
  /\ payload.kind \in {"none", "devices", "iocs", "pvs", "chart"}
  /\ payload.kind = "devices" => payload.rows \in DeviceLists
  /\ payload.kind = "iocs" => payload.rows \in IocLists
  /\ payload.kind = "pvs" => payload.rows \in ChannelLists
  /\ payload.kind = "chart" => payload.rows \in SampleHistories

LEMMA PayloadAlways == ContentSpec => []PayloadOK
<1>1. ContentInit => PayloadOK
  BY DEF ContentInit, NoPayload, PayloadOK
<1>2. PayloadOK /\ [ContentNext]_payload => PayloadOK'
  BY DEF PayloadOK, ContentNext, Emit, Emitted, NoPayload
<1> QED BY <1>1, <1>2, PTL DEF ContentSpec

LEMMA PayloadRows ==
  ASSUME PayloadOK, payload.kind # "none"
  PROVE  /\ DOMAIN payload.rows = 1 .. Len(payload.rows) /\ Len(payload.rows) \in Nat
         /\ IsFiniteSet(DOMAIN payload.rows) /\ DOMAIN payload.rows \in SUBSET Nat
         /\ Cardinality(DOMAIN payload.rows) = Len(payload.rows)
<1> DEFINE rows == payload.rows
           S == {rows[i] : i \in DOMAIN rows}
<1>1. rows \in Seq(S)
  BY ContentAssumption DEF PayloadOK
<1> HIDE DEF rows, S
<1>2. DOMAIN rows = 1 .. Len(rows) /\ Len(rows) \in Nat /\ DOMAIN rows \in SUBSET (DOMAIN rows)
  BY <1>1
<1>3. IsFiniteSet(DOMAIN rows) /\ DOMAIN rows \in SUBSET Nat
  BY <1>1, <1>2, Positions
<1>4. Cardinality(DOMAIN rows) = Len(rows)
  <2>1. \A n \in Nat : Cardinality(1 .. n) = n
    <3> SUFFICES ASSUME NEW n \in Nat PROVE Cardinality(1 .. n) = n
      OBVIOUS
    <3>1. 1 \in Int /\ n \in Int
      OBVIOUS
    <3>2. Cardinality(1 .. n) = IF 1 > n THEN 0 ELSE n - 1 + 1
      BY <3>1, FS_Interval
    <3> QED BY <3>1, <3>2
  <2> QED BY <1>2, <2>1
<1> QED BY <1>2, <1>3, <1>4 DEF rows

(* A table has no more than its limit, and all rows if there are no more.     *)
LEMMA FirstRowsOf ==
  ASSUME NEW rows \in SUBSET Nat, IsFiniteSet(rows)
  PROVE  /\ FirstRows(rows) \in SUBSET rows /\ IsFiniteSet(FirstRows(rows))
         /\ Cardinality(rows) \in Nat /\ Cardinality(FirstRows(rows)) \in Nat
         /\ Cardinality(FirstRows(rows)) <= MaxTableRows
         /\ Cardinality(FirstRows(rows)) <= Cardinality(rows)
         /\ Cardinality(FirstRows(rows)) = Cardinality(rows) => FirstRows(rows) = rows
<1>1. FirstRows(rows) \in SUBSET rows
  BY DEF FirstRows, Kept
<1>2. MaxTableRows \in Nat /\ Cardinality(rows) \in Nat
  BY ContentAssumption, FS_CardinalityType
<1>3. Cardinality(FirstRows(rows)) = SliceLength(Cardinality(rows), MaxTableRows)
  BY <1>2, InOrderOrders, HowManyAreKept DEF FirstRows
<1>4. SliceLength(Cardinality(rows), MaxTableRows) <= MaxTableRows
  BY <1>2 DEF SliceLength
<1> QED BY <1>1, <1>2, <1>3, <1>4, FS_Subset, FS_CardinalityType

(* The samples that are kept of a long history: at most a stride apart.       *)
LEMMA Ordered ==
  ASSUME NEW m \in Nat \ {0}, NEW a \in Int, NEW b \in Int, m * a < m * b
  PROVE  a < b
<1>1. SUFFICES ASSUME b <= a PROVE FALSE
  OBVIOUS
<1>2. m * b <= m * a
  BY <1>1
<1> QED BY <1>2

LEMMA SampleBounds ==
  ASSUME NEW total \in Nat, total > MaxChartPoints, NEW below, NEW i \in 0 .. MaxChartPoints - 2
  PROVE  LET t == 1 + Sample(i, total, below)
         IN /\ t \in 1 .. total - 1 /\ (i = 0 => t = 1)
            /\ MaxChartPoints * t >= i * total
            /\ MaxChartPoints * t <= i * total + MaxChartPoints
<1> DEFINE m == MaxChartPoints
           x == i * total
           q == x \div m
           t == 1 + Sample(i, total, below)
<1>1. m \in Nat /\ m >= 2 /\ i \in Nat /\ i <= m - 2 /\ x \in Nat
  BY ContentAssumption
<1>2. q \in Nat /\ m * q <= x /\ x < m * q + m /\ (x % m = 0 => x = m * q)
  <2> HIDE DEF x
  <2>1. x = m * (x \div m) + (x % m) /\ x % m \in 0 .. m - 1 /\ x \div m \in Int
    BY <1>1
  <2>2. q >= 0
    BY <1>1
  <2> QED BY <1>1, <2>1, <2>2
<1>3. t = 1 + q \/ (t = q /\ x % m = 0 /\ i > 0)
  BY <1>1, <1>2 DEF Sample
<1>4. i = 0 => x = 0 /\ q = 0 /\ t = 1
  BY <1>1, <1>2, <1>3
<1> HIDE DEF q, t
<1>5. t \in Int /\ m * t >= x /\ m * t <= x + m
  BY <1>1, <1>2, <1>3
<1>6. x <= (m - 2) * total /\ (m - 2) * total = m * total - 2 * total
  BY <1>1
<1>7. i > 0 => x > 0
  BY <1>1
<1> HIDE DEF x, m
<1>8. t >= 1
  <2>1. i > 0 => m * 0 < m * t
    BY <1>1, <1>5, <1>7
  <2> QED BY <1>1, <1>4, <1>5, <2>1, Ordered
<1>9. t < total
  <2>1. m * t < m * total /\ m # 0
    BY <1>1, <1>5, <1>6 DEF m
  <2> QED BY <1>1, <1>5, <2>1, Ordered
<1> QED BY <1>1, <1>4, <1>5, <1>8, <1>9 DEF m, x, t

LEMMA SamplesSpan ==
  ASSUME NEW total \in Nat \ {0}, NEW below
  PROVE  LET taken == Downsample(total, below)
         IN /\ {1, total} \subseteq taken /\ taken \subseteq 1 .. total
            /\ \A a \in taken :
                 a = total \/ \E b \in taken : b > a /\ (b - a - 1) * MaxChartPoints < 2 * total
<1> DEFINE m == MaxChartPoints
           taken == Downsample(total, below)
           s == [i \in 0 .. m - 2 |-> 1 + Sample(i, total, below)]
<1>1. m \in Nat /\ m >= 2
  BY ContentAssumption
<1>2. CASE total <= m
  <2>1. taken = 1 .. total
    BY <1>2 DEF Downsample
  <2>2. ASSUME NEW a \in 1 .. total, a # total PROVE a + 1 \in taken /\ (a + 1 - a - 1) * m < 2 * total
    BY <1>1, <2>1, <2>2
  <2>3. ASSUME NEW a \in taken, a # total
        PROVE  \E b \in taken : b > a /\ (b - a - 1) * m < 2 * total
    <3>1. a + 1 > a
      BY <2>1, <2>3
    <3> QED BY <2>1, <2>2, <2>3, <3>1
  <2> QED BY <2>1, <2>3
<1>3. CASE total > m
  <2>1. taken = {s[i] : i \in 0 .. m - 2} \union {total}
    BY <1>1, <1>3 DEF Downsample
  <2>2. \A i \in 0 .. m - 2 :
          /\ s[i] \in 1 .. total - 1 /\ (i = 0 => s[i] = 1)
          /\ m * s[i] >= i * total /\ m * s[i] <= i * total + m
    BY <1>3, SampleBounds
  <2> HIDE DEF s, taken
  <2>3. 1 \in taken /\ total \in taken /\ taken \subseteq 1 .. total
    <3>1. 0 \in 0 .. m - 2 /\ s[0] = 1
      BY <1>1, <2>2
    <3>2. ASSUME NEW i \in 0 .. m - 2 PROVE s[i] \in 1 .. total
      <4>1. s[i] \in 1 .. total - 1
        BY <2>2
      <4> QED BY <4>1
    <3>3. total \in 1 .. total
      OBVIOUS
    <3> QED BY <2>1, <3>1, <3>2, <3>3
  <2>4. ASSUME NEW a \in taken, a # total
        PROVE  \E b \in taken : b > a /\ (b - a - 1) * m < 2 * total
    <3>1. PICK i \in 0 .. m - 2 : a = s[i]
      BY <2>1, <2>4
    <3>2. a \in Nat /\ a < total /\ m * a >= i * total /\ m * a <= i * total + m
      <4>1. a \in 1 .. total - 1 /\ m * a >= i * total /\ m * a <= i * total + m
        BY <2>2, <3>1
      <4> QED BY <4>1
    <3>3. CASE i < m - 2
      <4> DEFINE b == s[i + 1]
      <4>1. i + 1 \in 0 .. m - 2 /\ b \in taken
        BY <1>1, <2>1, <3>3
      <4>2. b \in Nat /\ m * b >= (i + 1) * total /\ m * b <= (i + 1) * total + m
        <5> DEFINE l == i + 1
        <5>1. l \in 0 .. m - 2
          BY <4>1
        <5> HIDE DEF l
        <5>2. s[l] \in 1 .. total - 1 /\ m * s[l] >= l * total /\ m * s[l] <= l * total + m
          BY <2>2, <5>1
        <5> QED BY <5>2 DEF l
      <4> HIDE DEF b
      <4>3. (i + 1) * total = i * total + total /\ i * total \in Int /\ m * a \in Int /\ m * b \in Int
        BY <1>1, <3>2, <4>2
      <4>4. m * (a - 1) < m * (b - 1 + 1 - 1)
        BY <1>1, <1>3, <3>2, <4>2, <4>3
      <4>5. (b - a - 1) * m = m * b - m * a - m
        BY <1>1, <3>2, <4>2
      <4>6. (b - a - 1) * m < 2 * total
        BY <1>1, <3>2, <4>2, <4>3, <4>5
      <4>7. b > a
        BY <1>1, <3>2, <4>2, <4>4, Ordered
      <4> QED BY <4>1, <4>6, <4>7
    <3>4. CASE i = m - 2
      <4>1. i * total = m * total - 2 * total /\ m * total \in Int /\ m * a \in Int
        BY <1>1, <3>2, <3>4
      <4>2. (total - a - 1) * m = m * total - m * a - m
        BY <1>1, <3>2
      <4>3. (total - a - 1) * m < 2 * total
        BY <1>1, <3>2, <4>1, <4>2
      <4> QED BY <2>3, <3>2, <4>3
    <3> QED BY <1>1, <3>3, <3>4
  <2> QED BY <2>3, <2>4 DEF taken
<1> QED BY <1>1, <1>2, <1>3

LEMMA IntervalSize ==
  ASSUME NEW n \in Nat
  PROVE  /\ IsFiniteSet(1 .. n) /\ Cardinality(1 .. n) = n
         /\ n >= 1 => IsFiniteSet(0 .. n - 1) /\ Cardinality(0 .. n - 1) = n
<1>1. 0 \in Int /\ 1 \in Int /\ n \in Int /\ n - 1 \in Int
  OBVIOUS
<1>2. IsFiniteSet(1 .. n) /\ Cardinality(1 .. n) = IF 1 > n THEN 0 ELSE n - 1 + 1
  BY <1>1, FS_Interval
<1>3. IsFiniteSet(0 .. n - 1) /\ Cardinality(0 .. n - 1) = IF 0 > n - 1 THEN 0 ELSE n - 1 - 0 + 1
  BY <1>1, FS_Interval
<1> QED BY <1>1, <1>2, <1>3

LEMMA FewSamples ==
  ASSUME NEW total \in Nat, NEW below
  PROVE  /\ IsFiniteSet(Downsample(total, below))
         /\ Cardinality(Downsample(total, below)) \in Nat
         /\ Cardinality(Downsample(total, below)) <= MaxChartPoints
<1> DEFINE m == MaxChartPoints
<1>1. m \in Nat /\ m >= 2
  BY ContentAssumption
<1>2. CASE total <= m
  BY <1>1, <1>2, IntervalSize DEF Downsample
<1>3. CASE total > m
  <2> DEFINE f == [i \in 0 .. m - 2 |-> 1 + Sample(i, total, below)]
             A == {1 + Sample(i, total, below) : i \in 0 .. m - 2}
  <2>1. f \in Surjection(0 .. m - 2, A)
    BY DEF Surjection
  <2>2. IsFiniteSet(0 .. m - 2) /\ Cardinality(0 .. m - 2) = m - 1
    <3> DEFINE n == m - 1
    <3>1. n \in Nat /\ n >= 1 /\ n - 1 = m - 2
      BY <1>1
    <3> HIDE DEF n
    <3>2. IsFiniteSet(0 .. n - 1) /\ Cardinality(0 .. n - 1) = n
      BY <3>1, IntervalSize
    <3> QED BY <3>1, <3>2 DEF n
  <2> HIDE DEF f, A
  <2>3. IsFiniteSet(A) /\ Cardinality(A) <= m - 1
    BY <2>1, <2>2, FS_Surjection
  <2>4. Cardinality(A) \in Nat
    BY <2>3, FS_CardinalityType
  <2>5. IsFiniteSet(A \union {total}) /\ Cardinality(A \union {total}) \in Nat /\ Cardinality(A \union {total}) <= m
    BY <1>1, <2>3, <2>4, FS_AddElement
  <2>6. Downsample(total, below) = A \union {total}
    BY <1>1, <1>3 DEF Downsample, A
  <2> QED BY <2>5, <2>6
<1> QED BY <1>1, <1>2, <1>3

(* A table of some of the listed rows.                                        *)
LEMMA TablesAreSilentOnlyIfComplete ==
  ASSUME NEW list \in SUBSET Nat, IsFiniteSet(list), NEW shown \in SUBSET list
  PROVE  LET total == Cardinality(list)
         IN /\ total - Cardinality(shown) >= 0
            /\ total - Cardinality(shown) = 0 => shown = list
<1>1. Cardinality(list) \in Nat /\ IsFiniteSet(shown)
  BY FS_Subset, FS_CardinalityType
<1>2. Cardinality(shown) \in Nat
  BY <1>1, FS_CardinalityType
<1>3. Cardinality(shown) <= Cardinality(list) /\ (Cardinality(list) = Cardinality(shown) => list = shown)
  BY FS_Subset
<1> QED BY <1>1, <1>2, <1>3

(* Whatever a tool answers, what the dashboard shows without a note of a cut  *)
(* is all of it, and nothing it shows is without a name or a value or beyond  *)
(* its limit (maybe_build_content, argus_content.py).                         *)
THEOREM NothingIsCutInSilence == ContentSpec => []SilentMeansComplete
<1>1. PayloadOK => SilentMeansComplete
  <2> SUFFICES ASSUME PayloadOK, payload.kind # "none", Content.kind # "none" PROVE SilentMeansComplete
    BY DEF SilentMeansComplete, Content, NothingToShow, PayloadOK
  <2> DEFINE rows == payload.rows
             all == DOMAIN rows
  <2>1. /\ all \in SUBSET Nat /\ IsFiniteSet(all) /\ Cardinality(all) = Len(rows) /\ Len(rows) \in Nat
        /\ all = 1 .. Len(rows) /\ MaxTableRows \in Nat
    BY PayloadRows, ContentAssumption
  <2>2. CASE payload.kind = "devices"
    <3> DEFINE list == {i \in all : Identified(rows[i])}
    <3>1. list \in SUBSET Nat /\ IsFiniteSet(list)
      BY <2>1, FS_Subset
    <3>2. Content = Table(Cardinality(list), FirstRows(list)) /\ \A i \in all : Worth(i) <=> i \in list
      BY <2>2 DEF Content, DevicesTable, NothingToShow, Worth
    <3> HIDE DEF list
    <3>3. /\ Content.kind = "table" /\ Content.shown = FirstRows(list)
          /\ Content.truncated = Cardinality(list) - Cardinality(FirstRows(list))
      BY <3>2 DEF Table
    <3>4. /\ FirstRows(list) \in SUBSET list /\ Cardinality(FirstRows(list)) <= MaxTableRows
          /\ Cardinality(list) - Cardinality(FirstRows(list)) >= 0
          /\ Cardinality(list) - Cardinality(FirstRows(list)) = 0 => FirstRows(list) = list
      BY <3>1, FirstRowsOf
    <3>5. list \subseteq all
      BY DEF list
    <3> QED BY <3>2, <3>3, <3>4, <3>5 DEF SilentMeansComplete
  <2>3. CASE payload.kind = "iocs"
    <3>1. Content = Table(Len(rows), FirstRows(all)) /\ \A i \in all : Worth(i)
      BY <2>3 DEF Content, IocsTable, NothingToShow, Worth
    <3>2. /\ Content.kind = "table" /\ Content.shown = FirstRows(all)
          /\ Content.truncated = Cardinality(all) - Cardinality(FirstRows(all))
      BY <2>1, <3>1 DEF Table
    <3>3. /\ FirstRows(all) \in SUBSET all /\ Cardinality(FirstRows(all)) <= MaxTableRows
          /\ Cardinality(all) - Cardinality(FirstRows(all)) >= 0
          /\ Cardinality(all) - Cardinality(FirstRows(all)) = 0 => FirstRows(all) = all
      BY <2>1, FirstRowsOf
    <3> QED BY <3>1, <3>2, <3>3 DEF SilentMeansComplete
  <2>4. CASE payload.kind = "pvs"
    <3> DEFINE named == {i \in FirstRows(all) : rows[i] # Missing}
    <3>1. Content = Table(Len(rows), named) /\ \A i \in all : Worth(i) <=> rows[i] # Missing
      BY <2>4 DEF Content, PvsTable, NothingToShow, Worth
    <3>2. /\ FirstRows(all) \in SUBSET all /\ IsFiniteSet(FirstRows(all))
          /\ Cardinality(FirstRows(all)) \in Nat /\ Cardinality(FirstRows(all)) <= MaxTableRows
      BY <2>1, FirstRowsOf
    <3>3. named \in SUBSET FirstRows(all) /\ named \in SUBSET all /\ \A i \in named : rows[i] # Missing
      BY <3>2
    <3> HIDE DEF named
    <3>4. /\ Content.kind = "table" /\ Content.shown = named
          /\ Content.truncated = Cardinality(all) - Cardinality(named)
      BY <2>1, <3>1 DEF Table
    <3>5. Cardinality(named) <= Cardinality(FirstRows(all)) /\ IsFiniteSet(named)
      BY <3>2, <3>3, FS_Subset
    <3>6. Cardinality(named) <= MaxTableRows
      BY <2>1, <3>2, <3>5, FS_CardinalityType
    <3>7. /\ Cardinality(all) - Cardinality(named) >= 0
          /\ Cardinality(all) - Cardinality(named) = 0 => named = all
      BY <2>1, <3>3, TablesAreSilentOnlyIfComplete
    <3> QED BY <3>1, <3>3, <3>4, <3>6, <3>7 DEF SilentMeansComplete
  <2>5. CASE payload.kind = "chart"
    <3> DEFINE taken == Downsample(Len(rows), payload.below)
               plotted == Series(rows, payload.below)
    <3>1. /\ Content = [kind |-> "chart", shown |-> plotted, truncated |-> Len(rows) - Cardinality(plotted)]
          /\ \A i \in all : Worth(i) <=> rows[i] # Missing
      BY <2>5 DEF Content, Chart, NothingToShow, Worth
    <3>2. plotted = {i \in taken : rows[i] # Missing}
      BY DEF Series
    <3>3. IsFiniteSet(taken) /\ Cardinality(taken) \in Nat /\ Cardinality(taken) <= MaxChartPoints
      BY <2>1, FewSamples
    <3>4. taken \in SUBSET all
      <4>1. CASE Len(rows) = 0
        BY <4>1, <2>1, ContentAssumption DEF Downsample
      <4>2. CASE Len(rows) # 0
        BY <4>2, <2>1, SamplesSpan
      <4> QED BY <4>1, <4>2
    <3> HIDE DEF taken, plotted
    <3>5. /\ plotted \in SUBSET taken /\ plotted \in SUBSET all
          /\ \A i \in plotted : rows[i] # Missing
      BY <3>2, <3>4
    <3>6. Content.kind = "chart" /\ Content.shown = plotted /\ Content.truncated = Cardinality(all) - Cardinality(plotted)
      BY <2>1, <3>1
    <3>7. Cardinality(plotted) <= Cardinality(taken) /\ IsFiniteSet(plotted)
      BY <3>3, <3>5, FS_Subset
    <3>8. Cardinality(plotted) <= MaxChartPoints
      BY <3>3, <3>7, FS_CardinalityType, ContentAssumption
    <3>9. /\ Cardinality(all) - Cardinality(plotted) >= 0
          /\ Cardinality(all) - Cardinality(plotted) = 0 => plotted = all
      BY <2>1, <3>5, TablesAreSilentOnlyIfComplete
    <3> QED BY <3>1, <3>5, <3>6, <3>8, <3>9 DEF SilentMeansComplete
  <2> QED BY <2>2, <2>3, <2>4, <2>5 DEF PayloadOK
<1> QED BY <1>1, PayloadAlways, PTL

(* A chart begins with the first sample and ends with the last, however long  *)
(* the history and whichever products the float rounds down (_downsample,     *)
(* argus_content.py 112-122).                                                 *)
THEOREM TrendsSpanTheHistory == ContentSpec => []TrendIsCovered
<1>1. PayloadOK => TrendIsCovered
  <2> SUFFICES ASSUME PayloadOK, payload.kind = "chart", payload.rows # <<>> PROVE TrendIsCovered
    BY DEF TrendIsCovered
  <2>1. Len(payload.rows) \in Nat \ {0}
    <3>1. PICK S : payload.rows \in Seq(S)
      BY ContentAssumption DEF PayloadOK
    <3> QED BY <3>1
  <2> QED BY <2>1, SamplesSpan DEF TrendIsCovered
<1> QED BY <1>1, PayloadAlways, PTL

(* A look up finds no device, or the last of the namesakes.                   *)
LEMMA LastNamesake ==
  ASSUME PayloadOK, payload.kind # "none", NEW name, Namesakes(payload.rows, name) # {}
  PROVE  \E j \in Namesakes(payload.rows, name) :
           /\ CatalogEntry(payload.rows, name) = {j}
           /\ \A i \in Namesakes(payload.rows, name) : i <= j
<1> DEFINE all == Namesakes(payload.rows, name)
           n == Len(payload.rows)
           back == {n - j : j \in all}
<1>1. n \in Nat /\ DOMAIN payload.rows = 1 .. n
  BY PayloadRows
<1>2. all \subseteq 1 .. n
  BY <1>1 DEF Namesakes
<1>3. CatalogEntry(payload.rows, name) = {i \in all : \A j \in all : j <= i}
  BY DEF CatalogEntry
<1>4. all # {}
  OBVIOUS
<1> HIDE DEF all, n
<1>5. back \subseteq Nat /\ back # {}
  <2>1. ASSUME NEW j \in all PROVE n - j \in Nat
    <3>1. j \in 1 .. n
      BY <1>2
    <3> QED BY <1>1, <3>1
  <2> QED BY <1>4, <2>1
<1>6. PICK m \in back : \A l \in back : m <= l
  <2> HIDE DEF back
  <2> QED BY <1>5, LeastNatural
<1>7. PICK j \in all : m = n - j
  BY <1>6
<1>8. ASSUME NEW i \in all PROVE i <= j
  <2>1. n - j <= n - i
    BY <1>6, <1>7
  <2> QED BY <1>1, <1>2, <2>1
<1>9. \A i \in all : (\A l \in all : l <= i) => i = j
  <2> SUFFICES ASSUME NEW i \in all, \A l \in all : l <= i PROVE i = j
    OBVIOUS
  <2>1. i <= j /\ j <= i /\ i \in Nat /\ j \in Nat
    BY <1>2, <1>8
  <2> QED BY <2>1
<1>10. CatalogEntry(payload.rows, name) = {j}
  BY <1>3, <1>8, <1>9
<1> QED BY <1>8, <1>10 DEF all

(* For every list of devices, every mapping of groups to widgets and whatever *)
(* lower() and strip() make of a name: a look up of the name of a row of the  *)
(* table opens the row's widget and trend, those of a later namesake, or, if  *)
(* the name has blanks around it, of another or none (argus_content.py        *)
(* 170-190, 328-351, 354-411).                                                *)
THEOREM RowsOpenTheirWidget == ContentSpec => []WidgetsAgree
<1>1. PayloadOK => WidgetsAgree
  <2> SUFFICES ASSUME PayloadOK, payload.kind = "devices", NEW i \in DevicesTable(payload.rows).shown
               PROVE  LET device(j) == payload.rows[j]
                          hint(j) == IF Identified(device(j)) THEN RowWidget(device(j)) ELSE NoWidget
                          blanks == Strip[device(i).name] # device(i).name
                          found == CatalogEntry(payload.rows, device(i).name)
                      IN /\ \/ found = {i}
                            \/ found = {} /\ blanks
                            \/ \E j \in Namesakes(payload.rows, device(i).name) : found = {j} /\ (j > i \/ blanks)
                         /\ \A j \in found :
                              /\ Widget(device(j)) = hint(j)
                              /\ device(j).keyPvs = <<>> =>
                                   \A pv \in TrendPvs(device(j)) : pv[1] = PvPrefix(device(j).name, device(j).prefix)
    BY DEF WidgetsAgree
  <2> DEFINE name == payload.rows[i].name
             all == Namesakes(payload.rows, name)
             found == CatalogEntry(payload.rows, name)
             blanks == Strip[name] # name
  <2>1. i \in DOMAIN payload.rows /\ name # Missing /\ DOMAIN payload.rows \subseteq Nat
    <3>1. DOMAIN payload.rows \in SUBSET Nat
      BY PayloadRows
    <3> QED BY <3>1 DEF DevicesTable, Table, FirstRows, Kept, NothingToShow, Identified
  <2>2. ~blanks => i \in all
    BY <2>1 DEF Namesakes
  <2>3. all \subseteq Nat
    BY <2>1 DEF Namesakes
  <2>4. found = {i} \/ (found = {} /\ blanks) \/ \E j \in all : found = {j} /\ (j > i \/ blanks)
    <3>1. CASE all = {}
      BY <2>2, <3>1 DEF CatalogEntry
    <3>2. CASE all # {}
      <4>1. PICK j \in all : found = {j} /\ \A l \in all : l <= j
        BY <3>2, LastNamesake
      <4> HIDE DEF all, found, blanks
      <4> QED BY <2>1, <2>2, <2>3, <4>1
    <3> QED BY <3>1, <3>2
  <2>5. ASSUME NEW j \in found
        PROVE  /\ Widget(payload.rows[j]) =
                    IF Identified(payload.rows[j]) THEN RowWidget(payload.rows[j]) ELSE NoWidget
               /\ payload.rows[j].keyPvs = <<>> =>
                    \A pv \in TrendPvs(payload.rows[j]) :
                       pv[1] = PvPrefix(payload.rows[j].name, payload.rows[j].prefix)
    <3> DEFINE device == payload.rows[j]
    <3>1. Widget(device) = IF Identified(device) THEN RowWidget(device) ELSE NoWidget
      BY DEF Widget, RowWidget, HasWidget
    <3>2. ASSUME device.keyPvs = <<>>, NEW pv \in TrendPvs(device)
          PROVE  pv[1] = PvPrefix(device.name, device.prefix)
      BY <3>2 DEF TrendPvs
    <3> QED BY <3>1, <3>2
  <2> QED BY <2>4, <2>5
<1> QED BY <1>1, PayloadAlways, PTL

----------------------------------------------------------------------------
(* RagSearch.                                                                 *)

(* The invariant of the documentation search, of one thread and of the cache, *)
(* over what RAGFlow stores.                                                  *)
Record == [at : {"idle", "loading", "searching", "done", "raised"}, tool : {"list", "search"},
           globs : SUBSET Datasets, limit : Int, page : Nat, list : SUBSET Datasets,
           full : SUBSET Datasets, pending : SUBSET Datasets, chunks : Seq(Datasets \X Nat),
           errors : SUBSET Datasets, steady : SUBSET Datasets, shrunk : BOOLEAN,
           began : Nat, took : Nat, since : Nat]

HasList(r) == r.at \in {"searching", "done"}

(* A dataset of the list that is stored no more was deleted after the load    *)
(* began.                                                                     *)
Covers(list, began, kept, gone) == \A d \in list \ kept : gone[d] >= began

ForgetsOK(r, kept, gone, now) ==
  /\ r.at = "loading" \/ HasList(r) => r.began <= now /\ Covers(r.list, r.began, kept, gone)
  /\ HasList(r) => r.since < r.began + r.took + MaxOf(Ttl, 1)

(* What was there all along is in the list or on a page to come.              *)
PagesSuffice == Cardinality(Datasets) < MaxPages * PageSize

SkipsOK(r, seq) ==
  /\ r.at = "loading" =>
       /\ r.page \in 1 .. MaxPages /\ r.steady \subseteq Members(seq)
       /\ r.shrunk \/ \A i \in DOMAIN seq : seq[i] \in r.steady \ r.list => i > (r.page - 1) * PageSize
  /\ HasList(r) /\ PagesSuffice => r.steady \subseteq r.list \/ r.shrunk

(* Each dataset that answered has given its best chunks, once.                *)
Searchable(r) == r.list \cap r.globs \cap r.full
Given(r, d) == 1 .. MinOf(r.limit, Len(Hits[d]))

SearchesOK(r) ==
  /\ r.tool = "search" => r.limit \in 1 .. MaxLimit
  /\ r.at = "loading" => r.pending = {} /\ r.errors = {} /\ r.chunks = <<>>
  /\ HasList(r) =>
       /\ r.pending \subseteq Searchable(r) /\ r.pending \cap r.errors = {}
       /\ r.at = "done" => r.pending = {}
       /\ \A i, j \in DOMAIN r.chunks : r.chunks[i] = r.chunks[j] => i = j
       /\ \A i \in DOMAIN r.chunks :
            /\ r.chunks[i][1] \in Searchable(r) \ (r.pending \union r.errors)
            /\ r.chunks[i][2] \in Given(r, r.chunks[i][1])
       /\ r.tool = "search" => \A d \in Searchable(r) \ (r.pending \union r.errors) : \A k \in Given(r, d) :
                        <<d, k>> \in Members(r.chunks)
  /\ r.pending # {} => r.at = "searching" /\ r.tool = "search"

ThreadOK(r, seq, gone, now) ==
  /\ r \in Record
  /\ ForgetsOK(r, Members(seq), gone, now) /\ SkipsOK(r, seq) /\ SearchesOK(r)

CacheOK(e, seq, gone, now) ==
  /\ e.at \in Nat /\ e.began \in Nat /\ e.began <= e.at /\ e.at <= now
  /\ e.list \in SUBSET Datasets /\ e.full \in SUBSET Datasets
  /\ Covers(e.list, e.began, Members(seq), gone)

WorldOK(seq, gone, now) ==
  /\ seq \in Seq(Datasets) /\ \A i, j \in DOMAIN seq : seq[i] = seq[j] => i = j
  /\ gone \in [Datasets -> Nat] /\ now \in Nat

RagOK ==
  /\ WorldOK(stored, deleted, clock) /\ filled \subseteq Datasets
  /\ CacheOK(cache, stored, deleted, clock)
  /\ DOMAIN call = Threads /\ \A c \in Threads : ThreadOK(call[c], stored, deleted, clock)

----------------------------------------------------------------------------
(* The records the steps make are records.                                    *)
LEMMA IdleRecord ==
  /\ Idle \in Record /\ Idle.at = "idle" /\ Idle.list = {} /\ Idle.pending = {} /\ Idle.errors = {}
  /\ Idle.chunks = <<>> /\ Idle.steady = {} /\ Idle.tool = "list"
BY DEF Idle, Record

LEMMA AskedRecord ==
  ASSUME NEW tool \in {"list", "search"}, NEW globs \in SUBSET Datasets, NEW limit \in Int
  PROVE  LET x == Asked(tool, globs, limit)
         IN /\ x \in Record /\ x.at = "idle" /\ x.tool = tool /\ x.limit = limit /\ x.list = {}
            /\ x.pending = {} /\ x.errors = {} /\ x.chunks = <<>> /\ x.steady = {}
<1>1. ASSUME NEW r \in Record
      PROVE  LET x == [r EXCEPT !.tool = tool, !.globs = globs, !.limit = limit]
             IN /\ x \in Record /\ x.at = r.at /\ x.tool = tool /\ x.limit = limit /\ x.list = r.list
                /\ x.pending = r.pending /\ x.errors = r.errors /\ x.chunks = r.chunks /\ x.steady = r.steady
  BY DEF Record
<1> QED BY <1>1, IdleRecord DEF Asked

LEMMA RaisedRecord ==
  /\ Raised \in Record /\ Raised.at = "raised" /\ Raised.tool = "list" /\ Raised.pending = {}
<1>1. ASSUME NEW r \in Record
      PROVE  LET x == [r EXCEPT !.at = "raised"]
             IN x \in Record /\ x.at = "raised" /\ x.tool = r.tool /\ x.pending = r.pending
  BY DEF Record
<1> QED BY <1>1, IdleRecord DEF Raised

LEMMA ProceedRecords ==
  ASSUME NEW r \in Record, NEW S \in SUBSET Datasets
  PROVE  /\ [r EXCEPT !.at = "searching", !.page = 0, !.pending = S] \in Record
         /\ [r EXCEPT !.at = "done", !.page = 0] \in Record
BY DEF Record

LEMMA FromRecord ==
  ASSUME NEW r \in Record, NEW e, e.at \in Nat, e.began \in Nat, e.began <= e.at, clock \in Nat,
         e.list \in SUBSET Datasets, e.full \in SUBSET Datasets
  PROVE  LET x == From(r, e)
         IN /\ x \in Record /\ x.tool = r.tool /\ x.limit = r.limit /\ x.list = e.list
            /\ x.pending = r.pending /\ x.errors = r.errors /\ x.chunks = r.chunks
            /\ x.steady = r.steady /\ x.shrunk = r.shrunk
            /\ x.began = e.began /\ x.took = e.at - e.began /\ x.since = clock
<1> DEFINE took == e.at - e.began
<1>2. took \in Nat
  OBVIOUS
<1>3. From(r, e) = [r EXCEPT !.list = e.list, !.full = e.full, !.began = e.began, !.took = took, !.since = clock]
  BY DEF From
<1>4. took = e.at - e.began
  OBVIOUS
<1> HIDE DEF took
<1> DEFINE x == [r EXCEPT !.list = e.list, !.full = e.full, !.began = e.began, !.took = took, !.since = clock]
<1>5. /\ x \in Record /\ x.tool = r.tool /\ x.limit = r.limit /\ x.list = e.list
      /\ x.pending = r.pending /\ x.errors = r.errors /\ x.chunks = r.chunks
      /\ x.steady = r.steady /\ x.shrunk = r.shrunk
      /\ x.began = e.began /\ x.took = took /\ x.since = clock
  BY <1>2 DEF Record
<1>6. From(r, e) = x
  BY <1>3
<1> HIDE DEF x
<1> QED BY <1>4, <1>5, <1>6

LEMMA LoadingRecord ==
  ASSUME NEW r \in Record, clock \in Nat, Members(stored) \in SUBSET Datasets
  PROVE  LET x == Loading(r)
         IN /\ x \in Record /\ x.at = "loading" /\ x.tool = r.tool /\ x.limit = r.limit
            /\ x.list = r.list /\ x.pending = r.pending /\ x.errors = r.errors /\ x.chunks = r.chunks
            /\ x.steady = Members(stored) /\ x.began = clock /\ x.page = 1
<1>1. ASSUME NEW steady \in SUBSET Datasets, NEW began \in Nat
      PROVE  LET x == [r EXCEPT !.at = "loading", !.page = 1, !.began = began, !.steady = steady]
             IN /\ x \in Record /\ x.at = "loading" /\ x.tool = r.tool /\ x.limit = r.limit
                /\ x.list = r.list /\ x.pending = r.pending /\ x.errors = r.errors /\ x.chunks = r.chunks
                /\ x.steady = steady /\ x.began = began /\ x.page = 1
  BY DEF Record
<1> QED BY <1>1 DEF Loading

LEMMA NextPageRecord ==
  ASSUME NEW r \in Record, NEW e, e.list \in SUBSET Datasets, e.full \in SUBSET Datasets
  PROVE  LET x == NextPage(r, e)
         IN /\ x \in Record /\ x.at = r.at /\ x.tool = r.tool /\ x.limit = r.limit
            /\ x.list = e.list /\ x.pending = r.pending /\ x.errors = r.errors /\ x.chunks = r.chunks
            /\ x.steady = r.steady /\ x.shrunk = r.shrunk /\ x.began = r.began /\ x.page = r.page + 1
<1> DEFINE page == r.page + 1
<1>2. page \in Nat /\ page = r.page + 1
  BY DEF Record
<1>3. NextPage(r, e) = [r EXCEPT !.list = e.list, !.full = e.full, !.page = page]
  BY DEF NextPage
<1> HIDE DEF page
<1> DEFINE x == [r EXCEPT !.list = e.list, !.full = e.full, !.page = page]
<1>4. /\ x \in Record /\ x.at = r.at /\ x.tool = r.tool /\ x.limit = r.limit
      /\ x.list = e.list /\ x.pending = r.pending /\ x.errors = r.errors /\ x.chunks = r.chunks
      /\ x.steady = r.steady /\ x.shrunk = r.shrunk /\ x.began = r.began /\ x.page = page
  BY <1>2 DEF Record
<1>5. NextPage(r, e) = x
  BY <1>3
<1> HIDE DEF x
<1> QED BY <1>2, <1>4, <1>5

----------------------------------------------------------------------------
(* A thread that goes on with a list.                                         *)
LEMMA ProceedKeepsOK ==
  ASSUME NEW r \in Record, NEW seq, NEW gone, NEW now \in Nat,
         Covers(r.list, r.began, Members(seq), gone), r.began <= now,
         r.since < r.began + r.took + MaxOf(Ttl, 1),
         PagesSuffice => r.steady \subseteq r.list \/ r.shrunk,
         r.tool = "search" => r.limit \in 1 .. MaxLimit,
         r.pending = {}, r.errors = {}, r.chunks = <<>>
  PROVE  ThreadOK(Proceed(r), seq, gone, now)
<1> DEFINE y == Proceed(r)
<1>1. CASE r.tool = "search" /\ Searchable(r) # {}
  <2>1. y = [r EXCEPT !.at = "searching", !.page = 0, !.pending = Searchable(r)]
    BY <1>1 DEF Proceed, Searchable
  <2>2. y \in Record
    <3>1. Searchable(r) \in SUBSET Datasets
      BY DEF Record, Searchable
    <3> HIDE DEF y
    <3> QED BY <2>1, <3>1, ProceedRecords
  <2>3. /\ y.at = "searching" /\ y.pending = Searchable(r) /\ y.tool = r.tool /\ y.limit = r.limit
        /\ y.list = r.list /\ y.globs = r.globs /\ y.full = r.full /\ y.errors = {} /\ y.chunks = <<>>
        /\ y.steady = r.steady /\ y.shrunk = r.shrunk
        /\ y.began = r.began /\ y.took = r.took /\ y.since = r.since
    BY <2>1 DEF Record
  <2> HIDE DEF y
  <2>4. DOMAIN y.chunks = {}
    BY <2>3
  <2>5. ForgetsOK(y, Members(seq), gone, now) /\ SkipsOK(y, seq)
    <3>1. ForgetsOK(y, Members(seq), gone, now)
      BY <2>3 DEF ForgetsOK, HasList
    <3>2. SkipsOK(y, seq)
      BY <2>3 DEF SkipsOK, HasList
    <3> QED BY <3>1, <3>2
  <2>6. SearchesOK(y)
    BY <1>1, <2>3, <2>4 DEF SearchesOK, HasList, Searchable
  <2> QED BY <2>2, <2>5, <2>6 DEF ThreadOK, y
<1>2. CASE ~(r.tool = "search" /\ Searchable(r) # {})
  <2>1. y = [r EXCEPT !.at = "done", !.page = 0]
    BY <1>2 DEF Proceed, Searchable
  <2>2. y \in Record
    <3> HIDE DEF y
    <3> QED BY <2>1, ProceedRecords
  <2>3. /\ y.at = "done" /\ y.pending = {} /\ y.tool = r.tool /\ y.limit = r.limit
        /\ y.list = r.list /\ y.globs = r.globs /\ y.full = r.full /\ y.errors = {} /\ y.chunks = <<>>
        /\ y.steady = r.steady /\ y.shrunk = r.shrunk
        /\ y.began = r.began /\ y.took = r.took /\ y.since = r.since
    BY <2>1 DEF Record
  <2> HIDE DEF y
  <2>4. DOMAIN y.chunks = {}
    BY <2>3
  <2>5. ForgetsOK(y, Members(seq), gone, now) /\ SkipsOK(y, seq)
    <3>1. ForgetsOK(y, Members(seq), gone, now)
      BY <2>3 DEF ForgetsOK, HasList
    <3>2. SkipsOK(y, seq)
      BY <2>3 DEF SkipsOK, HasList
    <3> QED BY <3>1, <3>2
  <2>6. SearchesOK(y)
    BY <1>2, <2>3, <2>4 DEF SearchesOK, HasList, Searchable
  <2> QED BY <2>2, <2>5, <2>6 DEF ThreadOK, y
<1> QED BY <1>1, <1>2

(* A call begins: with the cached list, or to load one.                       *)
LEMMA AllDatasetsOK ==
  ASSUME RagOK, NEW c \in Threads, NEW tool \in {"list", "search"}, NEW globs \in SUBSET Datasets, NEW limit \in Int,
         tool = "search" => limit \in 1 .. MaxLimit, NEW force \in BOOLEAN,
         AllDatasets(c, Asked(tool, globs, limit), force)
  PROVE  /\ ThreadOK(call'[c], stored, deleted, clock) /\ DOMAIN call' = Threads
         /\ \A e \in Threads \ {c} : call'[e] = call[e]
<1> DEFINE r == Asked(tool, globs, limit)
<1>1. /\ r \in Record /\ r.at = "idle" /\ r.tool = tool /\ r.limit = limit /\ r.list = {}
      /\ r.pending = {} /\ r.errors = {} /\ r.chunks = <<>> /\ r.steady = {}
  BY AskedRecord
<1>2. DOMAIN call = Threads /\ clock \in Nat /\ cache.at \in Nat /\ cache.began \in Nat
  BY DEF RagOK, WorldOK, CacheOK
<1>3. CASE ~force /\ cache.list # {} /\ Fresh
  <2> DEFINE x == From(r, cache)
  <2>1. call' = [call EXCEPT ![c] = Proceed(x)]
    BY <1>3 DEF AllDatasets
  <2>2. cache.list \in SUBSET Datasets /\ cache.full \in SUBSET Datasets /\ cache.began <= cache.at
    BY DEF RagOK, CacheOK
  <2> HIDE DEF r
  <2>3. /\ x \in Record /\ x.tool = tool /\ x.limit = limit /\ x.list = cache.list
        /\ x.pending = {} /\ x.errors = {} /\ x.chunks = <<>> /\ x.steady = {}
        /\ x.began = cache.began /\ x.took = cache.at - cache.began /\ x.since = clock
    BY <1>1, <1>2, <2>2, FromRecord
  <2> HIDE DEF x
  <2>4. x.since < x.began + x.took + MaxOf(Ttl, 1)
    BY <1>2, <1>3, <2>3, RagAssumption DEF Fresh, MaxOf
  <2>5. x.began <= clock /\ Covers(x.list, x.began, Members(stored), deleted)
    BY <1>2, <2>3 DEF RagOK, CacheOK
  <2>6. ThreadOK(Proceed(x), stored, deleted, clock)
    <3>1. PagesSuffice => x.steady \subseteq x.list \/ x.shrunk
      BY <2>3
    <3>2. x.tool = "search" => x.limit \in 1 .. MaxLimit
      BY <2>3
    <3>3. x.began <= clock /\ x.pending = {} /\ x.errors = {} /\ x.chunks = <<>> /\ x \in Record
      BY <2>3, <2>5
    <3> QED BY <1>2, <2>4, <2>5, <3>1, <3>2, <3>3, ProceedKeepsOK
  <2> QED BY <1>2, <2>1, <2>6
<1>4. CASE ~(~force /\ cache.list # {} /\ Fresh)
  <2> DEFINE x == Loading(r)
  <2>1. call' = [call EXCEPT ![c] = x]
    BY <1>4 DEF AllDatasets
  <2>2. Members(stored) \subseteq Datasets
    BY DEF RagOK, WorldOK, Members
  <2>3. Members(stored) \in SUBSET Datasets
    BY <2>2
  <2> HIDE DEF r
  <2>4. /\ x \in Record /\ x.at = "loading" /\ x.tool = tool /\ x.limit = limit /\ x.list = {} /\ x.page = 1
        /\ x.pending = {} /\ x.errors = {} /\ x.chunks = <<>> /\ x.steady = Members(stored) /\ x.began = clock
    BY <1>1, <1>2, <2>3, LoadingRecord
  <2> HIDE DEF x
  <2>5. ForgetsOK(x, Members(stored), deleted, clock)
    BY <1>2, <2>4 DEF ForgetsOK, HasList, Covers
  <2>6. SkipsOK(x, stored)
    <3>1. \A i \in DOMAIN stored : i > (1 - 1) * PageSize
      BY RagAssumption DEF RagOK, WorldOK
    <3> QED BY <2>4, <3>1, RagAssumption DEF SkipsOK, HasList
  <2>7. SearchesOK(x)
    BY <2>4 DEF SearchesOK, HasList
  <2> QED BY <1>2, <2>1, <2>4, <2>5, <2>6, <2>7 DEF ThreadOK
<1> QED BY <1>3, <1>4

(* A part of a list without repetitions has as many members as positions.     *)
Slice(seq, lo, hi) == {seq[i] : i \in {j \in DOMAIN seq : lo < j /\ j <= hi}}

LEMMA SliceOfAList ==
  ASSUME NEW seq \in Seq(Datasets), \A i, j \in DOMAIN seq : seq[i] = seq[j] => i = j,
         NEW lo \in Nat, NEW hi \in Nat, lo <= hi, hi <= Len(seq)
  PROVE  Cardinality(Slice(seq, lo, hi)) = hi - lo
<1> DEFINE slice == Slice(seq, lo, hi)
           S == lo + 1 .. hi
           f == [i \in S |-> seq[i]]
<1>1. {j \in DOMAIN seq : lo < j /\ j <= hi} = S
  OBVIOUS
<1>2. slice = {seq[i] : i \in S}
  BY <1>1 DEF Slice
<1>3. lo + 1 \in Int /\ hi \in Int
  OBVIOUS
<1>4. IsFiniteSet(S) /\ Cardinality(S) = IF lo + 1 > hi THEN 0 ELSE hi - (lo + 1) + 1
  BY <1>3, FS_Interval
<1>5. S \subseteq DOMAIN seq
  OBVIOUS
<1>6. Cardinality(S) = hi - lo
  BY <1>4
<1> HIDE DEF S
<1>7. f \in Surjection(S, slice) /\ f \in Injection(S, slice)
  BY <1>2, <1>5 DEF Surjection, Injection, IsInjective
<1> HIDE DEF f, slice
<1>8. IsFiniteSet(slice) /\ Cardinality(slice) = Cardinality(S)
  BY <1>4, <1>7, FS_Surjection
<1> QED BY <1>6, <1>8 DEF slice

(* After the last page no dataset of the list is left for another one.        *)
LEMMA LastPageIsLast ==
  ASSUME WorldOK(stored, deleted, clock), NEW page \in 1 .. MaxPages, LastPage(page),
         page # MaxPages \/ PagesSuffice
  PROVE  Len(stored) <= page * PageSize
<1> DEFINE n == Len(stored)
           lo == (page - 1) * PageSize
           hi == page * PageSize
<1>1. /\ stored \in Seq(Datasets) /\ n \in Nat /\ DOMAIN stored = 1 .. n
      /\ \A i, j \in DOMAIN stored : stored[i] = stored[j] => i = j
  BY DEF WorldOK
<1>2. lo \in Nat /\ hi \in Nat /\ hi = lo + PageSize /\ PageSize \in Nat \ {0}
  <2>1. PageSize \in Nat \ {0} /\ page - 1 \in Nat /\ page \in Nat
    BY RagAssumption
  <2> QED BY <2>1
<1>3. CASE Cardinality(Batch(page)) < PageSize
  <2> SUFFICES ASSUME n > hi PROVE FALSE
    <3> HIDE DEF n, hi, lo
    <3> QED BY <1>1, <1>2 DEF n, hi
  <2>1. Batch(page) = Slice(stored, lo, hi)
    BY DEF Batch, Slice
  <2> HIDE DEF lo, hi, n
  <2>2. lo <= hi /\ hi <= Len(stored)
    BY <1>1, <1>2 DEF n
  <2>3. Cardinality(Batch(page)) = hi - lo
    BY <1>1, <1>2, <2>1, <2>2, SliceOfAList
  <2> QED BY <1>2, <1>3, <2>3
<1>4. CASE page = MaxPages /\ PagesSuffice
  <2> DEFINE f == [i \in 1 .. n |-> stored[i]]
  <2>1. f \in Injection(1 .. n, Datasets)
    BY <1>1 DEF Injection, IsInjective
  <2>2. IsFiniteSet(1 .. n) /\ Cardinality(1 .. n) = n
    <3> HIDE DEF n
    <3> QED BY <1>1, IntervalSize
  <2>3. IsFiniteSet(Datasets) /\ Cardinality(Datasets) \in Nat
    BY RagAssumption, FS_CardinalityType
  <2> HIDE DEF f, n
  <2>4. Cardinality(1 .. n) <= Cardinality(Datasets)
    BY <2>1, <2>3, FS_Injection
  <2>5. Cardinality(Datasets) < hi
    BY <1>4 DEF PagesSuffice
  <2>6. n < hi
    BY <1>1, <1>2, <2>2, <2>3, <2>4, <2>5
  <2> QED BY <1>1, <1>2, <2>6 DEF n
<1> QED BY <1>3, <1>4 DEF LastPage

LEMMA Pages ==
  ASSUME WorldOK(stored, deleted, clock), NEW page \in 1 .. MaxPages
  PROVE  /\ Batch(page) \in SUBSET Datasets /\ Batch(page) \subseteq Members(stored)
         /\ \A i \in DOMAIN stored : i > (page - 1) * PageSize =>
              stored[i] \in Batch(page) \/ i > page * PageSize
<1> DEFINE lo == (page - 1) * PageSize
           hi == page * PageSize
<1>1. /\ DOMAIN stored = 1 .. Len(stored) /\ Len(stored) \in Nat
      /\ \A i \in DOMAIN stored : stored[i] \in Datasets
  BY DEF WorldOK
<1>2. hi \in Nat
  BY RagAssumption
<1>3. Batch(page) = {stored[i] : i \in {j \in DOMAIN stored : lo < j /\ j <= hi}}
  BY DEF Batch
<1> HIDE DEF lo, hi
<1>4. Batch(page) \in SUBSET Datasets /\ Batch(page) \subseteq Members(stored)
  BY <1>1, <1>3 DEF Members
<1>5. ASSUME NEW i \in DOMAIN stored, i > lo, ~(i > hi) PROVE stored[i] \in Batch(page)
  BY <1>1, <1>2, <1>3, <1>5
<1> QED BY <1>4, <1>5 DEF lo, hi

LEMMA PageArrivesOK ==
  ASSUME RagOK, NEW c \in Threads, PageArrives(c)
  PROVE  RagOK'
<1> DEFINE r == call[c]
           batch == Batch(r.page)
           read == [at |-> clock, began |-> r.began, list |-> r.list \union batch,
                    full |-> (r.full \ batch) \union (batch \cap filled)]
<1>1. /\ WorldOK(stored, deleted, clock) /\ filled \subseteq Datasets
      /\ DOMAIN call = Threads /\ clock \in Nat
      /\ \A e \in Threads : ThreadOK(call[e], stored, deleted, clock)
      /\ CacheOK(cache, stored, deleted, clock)
  BY DEF RagOK, WorldOK
<1>2. /\ r \in Record /\ r.at = "loading" /\ r.page \in 1 .. MaxPages
      /\ ForgetsOK(r, Members(stored), deleted, clock) /\ SkipsOK(r, stored) /\ SearchesOK(r)
  BY <1>1 DEF ThreadOK, SkipsOK, PageArrives
<1>3. r.began \in Nat /\ r.list \in SUBSET Datasets /\ r.full \in SUBSET Datasets /\ r.began <= clock
  BY <1>2 DEF Record, ForgetsOK
<1>4. batch \in SUBSET Datasets /\ batch \subseteq Members(stored)
  <2> HIDE DEF r
  <2> QED BY <1>1, <1>2, Pages
<1>5. /\ UNCHANGED <<stored, filled, changes, clock, deleted>>
      /\ \/ LastPage(r.page) /\ cache' = read /\ call' = [call EXCEPT ![c] = Proceed(From(r, read))]
         \/ ~LastPage(r.page) /\ call' = [call EXCEPT ![c] = NextPage(r, read)] /\ UNCHANGED cache
  BY DEF PageArrives
<1>6. /\ read.at = clock /\ read.began = r.began /\ read.list = r.list \union batch
      /\ read.list \in SUBSET Datasets /\ read.full \in SUBSET Datasets
  <2> HIDE DEF r, batch
  <2> QED BY <1>1, <1>3, <1>4
<1>7. /\ r.steady \subseteq Members(stored)
      /\ r.shrunk \/ \A i \in DOMAIN stored : stored[i] \in r.steady \ r.list => i > (r.page - 1) * PageSize
  BY <1>2 DEF SkipsOK
<1>8. /\ r.pending = {} /\ r.errors = {} /\ r.chunks = <<>>
      /\ r.tool = "search" => r.limit \in 1 .. MaxLimit
  BY <1>2 DEF SearchesOK
<1> HIDE DEF r, batch, read
<1>9. Covers(read.list, r.began, Members(stored), deleted)
  BY <1>2, <1>4, <1>6 DEF ForgetsOK, Covers
<1>10. CacheOK(read, stored, deleted, clock)
  BY <1>1, <1>3, <1>6, <1>9 DEF CacheOK
<1>11. r.shrunk \/ \A i \in DOMAIN stored : stored[i] \in r.steady \ read.list => i > r.page * PageSize
  <2>1. \A i \in DOMAIN stored : i > (r.page - 1) * PageSize => stored[i] \in batch \/ i > r.page * PageSize
    BY <1>1, <1>2, Pages DEF batch
  <2> QED BY <1>6, <1>7, <2>1
<1>12. CASE LastPage(r.page) /\ cache' = read /\ call' = [call EXCEPT ![c] = Proceed(From(r, read))]
  <2> DEFINE x == From(r, read)
  <2>1. /\ x \in Record /\ x.tool = r.tool /\ x.limit = r.limit /\ x.list = read.list
        /\ x.pending = {} /\ x.errors = {} /\ x.chunks = <<>>
        /\ x.steady = r.steady /\ x.shrunk = r.shrunk
        /\ x.began = r.began /\ x.took = clock - r.began /\ x.since = clock
    BY <1>1, <1>2, <1>3, <1>6, <1>8, FromRecord
  <2> HIDE DEF x
  <2>2. x.since < x.began + x.took + MaxOf(Ttl, 1)
    BY <1>1, <1>3, <2>1, RagAssumption DEF MaxOf
  <2>3. PagesSuffice => x.steady \subseteq x.list \/ x.shrunk
    <3> SUFFICES ASSUME PagesSuffice, ~r.shrunk, NEW d \in r.steady, d \notin read.list PROVE FALSE
      BY <2>1
    <3>1. Len(stored) <= r.page * PageSize
      BY <1>1, <1>2, <1>12, LastPageIsLast
    <3>2. PICK i \in DOMAIN stored : stored[i] = d
      BY <1>7 DEF Members
    <3>3. i > r.page * PageSize
      BY <1>11, <3>2
    <3>4. i \in Nat /\ i <= Len(stored) /\ Len(stored) \in Nat /\ r.page * PageSize \in Nat
      BY <1>1, <1>2, RagAssumption DEF WorldOK
    <3> QED BY <3>1, <3>3, <3>4
  <2>4. ThreadOK(Proceed(x), stored, deleted, clock)
    <3>1. x.tool = "search" => x.limit \in 1 .. MaxLimit
      BY <1>8, <2>1
    <3>2. Covers(x.list, x.began, Members(stored), deleted) /\ x.began <= clock
      BY <1>3, <1>9, <2>1
    <3>3. x.pending = {} /\ x.errors = {} /\ x.chunks = <<>> /\ x \in Record
      BY <2>1
    <3> QED BY <1>1, <2>2, <2>3, <3>1, <3>2, <3>3, ProceedKeepsOK
  <2>5. \A e \in Threads : ThreadOK(call'[e], stored, deleted, clock)
    BY <1>1, <1>12, <2>4 DEF x
  <2> QED BY <1>1, <1>5, <1>10, <1>12, <2>5 DEF RagOK
<1>13. CASE ~LastPage(r.page) /\ call' = [call EXCEPT ![c] = NextPage(r, read)] /\ UNCHANGED cache
  <2> DEFINE x == NextPage(r, read)
  <2>1. /\ x \in Record /\ x.at = "loading" /\ x.tool = r.tool /\ x.limit = r.limit /\ x.list = read.list
        /\ x.pending = {} /\ x.errors = {} /\ x.chunks = <<>>
        /\ x.steady = r.steady /\ x.shrunk = r.shrunk /\ x.began = r.began /\ x.page = r.page + 1
    BY <1>2, <1>6, <1>8, NextPageRecord
  <2> HIDE DEF x
  <2>2. ForgetsOK(x, Members(stored), deleted, clock)
    BY <1>3, <1>9, <2>1 DEF ForgetsOK, HasList
  <2>3. SkipsOK(x, stored)
    <3>1. x.page \in 1 .. MaxPages /\ x.page - 1 = r.page
      BY <1>2, <1>13, <2>1, RagAssumption DEF LastPage
    <3> QED BY <1>7, <1>11, <2>1, <3>1 DEF SkipsOK, HasList
  <2>4. SearchesOK(x)
    BY <1>8, <2>1 DEF SearchesOK, HasList
  <2>5. \A e \in Threads : ThreadOK(call'[e], stored, deleted, clock)
    BY <1>1, <1>13, <2>1, <2>2, <2>3, <2>4 DEF ThreadOK, x
  <2> QED BY <1>1, <1>5, <1>13, <2>5 DEF RagOK
<1> QED BY <1>5, <1>12, <1>13

LEMMA MeanwhileRecord ==
  ASSUME NEW r \in Record, NEW new
  PROVE  LET x == Meanwhile(r, new)
         IN /\ x \in Record /\ x.at = r.at /\ x.tool = r.tool /\ x.limit = r.limit /\ x.globs = r.globs
            /\ x.list = r.list /\ x.full = r.full /\ x.pending = r.pending /\ x.errors = r.errors
            /\ x.chunks = r.chunks /\ x.page = r.page /\ x.began = r.began
            /\ x.steady = r.steady \cap Members(new)
            /\ x.shrunk <=> (r.shrunk \/ Len(new) < Len(stored))
<1> DEFINE shorter == Len(new) < Len(stored)
<1>1. shorter \in BOOLEAN /\ (shorter <=> Len(new) < Len(stored))
  OBVIOUS
<1>2. Meanwhile(r, new) = [r EXCEPT !.steady = r.steady \cap Members(new), !.shrunk = r.shrunk \/ shorter]
  BY DEF Meanwhile
<1> HIDE DEF shorter
<1> DEFINE x == [r EXCEPT !.steady = r.steady \cap Members(new), !.shrunk = r.shrunk \/ shorter]
<1>3. /\ x \in Record /\ x.at = r.at /\ x.tool = r.tool /\ x.limit = r.limit /\ x.globs = r.globs
      /\ x.list = r.list /\ x.full = r.full /\ x.pending = r.pending /\ x.errors = r.errors
      /\ x.chunks = r.chunks /\ x.page = r.page /\ x.began = r.began
      /\ x.steady = r.steady \cap Members(new)
      /\ x.shrunk <=> (r.shrunk \/ shorter)
  BY <1>1 DEF Record
<1>4. Meanwhile(r, new) = x
  BY <1>2
<1> HIDE DEF x
<1> QED BY <1>1, <1>3, <1>4

(* RAGFlow's datasets change. What was forgotten is dated, and no dataset     *)
(* moves to an earlier position unless one was deleted.                       *)
LEMMA ChangeOK ==
  ASSUME RagOK, NEW new \in Seq(Datasets), NEW newFilled \in SUBSET Datasets, Change(new, newFilled),
         \A i, j \in DOMAIN new : new[i] = new[j] => i = j, deleted' \in [Datasets -> Nat],
         \A list \in SUBSET Datasets, began \in Nat :
           began <= clock /\ Covers(list, began, Members(stored), deleted) =>
             Covers(list, began, Members(new), deleted'),
         \/ Len(new) < Len(stored)
         \/ \A i \in DOMAIN new : \/ new[i] \notin Members(stored)
                                  \/ \E j \in DOMAIN stored : j <= i /\ stored[j] = new[i]
  PROVE  RagOK'
<1>1. /\ WorldOK(stored, deleted, clock) /\ clock \in Nat
      /\ DOMAIN call = Threads
      /\ \A e \in Threads : ThreadOK(call[e], stored, deleted, clock)
      /\ CacheOK(cache, stored, deleted, clock)
  BY DEF RagOK, WorldOK
<1>2. /\ stored' = new /\ filled' = newFilled /\ clock' = clock /\ cache' = cache
      /\ call' = [e \in Threads |-> IF call[e].at = "loading" THEN Meanwhile(call[e], new) ELSE call[e]]
  BY DEF Change
<1>3. WorldOK(new, deleted', clock)
  BY <1>1 DEF WorldOK
<1>4. CacheOK(cache, new, deleted', clock)
  BY <1>1 DEF CacheOK
<1>5. ASSUME NEW e \in Threads PROVE ThreadOK(call'[e], new, deleted', clock)
  <2> DEFINE r == call[e]
             x == call'[e]
  <2>1. /\ r \in Record /\ ForgetsOK(r, Members(stored), deleted, clock)
        /\ SkipsOK(r, stored) /\ SearchesOK(r)
    BY <1>1 DEF ThreadOK
  <2>2. r.list \in SUBSET Datasets /\ r.began \in Nat /\ r.page \in Nat
    BY <2>1 DEF Record
  <2>3. CASE r.at # "loading"
    <3>1. x = r
      BY <1>2, <2>3
    <3> HIDE DEF r, x
    <3>2. ForgetsOK(r, Members(new), deleted', clock)
      BY <2>1, <2>2, <2>3 DEF ForgetsOK
    <3>3. SkipsOK(r, new)
      BY <2>1, <2>3 DEF SkipsOK
    <3> QED BY <2>1, <3>1, <3>2, <3>3 DEF ThreadOK, x
  <2>4. CASE r.at = "loading"
    <3>1. x = Meanwhile(r, new)
      BY <1>2, <2>4
    <3> HIDE DEF r, x
    <3>2. /\ x \in Record /\ x.at = "loading" /\ x.tool = r.tool /\ x.limit = r.limit /\ x.globs = r.globs
          /\ x.list = r.list /\ x.full = r.full /\ x.pending = r.pending /\ x.errors = r.errors
          /\ x.chunks = r.chunks /\ x.page = r.page /\ x.began = r.began
          /\ x.steady = r.steady \cap Members(new)
          /\ x.shrunk <=> (r.shrunk \/ Len(new) < Len(stored))
      BY <2>1, <2>4, <3>1, MeanwhileRecord
    <3>3. ForgetsOK(x, Members(new), deleted', clock)
      BY <2>1, <2>2, <2>4, <3>2 DEF ForgetsOK, HasList
    <3>4. SkipsOK(x, new)
      <4>1. r.page \in 1 .. MaxPages /\ r.steady \subseteq Members(stored)
        BY <2>1, <2>4 DEF SkipsOK
      <4>2. ASSUME ~x.shrunk, NEW i \in DOMAIN new, new[i] \in x.steady \ x.list
            PROVE  i > (x.page - 1) * PageSize
        <5>1. PICK j \in DOMAIN stored : j <= i /\ stored[j] = new[i]
          BY <3>2, <4>1, <4>2
        <5>2. j > (r.page - 1) * PageSize
          BY <2>1, <2>4, <3>2, <4>2, <5>1 DEF SkipsOK
        <5>3. i \in Nat /\ j \in Nat /\ (r.page - 1) * PageSize \in Int
          BY <1>1, <2>2, RagAssumption DEF WorldOK
        <5> QED BY <3>2, <5>1, <5>2, <5>3
      <4> QED BY <3>2, <4>1, <4>2 DEF SkipsOK, HasList
    <3>5. SearchesOK(x)
      BY <2>1, <2>4, <3>2 DEF SearchesOK, HasList
    <3> QED BY <3>2, <3>3, <3>4, <3>5 DEF ThreadOK, x
  <2> QED BY <2>3, <2>4
<1> QED BY <1>2, <1>3, <1>4, <1>5 DEF RagOK

LEMMA StoredLists ==
  ASSUME RagOK
  PROVE  /\ stored \in Seq(Datasets) /\ Len(stored) \in Nat /\ DOMAIN stored = 1 .. Len(stored)
         /\ \A i, j \in DOMAIN stored : stored[i] = stored[j] => i = j
         /\ \A i \in DOMAIN stored : stored[i] \in Datasets
         /\ deleted \in [Datasets -> Nat] /\ clock \in Nat /\ filled \in SUBSET Datasets
BY DEF RagOK, WorldOK

LEMMA CreateOK ==
  ASSUME RagOK, NEW d \in Datasets, Create(d)
  PROVE  RagOK'
<1> DEFINE new == <<d>> \o stored
<1>1. /\ d \notin Members(stored) /\ Change(new, filled) /\ UNCHANGED deleted
  BY DEF Create
<1>2. /\ new \in Seq(Datasets) /\ Len(new) = Len(stored) + 1 /\ new[1] = d
      /\ DOMAIN new = 1 .. Len(stored) + 1
      /\ \A i \in 2 .. Len(stored) + 1 : new[i] = stored[i - 1] /\ i - 1 \in DOMAIN stored
  BY StoredLists
<1> HIDE DEF new
<1>3. \A i, j \in DOMAIN new : new[i] = new[j] => i = j
  <2> SUFFICES ASSUME NEW i \in DOMAIN new, NEW j \in DOMAIN new, new[i] = new[j] PROVE i = j
    OBVIOUS
  <2>1. ASSUME NEW k \in DOMAIN new, k # 1 PROVE new[k] # d
    <3>1. k \in 2 .. Len(stored) + 1
      BY <1>2, <2>1, StoredLists
    <3>2. new[k] \in Members(stored)
      BY <1>2, <3>1 DEF Members
    <3> QED BY <1>1, <3>2
  <2>2. CASE i = 1 \/ j = 1
    BY <1>2, <2>1, <2>2
  <2>3. CASE i # 1 /\ j # 1
    <3>1. i \in 2 .. Len(stored) + 1 /\ j \in 2 .. Len(stored) + 1
      BY <1>2, <2>3, StoredLists
    <3>2. i - 1 = j - 1
      BY <1>2, <3>1, StoredLists
    <3> QED BY <3>1, <3>2, StoredLists
  <2> QED BY <2>2, <2>3
<1>4. Members(stored) \subseteq Members(new)
  <2> SUFFICES ASSUME NEW i \in DOMAIN stored PROVE stored[i] \in Members(new)
    BY DEF Members
  <2>1. i + 1 \in 2 .. Len(stored) + 1 /\ (i + 1) - 1 = i
    BY StoredLists
  <2>2. new[i + 1] = stored[i] /\ i + 1 \in DOMAIN new
    BY <1>2, <2>1, StoredLists
  <2> QED BY <2>2 DEF Members
<1>5. ASSUME NEW list \in SUBSET Datasets, NEW began \in Nat, Covers(list, began, Members(stored), deleted)
      PROVE  Covers(list, began, Members(new), deleted')
  BY <1>1, <1>4, <1>5 DEF Covers
<1>6. ASSUME NEW i \in DOMAIN new, new[i] \in Members(stored)
      PROVE  \E j \in DOMAIN stored : j <= i /\ stored[j] = new[i]
  <2>1. i # 1
    BY <1>1, <1>2, <1>6
  <2>2. i \in 2 .. Len(stored) + 1
    BY <1>2, <2>1, StoredLists
  <2>3. i - 1 \in DOMAIN stored /\ stored[i - 1] = new[i] /\ i - 1 <= i
    BY <1>2, <2>2
  <2> QED BY <2>3
<1>7. deleted' \in [Datasets -> Nat] /\ filled \in SUBSET Datasets
  BY <1>1, StoredLists
<1> QED BY <1>1, <1>2, <1>3, <1>5, <1>6, <1>7, ChangeOK

LEMMA FillOK ==
  ASSUME RagOK, NEW d \in Datasets, Fill(d)
  PROVE  RagOK'
<1>1. Change(stored, filled \union {d}) /\ UNCHANGED deleted
  BY DEF Fill
<1>2. filled \union {d} \in SUBSET Datasets /\ deleted' \in [Datasets -> Nat]
  BY <1>1, StoredLists
<1>3. \A i \in DOMAIN stored : \E j \in DOMAIN stored : j <= i /\ stored[j] = stored[i]
  BY StoredLists
<1>4. ASSUME NEW list, NEW began, Covers(list, began, Members(stored), deleted)
      PROVE  Covers(list, began, Members(stored), deleted')
  BY <1>1, <1>4
<1> QED BY <1>1, <1>2, <1>3, <1>4, StoredLists, ChangeOK

LEMMA DeleteOK ==
  ASSUME RagOK, NEW d \in Datasets, Delete(d)
  PROVE  RagOK'
<1> DEFINE at == CHOOSE i \in DOMAIN stored : stored[i] = d
           new == [i \in 1 .. Len(stored) - 1 |-> stored[IF i < at THEN i ELSE i + 1]]
<1>1. /\ d \in Members(stored) /\ Change(new, filled \ {d}) /\ deleted' = [deleted EXCEPT ![d] = clock]
  BY DEF Delete
<1>2. at \in DOMAIN stored /\ stored[at] = d
  BY <1>1 DEF Members
<1> HIDE DEF at
<1>3. /\ new \in Seq(Datasets) /\ DOMAIN new = 1 .. Len(stored) - 1 /\ Len(new) = Len(stored) - 1
  <2>1. Len(stored) - 1 \in Nat
    BY <1>2, StoredLists
  <2>2. \A i \in 1 .. Len(stored) - 1 : stored[IF i < at THEN i ELSE i + 1] \in Datasets
    BY <1>2, StoredLists
  <2> QED BY <2>1, <2>2
<1>4. \A i, j \in DOMAIN new : new[i] = new[j] => i = j
  <2> SUFFICES ASSUME NEW i \in DOMAIN new, NEW j \in DOMAIN new, new[i] = new[j] PROVE i = j
    OBVIOUS
  <2> DEFINE p == IF i < at THEN i ELSE i + 1
             q == IF j < at THEN j ELSE j + 1
  <2>1. i \in 1 .. Len(stored) - 1 /\ j \in 1 .. Len(stored) - 1 /\ at \in Nat
    BY <1>2, <1>3, StoredLists
  <2>2. p \in DOMAIN stored /\ q \in DOMAIN stored
    BY <2>1, StoredLists
  <2>3. new[i] = stored[p] /\ new[j] = stored[q]
    BY <2>1
  <2>4. p = q
    <3> HIDE DEF p, q, new
    <3> QED BY <2>2, <2>3, StoredLists
  <2> QED BY <2>1, <2>4
<1>5. \A i \in DOMAIN stored : i # at => stored[i] \in Members(new)
  <2> SUFFICES ASSUME NEW i \in DOMAIN stored, i # at PROVE \E j \in DOMAIN new : new[j] = stored[i]
    BY DEF Members
  <2>1. CASE i < at
    <3>1. i \in DOMAIN new /\ new[i] = stored[i]
      BY <1>2, <1>3, <2>1, StoredLists
    <3> QED BY <3>1
  <2>2. CASE i > at
    <3>1. i - 1 \in DOMAIN new /\ new[i - 1] = stored[i]
      BY <1>2, <1>3, <2>2, StoredLists
    <3> QED BY <3>1
  <2> QED BY <1>2, <2>1, <2>2, StoredLists
<1> HIDE DEF new
<1>6. Len(new) < Len(stored)
  BY <1>3, StoredLists
<1>7. Members(stored) \ {d} \subseteq Members(new)
  BY <1>2, <1>5, StoredLists DEF Members
<1>8. ASSUME NEW list \in SUBSET Datasets, NEW began \in Nat, began <= clock,
             Covers(list, began, Members(stored), deleted)
      PROVE  Covers(list, began, Members(new), deleted')
  <2> SUFFICES ASSUME NEW e \in list \ Members(new) PROVE deleted'[e] >= began
    BY DEF Covers
  <2>1. CASE e = d
    BY <1>1, <1>8, <2>1, StoredLists
  <2>2. CASE e # d
    <3>1. e \in list \ Members(stored)
      BY <1>7, <2>2
    <3>2. deleted[e] >= began
      BY <1>8, <3>1 DEF Covers
    <3> QED BY <1>1, <2>2, <3>2, StoredLists
  <2> QED BY <2>1, <2>2
<1>9. deleted' \in [Datasets -> Nat] /\ filled \ {d} \in SUBSET Datasets
  BY <1>1, StoredLists
<1> QED BY <1>1, <1>3, <1>4, <1>6, <1>8, <1>9, ChangeOK

LEMMA TickOK ==
  ASSUME RagOK, RagTick
  PROVE  RagOK'
<1>1. clock' = clock + 1 /\ UNCHANGED <<stored, filled, cache, call, deleted>> /\ clock \in Nat
  BY StoredLists DEF RagTick
<1>2. WorldOK(stored, deleted, clock + 1)
  BY <1>1 DEF RagOK, WorldOK
<1>3. CacheOK(cache, stored, deleted, clock + 1)
  BY <1>1 DEF RagOK, CacheOK
<1>4. ASSUME NEW c \in Threads PROVE ThreadOK(call[c], stored, deleted, clock + 1)
  <2>1. ThreadOK(call[c], stored, deleted, clock)
    BY DEF RagOK
  <2>2. call[c].began \in Nat
    BY <2>1 DEF ThreadOK, Record
  <2>3. ForgetsOK(call[c], Members(stored), deleted, clock + 1)
    BY <1>1, <2>1, <2>2 DEF ThreadOK, ForgetsOK
  <2> QED BY <2>1, <2>3 DEF ThreadOK
<1> QED BY <1>1, <1>2, <1>3, <1>4 DEF RagOK

LEMMA EndedRecord ==
  ASSUME NEW r \in Record, r.at = "searching", NEW d
  PROVE  LET x == Ended(r, d)
         IN /\ x \in Record /\ x.at = (IF r.pending = {d} THEN "done" ELSE "searching")
            /\ x.pending = r.pending \ {d}
            /\ x.tool = r.tool /\ x.limit = r.limit /\ x.globs = r.globs /\ x.list = r.list /\ x.full = r.full
            /\ x.errors = r.errors /\ x.chunks = r.chunks /\ x.steady = r.steady /\ x.shrunk = r.shrunk
            /\ x.began = r.began /\ x.took = r.took /\ x.since = r.since
BY DEF Ended, Record

LEMMA FailedRecord ==
  ASSUME NEW r \in Record, NEW d \in Datasets
  PROVE  LET x == Failed(r, d)
         IN /\ x \in Record /\ x.at = r.at /\ x.pending = r.pending
            /\ x.tool = r.tool /\ x.limit = r.limit /\ x.globs = r.globs /\ x.list = r.list /\ x.full = r.full
            /\ x.errors = r.errors \union {d} /\ x.chunks = r.chunks /\ x.steady = r.steady
            /\ x.shrunk = r.shrunk /\ x.began = r.began /\ x.took = r.took /\ x.since = r.since
BY DEF Failed, Record

LEMMA FoundRecord ==
  ASSUME NEW r \in Record, NEW d, r.chunks \o Best(r, d) \in Seq(Datasets \X Nat)
  PROVE  LET x == Found(r, d)
         IN /\ x \in Record /\ x.at = r.at /\ x.pending = r.pending
            /\ x.tool = r.tool /\ x.limit = r.limit /\ x.globs = r.globs /\ x.list = r.list /\ x.full = r.full
            /\ x.errors = r.errors /\ x.chunks = r.chunks \o Best(r, d) /\ x.steady = r.steady
            /\ x.shrunk = r.shrunk /\ x.began = r.began /\ x.took = r.took /\ x.since = r.since
BY DEF Found, Record

(* The thread c changes, and nothing else.                                    *)
LEMMA OneThread ==
  ASSUME RagOK, NEW c \in Threads, NEW x, call' = [call EXCEPT ![c] = x],
         ThreadOK(x, stored, deleted, clock),
         UNCHANGED <<stored, filled, changes, clock, cache, deleted>>
  PROVE  RagOK'
BY DEF RagOK

(* A search that runs, and what of its record its end leaves alone.           *)
LEMMA Running ==
  ASSUME RagOK, NEW c \in Threads, NEW d, Runs(c, d)
  PROVE  LET r == call[c]
         IN /\ r \in Record /\ r.at = "searching" /\ r.tool = "search" /\ d \in r.pending /\ d \in Datasets
            /\ ForgetsOK(r, Members(stored), deleted, clock) /\ SkipsOK(r, stored) /\ SearchesOK(r)
            /\ r.limit \in 1 .. MaxLimit /\ r.pending \subseteq Searchable(r)
<1> DEFINE r == call[c]
<1>1. ThreadOK(r, stored, deleted, clock) /\ d \in r.pending
  BY DEF RagOK, Runs
<1> HIDE DEF r
<1>2. r \in Record /\ r.at = "searching" /\ r.tool = "search"
  BY <1>1 DEF ThreadOK, SearchesOK
<1>3. r.limit \in 1 .. MaxLimit /\ r.pending \subseteq Searchable(r)
  BY <1>1, <1>2 DEF ThreadOK, SearchesOK, HasList
<1>4. d \in Datasets
  BY <1>1, <1>2 DEF Record
<1> QED BY <1>1, <1>2, <1>3, <1>4 DEF ThreadOK, r

LEMMA SearchFailsOK ==
  ASSUME RagOK, NEW c \in Threads, NEW d, SearchFails(c, d)
  PROVE  RagOK'
<1> DEFINE r == call[c]
           f == Failed(r, d)
           x == Ended(f, d)
<1>1. /\ r \in Record /\ r.at = "searching" /\ r.tool = "search" /\ d \in r.pending /\ d \in Datasets
      /\ ForgetsOK(r, Members(stored), deleted, clock) /\ SkipsOK(r, stored) /\ SearchesOK(r)
      /\ r.limit \in 1 .. MaxLimit /\ r.pending \subseteq Searchable(r)
  BY Running DEF SearchFails
<1>2. call' = [call EXCEPT ![c] = x] /\ UNCHANGED <<stored, filled, changes, clock, cache, deleted>>
  BY DEF SearchFails
<1> HIDE DEF r
<1>3. /\ f \in Record /\ f.at = "searching" /\ f.pending = r.pending
      /\ f.tool = r.tool /\ f.limit = r.limit /\ f.globs = r.globs /\ f.list = r.list /\ f.full = r.full
      /\ f.errors = r.errors \union {d} /\ f.chunks = r.chunks /\ f.steady = r.steady
      /\ f.shrunk = r.shrunk /\ f.began = r.began /\ f.took = r.took /\ f.since = r.since
  BY <1>1, FailedRecord
<1> HIDE DEF f
<1>4. /\ x \in Record /\ x.at = (IF r.pending = {d} THEN "done" ELSE "searching")
      /\ x.pending = r.pending \ {d}
      /\ x.tool = "search" /\ x.limit = r.limit /\ x.globs = r.globs /\ x.list = r.list /\ x.full = r.full
      /\ x.errors = r.errors \union {d} /\ x.chunks = r.chunks /\ x.steady = r.steady /\ x.shrunk = r.shrunk
      /\ x.began = r.began /\ x.took = r.took /\ x.since = r.since
  BY <1>1, <1>3, EndedRecord
<1> HIDE DEF x
<1>5. HasList(x) /\ HasList(r) /\ x.at # "loading" /\ Searchable(x) = Searchable(r)
  BY <1>1, <1>4 DEF HasList, Searchable
<1>6. ForgetsOK(x, Members(stored), deleted, clock) /\ SkipsOK(x, stored)
  BY <1>1, <1>4, <1>5 DEF ForgetsOK, SkipsOK
<1>7. \A e \in Datasets : Given(x, e) = Given(r, e)
  BY <1>4 DEF Given
<1>8. SearchesOK(x)
  <2>1. x.pending \union x.errors = r.pending \union r.errors
    BY <1>1, <1>4
  <2>2. x.at = "done" => x.pending = {}
    BY <1>4
  <2>3. x.pending # {} => x.at = "searching"
    BY <1>4
  <2>4. x.pending \subseteq Searchable(x) /\ x.pending \cap x.errors = {}
    BY <1>1, <1>4, <1>5 DEF SearchesOK
  <2>5. Searchable(r) \in SUBSET Datasets
    BY <1>1 DEF Searchable, Record
  <2>6. \A i \in DOMAIN x.chunks :
          /\ x.chunks[i][1] \in Searchable(x) \ (x.pending \union x.errors)
          /\ x.chunks[i][2] \in Given(x, x.chunks[i][1])
    BY <1>1, <1>4, <1>5, <1>7, <2>1, <2>5 DEF SearchesOK
  <2>7. \A e \in Searchable(x) \ (x.pending \union x.errors) : \A k \in Given(x, e) :
          <<e, k>> \in Members(x.chunks)
    BY <1>1, <1>4, <1>5, <1>7, <2>1, <2>5 DEF SearchesOK
  <2>8. \A i, j \in DOMAIN x.chunks : x.chunks[i] = x.chunks[j] => i = j
    BY <1>1, <1>4, <1>5 DEF SearchesOK
  <2> QED BY <1>1, <1>4, <1>5, <2>2, <2>3, <2>4, <2>6, <2>7, <2>8 DEF SearchesOK
<1> QED BY <1>2, <1>4, <1>6, <1>8, OneThread DEF ThreadOK

LEMMA Joined ==
  ASSUME NEW S, NEW s \in Seq(S), NEW t \in Seq(S), NEW n, n = Len(s), NEW b, b = Len(t)
  PROVE  /\ s \o t \in Seq(S) /\ DOMAIN (s \o t) = 1 .. n + b
         /\ \A i \in 1 .. n : (s \o t)[i] = s[i]
         /\ \A k \in 1 .. b : (s \o t)[n + k] = t[k]
OBVIOUS

LEMMA SearchReturnsOK ==
  ASSUME RagOK, NEW c \in Threads, NEW d, SearchReturns(c, d)
  PROVE  RagOK'
<1> DEFINE r == call[c]
           b == MinOf(r.limit, Len(Hits[d]))
           n == Len(r.chunks)
           best == Best(r, d)
           chunks == r.chunks \o best
           f == Found(r, d)
           x == Ended(f, d)
<1>1. /\ r \in Record /\ r.at = "searching" /\ r.tool = "search" /\ d \in r.pending /\ d \in Datasets
      /\ ForgetsOK(r, Members(stored), deleted, clock) /\ SkipsOK(r, stored) /\ SearchesOK(r)
      /\ r.limit \in 1 .. MaxLimit /\ r.pending \subseteq Searchable(r)
  BY Running DEF SearchReturns
<1>2. call' = [call EXCEPT ![c] = x] /\ UNCHANGED <<stored, filled, changes, clock, cache, deleted>>
  BY DEF SearchReturns
<1> HIDE DEF r
<1>3. b \in Nat /\ r.chunks \in Seq(Datasets \X Nat) /\ n \in Nat
  <2>1. Hits[d] \in Seq(Nat)
    BY <1>1, RagAssumption
  <2>2. Len(Hits[d]) \in Nat /\ r.limit \in Nat
    BY <1>1, <2>1, RagAssumption
  <2> QED BY <1>1, <2>2 DEF MinOf, Record
<1>4. best \in Seq(Datasets \X Nat) /\ Len(best) = b /\ DOMAIN best = 1 .. b /\ \A k \in 1 .. b : best[k] = <<d, k>>
  <2>1. best = [k \in 1 .. b |-> <<d, k>>]
    BY DEF Best, PerDataset
  <2> HIDE DEF b, best
  <2> QED BY <1>1, <1>3, <2>1
<1> HIDE DEF b, best
<1>5. /\ chunks \in Seq(Datasets \X Nat) /\ DOMAIN chunks = 1 .. n + b
      /\ \A i \in 1 .. n : chunks[i] = r.chunks[i]
      /\ \A k \in 1 .. b : chunks[n + k] = <<d, k>>
  <2>1. n = Len(r.chunks) /\ b = Len(best)
    BY <1>4
  <2> DEFINE S == Datasets \X Nat
             old == r.chunks
  <2>2. old \in Seq(S) /\ best \in Seq(S) /\ n = Len(old)
    BY <1>3, <1>4
  <2>3. chunks = old \o best
    OBVIOUS
  <2>4. \A i \in 1 .. n : old[i] = r.chunks[i]
    OBVIOUS
  <2> HIDE DEF n, S, old
  <2>5. /\ old \o best \in Seq(S) /\ DOMAIN (old \o best) = 1 .. n + b
        /\ \A i \in 1 .. n : (old \o best)[i] = old[i]
        /\ \A k \in 1 .. b : (old \o best)[n + k] = best[k]
    BY <2>1, <2>2, Joined
  <2> HIDE DEF chunks
  <2> QED BY <1>4, <2>3, <2>4, <2>5 DEF S
<1>6. /\ f \in Record /\ f.at = "searching" /\ f.pending = r.pending
      /\ f.tool = r.tool /\ f.limit = r.limit /\ f.globs = r.globs /\ f.list = r.list /\ f.full = r.full
      /\ f.errors = r.errors /\ f.chunks = chunks /\ f.steady = r.steady
      /\ f.shrunk = r.shrunk /\ f.began = r.began /\ f.took = r.took /\ f.since = r.since
  BY <1>1, <1>5, FoundRecord DEF best
<1> HIDE DEF f, chunks
<1>7. /\ x \in Record /\ x.at = (IF r.pending = {d} THEN "done" ELSE "searching")
      /\ x.pending = r.pending \ {d}
      /\ x.tool = "search" /\ x.limit = r.limit /\ x.globs = r.globs /\ x.list = r.list /\ x.full = r.full
      /\ x.errors = r.errors /\ x.chunks = chunks /\ x.steady = r.steady /\ x.shrunk = r.shrunk
      /\ x.began = r.began /\ x.took = r.took /\ x.since = r.since
  BY <1>1, <1>6, EndedRecord
<1> HIDE DEF x
<1>8. HasList(x) /\ HasList(r) /\ x.at # "loading" /\ Searchable(x) = Searchable(r)
  BY <1>1, <1>7 DEF HasList, Searchable
<1>9. ForgetsOK(x, Members(stored), deleted, clock) /\ SkipsOK(x, stored)
  BY <1>1, <1>7, <1>8 DEF ForgetsOK, SkipsOK
<1>10. (\A e \in Datasets : Given(x, e) = Given(r, e)) /\ Given(r, d) = 1 .. b
  BY <1>7 DEF Given, b
<1>11. SearchesOK(x)
  <2>1. x.pending \union x.errors = (r.pending \union r.errors) \ {d} /\ d \notin r.errors
    BY <1>1, <1>7, <1>8 DEF SearchesOK
  <2>2. /\ x.at = "done" => x.pending = {}
        /\ x.pending # {} => x.at = "searching"
        /\ x.pending \subseteq Searchable(x) /\ x.pending \cap x.errors = {}
    BY <1>1, <1>7, <1>8 DEF SearchesOK
  <2>3. Searchable(r) \in SUBSET Datasets /\ d \in Searchable(r)
    BY <1>1 DEF Searchable, Record
  <2>4. DOMAIN r.chunks = 1 .. n
    BY <1>3
  <2>5. /\ \A i, j \in 1 .. n : r.chunks[i] = r.chunks[j] => i = j
        /\ \A i \in 1 .. n : /\ r.chunks[i][1] \in Searchable(r) \ (r.pending \union r.errors)
                             /\ r.chunks[i][2] \in Given(r, r.chunks[i][1])
        /\ \A e \in Searchable(r) \ (r.pending \union r.errors) : \A k \in Given(r, e) :
             <<e, k>> \in Members(r.chunks)
    BY <1>1, <1>8, <2>4 DEF SearchesOK
  <2>6. \A i \in 1 .. n + b : i \in 1 .. n \/ (i - n \in 1 .. b /\ chunks[i] = <<d, i - n>>)
    <3> SUFFICES ASSUME NEW i \in 1 .. n + b, i \notin 1 .. n PROVE i - n \in 1 .. b /\ chunks[i] = <<d, i - n>>
      OBVIOUS
    <3>1. i - n \in 1 .. b /\ n + (i - n) = i
      BY <1>3
    <3> QED BY <1>5, <3>1
  <2>7. ASSUME NEW i \in DOMAIN x.chunks
        PROVE  /\ x.chunks[i][1] \in Searchable(x) \ (x.pending \union x.errors)
               /\ x.chunks[i][2] \in Given(x, x.chunks[i][1])
    <3>1. CASE i \in 1 .. n
      BY <1>5, <1>7, <1>8, <1>10, <2>1, <2>3, <2>5, <3>1
    <3>2. CASE i - n \in 1 .. b /\ chunks[i] = <<d, i - n>>
      <4>1. x.chunks[i][1] = d /\ x.chunks[i][2] = i - n
        BY <1>7, <3>2
      <4>2. i - n \in Given(x, d)
        BY <1>1, <1>10, <3>2
      <4> QED BY <1>8, <2>1, <2>3, <4>1, <4>2
    <3> QED BY <1>5, <1>7, <2>6, <3>1, <3>2
  <2>8. ASSUME NEW i \in DOMAIN x.chunks, NEW j \in DOMAIN x.chunks, x.chunks[i] = x.chunks[j]
        PROVE  i = j
    <3>1. ASSUME NEW k \in 1 .. n PROVE chunks[k][1] # d
      BY <1>1, <1>5, <2>5
    <3>2. i \in 1 .. n + b /\ j \in 1 .. n + b /\ chunks[i] = chunks[j]
      BY <1>5, <1>7, <2>8
    <3>3. CASE i \in 1 .. n /\ j \in 1 .. n
      BY <1>5, <2>5, <3>2, <3>3
    <3>4. CASE i \notin 1 .. n /\ j \notin 1 .. n
      <4>1. <<d, i - n>> = <<d, j - n>>
        BY <2>6, <3>2, <3>4
      <4>2. i - n = j - n
        BY <4>1
      <4> QED BY <1>3, <3>2, <4>2
    <3>5. CASE (i \in 1 .. n) # (j \in 1 .. n)
      BY <2>6, <3>1, <3>2, <3>5
    <3> QED BY <3>3, <3>4, <3>5
  <2>9. ASSUME NEW e \in Searchable(x) \ (x.pending \union x.errors), NEW k \in Given(x, e)
        PROVE  <<e, k>> \in Members(x.chunks)
    <3>1. CASE e = d
      <4>1. k \in 1 .. b /\ n + k \in 1 .. n + b
        BY <1>3, <1>8, <1>10, <2>3, <3>1
      <4> QED BY <1>5, <1>7, <3>1, <4>1 DEF Members
    <3>2. CASE e # d
      <4>1. <<e, k>> \in Members(r.chunks)
        BY <1>8, <1>10, <2>1, <2>3, <2>5, <3>2
      <4>2. PICK i \in 1 .. n : r.chunks[i] = <<e, k>>
        BY <2>4, <4>1 DEF Members
      <4>3. i \in DOMAIN chunks /\ chunks[i] = <<e, k>>
        BY <1>3, <1>5, <4>2
      <4> QED BY <1>7, <4>3 DEF Members
    <3> QED BY <3>1, <3>2
  <2> QED BY <1>1, <1>7, <1>8, <2>2, <2>7, <2>8, <2>9 DEF SearchesOK
<1> QED BY <1>2, <1>7, <1>9, <1>11, OneThread DEF ThreadOK

LEMMA RaisesOK ==
  ASSUME RagOK, NEW c \in Threads, Raises(c)
  PROVE  RagOK'
<1>1. call' = [call EXCEPT ![c] = Raised] /\ UNCHANGED <<stored, filled, changes, clock, cache, deleted>>
  BY DEF Raises
<1>2. ThreadOK(Raised, stored, deleted, clock)
  BY RaisedRecord DEF ThreadOK, ForgetsOK, SkipsOK, SearchesOK, HasList
<1> QED BY <1>1, <1>2, OneThread

LEMMA CallOK ==
  ASSUME RagOK, NEW c \in Threads, NEW tool \in {"list", "search"}, NEW globs \in SUBSET Datasets,
         NEW limit \in Int, tool = "search" => limit \in 1 .. MaxLimit, NEW force \in BOOLEAN,
         AllDatasets(c, Asked(tool, globs, limit), force),
         UNCHANGED <<stored, filled, changes, clock, cache, deleted>>
  PROVE  RagOK'
<1>1. /\ ThreadOK(call'[c], stored, deleted, clock) /\ DOMAIN call' = Threads
      /\ \A e \in Threads \ {c} : call'[e] = call[e]
  BY AllDatasetsOK
<1> QED BY <1>1 DEF RagOK

LEMMA CallsOK ==
  ASSUME RagOK, NEW c \in Threads, NEW g \in Globs
  PROVE  /\ \A force \in BOOLEAN : ListDatasets(c, g, force) => RagOK'
         /\ \A n \in Limits : Search(c, g, n) => RagOK'
<1>1. Selects[g] \in SUBSET Datasets
  BY RagAssumption
<1>2. ASSUME NEW force \in BOOLEAN, ListDatasets(c, g, force) PROVE RagOK'
  BY <1>1, <1>2, CallOK DEF ListDatasets
<1>3. ASSUME NEW n \in Limits, Search(c, g, n) PROVE RagOK'
  <2>1. Bounded(n) \in 1 .. MaxLimit
    BY RagAssumption DEF Bounded, MaxOf, MinOf
  <2>2. Bounded(n) \in Int
    BY <2>1
  <2>3. /\ AllDatasets(c, Asked("search", Selects[g], Bounded(n)), FALSE)
        /\ UNCHANGED <<stored, filled, changes, clock, cache, deleted>>
    BY <1>3 DEF Search
  <2> HIDE DEF Bounded
  <2> QED BY <1>1, <2>1, <2>2, <2>3, CallOK
<1> QED BY <1>2, <1>3

LEMMA RagStarts ==
  ASSUME RagInit
  PROVE  RagOK
<1>1. stored \in Seq(Datasets) /\ Len(stored) \in Nat /\ DOMAIN stored = 1 .. Len(stored)
  BY RagAssumption, FS_CardinalityType DEF RagInit
<1>2. \A i, j \in DOMAIN stored : stored[i] = stored[j] => i = j
  <2> DEFINE f == [i \in 1 .. Len(stored) |-> stored[i]]
  <2>1. f \in Surjection(1 .. Len(stored), Members(stored))
    BY <1>1 DEF Surjection, Members
  <2>2. IsFiniteSet(1 .. Len(stored)) /\ Cardinality(1 .. Len(stored)) = Len(stored)
    BY <1>1, IntervalSize
  <2>3. Cardinality(Members(stored)) = Len(stored)
    BY DEF RagInit
  <2> HIDE DEF f
  <2>4. f \in Injection(1 .. Len(stored), Members(stored))
    BY <2>1, <2>2, <2>3, FS_Surjection
  <2> QED BY <1>1, <2>4 DEF f, Injection, IsInjective
<1>3. WorldOK(stored, deleted, clock) /\ filled \subseteq Datasets
  BY <1>1, <1>2 DEF RagInit, WorldOK, Members
<1>4. CacheOK(cache, stored, deleted, clock)
  BY DEF RagInit, CacheOK, Covers
<1>5. ThreadOK(Idle, stored, deleted, clock)
  BY IdleRecord DEF ThreadOK, ForgetsOK, SkipsOK, SearchesOK, HasList
<1> QED BY <1>3, <1>4, <1>5 DEF RagInit, RagOK

LEMMA RagStep ==
  ASSUME RagOK, [RagNext]_ragVars
  PROVE  RagOK'
<1>1. CASE UNCHANGED ragVars
  BY <1>1 DEF ragVars, RagOK
<1>2. ASSUME NEW c \in Threads,
             \/ \E g \in Globs :
                  \/ \E force \in BOOLEAN : ListDatasets(c, g, force)
                  \/ \E n \in Limits : Search(c, g, n)
             \/ Raises(c) \/ PageArrives(c)
             \/ \E d \in Datasets : SearchReturns(c, d) \/ SearchFails(c, d)
      PROVE  RagOK'
  BY <1>2, CallsOK, RaisesOK, PageArrivesOK, SearchReturnsOK, SearchFailsOK
<1>3. ASSUME NEW d \in Datasets, Create(d) \/ Fill(d) \/ Delete(d)
      PROVE  RagOK'
  BY <1>3, CreateOK, FillOK, DeleteOK
<1>4. CASE RagTick
  BY <1>4, TickOK
<1> QED BY <1>1, <1>2, <1>3, <1>4 DEF RagNext

LEMMA RagAlways == RagSpec => []RagOK
<1>1. RagInit => RagOK
  BY RagStarts
<1>2. RagOK /\ [RagNext]_ragVars => RagOK'
  BY RagStep
<1> QED BY <1>1, <1>2, PTL DEF RagSpec

(* A list that was loaded while nothing was deleted holds every dataset that  *)
(* was there all along: _all_datasets asks for pages until one is not full    *)
(* (rag-mcp-server.py 45-61).                                                 *)
THEOREM NoDatasetIsSkipped == RagSpec => []NothingSkipped
<1>1. RagOK => NothingSkipped
  BY DEF RagOK, ThreadOK, SkipsOK, HasList, PagesSuffice, NothingSkipped
<1> QED BY <1>1, RagAlways, PTL

(* No answer lags behind RAGFlow by more than the TTL and the time that a     *)
(* load takes, however the threads share _dataset_cache (rag-mcp-server.py    *)
(* 41-63).                                                                    *)
THEOREM DeletionsAreNoticed == RagSpec => []DeletedIsForgotten
<1>1. RagOK => DeletedIsForgotten
  BY DEF RagOK, ThreadOK, ForgetsOK, HasList, Covers, DeletedIsForgotten
<1> QED BY <1>1, RagAlways, PTL

----------------------------------------------------------------------------
(* The answer of a search that is done.                                       *)
Done(r) ==
  /\ r \in Record /\ SearchesOK(r) /\ r.at = "done" /\ r.tool = "search"

LEMMA DoneChunks ==
  ASSUME NEW r, Done(r)
  PROVE  /\ r.limit \in 1 .. MaxLimit /\ r.limit \in Nat /\ r.chunks \in Seq(Datasets \X Nat)
         /\ \A i, j \in DOMAIN r.chunks : r.chunks[i] = r.chunks[j] => i = j
         /\ \A i \in DOMAIN r.chunks :
              /\ r.chunks[i][1] \in Searchable(r) \ r.errors
              /\ r.chunks[i][2] \in Given(r, r.chunks[i][1])
         /\ \A d \in Searchable(r) \ r.errors : \A k \in Given(r, d) : <<d, k>> \in Members(r.chunks)
         /\ Searchable(r) \in SUBSET Datasets
<1>1. r.pending = {} /\ HasList(r)
  BY DEF Done, SearchesOK, HasList
<1>2. r.limit \in 1 .. MaxLimit /\ r.chunks \in Seq(Datasets \X Nat) /\ Searchable(r) \in SUBSET Datasets
  BY DEF Done, SearchesOK, Record, Searchable
<1> QED BY <1>1, <1>2, RagAssumption DEF Done, SearchesOK

LEMMA HitsAreSorted ==
  ASSUME NEW d \in Datasets
  PROVE  /\ Len(Hits[d]) \in Nat /\ DOMAIN Hits[d] = 1 .. Len(Hits[d])
         /\ \A k \in DOMAIN Hits[d] : Hits[d][k] \in Nat
         /\ \A k, l \in DOMAIN Hits[d] : k <= l => Hits[d][l] <= Hits[d][k]
<1>1. Hits[d] \in Seq(Nat)
  BY RagAssumption
<1> QED BY <1>1, RagAssumption

Rows(r) == DOMAIN r.chunks
Score(r) == [i \in Rows(r) |-> Similarity(r.chunks[i])]
Before(r) == ByScore(Rows(r), Score(r))
Shows(r) == Kept(Rows(r), Before(r), r.limit)

LEMMA DoneRows ==
  ASSUME NEW r, Done(r)
  PROVE  /\ IsFiniteSet(Rows(r)) /\ Cardinality(Rows(r)) = Len(r.chunks) /\ Len(r.chunks) \in Nat
         /\ Rows(r) = 1 .. Len(r.chunks) /\ Orders(Before(r), Rows(r))
         /\ \A i \in Rows(r) : Score(r)[i] \in Nat /\ Score(r)[i] = Similarity(r.chunks[i])
<1>1. Len(r.chunks) \in Nat /\ Rows(r) = 1 .. Len(r.chunks)
  BY DoneChunks DEF Rows
<1>2. IsFiniteSet(Rows(r)) /\ Cardinality(Rows(r)) = Len(r.chunks)
  BY <1>1, IntervalSize
<1>3. \A i \in Rows(r) : Score(r)[i] \in Nat /\ Score(r)[i] = Similarity(r.chunks[i])
  <2> SUFFICES ASSUME NEW i \in Rows(r) PROVE Similarity(r.chunks[i]) \in Nat
    BY DEF Score
  <2> DEFINE d == r.chunks[i][1]
             k == r.chunks[i][2]
  <2>1. d \in Datasets /\ k \in Given(r, d)
    BY DoneChunks DEF Rows
  <2>2. k \in 1 .. MinOf(r.limit, Len(Hits[d])) /\ r.limit \in Nat
    BY <2>1, DoneChunks DEF Given
  <2> HIDE DEF d, k
  <2>3. Hits[d][k] \in Nat
    BY <2>1, <2>2, HitsAreSorted DEF MinOf
  <2> QED BY <2>3 DEF Similarity, d, k
<1>4. Rows(r) \in SUBSET Nat
  BY <1>1
<1>5. Orders(Before(r), Rows(r))
  BY <1>3, <1>4, ByScoreOrders DEF Before
<1> QED BY <1>1, <1>2, <1>3, <1>5

LEMMA HowManyAreShown ==
  ASSUME NEW r, Done(r)
  PROVE  /\ Matches(r) = {r.chunks[i] : i \in Shows(r)} /\ Shows(r) \in SUBSET Rows(r)
         /\ IsFiniteSet(Matches(r)) /\ Cardinality(Matches(r)) <= r.limit
         /\ Len(r.chunks) >= r.limit => Cardinality(Matches(r)) = r.limit
         /\ Cardinality(Matches(r)) \in Nat
<1> DEFINE kept == Shows(r)
           f == [i \in kept |-> r.chunks[i]]
<1>1. Matches(r) = {r.chunks[i] : i \in kept} /\ kept \in SUBSET Rows(r)
  BY DEF Matches, Shows, Before, Score, Rows, Kept
<1>2. IsFiniteSet(kept)
  BY <1>1, DoneRows, FS_Subset
<1>3. Cardinality(kept) = SliceLength(Len(r.chunks), r.limit)
  <2>1. r.limit \in Int
    BY DoneChunks
  <2> QED BY <2>1, DoneRows, HowManyAreKept DEF Shows
<1>4. SliceLength(Len(r.chunks), r.limit) = IF r.limit < Len(r.chunks) THEN r.limit ELSE Len(r.chunks)
  BY DoneChunks DEF SliceLength
<1> HIDE DEF kept
<1>5. f \in Surjection(kept, Matches(r)) /\ f \in Injection(kept, Matches(r))
  BY <1>1, DoneChunks DEF Surjection, Injection, IsInjective, Rows
<1> HIDE DEF f
<1>6. IsFiniteSet(Matches(r)) /\ Cardinality(Matches(r)) = Cardinality(kept)
  BY <1>2, <1>5, FS_Surjection
<1>7. Len(r.chunks) \in Nat /\ r.limit \in Nat
  BY DoneRows, DoneChunks
<1> QED BY <1>1, <1>3, <1>4, <1>6, <1>7 DEF kept

LEMMA ByScoreRanks ==
  ASSUME NEW rows, NEW score, NEW i \in rows, NEW j \in rows, <<j, i>> \in ByScore(rows, score),
         score[i] \in Nat, score[j] \in Nat
  PROVE  score[j] >= score[i]
BY DEF ByScore, Sorted

(* What is shown is at least as similar as a chunk that came and is not.      *)
LEMMA ShownIsBetter ==
  ASSUME NEW r, Done(r), NEW chunk \in Members(r.chunks), chunk \notin Matches(r), NEW one \in Matches(r)
  PROVE  Similarity(one) >= Similarity(chunk)
<1>1. PICK i \in Rows(r) : r.chunks[i] = chunk
  BY DEF Members, Rows
<1>2. PICK j \in Shows(r) : r.chunks[j] = one
  BY HowManyAreShown
<1>3. i \notin Shows(r)
  BY <1>1, HowManyAreShown
<1>4. r.limit \in Int
  BY DoneChunks
<1>5. <<j, i>> \in Before(r)
  BY <1>2, <1>3, <1>4, DoneRows, KeptComesFirst DEF Shows
<1>6. j \in Rows(r) /\ i \in Rows(r)
  BY <1>2, HowManyAreShown
<1>7. Score(r)[j] >= Score(r)[i]
  BY <1>5, <1>6, DoneRows, ByScoreRanks DEF Before
<1> QED BY <1>1, <1>2, <1>6, <1>7, DoneRows

LEMMA DoneIsComplete ==
  ASSUME NEW r, Done(r)
  PROVE  LET shown == Matches(r)
             answered == {chunk[1] : chunk \in Members(r.chunks)}
         IN /\ \A d \in r.list \cap r.globs \cap r.full : d \in answered \union r.errors \/ Hits[d] = <<>>
            /\ \A d \in answered, k \in 1 .. MaxLimit :
                 k <= Len(Hits[d]) /\ <<d, k>> \notin shown =>
                   /\ Cardinality(shown) = r.limit
                   /\ \A chunk \in shown : Similarity(chunk) >= Hits[d][k]
<1> DEFINE shown == Matches(r)
           answered == {chunk[1] : chunk \in Members(r.chunks)}
<1>0. r.limit \in Nat /\ r.limit >= 1
  BY DoneChunks
<1>1. ASSUME NEW d \in Searchable(r), d \notin r.errors, Hits[d] # <<>>
      PROVE  d \in answered
  <2>1. d \in Datasets
    BY DoneChunks
  <2>2. Hits[d] \in Seq(Nat)
    BY <2>1, RagAssumption
  <2>3. Len(Hits[d]) # 0
    BY <1>1, <2>2
  <2>4. 1 \in Given(r, d)
    BY <1>0, <2>1, <2>3, HitsAreSorted DEF Given, MinOf
  <2>5. <<d, 1>> \in Members(r.chunks)
    BY <1>1, <2>4, DoneChunks
  <2>6. <<d, 1>>[1] = d
    OBVIOUS
  <2> QED BY <2>5, <2>6
<1>2. ASSUME NEW d \in answered, NEW k \in 1 .. MaxLimit, k <= Len(Hits[d]), <<d, k>> \notin shown
      PROVE  Cardinality(shown) = r.limit /\ \A chunk \in shown : Similarity(chunk) >= Hits[d][k]
  <2>1. d \in Searchable(r) \ r.errors /\ d \in Datasets
    BY DoneChunks DEF Members
  <2>2. k \in Nat /\ k \in DOMAIN Hits[d] /\ Hits[d][k] \in Nat /\ Len(Hits[d]) \in Nat
    BY <1>2, <2>1, RagAssumption, HitsAreSorted
  <2>3. CASE k <= r.limit
    <3>1. k \in Given(r, d)
      BY <1>0, <1>2, <2>2, <2>3 DEF Given, MinOf
    <3>2. <<d, k>> \in Members(r.chunks)
      BY <2>1, <3>1, DoneChunks
    <3>3. Similarity(<<d, k>>) = Hits[d][k]
      BY DEF Similarity
    <3>4. \A chunk \in shown : Similarity(chunk) >= Hits[d][k]
      BY <1>2, <3>2, <3>3, ShownIsBetter
    <3>5. Len(r.chunks) >= r.limit
      <4> SUFFICES ASSUME Len(r.chunks) < r.limit PROVE FALSE
        BY <1>0, DoneRows
      <4>1. Shows(r) = Rows(r)
        <5>1. r.limit \in Int /\ r.limit >= Cardinality(Rows(r))
          BY <1>0, DoneRows
        <5> QED BY <5>1, DoneRows, AllAreKept DEF Shows
      <4>2. <<d, k>> \in shown
        BY <3>2, <4>1, HowManyAreShown DEF Rows, Members
      <4> QED BY <1>2, <4>2
    <3> QED BY <3>4, <3>5, HowManyAreShown
  <2>4. CASE k > r.limit
    <3> DEFINE n == r.limit
               D == {<<d, l>> : l \in 1 .. n}
               f == [l \in 1 .. n |-> <<d, l>>]
    <3>1. \A l \in 1 .. n : l \in Given(r, d) /\ l \in DOMAIN Hits[d] /\ Hits[d][l] >= Hits[d][k]
      <4> SUFFICES ASSUME NEW l \in 1 .. n
                   PROVE  l \in Given(r, d) /\ l \in DOMAIN Hits[d] /\ Hits[d][l] >= Hits[d][k]
        OBVIOUS
      <4>1. l \in Nat /\ l <= k /\ l <= Len(Hits[d]) /\ l >= 1
        BY <1>0, <1>2, <2>2, <2>4
      <4>2. l \in DOMAIN Hits[d]
        BY <2>1, <4>1, HitsAreSorted
      <4>3. l \in Given(r, d)
        BY <1>0, <2>2, <4>1 DEF Given, MinOf
      <4>4. Hits[d][l] \in Nat /\ Hits[d][k] <= Hits[d][l]
        BY <2>1, <2>2, <4>1, <4>2, HitsAreSorted
      <4> QED BY <2>2, <4>2, <4>3, <4>4
    <3>2. D \subseteq Members(r.chunks)
      BY <2>1, <3>1, DoneChunks
    <3>3. IsFiniteSet(1 .. n) /\ Cardinality(1 .. n) = n
      BY <1>0, IntervalSize
    <3>4. f \in Surjection(1 .. n, D) /\ f \in Injection(1 .. n, D)
      BY DEF Surjection, Injection, IsInjective
    <3> HIDE DEF D, f
    <3>5. IsFiniteSet(D) /\ Cardinality(D) = n
      BY <3>3, <3>4, FS_Surjection
    <3>6. Len(r.chunks) >= n
      <4> DEFINE g == [i \in Rows(r) |-> r.chunks[i]]
      <4>1. g \in Surjection(Rows(r), Members(r.chunks))
        BY DEF Surjection, Rows, Members
      <4> HIDE DEF g
      <4>2. IsFiniteSet(Members(r.chunks)) /\ Cardinality(Members(r.chunks)) <= Len(r.chunks)
        BY <4>1, DoneRows, FS_Surjection
      <4>3. Cardinality(D) <= Cardinality(Members(r.chunks)) /\ Cardinality(Members(r.chunks)) \in Nat
        BY <3>2, <4>2, FS_Subset, FS_CardinalityType
      <4> QED BY <1>0, <3>5, <4>2, <4>3, DoneRows
    <3>7. Cardinality(shown) = n
      BY <3>6, HowManyAreShown
    <3>8. ASSUME NEW chunk \in shown PROVE Similarity(chunk) >= Hits[d][k]
      <4>1. CASE chunk \in D
        BY <3>1, <4>1 DEF D, Similarity
      <4>2. CASE chunk \notin D
        <5>1. PICK other \in D : other \notin shown
          <6> SUFFICES ASSUME D \subseteq shown PROVE FALSE
            OBVIOUS
          <6>1. Cardinality(D \union {chunk}) = n + 1
            BY <3>5, <4>2, FS_AddElement
          <6>2. D \union {chunk} \in SUBSET shown /\ IsFiniteSet(shown)
            BY HowManyAreShown
          <6>3. Cardinality(D \union {chunk}) <= Cardinality(shown)
            BY <6>2, FS_Subset
          <6> QED BY <1>0, <3>7, <6>1, <6>3
        <5>2. Similarity(chunk) >= Similarity(other)
          BY <3>2, <5>1, ShownIsBetter
        <5>3. PICK l \in 1 .. n : other = <<d, l>>
          BY <5>1 DEF D
        <5>4. Similarity(other) = Hits[d][l]
          BY <5>3 DEF Similarity
        <5>5. PICK i \in Rows(r) : r.chunks[i] = chunk
          BY HowManyAreShown
        <5>6. Similarity(chunk) \in Nat
          BY <5>5, DoneRows
        <5>7. Hits[d][l] \in Nat
          BY <2>1, <3>1, HitsAreSorted
        <5> QED BY <2>2, <3>1, <5>2, <5>4, <5>6, <5>7
      <4> QED BY <4>1, <4>2
    <3> QED BY <3>7, <3>8
  <2> QED BY <1>0, <2>2, <2>3, <2>4
<1> QED BY <1>1, <1>2 DEF Searchable

(* Of the chunks that the answering datasets have, a search shows the best,   *)
(* whichever answers come first, and each dataset answers or is named         *)
(* (search_documentation, rag-mcp-server.py 129-187).                         *)
THEOREM SearchesAreComplete == RagSpec => []SearchIsComplete
<1>1. RagOK => SearchIsComplete
  <2> SUFFICES ASSUME RagOK, NEW c \in Threads, call[c].at = "done", call[c].tool = "search"
               PROVE  LET r == call[c]
                          shown == Matches(r)
                          answered == {chunk[1] : chunk \in Members(r.chunks)}
                      IN /\ \A d \in r.list \cap r.globs \cap r.full :
                              d \in answered \union r.errors \/ Hits[d] = <<>>
                         /\ \A d \in answered, k \in 1 .. MaxLimit :
                              k <= Len(Hits[d]) /\ <<d, k>> \notin shown =>
                                /\ Cardinality(shown) = r.limit
                                /\ \A chunk \in shown : Similarity(chunk) >= Hits[d][k]
    BY DEF SearchIsComplete
  <2>1. Done(call[c])
    BY DEF RagOK, ThreadOK, Done
  <2> QED BY <2>1, DoneIsComplete
<1> QED BY <1>1, RagAlways, PTL

----------------------------------------------------------------------------
(* The three servers together: each goes its own way, so what is proved of    *)
(* its specification holds of the composition.                                *)
THEOREM EachGoesItsWay == Spec => RagSpec /\ KubeSpec /\ ContentSpec
<1>1. Init => RagInit /\ KubeInit /\ ContentInit
  BY DEF Init
<1>2. [Next]_vars => [RagNext]_ragVars
  BY DEF Next, vars, RagMoves, KubeMoves, ContentMoves, Others
<1>3. [Next]_vars => [KubeNext]_query
  BY DEF Next, vars, RagMoves, KubeMoves, ContentMoves, ragVars
<1>4. [Next]_vars => [ContentNext]_payload
  BY DEF Next, vars, RagMoves, KubeMoves, ContentMoves, ragVars
<1> QED BY <1>1, <1>2, <1>3, <1>4, PTL DEF Spec, RagSpec, KubeSpec, ContentSpec
=============================================================================

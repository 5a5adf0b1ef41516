-------------------------- MODULE ConfluenceIngest --------------------------
(* The CronJob that copies Confluence pages into a Qdrant collection:         *)
(* src/files/ai-platform/confluence_ingest.py, run as deployed by             *)
(* src/templates/ai-platform/confluence-ingester.yaml (concurrencyPolicy      *)
(* Allow, retried on failure). An action is one request and what follows it.  *)
EXTENDS Integers, Sequences, FiniteSets

CONSTANTS
  Jobs,           \* containers that may run main() at once
  Pages,          \* pages modified within CONFLUENCE_SINCE_DAYS
  Wanted,         \* those in CONFLUENCE_SPACES
  Orders,         \* orders in which the search may list the pages
  PageLimit,      \* CONFLUENCE_PAGE_LIMIT
  Editable,       \* bound: pages that are edited
  MaxEdits,       \* bound: edits of one page
  Length,         \* length of a page's text, by version; 0: no text
  ChunkSize,      \* CHUNK_SIZE
  Overlap,        \* CHUNK_OVERLAP
  Modes,          \* EMBEDDING_MODE
  Size,           \* size of the vectors of the endpoint's model and of the local hash
  MaxFaults       \* bound: requests that fail

Versions == 1 .. MaxEdits + 1

ASSUME IngestAssumption ==
  /\ IsFiniteSet(Pages) /\ Wanted \subseteq Pages /\ Editable \subseteq Pages
  /\ Orders \subseteq {o \in Seq(Pages) : Len(o) = Cardinality(Pages) /\ Pages = {o[i] : i \in DOMAIN o}}
  /\ PageLimit \in Nat \ {0} /\ MaxEdits \in Nat /\ MaxFaults \in Nat
  /\ Length \in [Versions -> Nat] /\ ChunkSize \in Nat \ {0} /\ Overlap \in Nat
  /\ Modes \subseteq {"auto", "endpoint", "local-hash"}
  /\ Size \in [{"model", "hash"} -> Nat \ {0}]

VARIABLES
  mode,
  order,          \* the pages as the search lists them
  version,        \* the pages' versions
  pc,             \* the request each job is about to send, or how it ended
  start,          \* offset of the next search request
  todo,           \* pages fetched and not yet embedded, with their place in the list
  built,          \* points built, by page, with the origin of their vectors
  collection,     \* size of the vectors of the collection, 0: there is none
  points,         \* points stored
  faults,         \* requests that failed so far
  base,           \* history: versions when the run began
  disturbed,      \* history: a page was edited while the run fetched
  fellBack        \* history: the fallback was taken instead of the endpoint

space == <<order, version>>
run == <<pc, start, todo, built>>
store == <<collection, points>>
vars == <<mode, space, run, store, faults, base, disturbed, fellBack>>

Init ==
  /\ mode \in Modes
  /\ order \in Orders /\ version = [p \in Pages |-> 1]
  /\ pc = [j \in Jobs |-> "idle"] /\ start = [j \in Jobs |-> 0]
  /\ todo = [j \in Jobs |-> {}] /\ built = [j \in Jobs |-> {}]
  /\ collection = 0 /\ points = {}
  /\ faults = 0
  /\ base = [j \in Jobs |-> version]
  /\ disturbed = [j \in Jobs |-> FALSE] /\ fellBack = FALSE

----------------------------------------------------------------------------
Goto(j, p) == pc' = [pc EXCEPT ![j] = p]

Ended == {"idle", "succeeded", "failed"}

(* main() returns or raises: what it held is gone.                            *)
Finish(j, how) ==
  /\ Goto(j, how)
  /\ start' = [start EXCEPT ![j] = 0]
  /\ todo' = [todo EXCEPT ![j] = {}] /\ built' = [built EXCEPT ![j] = {}]

(* The schedule, or the retry of a failed container, runs main().             *)
Begin(j) ==
  /\ pc[j] \in Ended
  /\ Goto(j, "fetch")
  /\ UNCHANGED <<start, todo, built>>
  /\ base' = [base EXCEPT ![j] = version]
  /\ disturbed' = [disturbed EXCEPT ![j] = FALSE]
  /\ UNCHANGED <<mode, space, store, faults, fellBack>>

(* One request of job j fails or is never answered: the exception ends main.  *)
Fault(j) ==
  /\ faults < MaxFaults
  /\ faults' = faults + 1
  /\ Finish(j, "failed")

(* The places a search request with offset s returns.                         *)
Results(s) == {i \in DOMAIN order : s < i /\ i <= s + PageLimit}

Matches(p) == p \in Wanted

(* Mutant: a full page of results ends the search.                            *)
LastPageEarly(s) == s + PageLimit > Len(order) \/ Cardinality(Results(s)) = PageLimit

(* Fewer results than asked for.                                              *)
LastPage(s) == s + PageLimit > Len(order)

Fetched(j) ==
  todo[j] \union {[at |-> i, page |-> order[i], version |-> version[order[i]]] :
                    i \in {k \in Results(start[j]) : Matches(order[k])}}

Fetch(j) ==
  /\ pc[j] = "fetch"
  /\ \/ /\ ~LastPage(start[j])
        /\ start' = [start EXCEPT ![j] = @ + PageLimit]
        /\ todo' = [todo EXCEPT ![j] = Fetched(j)]
        /\ UNCHANGED <<pc, built>>
     \/ /\ LastPage(start[j]) /\ Fetched(j) # {}
        /\ Goto(j, "embed")
        /\ start' = [start EXCEPT ![j] = 0]
        /\ todo' = [todo EXCEPT ![j] = Fetched(j)]
        /\ UNCHANGED built
     \/ /\ LastPage(start[j]) /\ Fetched(j) = {}
        /\ Finish(j, "succeeded")
  /\ UNCHANGED <<mode, space, store, faults, base, disturbed, fellBack>>

FetchFault(j) ==
  /\ pc[j] = "fetch" /\ Fault(j)
  /\ UNCHANGED <<mode, space, store, base, disturbed, fellBack>>

----------------------------------------------------------------------------
(* build_points: one request for the vectors of one page.                     *)

First(items, item) == item \in items /\ \A i \in items : item.at <= i.at

(* The page whose turn it is.                                                 *)
NextPage(j, item) == pc[j] = "embed" /\ First(todo[j], item)

HasText(item) == Length[item.version] > 0

Build(j, item, by) ==
  /\ built' = [built EXCEPT ![j] = @ \union
       {[at |-> item.at, page |-> item.page, version |-> item.version, by |-> by]}]
  /\ todo' = [todo EXCEPT ![j] = @ \ {item}]

SkipEmpty(j) ==
  /\ \E item \in todo[j] :
       /\ NextPage(j, item) /\ ~HasText(item)
       /\ todo' = [todo EXCEPT ![j] = @ \ {item}]
  /\ UNCHANGED <<mode, space, pc, start, built, store, faults, base, disturbed, fellBack>>

Embed(j) ==
  /\ \E item \in todo[j] :
       /\ NextPage(j, item) /\ HasText(item)
       /\ Build(j, item, IF mode = "local-hash" THEN "hash" ELSE "model")
  /\ UNCHANGED <<mode, space, pc, start, store, faults, base, disturbed, fellBack>>

(* The endpoint answers with an error or with no data.                        *)
FallBack(j) ==
  /\ mode = "auto"
  /\ \E item \in todo[j] :
       /\ NextPage(j, item) /\ HasText(item)
       /\ Build(j, item, "hash")
  /\ faults < MaxFaults /\ faults' = faults + 1
  /\ fellBack' = TRUE
  /\ UNCHANGED <<mode, space, pc, start, store, base, disturbed>>

(* In auto mode a request that raises (a timeout) ends main() all the same.   *)
EmbedFault(j) ==
  /\ mode # "local-hash"
  /\ \E item \in todo[j] : NextPage(j, item) /\ HasText(item)
  /\ Fault(j)
  /\ UNCHANGED <<mode, space, store, base, disturbed, fellBack>>

EndBuild(j) ==
  /\ pc[j] = "embed" /\ todo[j] = {}
  /\ IF built[j] = {} THEN Finish(j, "succeeded")
                        ELSE Goto(j, "ensure") /\ UNCHANGED <<start, todo, built>>
  /\ UNCHANGED <<mode, space, store, faults, base, disturbed, fellBack>>

----------------------------------------------------------------------------
(* The collection and the points.                                             *)

(* Mutant: every run creates the collection.                                  *)
CollectionNever == FALSE

CollectionExists == collection # 0

Ensure(j) ==
  /\ pc[j] = "ensure"
  /\ Goto(j, IF CollectionExists THEN "upsert" ELSE "create")
  /\ UNCHANGED <<mode, space, start, todo, built, store, faults, base, disturbed, fellBack>>

(* Any answer but 200 is taken for a collection that is not there.            *)
EnsureRefused(j) ==
  /\ pc[j] = "ensure"
  /\ faults < MaxFaults /\ faults' = faults + 1
  /\ Goto(j, "create")
  /\ UNCHANGED <<mode, space, start, todo, built, store, base, disturbed, fellBack>>

(* The size of the first vector built.                                        *)
VectorSize(j) == {Size[item.by] : item \in {i \in built[j] : First(built[j], i)}}

(* Qdrant refuses to create a collection that exists.                         *)
Create(j) ==
  /\ pc[j] = "create"
  /\ \/ /\ collection = 0
        /\ collection' \in VectorSize(j)
        /\ Goto(j, "upsert")
        /\ UNCHANGED <<start, todo, built>>
     \/ /\ collection # 0
        /\ Finish(j, "failed")
        /\ UNCHANGED collection
  /\ UNCHANGED <<mode, space, points, faults, base, disturbed, fellBack>>

(* chunk_text: chunk k is the text from character k * Step on, ChunkSize      *)
(* characters or what is left; a text that fits is one chunk.                 *)
(* Mutant: the overlap is added.                                              *)
StepApart == ChunkSize + Overlap

Step == IF ChunkSize - Overlap > 1 THEN ChunkSize - Overlap ELSE 1

ChunkIndexes(v) ==
  IF Length[v] <= ChunkSize THEN {0} ELSE {k \in 0 .. Length[v] : k * Step < Length[v]}

PointsOf(p, v) == {[page |-> p, version |-> v, index |-> i] : i \in ChunkIndexes(v)}

Batch(j) == UNION {PointsOf(item.page, item.version) : item \in built[j]}

(* Qdrant takes a batch of vectors of its size, or nothing of it.             *)
Fits(j) == \A item \in built[j] : Size[item.by] = collection

Upsert(j) ==
  /\ pc[j] = "upsert"
  /\ IF Fits(j) THEN points' = points \union Batch(j) /\ Finish(j, "succeeded")
                ELSE Finish(j, "failed") /\ UNCHANGED points
  /\ UNCHANGED <<mode, space, collection, faults, base, disturbed, fellBack>>

(* A request to Qdrant fails, before or after having had its effect.          *)
StoreFault(j) ==
  /\ pc[j] \in {"ensure", "create", "upsert"}
  /\ Fault(j)
  /\ \/ UNCHANGED store
     \/ pc[j] = "create" /\ collection = 0 /\ collection' \in VectorSize(j) /\ UNCHANGED points
     \/ pc[j] = "upsert" /\ Fits(j) /\ points' = points \union Batch(j) /\ UNCHANGED collection
  /\ UNCHANGED <<mode, space, base, disturbed, fellBack>>

----------------------------------------------------------------------------
(* Somebody edits a page; the search has no order of its own.                 *)
Edit(p) ==
  /\ p \in Editable /\ version[p] <= MaxEdits
  /\ version' = [version EXCEPT ![p] = @ + 1]
  /\ order' \in Orders
  /\ disturbed' = [j \in Jobs |-> disturbed[j] \/ pc[j] = "fetch"]
  /\ UNCHANGED <<mode, run, store, faults, base, fellBack>>

Work(j) ==
  \/ Begin(j) \/ Fetch(j) \/ SkipEmpty(j) \/ Embed(j) \/ EndBuild(j)
  \/ Ensure(j) \/ Create(j) \/ Upsert(j)

Fails(j) == FetchFault(j) \/ FallBack(j) \/ EmbedFault(j) \/ EnsureRefused(j) \/ StoreFault(j)

Next ==
  \/ \E j \in Jobs : Work(j) \/ Fails(j)
  \/ \E p \in Pages : Edit(p)

Spec == Init /\ [][Next]_vars

(* The CronJob is not suspended and a job that can go on does.                *)
FairSpec == Spec /\ \A j \in Jobs : WF_vars(Work(j))

----------------------------------------------------------------------------
(* Properties.                                                                *)

(* Only pages of the wanted spaces are held and stored; at most MaxFaults     *)
(* requests fail.                                                             *)
Item == [at : Nat, page : Wanted, version : Versions]
BuiltItem == [at : Nat, page : Wanted, version : Versions, by : {"model", "hash"}]

TypeOK ==
  /\ mode \in Modes /\ order \in Orders /\ version \in [Pages -> Versions]
  /\ pc \in [Jobs -> Ended \union {"fetch", "embed", "ensure", "create", "upsert"}]
  /\ start \in [Jobs -> Nat]
  /\ todo \in [Jobs -> SUBSET Item] /\ built \in [Jobs -> SUBSET BuiltItem]
  /\ collection \in {0, Size["model"], Size["hash"]}
  /\ points \subseteq [page : Wanted, version : Versions, index : Nat]
  /\ faults \in 0 .. MaxFaults
  /\ base \in [Jobs -> [Pages -> Versions]]
  /\ disturbed \in [Jobs -> BOOLEAN] /\ fellBack \in BOOLEAN

(* Every character of the text is in a chunk that is stored.                  *)
Whole(p, v) ==
  \A c \in 1 .. Length[v] :
    \E q \in points : /\ q.page = p /\ q.version = v
                      /\ q.index * Step < c /\ c <= q.index * Step + ChunkSize

(* A search never finds part of a page's version, whatever jobs overlap, fail *)
(* or are repeated, and no character falls between two chunks (136-146,       *)
(* 225-233, 262-282).                                                         *)
VersionsAreWhole == \A q \in points : Whole(q.page, q.version)

(* A run that ended well, during whose search nothing was edited, has stored  *)
(* every page of the spaces as it was ("Continue pagination until Confluence  *)
(* result pages are exhausted", 122; raise_for_status, 233).                  *)
SuccessMeansIndexed ==
  \A j \in Jobs : pc[j] = "succeeded" /\ ~disturbed[j] => \A p \in Wanted : Whole(p, base[j][p])

(* When editing stops, every page's last version is in the collection in the  *)
(* end, though runs overlap, fail and meet each other's effects; unless the   *)
(* per-page fallback once put vectors of another size in the way (184-189).   *)
EventuallyIndexed == <>[](fellBack \/ \A p \in Wanted : Whole(p, version[p]))
=============================================================================

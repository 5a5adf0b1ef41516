------------------------------ MODULE RagSearch ------------------------------
(* The search server of the documentation, rag-mcp-server.py under            *)
(* src/files/ai-platform: list_datasets and search_documentation over         *)
(* RAGFlow. FastMCP runs synchronous tools on threads, so calls overlap; they *)
(* share _dataset_cache, read and assigned as one tuple. A list of datasets   *)
(* is the set of its members: they are numbered in the order of their names.  *)
EXTENDS Integers, Sequences, FiniteSets, Ranking

CONSTANTS
  Threads,        \* threads that serve calls
  Datasets,       \* numbers, in the order of the datasets' names
  PageSize,       \* page_size of _all_datasets
  MaxPages,       \* the last page it asks for
  Ttl,            \* DATASET_CACHE_TTL_SECONDS
  Globs,          \* values of name_globs, the configured ones among them
  Selects,        \* the datasets whose names match each of them
  Limits,         \* limits a caller asks for
  MaxLimit,       \* the greatest that is granted
  MaxWorkers,     \* max_workers of the executor
  Hits,           \* similarities of each dataset's chunks, best first
  RagHorizon,     \* bound: clock ticks
  MaxChanges      \* bound: datasets created, filled or deleted

ASSUME RagAssumption ==
  /\ Datasets \subseteq Nat /\ IsFiniteSet(Datasets)
  /\ PageSize \in Nat \ {0} /\ MaxPages \in Nat \ {0} /\ Ttl \in Nat
  /\ Selects \in [Globs -> SUBSET Datasets]
  /\ Limits \subseteq Int /\ MaxLimit \in Nat \ {0} /\ MaxWorkers \in Nat \ {0}
  /\ Hits \in [Datasets -> Seq(Nat)]
  /\ \A d \in Datasets : \A k, l \in DOMAIN Hits[d] : k <= l => Hits[d][l] <= Hits[d][k]
  /\ RagHorizon \in Nat /\ MaxChanges \in Nat

VARIABLES
  stored,         \* RAGFlow's datasets, in the order it pages them
  filled,         \* those with chunks
  changes,        \* how often they changed
  clock,          \* time.monotonic()
  cache,          \* _dataset_cache: [at, list, full]; history: when its load began
  call,           \* the state of each thread
  deleted         \* history: when each dataset was last deleted, if it is not stored

ragVars == <<stored, filled, changes, clock, cache, call, deleted>>

Members(s) == {s[i] : i \in DOMAIN s}
MinOf(a, b) == IF a < b THEN a ELSE b
MaxOf(a, b) == IF a > b THEN a ELSE b

(* What a thread works with: its tool and arguments, the pages read so far or *)
(* the list it uses, the searches that still run, the chunks that came, in    *)
(* the order they came, and the datasets that failed. The rest is history:    *)
(* what was stored during the whole load and whether anything was deleted     *)
(* then, when the load of the list in use began, how long it took, and when   *)
(* the call took the list.                                                    *)
Idle == [at |-> "idle", tool |-> "list", globs |-> {}, limit |-> 0, page |-> 0,
         list |-> {}, full |-> {}, pending |-> {}, chunks |-> <<>>, errors |-> {},
         steady |-> {}, shrunk |-> FALSE, began |-> 0, took |-> 0, since |-> 0]

RagInit ==
  /\ stored \in {s \in UNION {[1 .. n -> Datasets] : n \in 0 .. Cardinality(Datasets)} :
                   Cardinality(Members(s)) = Len(s)}
  /\ filled = Members(stored)
  /\ changes = 0 /\ clock = 0
  /\ cache = [at |-> 0, list |-> {}, full |-> {}, began |-> 0]
  /\ deleted = [d \in Datasets |-> 0]
  /\ call = [c \in Threads |-> Idle]

----------------------------------------------------------------------------
(* The list of datasets.                                                      *)

(* The thread goes on with the list it has: a listing is answered, so is a    *)
(* search that selects nothing or only empty datasets, and any other search   *)
(* is handed to the executor.                                                 *)
Proceed(r) ==
  LET searchable == r.list \cap r.globs \cap r.full
  IN IF r.tool = "search" /\ searchable # {}
     THEN [r EXCEPT !.at = "searching", !.page = 0, !.pending = searchable]
     ELSE [r EXCEPT !.at = "done", !.page = 0]

(* Mutant: the cache is used whatever its age.                                *)
FreshForEver == TRUE

Fresh == clock - cache.at < Ttl

(* A list of datasets is taken from the cache, or has just been loaded.       *)
From(r, e) == [r EXCEPT !.list = e.list, !.full = e.full,
                        !.began = e.began, !.took = e.at - e.began, !.since = clock]

Loading(r) == [r EXCEPT !.at = "loading", !.page = 1, !.began = clock, !.steady = Members(stored)]

(* _all_datasets, up to its first request.                                    *)
AllDatasets(c, r, force) ==
  call' = [call EXCEPT ![c] =
    IF ~force /\ cache.list # {} /\ Fresh THEN Proceed(From(r, cache)) ELSE Loading(r)]

(* What a tool starts with.                                                   *)
Asked(tool, globs, limit) ==
  [Idle EXCEPT !.tool = tool, !.globs = globs, !.limit = limit]

Served(c) == call[c].at \in {"idle", "done", "raised"}

ListDatasets(c, globs, force) ==
  /\ Served(c)
  /\ AllDatasets(c, Asked("list", Selects[globs], 0), force)
  /\ UNCHANGED <<stored, filled, changes, clock, cache, deleted>>

Bounded(limit) == MaxOf(1, MinOf(limit, MaxLimit))

Search(c, globs, limit) ==
  /\ Served(c)
  /\ AllDatasets(c, Asked("search", Selects[globs], Bounded(limit)), FALSE)
  /\ UNCHANGED <<stored, filled, changes, clock, cache, deleted>>

Raised == [Idle EXCEPT !.at = "raised"]

(* A query of spaces, or a request for a page that fails: the caller gets the *)
(* exception and the cache stays.                                             *)
Raises(c) ==
  /\ Served(c) \/ call[c].at = "loading"
  /\ call' = [call EXCEPT ![c] = Raised]
  /\ UNCHANGED <<stored, filled, changes, clock, cache, deleted>>

Batch(page) == {stored[i] : i \in {j \in DOMAIN stored : (page - 1) * PageSize < j /\ j <= page * PageSize}}

(* Mutant: a full page is taken for the last one.                             *)
LastPageTooEarly(page) == Cardinality(Batch(page)) <= PageSize

LastPage(page) == Cardinality(Batch(page)) < PageSize \/ page = MaxPages

NextPage(r, e) == [r EXCEPT !.list = e.list, !.full = e.full, !.page = @ + 1]

(* A page arrives. Datasets seen again are the same entry, as last seen; the  *)
(* last page installs the list.                                               *)
PageArrives(c) ==
  LET r == call[c]
      batch == Batch(r.page)
      read == [at |-> clock, began |-> r.began, list |-> r.list \union batch,
               full |-> (r.full \ batch) \union (batch \cap filled)]
  IN /\ r.at = "loading"
     /\ IF LastPage(r.page)
        THEN cache' = read /\ call' = [call EXCEPT ![c] = Proceed(From(r, read))]
        ELSE call' = [call EXCEPT ![c] = NextPage(r, read)] /\ UNCHANGED cache
     /\ UNCHANGED <<stored, filled, changes, clock, deleted>>

----------------------------------------------------------------------------
(* The parallel search.                                                       *)

(* Submitted in the order of the names and run by MaxWorkers threads.         *)
Runs(c, d) ==
  /\ d \in call[c].pending
  /\ Cardinality({e \in call[c].pending : e < d}) < MaxWorkers

Ended(r, d) == [r EXCEPT !.pending = @ \ {d}, !.at = IF r.pending = {d} THEN "done" ELSE @]

(* Mutant: the caller's limit is divided among the datasets.                  *)
ShareOfLimit(r) == MaxOf(1, r.limit \div Cardinality(r.list))

PerDataset(r) == r.limit

(* The chunks of d, as many as were asked for.                                *)
Best(r, d) == [k \in 1 .. MinOf(PerDataset(r), Len(Hits[d])) |-> <<d, k>>]

Found(r, d) == [r EXCEPT !.chunks = @ \o Best(r, d)]

Failed(r, d) == [r EXCEPT !.errors = @ \union {d}]

SearchReturns(c, d) ==
  /\ Runs(c, d) /\ d \in Members(stored)
  /\ call' = [call EXCEPT ![c] = Ended(Found(@, d), d)]
  /\ UNCHANGED <<stored, filled, changes, clock, cache, deleted>>

SearchFails(c, d) ==
  /\ Runs(c, d)
  /\ call' = [call EXCEPT ![c] = Ended(Failed(@, d), d)]
  /\ UNCHANGED <<stored, filled, changes, clock, cache, deleted>>

(* The answer: sorted by similarity, then cut to the limit.                   *)
Similarity(chunk) == Hits[chunk[1]][chunk[2]]

Matches(r) ==
  LET rows == DOMAIN r.chunks
      score == [i \in rows |-> Similarity(r.chunks[i])]
  IN {r.chunks[i] : i \in Kept(rows, ByScore(rows, score), r.limit)}

----------------------------------------------------------------------------
(* RAGFlow, and the clock.                                                    *)

(* Loads that run take part in the history: what is deleted was not steady.   *)
Meanwhile(r, new) == [r EXCEPT !.steady = @ \cap Members(new), !.shrunk = @ \/ Len(new) < Len(stored)]

Change(newStored, newFilled) ==
  /\ changes < MaxChanges /\ changes' = changes + 1
  /\ stored' = newStored /\ filled' = newFilled
  /\ call' = [c \in Threads |->
                IF call[c].at = "loading" THEN Meanwhile(call[c], newStored) ELSE call[c]]
  /\ UNCHANGED <<clock, cache>>

(* RAGFlow lists the newest first.                                            *)
Create(d) == d \notin Members(stored) /\ Change(<<d>> \o stored, filled) /\ UNCHANGED deleted

Fill(d) == d \in Members(stored) \ filled /\ Change(stored, filled \union {d}) /\ UNCHANGED deleted

Delete(d) ==
  /\ d \in Members(stored)
  /\ LET at == CHOOSE i \in DOMAIN stored : stored[i] = d
     IN Change([i \in 1 .. Len(stored) - 1 |-> stored[IF i < at THEN i ELSE i + 1]], filled \ {d})
  /\ deleted' = [deleted EXCEPT ![d] = clock]

RagTick ==
  /\ clock < RagHorizon /\ clock' = clock + 1
  /\ UNCHANGED <<stored, filled, changes, cache, call, deleted>>

RagNext ==
  \/ \E c \in Threads :
       \/ \E g \in Globs :
            \/ \E force \in BOOLEAN : ListDatasets(c, g, force)
            \/ \E n \in Limits : Search(c, g, n)
       \/ Raises(c) \/ PageArrives(c)
       \/ \E d \in Datasets : SearchReturns(c, d) \/ SearchFails(c, d)
  \/ \E d \in Datasets : Create(d) \/ Fill(d) \/ Delete(d)
  \/ RagTick

RagSpec == RagInit /\ [][RagNext]_ragVars

----------------------------------------------------------------------------
(* Properties.                                                                *)

(* An answered search accounts for every dataset it could search: it answered *)
(* or is named in dataset_errors; and no chunk that an answering dataset has  *)
(* is more similar than one that is shown, in whatever order they answered    *)
(* (rag-mcp-server.py 145-183).                                               *)
SearchIsComplete ==
  \A c \in Threads :
    LET r == call[c]
        shown == Matches(r)
        answered == {chunk[1] : chunk \in Members(r.chunks)}
    IN r.at = "done" /\ r.tool = "search" =>
         /\ \A d \in r.list \cap r.globs \cap r.full : d \in answered \union r.errors \/ Hits[d] = <<>>
         /\ \A d \in answered, k \in 1 .. MaxLimit :
              k <= Len(Hits[d]) /\ <<d, k>> \notin shown =>
                /\ Cardinality(shown) = r.limit
                /\ \A chunk \in shown : Similarity(chunk) >= Hits[d][k]

(* As long as the pages suffice for all datasets, a list that was loaded      *)
(* holds every one that was there during the whole load, even when others     *)
(* were created between two pages; only a deletion may hide one               *)
(* (rag-mcp-server.py 45-61).                                                 *)
NothingSkipped ==
  Cardinality(Datasets) < MaxPages * PageSize =>
    \A c \in Threads :
      LET r == call[c]
      IN r.at \in {"searching", "done"} => r.steady \subseteq r.list \/ r.shrunk

(* No answer is made from a dataset that was deleted a TTL, and the time its  *)
(* load took, before the call: whichever thread loaded the list, an answer    *)
(* lags behind RAGFlow by no more (rag-mcp-server.py 41-43, 61-63).           *)
DeletedIsForgotten ==
  \A c \in Threads :
    LET r == call[c]
    IN r.at \in {"searching", "done"} =>
         \A d \in r.list \ Members(stored) :
           deleted[d] >= r.began /\ r.since < r.began + r.took + MaxOf(Ttl, 1)
=============================================================================

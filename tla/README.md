# A verification project for epik8s-platform

TLA+ models, TLC runs and TLAPS proofs about the logic of `epik8s-platform`: a
Helm chart that deploys an AI assistant for accelerator control rooms and the
Python services it carries in `src/files/`. Most of the repository is
declarative (templates, values, dashboards, a Keycloak realm); the state
machines are in the voice assistant, in its token service, in the ingestion and
retrieval services and in the backup job. Paths below are relative to the
repository's root, called `src/` in `PROJECT.json`.

## 1. Inventory

### The parts and how they interact

```
 browser --POST /token--> voice-token-server --list/remove/create_dispatch--> LiveKit server
    |                          | claims (Keycloak access token)                     |
    |                          +-- metadata {operator_identity, can_act, model} --> | job
    |<======= room: audio, data channel (text, confirm_action, phases) ========> voice agent
                                                                 ArgusAgent (STT, LLM, TTS)
                                                                 ArgusMcpBridge -> argus-mcp (tools)
                                                                   |-- read tool -> content events
                                                                   +-- write tool -> ActionGate
 confluence_ingest --> Qdrant      rag-mcp-server --> RAGFlow      cluster-backup (CronJob)
```

| Component | Source | State it keeps | Operations | What is hard |
|---|---|---|---|---|
| Action gate | `files/ai-platform/voice-agent/action_gate.py` | `_pending`, `_recent`, a future per request | `execute`, `on_confirm` | three awaits per call, answers that arrive at any time, timeout against answer, cancellation |
| Agent dispatch | `files/ai-platform/voice-token-server.py` 124-204 | `_recent_dispatch` per process; the room's agents in LiveKit | `dispatch_agent`, `_remove_existing_agents` | one thread per request, several replicas, slow and ambiguous network calls |
| Voice access | `voice-token-server.py` 85-109 and 253-312, `voice-agent/room_scope.py`, `agent.py` 443-497, `templates/ai-platform/voice-token.yaml` | claims, voice tokens, jobs, sessions | `POST /token`, `entrypoint` | two services must resolve a room to one beamline; capability snapshots |
| Voice session | `voice-agent/agent.py` 273-440, 520-586, `events.py` | `_current_turn_id`, event tasks | `stt_node`, `llm_node`, `tts_node`, typed text | phase events of overlapping turns, fire-and-forget publishing |
| Leak filter | `agent.py` 194-270 | hold-back buffer, `in_leak` flag | `_strip_leaked_tool_call_syntax` | tags split over any number of chunks, overflow, end of stream |
| Tool bridge | `voice-agent/argus_mcp_bridge.py` | MCP session, gate | `discover_tools`, `_call` | which tools exist for the model, failures of side channels |
| Content and device catalog | `voice-agent/argus_content.py` | `DeviceCatalogCache` | `lookup`, `_refresh`, emission, the builders of tables, widgets and charts | concurrent refreshes, stale data, partial failure; what is cut and whether it says so |
| Confluence ingestion | `confluence_ingest.py`, `templates/ai-platform/confluence-ingester.yaml` | Qdrant points | `fetch_pages`, `embed_texts`, `upsert_points` | offset paging over changing data, overlapping jobs, stale points |
| RAG server | `rag-mcp-server.py` | `_dataset_cache`, shared by threads | `list_datasets`, `search_documentation` | paging over datasets that change, threads racing for the cache, parallel fan-out with partial failure |
| Kubernetes server | `kubernetes-mcp-server.py` | none between calls | six read-only queries | several requests to a cluster that moves, limits a language model chooses, values rounded before they are ranked, tools that judge the same pod by different tests |
| Cluster backup | `templates/backup/cluster-backup.yaml` 106-229 | daily and monthly directories, ES snapshots | prune, export, promote | killed or failing at any line, retried by the Job |
| Test users script | `docs/keycloak/create-test-users.sh` | Keycloak users, one Secret | create, apply | re-running, stopping half-way |
| The rest | `templates/`, `values*.yaml`, `docs/` | none at run time | rendered by Helm | declarative, no behaviour of their own |

### What makes each component correct

* **Action gate** - nothing runs that the operator did not confirm; one request
  at a time and the slot never leaks; the rate limit holds in every interval;
  decisions are final; every request settles.
* **Agent dispatch** - a burst is one dispatch; a failure does not block the
  retry; the room ends up with one agent, the newest.
* **Voice access** - rooms of two operators are one only if neither slug nor digest
  tells the two apart; the beamline an operator was
  authorised for is the one the agent serves; actions need the role.
* **Voice session** - the start and end of a phase carry one turn id and pair up,
  and no turn is reported under an older one.
* **Leak filter** - the text that comes out is the text that went in without the
  leaked blocks, however it was cut into chunks; what the operator does not hear is
  either noise or answered by the recovery prompt.
* **Tool bridge** - a write tool reaches the server only through the gate; a
  failing side channel never changes what the model is told.
* **Catalog** - a lookup never fails because of a refresh, and an expired snapshot
  serves only when the refresh failed.
* **Dashboard content** - what is shown without a note of a cut is complete; a trend
  spans its whole history; what a look up of a row's name finds is the row's device or
  one of the same name but for case and blanks, with the widget its own row shows.
* **RAG server** - a search accounts for every dataset it could search and shows the
  best of their chunks; no dataset is skipped while others are created, and a
  deleted one is noticed in time.
* **Kubernetes server** - a row is never left out for one that matters less (for the
  usage of namespaces: less by more than what rounding hides), and the tools that judge
  pods differ on a known set of them only.
* **Ingestion** - a run that succeeds has stored what it saw; no page is half there;
  the current pages arrive in the end.
* **Backup** - the monthly copy is a complete backup; a successful backup is kept
  for its retention, and nothing is kept for much longer unless its removal fails.

## 2. Modules and plan

Built, in this order:

| Module | Models | Extended or used by |
|---|---|---|
| `ConfirmedAction` | what the gate promises: a call is asked about, then allowed or not, then run at most once | refined by `ActionGate` |
| `ActionGate` | `ActionGate.execute` and `on_confirm` | `MCActionGate`, `ActionGateProofs` |
| `TokenDispatch` | `dispatch_agent`, `_remove_existing_agents`, the room's agents in LiveKit | `MCTokenDispatch`, `TokenServiceProofs` |
| `VoiceAccess` | token service, room selection and session start, composed | `MCVoiceAccess`, `TokenServiceProofs` |
| `VoiceSession` | the turn ids of speech recognition, replies and typed text | `MCVoiceSession`, `VoiceSessionProofs` |
| `ClusterBackup` | the backup script, the CronJob, both retentions | `MCClusterBackup`, `ClusterBackupProofs` |
| `LeakFilter` | `_strip_leaked_tool_call_syntax` over a stream of chunks | `MCLeakFilter`, `LeakFilterProofs` |
| `ToolCall` | `discover_tools`, `_call`, `emit_content_for_tool`, the automatic chart and `DeviceCatalogCache` | `MCToolCall`, `ToolCallProofs` |
| `ConfluenceIngest` | `confluence_ingest.py` as containers of a CronJob | `MCConfluenceIngest`, `ConfluenceIngestProofs` |
| `Ranking` | a stable sort followed by a slice | the next three |
| `RagSearch` | `rag-mcp-server.py`: the dataset cache and the parallel search | `Answers` |
| `KubernetesQueries` | `kubernetes-mcp-server.py`: its six queries | `Answers` |
| `ArgusContent` | `argus_content.py`: what tables, widgets and charts hold | `Answers` |
| `Answers` | the last three side by side | `MCAnswers`, `AnswersProofs` |

`TokenServiceProofs` extends both modules of the token service, for which reason the
names of `VoiceAccess`'s specification begin with `Access` (`AccessInit`, `AccessNext`,
`AccessSpec`).

What could come next, and what it would add:

1. `ToolCall` over the gate: a refinement of `ToolCall` to `ConfirmedAction`, so that
   "confirmed" is the gate's promise and no longer a choice of the model. The gate's
   own refinement is checked and proved; `ToolCall` only uses that a call runs when
   confirmed.
2. `VoiceAccess` and `TokenDispatch` over one table of rooms, with the gate's operator
   taken from the job's metadata. The two share nothing but the room's name and the
   metadata, which `VoiceAccess` carries.
3. The Keycloak script for test users, re-run and stopped at any line: its one hazard
   is listed and needs no model.

## 3. How the models correspond to the code

One action stands for what the code does between two suspensions: two `await`s
in the voice agent, two network calls or lock boundaries in the token service,
two commands of the backup script. Data are reduced to what the properties tell
apart; `PROJECT.json` maps every definition to its lines.

**ActionGate.** A call is an element of `Calls` with a program counter. `pending`
and `recent` are `_pending` and `_recent`; `future` is the per-request future
with the value `on_confirm` stored. The early returns of `execute` (capability,
scope, pending, rate) are actions of their own; `Propose` is the step up to the
await of `publish`; then come the outcomes of `publish`, of `wait_for` (Python
3.11, the image's interpreter: an answer that arrived beats the timer and a
cancellation), the `finally` that empties the slot, and the run of the tool. An
integer clock is advanced by `Tick`; `Timeout` and `RateWindow` are measured on it.
A request has a `tail`: what the label has no room for, past 120 characters of an
argument or in an argument it does not show. `LabelOfRequest` drops it, so that what
the property says of a run is what the code guarantees: it is the stored call, and the
label shown was made from it.

**TokenDispatch.** A request is a thread of one replica: check-and-reserve under
the lock, list the participants, remove each agent, create the dispatch, and the
except clause that pops the reservation. Each replica has its own
`_recent_dispatch`. LiveKit is external: jobs become agents of the room at any
later time, calls fail before or after having had their effect.

**VoiceAccess.** Its specification is `AccessSpec`. `PostWithLogin` and `PostAnonymous`
are `do_POST`; `AgentStarts`/`AgentRefuses` are `entrypoint`. A room is a sequence of
characters: `OperatorRoom` is the base room, two dashes, the slug cut at `SlugLength`, a
dash and the digest, which may collide; `Selected` is `select_server_for_room` on such
names, and `Identity` the split at the last two dashes. `Name` is the user's name after
the substitution that leaves single dashes inside only (`Plain`), before the cut. Whether
the service requires a login is chosen in `Init`. Claims change under the access tokens,
which are the snapshot the code trusts.

**VoiceSession.** `currentTurn` is `_current_turn_id`, a turn standing for its
uuid; `nodeTurn` is the local `turn_id` of an `llm_node` or `tts_node`. The SDK
decides when nodes run, and may overlap turns. `stamp` is a history variable: the
order in which ids were minted. An event counts as emitted when its task exists.

**ClusterBackup.** `pc` is the line of the script; `daily`, `parts`, `monthly`,
`copied` are the volume, `nightlySnap` and `monthlySnap` the snapshot
repository. `Abort` is `set -e`, a killed pod or the deadline, at every line;
`AttemptOver` the Job's retry. An incomplete nightly snapshot counts as none,
because nothing reads it; an incomplete monthly one is a state of its own. A
`cp -a` counts as a copy once it has completed; cut short it leaves a part. A
directory's age is that of its `mtime`. The two `find` commands remove what they find
one directory after the other and ignore a failing `rm`: any of those found may be left in
part, as old as it was or looking new, and the job may be killed before it has come to
all. Listing the snapshots may fail without a trace, and then none is pruned.
`succeeded`, `esSucceeded`, `cut` and `tried` (when a removal last left something) are
history; that of backups past both retentions is forgotten, which only the size of the
state space is about.

**LeakFilter.** Text is a sequence of symbols, among them the tags' letters. An
action is one turn of the function's loop, one arrival of a chunk or the end of
the stream; `buf`, `inLeak` and `out` are its locals, `spoken` the concatenation of what
it yields. `Yield` is the end of the loop: any text in `out` counts as emitted, and the
chunk is heard (`heard`) unless it is one of `Silent`, those of which `tts_node` (411-416)
leaves nothing: blank ones and lines of markdown noise. `Silent` is any set of texts of
`Noise` symbols. The reference for what is spoken is a recursive function on the whole text.

**ToolCall.** A call is a task between two awaits. `byName` is the snapshot as the number
of the catalog it came from; `deployed` and `now` change outside the agent. The
gate is abstract: it runs a call, which is then recorded in `confirmed`, or
refuses it. A call may be cancelled at any await.
`connect` and `close` surround the session and are not modelled.

**ConfluenceIngest.** A job is a container that runs `main()`, again and again: by the
schedule, by the Job's retry, or while another is still at work
(`concurrencyPolicy: Allow`). An action is one request and what the code does with
its answer; a failing request ends the run (`raise_for_status`), before or after
having had its effect in Qdrant, except where the code goes on: the fallback of
`auto`, and an error taken for a missing collection. Confluence lists pages in any
order of `Orders` and may change it at every edit. A fetched item carries its place
`at` in that order, so that `todo` and `built` are sets and the code's lists are their
order by place. `Step`, `ChunkIndexes` and `Whole` are `chunk_text`: chunk k is the
text from character k * `Step` on, and a version is whole when each of its characters
is in a chunk that is stored. Vectors are known by origin and size only, and Qdrant
takes a batch as a whole or not at all. The endpoint is assumed to answer with as many
vectors as it was sent texts: `zip(chunks, embeddings)` at line 262 would drop the
chunks beyond a shorter answer without a word.

**Ranking.** A list is cut by `sort` and `[:k]` to the positions `Kept`: those before
which the order puts fewer than `SliceLength`, Python's slice with its negative limits.
`Sorted(rows, Above)` is the order of a stable sort (lines 174 of the RAG server, 156
and 212 of the Kubernetes server); `ByScore` and `InOrder` are two uses of it.

**RagSearch.** FastMCP runs the tools, which are synchronous, on threads. A thread goes
from the cache or the load of the list, page by page, to the searches, which
`MaxWorkers` workers run in the order of the names and which end in any order, each
with its chunks or with a failure. `cache` is the tuple `_dataset_cache`, which threads
read and assign without a lock. RAGFlow is external: datasets are created (listed
first, the newest on top), filled and deleted between any two requests. `steady`,
`shrunk`, `began`, `took` and `since` of a call, `cache.began` and `deleted` are
history. A dataset is a number, in the order of the names, and its chunks the list
of their similarities.

**KubernetesQueries.** A call is the sequence of its `Requests`, each of which returns
any listing of the instance: the cluster has moved since the last one. What an answer
holds is a set of positions in what was read. Quantities are whole numbers of a unit
finer than what is shown; a sum is rounded to a multiple of `CpuUnit` or `MemoryUnit`
before the rows are sorted, as in the code, to the nearest one, and half way to either
(`HalvesUp`), since a float seldom holds the half. That floats also add up inexactly is
left out. Timestamps are comparable numbers, since the code compares ISO strings of one
format.

**ArgusContent.** The builders are functions of a tool's result, to the set of positions
that are shown and the number that is said to be cut. `below` is the set of products
`i * stride` that a float rounds down below an integer, any of which may be. `payload`
is the result being shown. `Lower` and `Strip` are what Python makes of a name; the
catalog's key is lowered and not stripped, the name looked up is both, and of equal keys
the last device stays (`CatalogEntry`). The catalog and the table come from two calls of
one tool at different times; `WidgetsAgree` compares them on one listing (`ToolCall` has
the staleness of the catalog).

**Answers.** The three run in processes of their own and share nothing. A step is a step
of one of them while the others have not begun: together they would show nothing that
one alone does not, and `EachGoesItsWay` proves that the steps are theirs.

## 4. The runs

`pass` runs finish without error; a `violation` run checks one statement of a
comment or a docstring and TLC shows a behaviour of the code that breaks it.

| Run | Instance | Shows |
|---|---|---|
| `ActionGate_session` | 2 calls of 2 tools, with and without a tail, quota 1, timeout 2, window 2, clock to 4, fairness | safety of the gate, its refinement of `ConfirmedAction`; every request settles, an accepted confirmation is honoured |
| `TokenDispatch_safety` | 3 requests, 2 replicas, 2 models, window 2, clock to 2 | bursts, retries, evictions |
| `TokenDispatch_duplicate` | the same system, smaller | a late failure removes another's reservation |
| `VoiceAccess_rooms` | with login and without, 3 operators, 2 of whose names are equal once cut and 2 of whose digests collide, 3 servers, one of which has a room named like a private one, 3 sets of claims, 2 tokens, 1 session | isolation of rooms, beamlines, actions |
| `VoiceSession_turns` | 2 spoken turns, 1 typed; one turn of 2 steps | phases close under their own id; no older turn's id; only typing splits a transcription |
| `VoiceSession_retry` | the same turns | one failed transcription ends speech input |
| `ClusterBackup_months` | 4 nights over 3 months of 2 days, one of them retried, a removal that fails in each of the last two, retention 1 day and 1 month | what is kept and what goes; monthly copies that were not cut short are whole |
| `ClusterBackup_copy` | 2 nights, 1 retry | a copy cut short is kept as the month's |
| `LeakFilter_text` | every text of up to 8 of 4 symbols, one of them a blank, in chunks of up to 3, buffer of 5 | nothing but leaked blocks is lost; how late text may be; which replies are silent without an answer |
| `ToolCall_session` | 2 calls, 4 tools, 2 devices, 2 catalogs, TTL 1, clock to 2 | the allowlist, the answer, freshness of devices, no call waits for the archiver |
| `ConfluenceIngest_runs` | 2 jobs, 3 pages (2 wanted) listed 2 at a time, texts of 1 to 3 overlapping chunks or none, 1 page edited twice, 1 fault | whole versions, meaning of success, the last versions arrive |
| `Answers_cut` | 2 threads, 2 datasets, pages of 1, TTL 1, 1 change; every query with limits of -1 to 9 over every listing of up to 3 rows; histories of up to 40 samples for 4 points; devices whose names differ in case or blanks | complete searches, worst first as far as rounding lets it, no silent cut, where tools differ |

**Why the bounds are enough.** Each bound lets the case a property is about
happen, which the mutants confirm: every property of a passing run is violated
when one mapped definition is changed the way a plausible slip would.

* Gate: two calls against a quota of one, over two windows, reach the refusal, the expiry
  of the stamp and the second request, in a session that outlives both timers.
* Dispatch: three requests are what a stale reservation needs (one that fails late, one
  that replaces it, one that is let through).
* Access: three servers with overlapping names are what prefix selection needs; two
  tokens of three operators are each pair that slug, digest or both could confuse, and a
  slug cut after a dash is one of them.
* Session: two utterances and a typed turn give every order of two mints around a read.
* Filter: a text of 8 symbols holds a block with text around it or an unclosed tag that
  overflows the buffer of 5, cut anywhere; a block with a blank beside it is a reply that
  emits something and is not heard.
* Tools: two calls make two concurrent refreshes, with a deployment between them.
* Ingestion: three pages at two a time make a full page of results and a short one, and
  edits move a page from one to the other while a job reads; a text of three characters
  in chunks of two that overlap by one has a last chunk that adds nothing new; two
  versions with text around one without reach the skipped page (the mode `endpoint`
  adds nothing to `auto` without its fallback).
* Backup: four nights pass both retentions with a failing night between (`RetryNights`,
  `StuckDaily` and `StuckMonthly` restrict retries and failing removals to some of them,
  for the size of the run only; the theorems hold for all nights).
* Answers: with pages of one, a dataset moves to the next page, under the reader, when
  another is created before it; two threads are what an old list over a new one needs;
  three rows with a limit of two, or 40 samples for four points, are on both sides of
  every cut; sums of 6 and 14 in units of 10 are rounded to the same, up and down.

Where a property is proved, the bound no longer matters.

**Findings.** Three, in `PROJECT.json`, each with the quoted line:

* dispatch: a dispatch that fails after its window removes a newer reservation;
* session: one failed transcription ends speech input for the whole session;
* backup: a `cp -a` cut short is kept as the month's copy.

More statements disagree with the code and have no run of their own, because
reading the lines is enough:

* two agents can stay in a room (`voice-token-server.py` 141-146);
* a request can be skipped for a dispatch that then fails, so that no job was asked for
  (`voice-token-server.py` 31 against 184);
* a private room is selected by prefix although the docstring says exactly
  (`room_scope.py` 21 against 36);
* an administrator needs neither role nor beamline (`voice-token-server.py` 99 against 105);
* a `PARTIAL` monthly snapshot is never taken again (`cluster-backup.yaml` 184 against 219);
* the end of a transcription is published for a turn typed meanwhile (`agent.py` 363
  against 375: what `OnlyTypingSplitsStt` permits);
* the rest of a reply is published for a turn that began meanwhile (`agent.py` 386
  against 390);
* "failing pods, restart-heavy pods" (`kubernetes-mcp-server.py` 114) include every pod
  that has succeeded, and list it above a running one that crashes (132, 156):
  `WorstFirst` speaks of running and not running only;
* `unhealthy_pods[:30]` (`kubernetes-mcp-server.py` 109) is cut in the order of the
  listing and does not say so, unlike the dashboard's tables;
* "failing pods" (114) also means that a completed pod is healthy in `get_cluster_health`
  (95) and an issue in `get_pod_issues` (132): `ToolsDifferOnCompleted` says that among
  pods without a restarted or waiting container these are the only ones;
* `get_namespace_resource_usage` rounds before it sorts (`kubernetes-mcp-server.py` 208-212):
  0.00014 and 0.00006 cores are both 0.0001, memory decides, and the namespace that uses
  more may be cut: `BusiestFirst` says by how much;
* the recovery prompt is there because "the operator hears nothing" otherwise (`agent.py`
  262), but a blank or a line of markdown beside the leaked block counts as content (244),
  no prompt follows (259), and `tts_node` drops it (411-416): the operator hears nothing.
  `OperatorHearsSomething` says that a reply of text is silent only if what is left of it is
  such noise;
* "Exact match only" (`argus_content.py` 311): the name looked up is stripped (351), the
  catalog's keys are not (338), so a device whose name has blanks around it is never found
  and another may be, and of names that differ in case only the last device is found
  (`WidgetsAgree` says just when);
* "the exact wording the operator confirms" (`action_gate.py` 51): an argument is clipped
  at 120 characters and a logbook entry is its title (45-61), so calls that differ may have
  one label; what runs is the stored call all the same;
* "retention still applies on nights where a later step fails" (`cluster-backup.yaml`
  116-117), but not where the removal itself fails: that is ignored (119, 122), and what it
  leaves can pass for a new directory. `RetentionApplies` says for how long;
* "optionally filtered" by `name_globs` (`rag-mcp-server.py` 112) replaces the configured
  globs and may select more (67);
* "never raises" (`argus_content.py` 428) holds for a failing request and for malformed
  JSON, not for samples that are no objects.

## 5. Fairness

`ActionGate_session`, `VoiceSession_retry`, `ToolCall_session` and
`ConfluenceIngest_runs` need it. The event loop runs
every ready callback and its clock advances, so each action that is a
continuation of a suspended call is weakly fair, and so is the timer. `publish`
is assumed to return or raise (nothing in the gate bounds it: a hazard),
`run()` is not assumed to end, and the operator is never assumed to answer.
In `ToolCall` the gate, the MCP server and the room's publications answer or fail
(the gate has its timeout; the catalog's refresh has none: a hazard), the timer of
a chart fires, and nothing is assumed of the archiver, which is why the timer matters.
In `ConfluenceIngest` every request has a timeout and the CronJob is not
suspended, so a job that can go on does and one that ended runs again; nobody is
assumed to edit and no request to fail.
In the session, recognition is assumed to return or raise and the SDK to ask
for the reply of a turn it has accepted; the operator's speaking and typing,
and failures, are not fair. All other properties are safety properties.

## 6. What is proved

TLAPS checks the theorems below for every value of the constants that satisfies
the modules' ASSUMEs. Each argument is an inductive invariant: it holds
initially, every action keeps it, and it implies the property.

| Module | Theorems | Invariant and why it is needed |
|---|---|---|
| `ActionGateProofs` | `TypeCorrect`, `OperatorInControl`, `OnePending`, `RateLimit`, `DecisionsAreFinal`, `ImplementsConfirmedAction` | `CallInv`: what each program counter implies about the call's future and slot (a running call has a future answered yes by the operator). `GateInv`: the entry in `pending` belongs to the one call between proposal and settlement. `RateInv`: `recent` holds every proposal inside the window, so that a count of `recent` bounds the count of proposals |
| `TokenServiceProofs`, of `TokenDispatch` | `TypeCorrect`, `BurstCollapses`, `RetryIsNotBlocked`, `EvictionClears`, `EvictionIsOfOlderAgents` | `StampInv`: reservations are made in the past by requests that have passed the check. `DedupeInv`: between two reservations of a key inside a window lies a failure. `AgentInv`: an agent was dispatched by a request that got that far, and a list names agents older than itself |
| `TokenServiceProofs`, of `VoiceAccess` | `AccessTypeCorrect`, `RoomsArePrivate`, `BeamlinesAreIsolated`, `ActionsAreAuthorised` | `TokenInv`: a token's room is its holder's private room under the base room it was authorised for. The lemma `RoomsApart`: a base that ended further on in the same name would put two dashes in a row inside the other slug, which has none; equal bases and digests of one length leave equal slugs. `BackedBy`: a job is backed by a token. `AccessInv` joins them to sessions |
| `VoiceSessionProofs` | `TypeCorrect`, `PhasesAreClosed`, `NoEarlierTurn`, `SttSplitByTypingOnly` | `MintInv`: the shared attribute is always the latest mint, so that a late read is never older. `SttInv`: while an utterance is transcribed the attribute is its own or a later typed turn's |
| `ClusterBackupProofs` | `TypeCorrect`, `SuccessfulBackupsAreKept`, `MonthlyCopiesAreWhole`, `SuccessfulMonthsAreKept`, `OldBackupsGo` | `ScriptInv`: what the attempt has written by the line it is at. `FreshInv`: its name is later than every successful backup's. `AgeInv`: a directory is as old as its backup or as the last removal that left some of it, and never older, whence pruning by mtime spares what is to be kept. `MonthInv` and the lemma `MonthsApart`: days counted at 31 to a month never reach back less than as many real months |
| `LeakFilterProofs` | `TypeCorrect`, `DelayBounded`, `OperatorIsAnswered`, `FilterIsExact` | `HeardInv`: text that was received has been passed on, is held back or was in a block, and the code's flags remember which; what was yielded and not heard is noise. Without it the flags say nothing about a silent end. `ExactInv`: whatever the text received may still become, stripping it gives what was spoken and then what stripping gives from where the held-back text begins; inside a block that place is an open tag, and between chunks no close tag follows it. The property alone is not inductive: it speaks of the text so far, and a tag may be half received. That less than a tag is held back (`DelayIsBounded`) is what makes the prefix safe to pass on |
| `ToolCallProofs` | `TypeCorrect`, `AllowlistHolds`, `AnswersAreTheServers`, `DevicesAreFresh` | `ToolsInv`: what is exposed is read-only or wrapped. `CallInv`: by its position, what a call has been told. `CacheInv`: `_loaded_at` is when `_by_name` was assigned, which two interleaved refreshes could break |
| `ConfluenceIngestProofs` | `TypeCorrect`, `NoPartOfAPage`, `SuccessIsComplete` | no part of a page: inductive by itself, once `ChunkIndexes` is shown to leave no character out; success: `CoverInv`, how far an undisturbed run has come: what it searched it holds, what it holds has been built or has no text, what is built is stored |
| `AnswersProofs`, of `KubernetesQueries` and `ArgusContent` | `IssuesWorstFirst`, `NamespacesBusiestFirst`, `ToolsDifferOnlyOnCompleted`, `NothingIsCutInSilence`, `TrendsSpanTheHistory`, `RowsOpenTheirWidget` | `ReadOK` and `PayloadOK`: what was read is a listing. The rest are facts about the builders, from three lemmas about `Kept` for every strict total order: `KeptComesFirst`, `HowManyAreKept`, `AllAreKept`. For the namespaces, `CpuIsNatural` and `MemoryIsNatural` show the sums over containers to be numbers, `RoundedKeepsOrder` and `ApartStaysApart` that rounding never turns an order round and hides no more than a unit, whence rounded CPU, rounded memory and position order the namespaces strictly, and those cut are close to those shown. For the widgets, `LastNamesake`: a look up finds at most one device, the last of its name |
| `AnswersProofs`, of `RagSearch` | `NoDatasetIsSkipped`, `DeletionsAreNoticed`, `SearchesAreComplete` | `RagOK`, per thread: `SkipsOK`: what was there all along is in the list or on a page to come, because new datasets only push it back; `ForgetsOK`: what is listed and gone was deleted after the load began, and the list was young enough when taken; `SearchesOK`: each dataset that answered has given its best chunks, once. `CacheOK`: the same of the shared tuple, whichever thread assigned it last |
| `AnswersProofs`, of `Answers` | `EachGoesItsWay` | every step of the composition is a step or a stutter of each of the three specifications |

Two definitions are recursive: the text without its blocks (`StrippedFrom`) and the
community modules' `MapThenSumSet`, by which containers are added up. Both are
recursive functions, as no module declares a RECURSIVE operator. The library's
theorems on induction take an operator as a parameter and cannot be used, so their
proof modules each have a first-order lemma `CountingUp`: a set of naturals that holds 0 and
with n also n + 1 holds all. With it the functions are shown to exist, by approximations
that agree with them up to n, and then to have the values the proofs need.

Assumptions on constants are the modules' named ASSUMEs only; notably, that no
real month is longer than the one the script counts, that a search lists every page
once, that RAGFlow answers with a dataset's chunks best first, that slugs are `Plain` and
digests have one length and no dash, and that what `tts_node` drops consists of noise.
Which sums half way between two shown values are rounded up, and what lowering and
stripping make of a name, are free. A type invariant of
each component is proved where the proofs need one, rather than run.

## 7. What is only model-checked, and what is not modelled

* Liveness (`PromptSettles`, `ConfirmationHonoured`, `CallEnds`, `EventuallyIndexed`) is
  checked by TLC only: fairness and ENABLED are out of the prover's reach. Every other
  property of the passing runs is stated by a theorem.
* What the quantities of `KubernetesQueries` add up to is proved as far as the property
  needs: that the sums are natural numbers, not their values.
* The violated statements are shown by TLC's counterexamples.
* Not modelled: the wording of messages, labels and logs; HTTP and JWT encoding; the
  audio path and the SDK's turn detection; the loss of data-channel packets in
  `VoiceSession`, where nothing comes back; the contents of exports; months of
  unequal length within one instance; `connect` and `close` of the bridge; the senders of
  `events.py`, which keep no state and whose calls are steps of the modules that use
  them; the parsing of Kubernetes quantities and of HTML; the script for test users and
  the two compositions of section 2; and the declarative rest (Helm templates, values, dashboards, realm), which has no
  behaviour of its own.

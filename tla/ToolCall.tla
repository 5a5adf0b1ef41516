------------------------------ MODULE ToolCall ------------------------------
(* The tool calls of one voice session: discover_tools and _call of           *)
(* voice-agent/argus_mcp_bridge.py, emit_content_for_tool, the auto-chart and *)
(* DeviceCatalogCache of voice-agent/argus_content.py, under                  *)
(* src/files/ai-platform. The calls of one model turn are concurrent tasks;   *)
(* an action is what a task does from one await to the next.                  *)
EXTENDS Naturals

CONSTANTS
  Calls,          \* tool calls of the session
  Tools,          \* what the beamline's MCP server lists
  ReadOnly,       \* READ_ONLY_TOOLS
  Writes,         \* WRITE_TOOLS
  Highlighted,    \* HIGHLIGHT_ARG_BY_TOOL
  DirectContent,  \* CONTENT_CHART_DIRECT_TOOLS and CONTENT_TABLE_TOOLS
  WidgetContent,  \* CONTENT_WIDGET_TOOLS
  Devices,        \* device names an operator may ask for
  NoDevice,       \* the argument is missing or empty
  NoTool,         \* before a call
  Pvs,
  Embeddable,     \* devices with a widget: DEVGROUP_WIDGET_MAP
  ChartPvs,       \* resolve_chart_pv of each device
  MaxVersion,     \* bound: deployments of the catalog
  Listed,         \* the devices of each deployed catalog; 0 is no catalog
  CatalogTtl,     \* CATALOG_TTL_S
  Horizon         \* bound: clock ticks

ASSUME ToolCallAssumption ==
  /\ ReadOnly \cap Writes = {}
  /\ WidgetContent \subseteq Highlighted \cap ReadOnly
  /\ DirectContent \subseteq ReadOnly /\ DirectContent \cap Highlighted = {}
  /\ NoDevice \notin Devices
  /\ Embeddable \subseteq Devices /\ ChartPvs \in [Devices -> SUBSET Pvs]
  /\ NoTool \notin Tools
  /\ MaxVersion \in Nat \ {0}
  /\ Listed \in [0 .. MaxVersion -> SUBSET Devices] /\ Listed[0] = {}
  /\ CatalogTtl \in Nat /\ Horizon \in Nat

VARIABLES
  canAct,         \* the session has an ActionGate (agent.py 485-495)
  exposed,        \* tools given to the model
  guarded,        \* those of them wrapped with the gate
  pc,             \* where each call is suspended
  tool, device,   \* name and raw_arguments of each call
  answer,         \* what _call gave the model
  fetching,       \* PVs whose history a call still waits for
  series,         \* PVs whose history it got
  reading,        \* catalog the server read for a call's refresh; 0: not yet
  byName,         \* DeviceCatalogCache._by_name, as a version
  loadedAt,       \* DeviceCatalogCache._loaded_at
  deployed,       \* the catalog deployed now
  now,            \* time.monotonic()
  confirmed,      \* history: calls the operator confirmed
  outcome,        \* history: what the server answered each call
  shown,          \* history: widget and chart of each call
  installedAt,    \* history: when _by_name was last assigned
  served          \* history: the snapshot each lookup used

tools == <<canAct, exposed, guarded>>
request == <<tool, device>>
catalog == <<byName, loadedAt, installedAt>>
world == <<deployed, now>>
history == <<confirmed, outcome, shown, served>>
vars == <<tools, pc, request, answer, fetching, series, reading, catalog, world, history>>

NoServe == [version |-> 0, age |-> 0, failed |-> TRUE]

Init ==
  /\ canAct \in BOOLEAN /\ exposed = {} /\ guarded = {}
  /\ pc = [c \in Calls |-> "idle"]
  /\ tool = [c \in Calls |-> NoTool] /\ device = [c \in Calls |-> NoDevice]
  /\ answer = [c \in Calls |-> "none"]
  /\ fetching = [c \in Calls |-> {}] /\ series = [c \in Calls |-> {}]
  /\ reading = [c \in Calls |-> 0]
  /\ byName = 0 /\ loadedAt = 0 /\ installedAt = 0
  /\ deployed = 1 /\ now = 0
  /\ confirmed = {} /\ outcome = [c \in Calls |-> "none"]
  /\ shown = [c \in Calls |-> {}] /\ served = [c \in Calls |-> NoServe]

----------------------------------------------------------------------------
(* Discovery.                                                                 *)

GatedTools == IF canAct THEN Tools \cap Writes ELSE {}

(* Mutant: the gate is not passed on to the wrapper.                          *)
WrapWithoutGate == {}

(* The tools wrapped with the gate.                                           *)
WrapWithGate == GatedTools

Discover ==
  /\ exposed = {}
  /\ exposed' = (Tools \cap ReadOnly) \union GatedTools
  /\ guarded' = WrapWithGate
  /\ UNCHANGED <<canAct, pc, request, answer, fetching, series, reading, catalog, world, history>>

(* The model calls a tool. A guarded one waits for the gate, any other goes   *)
(* to the server.                                                             *)
Call(c, t, d) ==
  /\ pc[c] = "idle" /\ t \in exposed
  /\ d # NoDevice => t \in Highlighted
  /\ tool' = [tool EXCEPT ![c] = t]
  /\ device' = [device EXCEPT ![c] = d]
  /\ pc' = [pc EXCEPT ![c] = IF t \in guarded THEN "gate" ELSE "server"]
  /\ UNCHANGED <<tools, answer, fetching, series, reading, catalog, world, history>>

----------------------------------------------------------------------------
(* One call of a tool.                                                        *)

(* Call c goes on to the await p; "chart" asks for the histories, and at the  *)
(* end the text of the result is returned.                                    *)
GoOn(c, p) ==
  /\ pc' = [pc EXCEPT ![c] = p]
  /\ fetching' = IF p = "chart" THEN [fetching EXCEPT ![c] = ChartPvs[device[c]]] ELSE fetching
  /\ answer' = IF p = "done" THEN [answer EXCEPT ![c] = "result"] ELSE answer

End(c, a) ==
  /\ pc' = [pc EXCEPT ![c] = "done"]
  /\ answer' = [answer EXCEPT ![c] = a]
  /\ UNCHANGED fetching

(* Mutant: the except clauses around the dashboard's extras are gone.         *)
FailExtraRaises(c, p) == End(c, "raised")

(* A failed extra is logged and the call goes on.                             *)
FailExtra(c, p) == GoOn(c, p)

(* What the dashboard shows of the catalog is remembered.                     *)
Show(c, what) == shown' = [shown EXCEPT ![c] = @ \union ({what} \cap {"widget", "chart"})]

(* Sending an extra and going on to p, or failing and going on to q.          *)
SendExtra(c, what, p, q) ==
  /\ \/ GoOn(c, p) /\ Show(c, what)
     \/ FailExtra(c, q) /\ UNCHANGED shown
  /\ UNCHANGED <<tools, request, series, reading, catalog, world, confirmed, outcome, served>>

(* ActionGate.execute runs the call, or returns its refusal.                  *)
GateRuns(c) ==
  /\ pc[c] = "gate"
  /\ GoOn(c, "server")
  /\ confirmed' = confirmed \union {c}
  /\ UNCHANGED <<tools, request, series, reading, catalog, world, outcome, shown, served>>

GateRefuses(c) ==
  /\ pc[c] = "gate"
  /\ End(c, "refusal")
  /\ UNCHANGED <<tools, request, series, reading, catalog, world, history>>

ServerAnswers(c) ==
  /\ pc[c] = "server"
  /\ outcome' = [outcome EXCEPT ![c] = "ok"]
  /\ GoOn(c, IF tool[c] \in guarded THEN "done"
             ELSE IF device[c] # NoDevice THEN "highlight" ELSE "content")
  /\ UNCHANGED <<tools, request, series, reading, catalog, world, confirmed, shown, served>>

ServerRaises(c) ==
  /\ pc[c] = "server"
  /\ outcome' = [outcome EXCEPT ![c] = "raised"]
  /\ End(c, "raised")
  /\ UNCHANGED <<tools, request, series, reading, catalog, world, confirmed, shown, served>>

Highlight(c) == pc[c] = "highlight" /\ SendExtra(c, "highlight", "content", "content")

(* No content: no mapping, text that is no JSON object of status "success",   *)
(* a shape no builder knows, or no device to look up.                         *)
NoContent(c) ==
  /\ pc[c] = "content"
  /\ GoOn(c, "done")
  /\ UNCHANGED <<tools, request, series, reading, catalog, world, history>>

(* A table or a chart of the result itself.                                   *)
SendDirect(c) ==
  /\ pc[c] = "content" /\ tool[c] \in DirectContent
  /\ SendExtra(c, "direct", "done", "done")

----------------------------------------------------------------------------
(* DeviceCatalogCache.                                                        *)

(* Mutant: an empty snapshot is all that is refreshed.                        *)
NeverStale == FALSE

Stale == now - loadedAt > CatalogTtl

EmptyCatalog == Listed[byName] = {}

(* After a device that has no widget, and after a widget.                     *)
ChartOrEnd(c) == IF ChartPvs[device[c]] = {} THEN "done" ELSE "chart"

(* The lookup of call c ends with snapshot v, installed at time at.           *)
Serve(c, v, at, failed) ==
  /\ served' = [served EXCEPT ![c] = [version |-> v, age |-> now - at, failed |-> failed]]
  /\ GoOn(c, IF device[c] \notin Listed[v] THEN "done"
             ELSE IF device[c] \in Embeddable THEN "widget" ELSE ChartOrEnd(c))

Lookup(c) ==
  /\ pc[c] = "content" /\ tool[c] \in WidgetContent /\ device[c] # NoDevice
  /\ IF Stale \/ EmptyCatalog
     THEN GoOn(c, "refresh") /\ UNCHANGED served
     ELSE Serve(c, byName, installedAt, FALSE)
  /\ UNCHANGED <<tools, request, series, reading, catalog, world, confirmed, outcome, shown>>

(* The server reads the catalog for list_beamline_devices.                    *)
ServerReads(c) ==
  /\ pc[c] = "refresh" /\ reading[c] = 0
  /\ reading' = [reading EXCEPT ![c] = deployed]
  /\ UNCHANGED <<tools, pc, request, answer, fetching, series, catalog, world, history>>

Stamp == now

RefreshInstalls(c) ==
  /\ pc[c] = "refresh" /\ reading[c] > 0
  /\ byName' = reading[c] /\ loadedAt' = Stamp /\ installedAt' = now
  /\ Serve(c, reading[c], now, FALSE)
  /\ reading' = [reading EXCEPT ![c] = 0]
  /\ UNCHANGED <<tools, request, series, world, confirmed, outcome, shown>>

(* The request raises, or its answer is no list of devices.                   *)
RefreshFails(c) ==
  /\ pc[c] = "refresh"
  /\ Serve(c, byName, installedAt, TRUE)
  /\ reading' = [reading EXCEPT ![c] = 0]
  /\ UNCHANGED <<tools, request, series, catalog, world, confirmed, outcome, shown>>

----------------------------------------------------------------------------
(* Widget and automatic chart.                                                *)

SendWidget(c) == pc[c] = "widget" /\ SendExtra(c, "widget", ChartOrEnd(c), "done")

HistoryArrives(c, p) ==
  /\ pc[c] = "chart" /\ p \in fetching[c]
  /\ fetching' = [fetching EXCEPT ![c] = @ \ {p}]
  /\ series' = [series EXCEPT ![c] = @ \union {p}]
  /\ UNCHANGED <<tools, pc, request, answer, reading, catalog, world, history>>

(* Mutant: the request for the history has no timeout.                        *)
NeverGivesUp(c, p) == FALSE

(* AUTO_CHART_TIMEOUT_S is over, the request failed or it had no samples.     *)
GivesUp(c, p) == p \in fetching[c]

HistoryMissing(c, p) ==
  /\ pc[c] = "chart" /\ GivesUp(c, p)
  /\ fetching' = [fetching EXCEPT ![c] = @ \ {p}]
  /\ UNCHANGED <<tools, pc, request, answer, series, reading, catalog, world, history>>

(* gather is over; a chart without a series is not sent.                      *)
SendChart(c) ==
  /\ pc[c] = "chart" /\ fetching[c] = {} /\ series[c] # {}
  /\ SendExtra(c, "chart", "done", "done")

NoChart(c) ==
  /\ pc[c] = "chart" /\ fetching[c] = {} /\ series[c] = {}
  /\ GoOn(c, "done")
  /\ UNCHANGED <<tools, request, series, reading, catalog, world, history>>

----------------------------------------------------------------------------
(* The surroundings.                                                          *)

(* The framework cancels the task at its await.                               *)
Cancel(c) ==
  /\ pc[c] \notin {"idle", "done", "cancelled"}
  /\ pc' = [pc EXCEPT ![c] = "cancelled"]
  /\ reading' = [reading EXCEPT ![c] = 0]
  /\ fetching' = [fetching EXCEPT ![c] = {}]
  /\ UNCHANGED <<tools, request, answer, series, catalog, world, history>>

Deploy ==
  /\ deployed < MaxVersion /\ deployed' = deployed + 1
  /\ UNCHANGED <<tools, pc, request, answer, fetching, series, reading, catalog, now, history>>

Tick ==
  /\ now < Horizon /\ now' = now + 1
  /\ UNCHANGED <<tools, pc, request, answer, fetching, series, reading, catalog, deployed, history>>

(* A step of call c that its fairness covers, by the await it leaves.         *)
LeavesGate(c) == GateRuns(c) \/ GateRefuses(c)
LeavesServer(c) == ServerAnswers(c) \/ ServerRaises(c)
LeavesContent(c) == NoContent(c) \/ SendDirect(c) \/ Lookup(c)
LeavesRefresh(c) == RefreshInstalls(c) \/ RefreshFails(c)
LeavesChart(c) == SendChart(c) \/ NoChart(c)

Next ==
  \/ Discover \/ Deploy \/ Tick
  \/ \E c \in Calls :
       \/ \E t \in Tools, d \in Devices \union {NoDevice} : Call(c, t, d)
       \/ LeavesGate(c) \/ LeavesServer(c) \/ Highlight(c) \/ LeavesContent(c)
       \/ ServerReads(c) \/ LeavesRefresh(c) \/ SendWidget(c)
       \/ \E p \in Pvs : HistoryArrives(c, p) \/ HistoryMissing(c, p)
       \/ LeavesChart(c) \/ Cancel(c)

Spec == Init /\ [][Next]_vars

(* The event loop runs what is ready; the gate decides (PromptSettles of      *)
(* ActionGate); the server answers a tool and the catalog, or the request     *)
(* fails; the room publishes or fails. Nothing is assumed of the archiver.    *)
FairSpec ==
  /\ Spec
  /\ \A c \in Calls :
       /\ WF_vars(LeavesGate(c)) /\ WF_vars(LeavesServer(c))
       /\ WF_vars(Highlight(c)) /\ WF_vars(LeavesContent(c))
       /\ WF_vars(LeavesRefresh(c)) /\ WF_vars(SendWidget(c))
       /\ \A p \in Pvs : WF_vars(HistoryMissing(c, p))
       /\ WF_vars(LeavesChart(c))

----------------------------------------------------------------------------
(* Properties.                                                                *)

Awaits == {"idle", "gate", "server", "highlight", "content", "refresh", "widget", "chart", "done", "cancelled"}

TypeOK ==
  /\ canAct \in BOOLEAN /\ exposed \subseteq Tools /\ guarded \subseteq Tools
  /\ pc \in [Calls -> Awaits]
  /\ tool \in [Calls -> Tools \union {NoTool}] /\ device \in [Calls -> Devices \union {NoDevice}]
  /\ answer \in [Calls -> {"none", "result", "refusal", "raised"}]
  /\ fetching \in [Calls -> SUBSET Pvs] /\ series \in [Calls -> SUBSET Pvs]
  /\ reading \in [Calls -> 0 .. MaxVersion]
  /\ byName \in 0 .. MaxVersion /\ deployed \in 1 .. MaxVersion
  /\ now \in 0 .. Horizon /\ loadedAt \in 0 .. now /\ installedAt \in 0 .. now
  /\ confirmed \subseteq Calls /\ outcome \in [Calls -> {"none", "ok", "raised"}]
  /\ shown \in [Calls -> SUBSET {"widget", "chart"}]
  /\ served \in [Calls -> [version : 0 .. MaxVersion, age : 0 .. Horizon, failed : BOOLEAN]]

(* What the server is asked to do is read-only, or a write that a session     *)
(* with the right to act had confirmed; a tool no list names never reaches it *)
(* (argus_mcp_bridge.py 17-20, 54-58, 118-133).                               *)
OnlyAllowedTools ==
  \A c \in Calls :
    pc[c] \notin {"idle", "gate"} /\ (pc[c] \in {"done", "cancelled"} => outcome[c] # "none") =>
      \/ tool[c] \in ReadOnly
      \/ tool[c] \in Writes /\ canAct /\ c \in confirmed

(* Whatever becomes of the highlight, the lookup, the widget and the charts,  *)
(* the model gets what the server answered ("never let it break the actual    *)
(* tool call/response the LLM is waiting on", argus_mcp_bridge.py 169-186).   *)
ExtrasNeverChangeTheAnswer ==
  \A c \in Calls :
    pc[c] = "done" =>
      answer[c] = CASE outcome[c] = "ok" -> "result"
                    [] outcome[c] = "raised" -> "raised"
                    [] outcome[c] = "none" -> "refusal"

(* A widget or an automatic chart is for a device that the snapshot of the    *)
(* lookup lists, and that snapshot was installed within the TTL unless its    *)
(* refresh failed, whichever call installed it (argus_content.py 298-351).    *)
ShowsAFreshDevice ==
  \A c \in Calls :
    shown[c] # {} =>
      /\ device[c] \in Listed[served[c].version]
      /\ served[c].failed \/ served[c].age <= CatalogTtl

(* A call of a tool ends, even if the archiver never answers: the history of  *)
(* a device never stalls the turn for good (argus_content.py 414-422).        *)
CallEnds == \A c \in Calls : pc[c] = "server" ~> pc[c] \in {"done", "cancelled"}
=============================================================================

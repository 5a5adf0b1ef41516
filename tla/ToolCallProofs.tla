--------------------------- MODULE ToolCallProofs ---------------------------
(* Proofs about ToolCall for every set of calls, tools, devices and catalogs: *)
(* types, the allowlist and the gate, answers, and fresh devices.             *)
EXTENDS ToolCall, TLAPS

Extras == {"highlight", "content", "refresh", "widget", "chart"}

(* Every tool of the model is read-only or guarded.                           *)
ToolsInv ==
  /\ exposed = {} => guarded = {}
  /\ \A t \in exposed : t \in ReadOnly \/ (t \in Writes /\ canAct /\ t \in guarded)

FreshFor(c) ==
  /\ device[c] \in Listed[served[c].version]
  /\ served[c].failed \/ served[c].age <= CatalogTtl

(* What the await of a call says about its frame and its history.             *)
CallInv(c) ==
  /\ pc[c] # "idle" => tool[c] \in exposed
  /\ pc[c] \in {"idle", "gate", "server"} => outcome[c] = "none"
  /\ pc[c] \in Extras => outcome[c] = "ok"
  /\ pc[c] = "server" \/ outcome[c] # "none" => tool[c] \notin guarded \/ c \in confirmed
  /\ pc[c] = "done" /\ outcome[c] = "ok" => answer[c] = "result"
  /\ pc[c] = "done" /\ outcome[c] = "raised" => answer[c] = "raised"
  /\ pc[c] = "done" /\ outcome[c] = "none" => answer[c] = "refusal"
  /\ pc[c] \in {"refresh", "widget", "chart"} => device[c] \in Devices
  /\ pc[c] \in {"widget", "chart"} \/ shown[c] # {} => FreshFor(c)
  /\ pc[c] \in {"idle", "gate", "server", "highlight", "content", "refresh"} => shown[c] = {}

CacheInv == loadedAt = installedAt

IInv == TypeOK /\ ToolsInv /\ CacheInv /\ \A c \in Calls : CallInv(c)

(* What CallInv says of call d is left alone.                                 *)
Untouched(d) ==
  /\ pc'[d] = pc[d] /\ tool'[d] = tool[d] /\ device'[d] = device[d]
  /\ answer'[d] = answer[d] /\ outcome'[d] = outcome[d]
  /\ d \in confirmed => d \in confirmed'
  /\ shown'[d] = shown[d] /\ served'[d] = served[d]

LEMMA OtherCall ==
  ASSUME NEW d \in Calls, CallInv(d), UNCHANGED <<exposed, guarded>>, Untouched(d)
  PROVE  CallInv(d)'
  BY DEF CallInv, FreshFor, Untouched

(* GoOn and End touch the call they are about only.                           *)
LEMMA GoOnFrame ==
  ASSUME TypeOK, NEW c \in Calls, NEW p \in Awaits, GoOn(c, p),
         p = "chart" => device[c] \in Devices
  PROVE  /\ pc' \in [Calls -> Awaits] /\ pc'[c] = p
         /\ answer' \in [Calls -> {"none", "result", "refusal", "raised"}]
         /\ answer'[c] = IF p = "done" THEN "result" ELSE answer[c]
         /\ fetching' \in [Calls -> SUBSET Pvs]
         /\ \A d \in Calls : d # c => pc'[d] = pc[d] /\ answer'[d] = answer[d]
<1>1. p = "chart" => ChartPvs[device[c]] \in SUBSET Pvs
  BY ToolCallAssumption
<1>2. fetching' \in [Calls -> SUBSET Pvs]
  BY <1>1 DEF TypeOK, GoOn
<1>3. /\ pc' \in [Calls -> Awaits] /\ pc'[c] = p
      /\ \A d \in Calls : d # c => pc'[d] = pc[d]
  BY DEF TypeOK, GoOn
<1>4. /\ answer' \in [Calls -> {"none", "result", "refusal", "raised"}]
      /\ answer'[c] = IF p = "done" THEN "result" ELSE answer[c]
      /\ \A d \in Calls : d # c => answer'[d] = answer[d]
  BY DEF TypeOK, GoOn
<1> QED
  BY <1>2, <1>3, <1>4

LEMMA EndFrame ==
  ASSUME TypeOK, NEW c \in Calls, NEW a \in {"refusal", "raised"}, End(c, a)
  PROVE  /\ pc' \in [Calls -> Awaits] /\ pc'[c] = "done"
         /\ answer' \in [Calls -> {"none", "result", "refusal", "raised"}]
         /\ answer'[c] = a
         /\ fetching' \in [Calls -> SUBSET Pvs]
         /\ \A d \in Calls : d # c => pc'[d] = pc[d] /\ answer'[d] = answer[d]
  BY DEF TypeOK, End, Awaits

LEMMA ListedDevice ==
  ASSUME NEW v \in 0 .. MaxVersion
  PROVE  Listed[v] \subseteq Devices
  BY ToolCallAssumption

(* An action of call c that leaves the rest of the state alone keeps the      *)
(* invariant if it keeps the types and what is known of c.                    *)
LEMMA StepOfCall ==
  ASSUME IInv, NEW c \in Calls, UNCHANGED tools, TypeOK', CacheInv',
         CallInv(c)', \A d \in Calls : d # c => Untouched(d)
  PROVE  IInv'
<1>1. UNCHANGED <<exposed, guarded, canAct>>
  BY DEF tools
<1>2. ToolsInv'
  BY <1>1 DEF IInv, ToolsInv
<1>3. ASSUME NEW d \in Calls PROVE CallInv(d)'
  <2>1. CASE d = c
    BY <2>1
  <2>2. CASE d # c
    BY <1>1, <2>2, OtherCall DEF IInv
  <2> QED
    BY <2>1, <2>2
<1> QED
  BY <1>2, <1>3 DEF IInv

(* Sending an extra.                                                          *)
LEMMA SendExtraFrame ==
  ASSUME TypeOK, NEW c \in Calls, NEW what \in {"highlight", "direct", "widget", "chart"},
         NEW p \in Awaits, NEW q \in Awaits, q # "chart",
         p = "chart" => device[c] \in Devices, SendExtra(c, what, p, q)
  PROVE  /\ TypeOK'
         /\ UNCHANGED <<tools, request, catalog, confirmed, outcome, served>>
         /\ pc'[c] \in {p, q}
         /\ answer'[c] = IF pc'[c] = "done" THEN "result" ELSE answer[c]
         /\ what \notin {"widget", "chart"} => shown'[c] = shown[c]
         /\ \A d \in Calls : d # c => Untouched(d)
<1>1. /\ pc' \in [Calls -> Awaits] /\ pc'[c] \in {p, q}
      /\ answer' \in [Calls -> {"none", "result", "refusal", "raised"}]
      /\ answer'[c] = IF pc'[c] = "done" THEN "result" ELSE answer[c]
      /\ fetching' \in [Calls -> SUBSET Pvs]
      /\ \A d \in Calls : d # c => pc'[d] = pc[d] /\ answer'[d] = answer[d]
  <2>1. CASE GoOn(c, p)
    BY <2>1, GoOnFrame
  <2>2. CASE GoOn(c, q)
    BY <2>2, GoOnFrame
  <2> QED
    BY <2>1, <2>2 DEF SendExtra, FailExtra
<1>2. /\ shown' \in [Calls -> SUBSET {"widget", "chart"}]
      /\ what \notin {"widget", "chart"} => shown'[c] = shown[c]
      /\ \A d \in Calls : d # c => shown'[d] = shown[d]
  BY DEF TypeOK, SendExtra, Show
<1>3. UNCHANGED <<tools, request, series, reading, catalog, world, confirmed, outcome, served>>
  BY DEF SendExtra
<1>4. TypeOK'
  BY <1>1, <1>2, <1>3 DEF TypeOK, tools, request, catalog, world
<1>5. \A d \in Calls : d # c => Untouched(d)
  BY <1>1, <1>2, <1>3 DEF Untouched, request
<1> QED
  BY <1>1, <1>2, <1>3, <1>4, <1>5

(* The lookup ends with a snapshot that is fresh, or whose refresh failed.    *)
LEMMA ServeFrame ==
  ASSUME TypeOK, NEW c \in Calls, NEW v \in 0 .. MaxVersion, NEW at \in 0 .. now,
         NEW failed \in BOOLEAN, failed \/ now - at <= CatalogTtl,
         UNCHANGED request, Serve(c, v, at, failed)
  PROVE  /\ pc' \in [Calls -> Awaits] /\ pc'[c] \in {"done", "widget", "chart"}
         /\ answer' \in [Calls -> {"none", "result", "refusal", "raised"}]
         /\ answer'[c] = IF pc'[c] = "done" THEN "result" ELSE answer[c]
         /\ fetching' \in [Calls -> SUBSET Pvs]
         /\ served' \in [Calls -> [version : 0 .. MaxVersion, age : 0 .. Horizon, failed : BOOLEAN]]
         /\ pc'[c] \in {"widget", "chart"} => FreshFor(c)' /\ device'[c] \in Devices
         /\ \A d \in Calls : d # c => pc'[d] = pc[d] /\ answer'[d] = answer[d] /\ served'[d] = served[d]
<1> DEFINE p == IF device[c] \notin Listed[v] THEN "done"
                ELSE IF device[c] \in Embeddable THEN "widget" ELSE ChartOrEnd(c)
<1>1. p \in {"done", "widget", "chart"} /\ p \in Awaits
  BY DEF ChartOrEnd, Awaits
<1>2. p \in {"widget", "chart"} => device[c] \in Listed[v] /\ device[c] \in Devices
  BY ListedDevice
<1>3. GoOn(c, p) /\ served' = [served EXCEPT ![c] = [version |-> v, age |-> now - at, failed |-> failed]]
  BY DEF Serve
<1> HIDE DEF p
<1>4. /\ pc' \in [Calls -> Awaits] /\ pc'[c] = p
      /\ answer' \in [Calls -> {"none", "result", "refusal", "raised"}]
      /\ answer'[c] = IF p = "done" THEN "result" ELSE answer[c]
      /\ fetching' \in [Calls -> SUBSET Pvs]
      /\ \A d \in Calls : d # c => pc'[d] = pc[d] /\ answer'[d] = answer[d]
  BY <1>1, <1>2, <1>3, GoOnFrame
<1>5. now - at \in 0 .. Horizon
  BY ToolCallAssumption DEF TypeOK
<1>6. /\ served' \in [Calls -> [version : 0 .. MaxVersion, age : 0 .. Horizon, failed : BOOLEAN]]
      /\ served'[c] = [version |-> v, age |-> now - at, failed |-> failed]
      /\ \A d \in Calls : d # c => served'[d] = served[d]
  BY <1>3, <1>5 DEF TypeOK
<1>7. device' = device
  BY DEF request
<1>8. device[c] \in Listed[v] => FreshFor(c)'
  BY <1>6, <1>7 DEF FreshFor
<1> QED
  BY <1>1, <1>2, <1>4, <1>6, <1>7, <1>8

LEMMA DiscoverStep ==
  ASSUME IInv, Discover
  PROVE  IInv'
<1>1. /\ exposed = {} /\ guarded' = GatedTools
      /\ exposed' = (Tools \cap ReadOnly) \union GatedTools
      /\ UNCHANGED <<canAct, pc, request, answer, fetching, series, reading, catalog, world, history>>
  BY DEF Discover, WrapWithGate
<1>2. GatedTools \subseteq Tools \cap Writes /\ (GatedTools # {} => canAct)
  BY DEF GatedTools
<1> USE DEF request, catalog, world, history
<1>3. TypeOK'
  BY <1>1, <1>2 DEF IInv, TypeOK
<1>4. ToolsInv'
  BY <1>1, <1>2 DEF ToolsInv
<1>5. CacheInv'
  BY <1>1 DEF IInv, CacheInv
<1>6. ASSUME NEW c \in Calls PROVE CallInv(c)'
  <2>1. CallInv(c) /\ pc[c] = "idle"
    BY <1>1 DEF IInv, CallInv
  <2> QED
    BY <1>1, <2>1 DEF CallInv, FreshFor, Extras
<1> QED
  BY <1>3, <1>4, <1>5, <1>6 DEF IInv

LEMMA CallStep ==
  ASSUME IInv, NEW c \in Calls, NEW t \in Tools, NEW d \in Devices \union {NoDevice}, Call(c, t, d)
  PROVE  IInv'
<1>1. /\ pc[c] = "idle" /\ t \in exposed
      /\ tool' = [tool EXCEPT ![c] = t] /\ device' = [device EXCEPT ![c] = d]
      /\ pc' = [pc EXCEPT ![c] = IF t \in guarded THEN "gate" ELSE "server"]
      /\ UNCHANGED <<tools, answer, fetching, series, reading, catalog, world, history>>
  BY DEF Call
<1> USE DEF tools, catalog, world, history
<1>2. TypeOK'
  BY <1>1 DEF IInv, TypeOK, Awaits
<1>3. CacheInv'
  BY <1>1 DEF IInv, CacheInv
<1>4. \A e \in Calls : e # c => Untouched(e)
  BY <1>1 DEF IInv, TypeOK, Untouched
<1>5. CallInv(c)'
  <2>1. pc'[c] = (IF t \in guarded THEN "gate" ELSE "server") /\ tool'[c] = t
    BY <1>1 DEF IInv, TypeOK
  <2>2. outcome[c] = "none" /\ shown[c] = {}
    BY <1>1 DEF IInv, CallInv
  <2> QED
    BY <1>1, <2>1, <2>2 DEF CallInv, Extras
<1> QED
  BY <1>1, <1>2, <1>3, <1>4, <1>5, StepOfCall

LEMMA GateStep ==
  ASSUME IInv, NEW c \in Calls, LeavesGate(c)
  PROVE  IInv'
<1> USE DEF tools, request, catalog, world, history
<1>1. CASE GateRuns(c)
  <2>1. /\ pc[c] = "gate" /\ GoOn(c, "server") /\ confirmed' = confirmed \union {c}
        /\ UNCHANGED <<tools, request, series, reading, catalog, world, outcome, shown, served>>
    BY <1>1 DEF GateRuns
  <2>2. /\ pc' \in [Calls -> Awaits] /\ pc'[c] = "server"
        /\ answer' \in [Calls -> {"none", "result", "refusal", "raised"}]
        /\ fetching' \in [Calls -> SUBSET Pvs]
        /\ \A d \in Calls : d # c => pc'[d] = pc[d] /\ answer'[d] = answer[d]
    BY <2>1, GoOnFrame DEF IInv, Awaits
  <2>3. TypeOK'
    BY <2>1, <2>2 DEF IInv, TypeOK
  <2>4. CacheInv'
    BY <2>1 DEF IInv, CacheInv
  <2>5. \A d \in Calls : d # c => Untouched(d)
    BY <2>1, <2>2 DEF Untouched
  <2>6. CallInv(c)'
    BY <2>1, <2>2 DEF IInv, CallInv, Extras, FreshFor
  <2> QED
    BY <2>1, <2>3, <2>4, <2>5, <2>6, StepOfCall
<1>2. CASE GateRefuses(c)
  <2>1. /\ pc[c] = "gate" /\ End(c, "refusal")
        /\ UNCHANGED <<tools, request, series, reading, catalog, world, history>>
    BY <1>2 DEF GateRefuses
  <2>2. /\ pc' \in [Calls -> Awaits] /\ pc'[c] = "done"
        /\ answer' \in [Calls -> {"none", "result", "refusal", "raised"}]
        /\ answer'[c] = "refusal" /\ fetching' \in [Calls -> SUBSET Pvs]
        /\ \A d \in Calls : d # c => pc'[d] = pc[d] /\ answer'[d] = answer[d]
    BY <2>1, EndFrame DEF IInv
  <2>3. TypeOK'
    BY <2>1, <2>2 DEF IInv, TypeOK
  <2>4. CacheInv'
    BY <2>1 DEF IInv, CacheInv
  <2>5. \A d \in Calls : d # c => Untouched(d)
    BY <2>1, <2>2 DEF Untouched
  <2>6. CallInv(c)'
    BY <2>1, <2>2 DEF IInv, CallInv, Extras, FreshFor
  <2> QED
    BY <2>1, <2>3, <2>4, <2>5, <2>6, StepOfCall
<1> QED
  BY <1>1, <1>2 DEF LeavesGate

LEMMA ServerStep ==
  ASSUME IInv, NEW c \in Calls, LeavesServer(c)
  PROVE  IInv'
<1> USE DEF tools, request, catalog, world
<1>1. CASE ServerAnswers(c)
  <2> DEFINE p == IF tool[c] \in guarded THEN "done"
                  ELSE IF device[c] # NoDevice THEN "highlight" ELSE "content"
  <2>1. /\ pc[c] = "server" /\ GoOn(c, p) /\ outcome' = [outcome EXCEPT ![c] = "ok"]
        /\ UNCHANGED <<tools, request, series, reading, catalog, world, confirmed, shown, served>>
    BY <1>1 DEF ServerAnswers
  <2>2. p \in {"done", "highlight", "content"} /\ p \in Awaits
    BY DEF Awaits
  <2> HIDE DEF p
  <2>3. /\ pc' \in [Calls -> Awaits] /\ pc'[c] = p
        /\ answer' \in [Calls -> {"none", "result", "refusal", "raised"}]
        /\ answer'[c] = IF p = "done" THEN "result" ELSE answer[c]
        /\ fetching' \in [Calls -> SUBSET Pvs]
        /\ \A d \in Calls : d # c => pc'[d] = pc[d] /\ answer'[d] = answer[d]
    BY <2>1, <2>2, GoOnFrame DEF IInv
  <2>4. /\ outcome' \in [Calls -> {"none", "ok", "raised"}] /\ outcome'[c] = "ok"
        /\ \A d \in Calls : d # c => outcome'[d] = outcome[d]
    BY <2>1 DEF IInv, TypeOK
  <2>5. TypeOK'
    BY <2>1, <2>3, <2>4 DEF IInv, TypeOK
  <2>6. CacheInv'
    BY <2>1 DEF IInv, CacheInv
  <2>7. \A d \in Calls : d # c => Untouched(d)
    BY <2>1, <2>3, <2>4 DEF Untouched
  <2>8. CallInv(c)'
    BY <2>1, <2>2, <2>3, <2>4 DEF IInv, CallInv, Extras, FreshFor
  <2> QED
    BY <2>1, <2>5, <2>6, <2>7, <2>8, StepOfCall
<1>2. CASE ServerRaises(c)
  <2>1. /\ pc[c] = "server" /\ End(c, "raised") /\ outcome' = [outcome EXCEPT ![c] = "raised"]
        /\ UNCHANGED <<tools, request, series, reading, catalog, world, confirmed, shown, served>>
    BY <1>2 DEF ServerRaises
  <2>2. /\ pc' \in [Calls -> Awaits] /\ pc'[c] = "done"
        /\ answer' \in [Calls -> {"none", "result", "refusal", "raised"}]
        /\ answer'[c] = "raised" /\ fetching' \in [Calls -> SUBSET Pvs]
        /\ \A d \in Calls : d # c => pc'[d] = pc[d] /\ answer'[d] = answer[d]
    BY <2>1, EndFrame DEF IInv
  <2>3. /\ outcome' \in [Calls -> {"none", "ok", "raised"}] /\ outcome'[c] = "raised"
        /\ \A d \in Calls : d # c => outcome'[d] = outcome[d]
    BY <2>1 DEF IInv, TypeOK
  <2>4. TypeOK'
    BY <2>1, <2>2, <2>3 DEF IInv, TypeOK
  <2>5. CacheInv'
    BY <2>1 DEF IInv, CacheInv
  <2>6. \A d \in Calls : d # c => Untouched(d)
    BY <2>1, <2>2, <2>3 DEF Untouched
  <2>7. CallInv(c)'
    BY <2>1, <2>2, <2>3 DEF IInv, CallInv, Extras, FreshFor
  <2> QED
    BY <2>1, <2>4, <2>5, <2>6, <2>7, StepOfCall
<1> QED
  BY <1>1, <1>2 DEF LeavesServer

(* Highlight, table, direct chart, widget and automatic chart.                *)
LEMMA ExtraStep ==
  ASSUME IInv, NEW c \in Calls,
         NEW what \in {"highlight", "direct", "widget", "chart"},
         NEW p \in {"content", "chart", "done"}, NEW q \in {"content", "done"},
         SendExtra(c, what, p, q), pc[c] \in Extras,
         p = "content" \/ q = "content" => pc[c] = "highlight",
         p = "chart" \/ what \in {"widget", "chart"} => pc[c] \in {"widget", "chart"}
  PROVE  IInv'
<1> USE DEF tools, request, catalog
<1>1. p \in Awaits /\ q \in Awaits /\ q # "chart"
  BY DEF Awaits
<1>2. CallInv(c) /\ (p = "chart" => device[c] \in Devices)
  BY DEF IInv, CallInv
<1>3. /\ TypeOK'
      /\ UNCHANGED <<tools, request, catalog, confirmed, outcome, served>>
      /\ pc'[c] \in {p, q}
      /\ answer'[c] = IF pc'[c] = "done" THEN "result" ELSE answer[c]
      /\ what \notin {"widget", "chart"} => shown'[c] = shown[c]
      /\ \A d \in Calls : d # c => Untouched(d)
  BY <1>1, <1>2, SendExtraFrame DEF IInv
<1>4. CacheInv'
  BY <1>3 DEF IInv, CacheInv
<1>5. FreshFor(c)' <=> FreshFor(c)
  BY <1>3 DEF FreshFor
<1>6. outcome[c] = "ok" /\ tool[c] \in exposed /\ (tool[c] \notin guarded \/ c \in confirmed)
  BY <1>2 DEF CallInv, Extras
<1>7. shown'[c] # {} => FreshFor(c)
  <2>1. CASE what \in {"widget", "chart"}
    BY <1>2, <2>1 DEF CallInv
  <2>2. CASE what \notin {"widget", "chart"}
    BY <1>2, <1>3, <2>2 DEF CallInv
  <2> QED
    BY <2>1, <2>2
<1>8. pc'[c] = "content" => shown'[c] = {}
  <2>1. CASE pc[c] = "highlight"
    BY <1>2, <1>3, <2>1 DEF CallInv
  <2>2. CASE pc[c] # "highlight"
    BY <1>3, <2>2
  <2> QED
    BY <2>1, <2>2
<1>9. pc'[c] = "chart" => FreshFor(c) /\ device[c] \in Devices
  BY <1>2, <1>3 DEF CallInv
<1>10. CallInv(c)'
  BY <1>3, <1>5, <1>6, <1>7, <1>8, <1>9 DEF CallInv, Extras
<1> QED
  BY <1>3, <1>4, <1>10, StepOfCall

(* A call that only goes on, without showing anything.                        *)
LEMMA QuietStep ==
  ASSUME IInv, NEW c \in Calls, pc[c] \in Extras, GoOn(c, "done"),
         UNCHANGED <<tools, request, series, reading, catalog, world, history>>
  PROVE  IInv'
<1> USE DEF tools, request, catalog, world, history
<1>1. /\ pc' \in [Calls -> Awaits] /\ pc'[c] = "done"
      /\ answer' \in [Calls -> {"none", "result", "refusal", "raised"}]
      /\ answer'[c] = "result" /\ fetching' \in [Calls -> SUBSET Pvs]
      /\ \A d \in Calls : d # c => pc'[d] = pc[d] /\ answer'[d] = answer[d]
  BY GoOnFrame DEF IInv, Awaits
<1>2. TypeOK'
  BY <1>1 DEF IInv, TypeOK
<1>3. CacheInv'
  BY DEF IInv, CacheInv
<1>4. \A d \in Calls : d # c => Untouched(d)
  BY <1>1 DEF Untouched
<1>5. CallInv(c)'
  BY <1>1 DEF IInv, CallInv, Extras, FreshFor
<1> QED
  BY <1>2, <1>3, <1>4, <1>5, StepOfCall

(* A lookup that is served, whether or not a refresh came before.             *)
LEMMA ServedStep ==
  ASSUME IInv, NEW c \in Calls, pc[c] \in {"content", "refresh"},
         NEW v \in 0 .. MaxVersion, NEW at \in 0 .. now, NEW failed \in BOOLEAN,
         failed \/ now - at <= CatalogTtl, Serve(c, v, at, failed),
         UNCHANGED <<tools, request, series, world, confirmed, outcome, shown>>,
         reading' \in [Calls -> 0 .. MaxVersion],
         byName' \in 0 .. MaxVersion, loadedAt' \in 0 .. now, CacheInv'
  PROVE  IInv'
<1> USE DEF tools, request, world
<1>1. /\ pc' \in [Calls -> Awaits] /\ pc'[c] \in {"done", "widget", "chart"}
      /\ answer' \in [Calls -> {"none", "result", "refusal", "raised"}]
      /\ answer'[c] = IF pc'[c] = "done" THEN "result" ELSE answer[c]
      /\ fetching' \in [Calls -> SUBSET Pvs]
      /\ served' \in [Calls -> [version : 0 .. MaxVersion, age : 0 .. Horizon, failed : BOOLEAN]]
      /\ pc'[c] \in {"widget", "chart"} => FreshFor(c)' /\ device'[c] \in Devices
      /\ \A d \in Calls : d # c => pc'[d] = pc[d] /\ answer'[d] = answer[d] /\ served'[d] = served[d]
  BY ServeFrame DEF IInv
<1>2. installedAt' = loadedAt'
  BY DEF CacheInv
<1>3. TypeOK'
  BY <1>1, <1>2 DEF IInv, TypeOK
<1>4. \A d \in Calls : d # c => Untouched(d)
  BY <1>1 DEF Untouched
<1>5. /\ CallInv(c) /\ shown[c] = {} /\ outcome[c] = "ok"
      /\ tool[c] \in exposed /\ (tool[c] \notin guarded \/ c \in confirmed)
  BY DEF IInv, CallInv, Extras
<1>6. CallInv(c)'
  BY <1>1, <1>5 DEF CallInv, Extras
<1> QED
  BY <1>3, <1>4, <1>6, StepOfCall

LEMMA LookupStep ==
  ASSUME IInv, NEW c \in Calls, Lookup(c)
  PROVE  IInv'
<1> USE DEF tools, request, catalog, world
<1>1. /\ pc[c] = "content" /\ device[c] # NoDevice
      /\ UNCHANGED <<tools, request, series, reading, catalog, world, confirmed, outcome, shown>>
  BY DEF Lookup
<1>2. CacheInv /\ CacheInv' /\ TypeOK
  BY <1>1 DEF IInv, CacheInv
<1>3. CASE Stale \/ EmptyCatalog
  <2>1. GoOn(c, "refresh") /\ UNCHANGED served
    BY <1>3 DEF Lookup
  <2>2. /\ pc' \in [Calls -> Awaits] /\ pc'[c] = "refresh"
        /\ answer' \in [Calls -> {"none", "result", "refusal", "raised"}]
        /\ fetching' \in [Calls -> SUBSET Pvs]
        /\ \A d \in Calls : d # c => pc'[d] = pc[d] /\ answer'[d] = answer[d]
    BY <1>2, <2>1, GoOnFrame DEF Awaits
  <2>3. TypeOK'
    BY <1>1, <1>2, <2>1, <2>2 DEF TypeOK
  <2>4. \A d \in Calls : d # c => Untouched(d)
    BY <1>1, <2>1, <2>2 DEF Untouched
  <2>5. device[c] \in Devices
    BY <1>1, <1>2 DEF TypeOK
  <2>6. CallInv(c)'
    BY <1>1, <2>1, <2>2, <2>5 DEF IInv, CallInv, Extras
  <2> QED
    BY <1>1, <1>2, <2>3, <2>4, <2>6, StepOfCall
<1>4. CASE ~(Stale \/ EmptyCatalog)
  <2>1. Serve(c, byName, installedAt, FALSE)
    BY <1>4 DEF Lookup
  <2>2. now - installedAt <= CatalogTtl
    BY <1>2, <1>4, ToolCallAssumption DEF Stale, CacheInv, TypeOK
  <2>3. /\ byName \in 0 .. MaxVersion /\ installedAt \in 0 .. now
        /\ loadedAt \in 0 .. now /\ reading \in [Calls -> 0 .. MaxVersion]
    BY <1>2 DEF TypeOK
  <2> QED
    BY <1>1, <1>2, <2>1, <2>2, <2>3, ServedStep
<1> QED
  BY <1>3, <1>4

LEMMA ServerReadsStep ==
  ASSUME IInv, NEW c \in Calls, ServerReads(c)
  PROVE  IInv'
<1> USE DEF tools, request, catalog, world, history
<1>1. /\ reading' = [reading EXCEPT ![c] = deployed]
      /\ UNCHANGED <<tools, pc, request, answer, fetching, series, catalog, world, history>>
  BY DEF ServerReads
<1>2. TypeOK'
  BY <1>1 DEF IInv, TypeOK
<1>3. CacheInv'
  BY <1>1 DEF IInv, CacheInv
<1>4. \A d \in Calls : Untouched(d)
  BY <1>1 DEF Untouched
<1>5. CallInv(c)'
  BY <1>1, <1>4, OtherCall DEF IInv
<1> QED
  BY <1>1, <1>2, <1>3, <1>4, <1>5, StepOfCall

LEMMA RefreshStep ==
  ASSUME IInv, NEW c \in Calls, LeavesRefresh(c)
  PROVE  IInv'
<1> USE DEF catalog
<1>1. TypeOK /\ CacheInv
  BY DEF IInv
<1>2. CASE RefreshInstalls(c)
  <2>1. /\ pc[c] = "refresh" /\ Serve(c, reading[c], now, FALSE)
        /\ byName' = reading[c] /\ loadedAt' = now /\ installedAt' = now
        /\ reading' = [reading EXCEPT ![c] = 0]
        /\ UNCHANGED <<tools, request, series, world, confirmed, outcome, shown>>
    BY <1>2 DEF RefreshInstalls, Stamp
  <2>2. /\ reading[c] \in 0 .. MaxVersion /\ now \in 0 .. now /\ now - now <= CatalogTtl
        /\ reading' \in [Calls -> 0 .. MaxVersion]
    BY <1>1, <2>1, ToolCallAssumption DEF TypeOK
  <2>3. CacheInv'
    BY <2>1 DEF CacheInv
  <2> QED
    BY <2>1, <2>2, <2>3, ServedStep
<1>3. CASE RefreshFails(c)
  <2>1. /\ pc[c] = "refresh" /\ Serve(c, byName, installedAt, TRUE)
        /\ reading' = [reading EXCEPT ![c] = 0]
        /\ UNCHANGED <<tools, request, series, catalog, world, confirmed, outcome, shown>>
    BY <1>3 DEF RefreshFails
  <2>2. /\ byName \in 0 .. MaxVersion /\ installedAt \in 0 .. now /\ loadedAt \in 0 .. now
        /\ reading' \in [Calls -> 0 .. MaxVersion]
    BY <1>1, <2>1, ToolCallAssumption DEF TypeOK
  <2>3. CacheInv'
    BY <1>1, <2>1 DEF CacheInv
  <2> QED
    BY <2>1, <2>2, <2>3, ServedStep
<1> QED
  BY <1>2, <1>3 DEF LeavesRefresh

(* One history arrives or does not: only what the call still waits for        *)
(* changes.                                                                   *)
LEMMA FetchStep ==
  ASSUME IInv, NEW c \in Calls, NEW p \in Pvs, HistoryArrives(c, p) \/ HistoryMissing(c, p)
  PROVE  IInv'
<1> USE DEF tools, request, catalog, world, history
<1>1. /\ fetching' = [fetching EXCEPT ![c] = @ \ {p}]
      /\ series' = [series EXCEPT ![c] = @ \union {p}] \/ series' = series
      /\ UNCHANGED <<tools, pc, request, answer, reading, catalog, world, history>>
  BY DEF HistoryArrives, HistoryMissing
<1>2. /\ fetching' \in [Calls -> SUBSET Pvs] /\ series' \in [Calls -> SUBSET Pvs]
  BY <1>1 DEF IInv, TypeOK
<1>3. TypeOK'
  BY <1>1, <1>2 DEF IInv, TypeOK
<1>4. CacheInv'
  BY <1>1 DEF IInv, CacheInv
<1>5. \A d \in Calls : Untouched(d)
  BY <1>1 DEF Untouched
<1>6. CallInv(c)'
  BY <1>1, <1>5, OtherCall DEF IInv
<1> QED
  BY <1>1, <1>3, <1>4, <1>5, <1>6, StepOfCall

LEMMA CancelStep ==
  ASSUME IInv, NEW c \in Calls, Cancel(c)
  PROVE  IInv'
<1> USE DEF tools, request, catalog, world, history
<1>1. /\ pc[c] \notin {"idle", "done", "cancelled"}
      /\ pc' = [pc EXCEPT ![c] = "cancelled"]
      /\ reading' = [reading EXCEPT ![c] = 0]
      /\ fetching' = [fetching EXCEPT ![c] = {}]
      /\ UNCHANGED <<tools, request, answer, series, catalog, world, history>>
  BY DEF Cancel
<1>2. /\ pc' \in [Calls -> Awaits] /\ pc'[c] = "cancelled"
      /\ \A d \in Calls : d # c => pc'[d] = pc[d]
  BY <1>1 DEF IInv, TypeOK, Awaits
<1>3. reading' \in [Calls -> 0 .. MaxVersion] /\ fetching' \in [Calls -> SUBSET Pvs]
  BY <1>1, ToolCallAssumption DEF IInv, TypeOK
<1>4. TypeOK'
  BY <1>1, <1>2, <1>3 DEF IInv, TypeOK
<1>5. CacheInv'
  BY <1>1 DEF IInv, CacheInv
<1>6. \A d \in Calls : d # c => Untouched(d)
  BY <1>1, <1>2 DEF Untouched
<1>7. CallInv(c)'
  BY <1>1, <1>2 DEF IInv, CallInv, Extras, FreshFor
<1> QED
  BY <1>1, <1>4, <1>5, <1>6, <1>7, StepOfCall

(* A deployment and a tick of the clock touch no call.                        *)
LEMMA WorldStep ==
  ASSUME IInv, Deploy \/ Tick \/ UNCHANGED vars
  PROVE  IInv'
<1> USE DEF tools, request, catalog, world, history
<1>1. /\ UNCHANGED <<tools, pc, request, answer, fetching, series, reading, catalog, history>>
      /\ deployed' = deployed \/ (deployed < MaxVersion /\ deployed' = deployed + 1)
      /\ now' = now \/ (now < Horizon /\ now' = now + 1)
  BY DEF Deploy, Tick, vars
<1>2. deployed' \in 1 .. MaxVersion /\ now' \in 0 .. Horizon /\ now <= now'
  BY <1>1, ToolCallAssumption DEF IInv, TypeOK
<1>3. loadedAt' \in 0 .. now' /\ installedAt' \in 0 .. now'
  BY <1>1, <1>2 DEF IInv, TypeOK
<1>4. TypeOK'
  BY <1>1, <1>2, <1>3 DEF IInv, TypeOK
<1>5. CacheInv' /\ ToolsInv'
  BY <1>1 DEF IInv, CacheInv, ToolsInv
<1>6. \A d \in Calls : Untouched(d)
  BY <1>1 DEF Untouched
<1>7. \A d \in Calls : CallInv(d)'
  BY <1>1, <1>6, OtherCall DEF IInv
<1> QED
  BY <1>4, <1>5, <1>7 DEF IInv

LEMMA ToolCallStep ==
  ASSUME IInv, [Next]_vars
  PROVE  IInv'
<1>1. CASE Discover
  BY <1>1, DiscoverStep
<1>2. CASE Deploy \/ Tick \/ UNCHANGED vars
  BY <1>2, WorldStep
<1>3. ASSUME NEW c \in Calls,
             \/ \E t \in Tools, d \in Devices \union {NoDevice} : Call(c, t, d)
             \/ LeavesGate(c) \/ LeavesServer(c) \/ Highlight(c) \/ LeavesContent(c)
             \/ ServerReads(c) \/ LeavesRefresh(c) \/ SendWidget(c)
             \/ \E p \in Pvs : HistoryArrives(c, p) \/ HistoryMissing(c, p)
             \/ LeavesChart(c) \/ Cancel(c)
      PROVE  IInv'
  <2>1. CASE \E t \in Tools, d \in Devices \union {NoDevice} : Call(c, t, d)
    BY <2>1, CallStep
  <2>2. CASE LeavesGate(c)
    BY <2>2, GateStep
  <2>3. CASE LeavesServer(c)
    BY <2>3, ServerStep
  <2>4. CASE Highlight(c)
    BY <2>4, ExtraStep DEF Highlight, Extras
  <2>5. CASE LeavesContent(c)
    <3>1. CASE NoContent(c)
      BY <3>1, QuietStep DEF NoContent, Extras
    <3>2. CASE SendDirect(c)
      BY <3>2, ExtraStep DEF SendDirect, Extras
    <3>3. CASE Lookup(c)
      BY <3>3, LookupStep
    <3> QED
      BY <2>5, <3>1, <3>2, <3>3 DEF LeavesContent
  <2>6. CASE ServerReads(c)
    BY <2>6, ServerReadsStep
  <2>7. CASE LeavesRefresh(c)
    BY <2>7, RefreshStep
  <2>8. CASE SendWidget(c)
    <3>1. ChartOrEnd(c) \in {"content", "chart", "done"} /\ ChartOrEnd(c) # "content"
      BY DEF ChartOrEnd
    <3> QED
      BY <2>8, <3>1, ExtraStep DEF SendWidget, Extras
  <2>9. CASE \E p \in Pvs : HistoryArrives(c, p) \/ HistoryMissing(c, p)
    BY <2>9, FetchStep
  <2>10. CASE LeavesChart(c)
    <3>1. CASE SendChart(c)
      BY <3>1, ExtraStep DEF SendChart, Extras
    <3>2. CASE NoChart(c)
      BY <3>2, QuietStep DEF NoChart, Extras
    <3> QED
      BY <2>10, <3>1, <3>2 DEF LeavesChart
  <2>11. CASE Cancel(c)
    BY <2>11, CancelStep
  <2> QED
    BY <1>3, <2>1, <2>2, <2>3, <2>4, <2>5, <2>6, <2>7, <2>8, <2>9, <2>10, <2>11
<1> QED
  BY <1>1, <1>2, <1>3 DEF Next

LEMMA ToolCallInit == Init => IInv
<1> SUFFICES ASSUME Init PROVE IInv
  OBVIOUS
<1>1. TypeOK
  BY ToolCallAssumption DEF Init, TypeOK, Awaits, NoServe
<1>2. ToolsInv /\ CacheInv
  BY DEF Init, ToolsInv, CacheInv
<1>3. \A c \in Calls : CallInv(c)
  BY DEF Init, CallInv, Extras
<1> QED
  BY <1>1, <1>2, <1>3 DEF IInv

LEMMA Inductive == Spec => []IInv
<1>1. IInv /\ [Next]_vars => IInv'
  BY ToolCallStep
<1> QED
  BY <1>1, ToolCallInit, PTL DEF Spec

(* The types of the bridge, the calls and the catalog cache.                  *)
THEOREM TypeCorrect == Spec => []TypeOK
<1>1. IInv => TypeOK
  BY DEF IInv
<1> QED
  BY <1>1, Inductive, PTL

(* The server is asked for nothing but read-only tools and writes that the    *)
(* operator of a session with the right to act has confirmed.                 *)
THEOREM AllowlistHolds == Spec => []OnlyAllowedTools
<1>1. IInv => OnlyAllowedTools
  <2> SUFFICES ASSUME IInv, NEW c \in Calls, pc[c] \notin {"idle", "gate"},
                      pc[c] \in {"done", "cancelled"} => outcome[c] # "none"
               PROVE  tool[c] \in ReadOnly \/ (tool[c] \in Writes /\ canAct /\ c \in confirmed)
    BY DEF OnlyAllowedTools
  <2>1. pc[c] = "server" \/ outcome[c] # "none"
    BY DEF IInv, TypeOK, CallInv, Awaits, Extras
  <2>2. tool[c] \in exposed /\ (tool[c] \notin guarded \/ c \in confirmed)
    BY <2>1 DEF IInv, CallInv
  <2> QED
    BY <2>2 DEF IInv, ToolsInv
<1> QED
  BY <1>1, Inductive, PTL

(* No failing extra changes what the model is told.                           *)
THEOREM AnswersAreTheServers == Spec => []ExtrasNeverChangeTheAnswer
<1>1. IInv => ExtrasNeverChangeTheAnswer
  <2> SUFFICES ASSUME IInv, NEW c \in Calls, pc[c] = "done"
               PROVE  answer[c] = CASE outcome[c] = "ok" -> "result"
                                    [] outcome[c] = "raised" -> "raised"
                                    [] outcome[c] = "none" -> "refusal"
    BY DEF ExtrasNeverChangeTheAnswer
  <2>1. outcome[c] \in {"none", "ok", "raised"}
    BY DEF IInv, TypeOK
  <2> QED
    BY <2>1 DEF IInv, CallInv
<1> QED
  BY <1>1, Inductive, PTL

(* What is shown of a device comes from a snapshot within the TTL, or from    *)
(* the last one there was.                                                    *)
THEOREM DevicesAreFresh == Spec => []ShowsAFreshDevice
<1>1. IInv => ShowsAFreshDevice
  BY DEF IInv, CallInv, FreshFor, ShowsAFreshDevice
<1> QED
  BY <1>1, Inductive, PTL
=============================================================================

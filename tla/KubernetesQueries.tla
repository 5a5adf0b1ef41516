-------------------------- MODULE KubernetesQueries --------------------------
(* The read-only tools of kubernetes-mcp-server.py under                      *)
(* src/files/ai-platform. The server keeps nothing between calls: a call      *)
(* makes its requests one after the other and answers. The cluster moves in   *)
(* between, so each request returns any of the listings there might be. A row *)
(* of an answer is the position, in its listing, of what it was made from.    *)
EXTENDS Integers, Sequences, FiniteSets, FiniteSetsExt, Ranking

CONSTANTS
  NodeLists,      \* nodes: the status of each of their conditions
  PodLists,       \* pods: [phase, restarts, waiting]
  EventLists,     \* events: [warning, stamp]
  MetricLists,    \* metrics of containers: [namespace, cpu, memory]
  SampleLists,    \* results of Prometheus: the value of each sample
  Ks,             \* limit and top_k, as a model may choose them
  MaxUnhealthy,   \* how many pods get_cluster_health names
  CpuUnit,        \* a usage shows 0.0001 cores and 0.01 MiB at the least:
  MemoryUnit,     \* as many of what cpu and memory are counted in
  HalvesUp        \* the sums half way between two shown ones that round takes
                  \* up: a float seldom holds the half exactly

ASSUME KubeAssumption ==
  /\ PodLists \subseteq Seq([phase : STRING, restarts : Nat, waiting : BOOLEAN])
  /\ EventLists \subseteq Seq([warning : BOOLEAN, stamp : Nat])
  /\ MetricLists \subseteq Seq([namespace : STRING, cpu : Nat, memory : Nat])
  /\ SampleLists \subseteq Seq(Int)
  /\ Ks \subseteq Int /\ MaxUnhealthy \in Nat
  /\ CpuUnit \in Nat \ {0} /\ MemoryUnit \in Nat \ {0}

VARIABLE query    \* the call being served: its tool, its limit, what it has read

NoQuery == [tool |-> "none", k |-> 0, read |-> <<>>, at |-> "idle"]

KubeInit == query = NoQuery

(* The requests of each tool, in order.                                       *)
Requests ==
  [health |-> <<NodeLists, PodLists>>, issues |-> <<PodLists, EventLists>>,
   pressure |-> <<NodeLists>>, usage |-> <<MetricLists>>,
   storage |-> <<SampleLists, SampleLists, SampleLists>>, talkers |-> <<SampleLists>>]

----------------------------------------------------------------------------
(* What the answers hold.                                                     *)

First(list, k) == Kept(DOMAIN list, InOrder(DOMAIN list), k)
TopK(k) == IF k > 1 THEN k ELSE 1

(* get_cluster_health                                                         *)
ReadyNodes(nodes) == {i \in DOMAIN nodes : "Ready" \in DOMAIN nodes[i] /\ nodes[i]["Ready"] = "True"}
Unhealthy(pods) == {i \in DOMAIN pods : pods[i].phase \notin {"Running", "Succeeded"}}
NamedUnhealthy(pods) == Kept(Unhealthy(pods), InOrder(Unhealthy(pods)), MaxUnhealthy)

(* get_node_pressure                                                          *)
Condition(node, type) == IF type \in DOMAIN node THEN node[type] ELSE "Unknown"

(* Mutant: only pods that restart or wait are looked at.                      *)
TroubledContainers(pods) == {i \in DOMAIN pods : pods[i].restarts > 0 \/ pods[i].waiting}

(* get_pod_issues                                                             *)
Issues(pods) == {i \in DOMAIN pods : pods[i].phase # "Running" \/ pods[i].restarts > 0 \/ pods[i].waiting}

NotRunning(pod) == IF pod.phase # "Running" THEN 1 ELSE 0

(* Mutant: reverse=True is forgotten.                                         *)
LeastUrgentFirst(pods, i, j) ==
  \/ NotRunning(pods[i]) < NotRunning(pods[j])
  \/ NotRunning(pods[i]) = NotRunning(pods[j]) /\ pods[i].restarts < pods[j].restarts

MoreUrgent(pods, i, j) ==
  \/ NotRunning(pods[i]) > NotRunning(pods[j])
  \/ NotRunning(pods[i]) = NotRunning(pods[j]) /\ pods[i].restarts > pods[j].restarts

ByUrgency(pods) == Sorted(Issues(pods), LAMBDA i, j : MoreUrgent(pods, i, j))

ReportedIssues(pods, k) == Kept(Issues(pods), ByUrgency(pods), k)

Warnings(events) == {i \in DOMAIN events : events[i].warning}
ReportedWarnings(events, k) ==
  Kept(Warnings(events), ByScore(Warnings(events), [i \in DOMAIN events |-> events[i].stamp]), k)

(* get_namespace_resource_usage: a row per namespace, by its first container. *)
Of(metrics, i) == {j \in DOMAIN metrics : metrics[j].namespace = metrics[i].namespace}
Namespaces(metrics) == {i \in DOMAIN metrics : \A j \in Of(metrics, i) : i <= j}
Cpu(metrics, i) == MapThenSumSet(LAMBDA j : metrics[j].cpu, Of(metrics, i))
Memory(metrics, i) == MapThenSumSet(LAMBDA j : metrics[j].memory, Of(metrics, i))

(* What round makes of a sum: its nearest multiple of the unit.               *)
Rounded(x, unit) ==
  LET whole == x \div unit
      rest  == x % unit
  IN IF 2 * rest > unit \/ (2 * rest = unit /\ x \in HalvesUp) THEN whole + 1 ELSE whole

ShownCpu(metrics, i) == Rounded(Cpu(metrics, i), CpuUnit)
ShownMemory(metrics, i) == Rounded(Memory(metrics, i), MemoryUnit)

(* Mutant: the rows are sorted by memory alone.                               *)
UsesMemory(metrics, i, j) == ShownMemory(metrics, i) > ShownMemory(metrics, j)

(* The rows are sorted by what they show, so by sums already rounded.         *)
Uses(metrics, i, j) ==
  \/ ShownCpu(metrics, i) > ShownCpu(metrics, j)
  \/ /\ ShownCpu(metrics, i) = ShownCpu(metrics, j)
     /\ ShownMemory(metrics, i) > ShownMemory(metrics, j)
ReportedUsage(metrics, k) ==
  Kept(Namespaces(metrics), Sorted(Namespaces(metrics), LAMBDA i, j : Uses(metrics, i, j)), TopK(k))

(* get_storage_usage: Prometheus has sorted and cut the claims and the file   *)
(* systems, the namespaces are sorted here.                                   *)
ReportedNamespaces(samples, k) == Kept(DOMAIN samples, ByScore(DOMAIN samples, samples), TopK(k))

----------------------------------------------------------------------------
(* A call.                                                                    *)

Ask(tool, k) ==
  /\ query.at # "reading"
  /\ query' = [tool |-> tool, k |-> k, read |-> <<>>, at |-> "reading"]

(* A request is answered; the last answer makes the call's.                   *)
Read ==
  LET n == Len(query.read) + 1
  IN /\ query.at = "reading"
     /\ \E list \in Requests[query.tool][n] :
          query' = [query EXCEPT !.read = Append(@, list),
                                 !.at = IF n = Len(Requests[query.tool]) THEN "done" ELSE @]

(* A request fails, or a sample is NaN or infinite, which int() refuses.      *)
QueryRaises ==
  /\ query.at = "reading"
  /\ query' = [query EXCEPT !.at = "raised"]

KubeNext ==
  \/ \E tool \in DOMAIN Requests, k \in Ks : Ask(tool, k)
  \/ Read
  \/ QueryRaises

KubeSpec == KubeInit /\ [][KubeNext]_query

----------------------------------------------------------------------------
(* Properties.                                                                *)

Answered(tool) == query.at = "done" /\ query.tool = tool

(* Of some rows a part is shown, and none that is left out outranks one of    *)
(* these; a limit beyond the rows leaves none out.                            *)
CutAtTheEnd(rows, shown, OutRanks(_, _)) ==
  /\ \A i \in rows \ shown, j \in shown : ~OutRanks(i, j)
  /\ query.k >= Cardinality(rows) => shown = rows

(* Whatever limit the model asks for, none, a negative or a huge one          *)
(* included, no row is left out for one that matters less: a pod that does    *)
(* not run for a restarted one, a new warning for an old one, a full          *)
(* namespace for an empty one (kubernetes-mcp-server.py 155-161, 250-269).    *)
WorstFirst ==
  LET list(n) == query.read[n]
  IN /\ Answered("issues") =>
          /\ CutAtTheEnd(Issues(list(1)), ReportedIssues(list(1), query.k),
                LAMBDA i, j : list(1)[i].phase # "Running" /\ list(1)[j].phase = "Running")
          /\ CutAtTheEnd(Warnings(list(2)), ReportedWarnings(list(2), query.k),
                LAMBDA i, j : list(2)[i].stamp > list(2)[j].stamp)
     /\ Answered("storage") =>
          CutAtTheEnd(DOMAIN list(2), ReportedNamespaces(list(2), query.k),
            LAMBDA i, j : list(2)[i] > list(2)[j])

(* The namespaces are ranked after their sums were rounded, so one may well   *)
(* be left out for another whose containers use less: but only if the two are *)
(* no more than one shown digit of processor time apart, and no more than one *)
(* of memory in favour of the one left out                                    *)
(* (get_namespace_resource_usage, kubernetes-mcp-server.py 184-214).          *)
BusiestFirst ==
  LET metrics == query.read[1]
      Apart(x, y, unit) == x - y > unit
  IN Answered("usage") =>
       CutAtTheEnd(Namespaces(metrics), ReportedUsage(metrics, query.k),
         LAMBDA i, j :
           /\ Cpu(metrics, i) > Cpu(metrics, j)
           /\ \/ Apart(Cpu(metrics, i), Cpu(metrics, j), CpuUnit)
              \/ Apart(Memory(metrics, i), Memory(metrics, j), MemoryUnit))

(* The tools judge the same listing by tests of their own, and where they     *)
(* differ is exactly this. A node counts as ready in get_cluster_health just  *)
(* if get_node_pressure says so. Every pod that the first names as unhealthy  *)
(* is an issue in get_pod_issues; of the pods whose containers neither        *)
(* restarted nor wait, the issues it does not count as unhealthy are the      *)
(* completed ones, all of them: those are healthy at line 95 and an issue at  *)
(* line 132 (kubernetes-mcp-server.py 80-110, 123-141, 166-181).              *)
ToolsDifferOnCompleted ==
  LET nodes == query.read[1]
      pods == query.read[2]
      issues == ReportedIssues(pods, Len(pods))
      quiet == {i \in DOMAIN pods : pods[i].restarts = 0 /\ ~pods[i].waiting}
  IN Answered("health") =>
       /\ ReadyNodes(nodes) = {i \in DOMAIN nodes : Condition(nodes[i], "Ready") = "True"}
       /\ NamedUnhealthy(pods) \subseteq issues
       /\ (issues \cap quiet) \ Unhealthy(pods) = {i \in quiet : pods[i].phase = "Succeeded"}
=============================================================================

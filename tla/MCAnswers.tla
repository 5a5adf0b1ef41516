----------------------------- MODULE MCAnswers -----------------------------
(* TLC instance of Answers: two datasets with equally similar chunks, pages   *)
(* of one dataset, listings with every kind of row, and one row more than     *)
(* each limit.                                                                *)
EXTENDS Answers, TLC, SequencesExt

Symmetry == Permutations(Threads)

MCSelects == [g \in Globs |-> IF g = "all" THEN Datasets ELSE {2}]
MCHits == <<<<3, 1>>, <<2, 2>>>>

UpTo(S, n) == UNION {[1 .. k -> S] : k \in 0 .. n}

Node(ready) == [type \in {"Ready", "MemoryPressure"} |-> IF type = "Ready" THEN ready ELSE "False"]
Pod(phase, restarts, waiting) == [phase |-> phase, restarts |-> restarts, waiting |-> waiting]

MCKs == {0 - 1, 0, 1, 2, 9}
MCNodeLists == UpTo({Node("True"), Node("Unknown"), [type \in {"DiskPressure"} |-> "True"]}, 2)
MCPodLists ==
  UpTo({Pod("Running", 0, FALSE), Pod("Running", 2, TRUE), Pod("Running", 1, FALSE),
        Pod("Pending", 0, TRUE), Pod("Failed", 0, FALSE), Pod("Succeeded", 0, FALSE)}, 3)
MCEventLists == {<<>>, <<[warning |-> FALSE, stamp |-> 2], [warning |-> TRUE, stamp |-> 0], [warning |-> TRUE, stamp |-> 1]>>}
MCMetricLists == UpTo([namespace : {"btf", "sparc"}, cpu : {6, 14}, memory : {1, 2}], 3)
MCSampleLists == UpTo({0, 5}, 2)

Device(name, prefix, group, keyPvs) == [name |-> name, prefix |-> prefix, group |-> group, keyPvs |-> keyPvs]
MCDeviceLists ==
  UpTo({Device("Q1", "ioc", "mag", [role \in {"current"} |-> <<"Q1", "RB">>]),
        Device("Q1", "ioc", "mag", <<>>), Device("q1", "ioc2", "mag", <<>>),
        Device("BPM1", "ioc", "mag", <<>>), Device("BPM1", "", "diag", <<>>),
        Device("Q1 ", "ioc", "mag", <<>>), Device("M1", "ioc", "mot", <<>>),
        Device("", "ioc", "mag", <<>>)}, 3)
MCIocLists == {[i \in 1 .. n |-> "ioc"] : n \in 0 .. 3}
MCChannelLists == UpTo({"Q1:RB", ""}, 4)
MCSampleHistories == {[i \in 1 .. n |-> "7"] : n \in 0 .. 40} \union UpTo({"7", ""}, 7)

MCWidgetMap == [group \in {"mag", "mot"} |-> IF group = "mag" THEN "power-supply" ELSE "motor"]
MCChartRole == [group \in {"mag"} |-> "current"]
MCNames == {"Q1", "q1", "Q1 ", "q1 ", "BPM1", "M1", ""}
MCLower ==
  [name \in MCNames |-> CASE name = "Q1" -> "q1" [] name = "Q1 " -> "q1 " [] OTHER -> name]
MCStrip ==
  [name \in MCNames |-> CASE name = "Q1 " -> "Q1" [] name = "q1 " -> "q1" [] OTHER -> name]
=============================================================================

----------------------------- MODULE MCToolCall -----------------------------
(* TLC instance of ToolCall: a tool of every kind, a magnet with a widget and *)
(* one trend, a beam position monitor without a widget and with two.          *)
EXTENDS ToolCall

CONSTANTS getDevice, listIocs, setPv, newTool, magnet, bpm, current, x, y

MCChartPvs == [d \in Devices |-> IF d = magnet THEN {current} ELSE {x, y}]

(* The monitor is deployed second.                                            *)
MCListed == [v \in 0 .. MaxVersion |-> IF v = 0 THEN {} ELSE IF v = 1 THEN {magnet} ELSE {magnet, bpm}]
=============================================================================

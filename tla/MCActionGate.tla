---------------------------- MODULE MCActionGate ----------------------------
(* TLC instance of ActionGate: sessions that may act or not, of a server      *)
(* whose namespace the agent could tell from its URL or not.                  *)
EXTENDS ActionGate

AllSessions == [canAct : BOOLEAN, namespace : {Beamline, NoNamespace}]
=============================================================================

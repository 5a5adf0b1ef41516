--------------------------- MODULE MCVoiceSession ---------------------------
(* TLC instance of VoiceSession: one spoken turn calls a tool, the others     *)
(* are answered at once.                                                      *)
EXTENDS VoiceSession

CONSTANTS u1, u2, t1

MCSteps == [t \in Turns |-> IF t = u1 THEN 2 ELSE 1]
=============================================================================

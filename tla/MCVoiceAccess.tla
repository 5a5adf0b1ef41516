--------------------------- MODULE MCVoiceAccess ---------------------------
(* TLC instance of VoiceAccess: two ordinary beamlines and a third whose room *)
(* is named like an operator's private room on the first; of the operators,   *)
(* two have names that are equal once cut, after a dash, and two have digests *)
(* that collide.                                                              *)
EXTENDS VoiceAccess

MCChars == {"b", "s", "l", "a", "n", "m", "u", "-", "1", "2"}
MCServers ==
  {[roomName |-> <<"b">>, beamline |-> "btf"],
   [roomName |-> <<"s">>, beamline |-> "sparc"],
   [roomName |-> <<"b", "-", "-", "l", "-", "1">>, beamline |-> "lab"]}

MCOperators == {"ann", "amy", "lab"}
MCName == [o \in MCOperators |->
  IF o = "ann" THEN <<"a", "-", "n">> ELSE IF o = "amy" THEN <<"a", "-", "m">> ELSE <<"l">>]
MCUser == <<"u">>
MCDigest == [o \in MCOperators |-> IF o = "amy" THEN <<"2">> ELSE <<"1">>]

MCClaimSets ==
  {[roles |-> {"argus.use"}, beamlines |-> {"btf"}],
   [roles |-> {"argus.actions"}, beamlines |-> {"btf"}],
   [roles |-> {"platform.admin"}, beamlines |-> {}]}
=============================================================================

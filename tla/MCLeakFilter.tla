---------------------------- MODULE MCLeakFilter ----------------------------
(* TLC instance of LeakFilter: the tags begin alike, like the real ones; the  *)
(* letters of the tags are the plain text, too, and a blank is the noise.     *)
EXTENDS LeakFilter

MCSymbols == {"<", "t", "/", " "}
MCNoise == {" "}
MCSilent == UNION {[1 .. n -> MCNoise] : n \in 0 .. MaxText}
MCOpen == <<"<", "t">>
MCClose == <<"<", "/">>
=============================================================================

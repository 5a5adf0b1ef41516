-------------------------- MODULE ConfirmedAction --------------------------
(* What the action gate promises, without saying how: an action is put to the *)
(* operator while no other one is, is executed at most once and only if it    *)
(* was approved, and an action that was denied, dropped or refused is over.   *)
CONSTANT Calls

VARIABLE phase

Phases == {"idle", "asked", "approved", "denied", "executed", "over"}
Open == {c \in Calls : phase[c] \in {"asked", "approved", "denied"}}

TypeOK == phase \in [Calls -> Phases]

Init == phase = [c \in Calls |-> "idle"]

Move(c, from, to) ==
  /\ phase[c] \in from
  /\ phase' = [phase EXCEPT ![c] = to]

Refuse(c) == Move(c, {"idle"}, "over")
Ask(c) == Open = {} /\ Move(c, {"idle"}, "asked")
Approve(c) == Move(c, {"asked"}, "approved")
Deny(c) == Move(c, {"asked"}, "denied")
Execute(c) == Move(c, {"approved"}, "executed")
Drop(c) == Move(c, {"asked", "approved", "denied"}, "over")

Next ==
  \E c \in Calls :
    Refuse(c) \/ Ask(c) \/ Approve(c) \/ Deny(c) \/ Execute(c) \/ Drop(c)

Spec == Init /\ [][Next]_phase
=============================================================================

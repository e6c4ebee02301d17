---------------------------- MODULE MCSupervisor -----------------------------
(* Instances of Supervisor for TLC: every state of the market distinct.    *)
EXTENDS Supervisor

TwoSockets == {0, 1}
TwoPositions == 1..2
UnitSize == [c \in Contents |-> 1]
OnePosition == {1}
Only == <<"a">>
TwoDistinct == <<"a", "b">>
AllContents == {"a", "b", "c"}
NoKeyValue == -1
=============================================================================

----------------------------- MODULE MCOrderBook -----------------------------
(* A bare OrderBook on two complementable coordinates and one that is not, and a small one  *)
(* with a writer and an observer.                                                           *)
EXTENDS Observer

MCCoordinates == 0..2
MCComplementable == {0, 1}
MCQuantities == {0, 1}
MCAbsent == -1

Level(c, q) == [coord |-> c, qty |-> q]
Observed(op, list) == [own |-> TRUE, op |-> op, levels |-> list]
MCObserved ==
  {Observed("Snapshot", <<>>), Observed("Snapshot", <<Level(0, 1), Level(1, 1)>>),
   Observed("SourceDelta", <<Level(1, 1), Level(0, 1)>>)}
=============================================================================

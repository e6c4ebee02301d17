------------------------------- MODULE MCShard -------------------------------
(* Instances of Shard for TLC: one connection with and without a segment,  *)
(* a standby, and a pool of two.                                           *)
EXTENDS Shard

TwoSockets == {0, 1}
Positions == 1..3
UnitSize == [c \in Contents |-> 1]
NoKeyValue == -1
Markets == {"m", "n"}
OneOrBoth == {<<"m">>, <<"m", "n">>}

\* Both markets move.
Single == {[slots |-> {0}, licensed |-> FALSE, dir |-> d, set |-> <<"m", "n">>,
            venue |-> <<"m", "n", "m">>, head |-> 2] : d \in {0, 2}}

\* One market moves; the venue is silent about the other.
Redundant == {[slots |-> {0, 1}, licensed |-> l, dir |-> 2, set |-> <<"m", "n">>,
               venue |-> <<"m", "m">>, head |-> 1] : l \in BOOLEAN}

All == Single \cup Redundant
=============================================================================

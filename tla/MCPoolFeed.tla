----------------------------- MODULE MCPoolFeed ------------------------------
(* Two sockets, three keys; contents a and b fit the ledger, c does not.     *)
EXTENDS PoolFeed

MCSockets == {0, 1}
MCKeys == 1..3
MCNoKey == -1
MCContents == {"a", "b", "c"}
MCSizeOf == [c \in MCContents |-> CASE c = "a" -> 1 [] c = "b" -> 2 [] OTHER -> 3]
=============================================================================

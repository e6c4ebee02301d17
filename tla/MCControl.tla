------------------------------ MODULE MCControl ------------------------------
(* Two shards with room for one market each and one more directory entry, two valid markets and *)
(* one identifier no shard takes.                                                               *)
EXTENDS Control

MCConfigured == [i \in Shards |-> IF i = 0 THEN {1} ELSE {}]

\* Operators and consumers of two sessions, and three sessions that only speak.
Q(op, slugs) == [op |-> op, slugs |-> slugs]
MCLoads ==
  {[sessions |-> 2, sent |-> 3, pipelined |-> 1,
    requests |-> {Q("Add", <<3, 1, 2>>), Q("Remove", <<1, 2>>), Q("Attach", <<1>>),
                  Q("Attach", <<2>>), Q("Release", <<1>>), Q("Status", <<>>)}],
   [sessions |-> 3, sent |-> 4, pipelined |-> 2,
    requests |-> {Q("Overlong", <<>>), Q("Unframed", <<>>)}]}
=============================================================================

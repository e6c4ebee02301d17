---------------------------- MODULE AtomicRecord -----------------------------
(***************************************************************************)
(* What a seqlock-published record promises its reader                     *)
(* (src/src/shm/cell.rs, src/src/shm/reader.rs): the writer publishes      *)
(* whole records, and a read returns words of one of them, never of one    *)
(* older than the last read returned.                                      *)
(***************************************************************************)
EXTENDS Integers, Sequences

CONSTANTS
  Words,            \* the record's data words
  Contents          \* what a word may hold

VARIABLES
  history,          \* the records published, in order
  got               \* the last read: which record, and the words copied from it

Unread == -1
Some(record, words) == [w \in Words |-> IF w \in words THEN record[w] ELSE Unread]

Init ==
  /\ history = <<>>
  /\ got = [at |-> 0, copy |-> [w \in Words |-> Unread]]

Publish ==
  /\ \E record \in [Words -> Contents] : history' = Append(history, record)
  /\ UNCHANGED got

Read ==
  /\ \E n \in 1 .. Len(history), words \in SUBSET Words :
       /\ got.at <= n
       /\ got' = [at |-> n, copy |-> Some(history[n], words)]
  /\ UNCHANGED history

Next == Publish \/ Read

Spec == Init /\ [][Next]_<<history, got>>
=============================================================================

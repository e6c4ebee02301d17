---------------------------- MODULE EventStream ------------------------------
(***************************************************************************)
(* One consumer's stream over a market's retained-event ring               *)
(* (src/src/shm/reader.rs) as records and operators on them: where an      *)
(* attachment starts, when it has been overtaken, and what the published   *)
(* state and the slot at its position tell a poll.  A book appears as its  *)
(* stream, and Intact stands for no loss.                                  *)
(***************************************************************************)
EXTENDS Integers, Sequences

Intact == "Intact"

Broken(b, reason) == [b EXCEPT !.lost = IF @ = Intact THEN reason ELSE @]

later(e, p, s) == e > s.epoch \/ (e = s.epoch /\ p > s.position)

StreamAt(b) ==
  [attached |-> TRUE, epoch |-> b.epoch, position |-> IF b.lost = Intact THEN b.next ELSE 0,
   lost |-> b.lost, based |-> b.based, content |-> b.content]

\* The slot at the attachment's own position already holds a later event.
Overtaken(s, record, i) ==
  i > 0 /\ later(record[i].event.epoch, record[i].event.position, s)

\* A mutant of the next operator: the state's epoch is not compared.
StateVerdictAnyEpoch(s, b) == b.lost

\* EventStream::poll, first part: what the published state says of the stream.
StateVerdict(s, b) ==
  IF b.lost # Intact
    THEN IF b.epoch = s.epoch THEN b.lost ELSE "RecoveryBase"
    ELSE IF b.epoch # s.epoch THEN "RecoveryBase" ELSE Intact

\* A mutant of the next operator: whatever is in the slot is delivered.
EventVerdictLapped(s, record, i) ==
  IF i = 0 \/ record[i].event.epoch # s.epoch \/ record[i].event.position < s.position
    THEN "Idle" ELSE "Delivered"

\* Another: any other position is an overrun, the last lap's as well.
EventVerdictUnequal(s, record, i) ==
  IF i = 0 THEN "Idle"
  ELSE LET e == record[i].event IN
       IF e.epoch > s.epoch THEN "RecoveryBase"
       ELSE IF e.epoch # s.epoch THEN "Idle"
       ELSE IF e.position # s.position THEN "Overrun"
       ELSE "Delivered"

\* Second part: what the slot at the stream's position says.
EventVerdict(s, record, i) ==
  IF i = 0 THEN "Idle"
  ELSE LET e == record[i].event IN
       IF e.epoch > s.epoch THEN "RecoveryBase"
       ELSE IF later(e.epoch, e.position, s) THEN "Overrun"
       ELSE IF e.epoch # s.epoch \/ e.position # s.position THEN "Idle"
       ELSE "Delivered"

\* The consumer applies a change to the content it was derived from.
Garbled == -1
Applied(content, e) == IF content = e.from THEN e.to ELSE Garbled
=============================================================================

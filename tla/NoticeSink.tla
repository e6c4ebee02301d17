----------------------------- MODULE NoticeSink ------------------------------
(***************************************************************************)
(* One connection generation's path to its supervisor (run_connection,     *)
(* read_loop and NoticeSink of src/src/limitless/connection.rs): a bounded *)
(* queue that drops the newest notice, and the two must-deliver notes, a   *)
(* loss report and a resubscription report, that wait for room.            *)
(*                                                                         *)
(* An ordinary notice (event, heartbeat, decode failure) is its serial     *)
(* number and the subscription generation it was read under.  The queue is *)
(* shared with the other connections of the rail, whose notices appear     *)
(* here only as the room they take.                                        *)
(***************************************************************************)
EXTENDS Integers, Sequences, FiniteSets, SequencesExt

CONSTANTS
  Capacity,         \* room in the supervisor's queue
  MaxOrdinary,      \* bound on the ordinary notices read
  MaxEmits,         \* bound on the re-emits
  MaxOthers         \* bound on other connections' notices

ASSUME SinkAssumption ==
  /\ Capacity \in Nat \ {0} /\ MaxOrdinary \in Nat /\ MaxEmits \in Nat /\ MaxOthers \in Nat

VARIABLES
  phase,            \* "setup", "running", or why the generation ended
  queue,            \* the supervisor's queue
  open,             \* whether its receiver exists
  sink,             \* NoticeSink
  emits,            \* subscription_generation
  serial,           \* ordinary notices read so far
  drops,            \* which of them were dropped, each with the emits at that time
  received,         \* what the supervisor has taken from the queue
  others            \* notices of other connections so far

vars == <<phase, queue, open, sink, emits, serial, drops, received, others>>

None == 0
Ready == [kind |-> "Ready", n |-> 1, under |-> 1]
Other == [kind |-> "Other", n |-> 0, under |-> 0]
Ordinary(n, under) == [kind |-> "Ordinary", n |-> n, under |-> under]
Overload(n) == [kind |-> "Overload", n |-> n, under |-> 0]
Resubscribed(g) == [kind |-> "Resubscribed", n |-> g, under |-> g]

TransportEnds == {"SocketClosed", "WriteFailed"}
SetupEnds == {"ConnectFailed", "HandshakeFailed"}
Undeliverable == "NoticeUndeliverable"

Running == phase = "running"
Room(q) == Len(q) < Capacity

-----------------------------------------------------------------------------
(* The sink, as operators on [sink, queue] so that one handler runs several *)

NewSink == [dropped |-> 0, dropped_at |-> None, resubscribed |-> None, resubscribed_at |-> None,
            sequence |-> 0]

HasPending(s) == s.dropped > 0 \/ s.resubscribed # None

Stamped(s) == [s EXCEPT !.sequence = @ + 1]

OverloadPending(s) == s.dropped > 0
ResubscribedPending(s) == s.resubscribed # None

\* pending_order: the slot stamped first goes first.
Oldest(s) ==
  IF /\ OverloadPending(s)
     /\ ResubscribedPending(s) => s.dropped_at < s.resubscribed_at
  THEN "Overload" ELSE "Resubscribed"

NoteOf(s, slot) == IF slot = "Overload" THEN Overload(s.dropped) ELSE Resubscribed(s.resubscribed)

Taken(s, slot) ==
  IF slot = "Overload" THEN [s EXCEPT !.dropped = 0, !.dropped_at = None]
  ELSE [s EXCEPT !.resubscribed = None, !.resubscribed_at = None]

\* A closed queue takes everything and keeps nothing.
Sent(q, note) == IF open THEN Append(q, note) ELSE q

Fits(q) == ~open \/ Room(q)

\* flush_one: deliver the oldest pending note if there is one and it fits.
FlushOne(st) ==
  IF HasPending(st.sink) /\ Fits(st.queue)
  THEN LET slot == Oldest(st.sink)
       IN  [sink |-> Taken(st.sink, slot), queue |-> Sent(st.queue, NoteOf(st.sink, slot))]
  ELSE st

FlushPending(st) == FlushOne(FlushOne(st))

\* Mutant: an ordinary notice goes as soon as it fits, past what is still pending.
OfferOvertaking(st, note) ==
  IF Fits(st.queue) THEN FlushPending([st EXCEPT !.queue = Sent(@, note)])
  ELSE LET s == IF st.sink.dropped = 0
                THEN [Stamped(st.sink) EXCEPT !.dropped_at = st.sink.sequence + 1] ELSE st.sink
       IN  [st EXCEPT !.sink = [s EXCEPT !.dropped = @ + 1]]

\* offer: an ordinary notice that does not fit, or that a pending note still blocks, is dropped
\* and counted.
Offer(st, note) ==
  LET f == FlushPending(st)
      s == IF f.sink.dropped = 0
           THEN [Stamped(f.sink) EXCEPT !.dropped_at = f.sink.sequence + 1] ELSE f.sink
  IN  IF ~HasPending(f.sink) /\ Fits(f.queue) THEN [f EXCEPT !.queue = Sent(@, note)]
      ELSE [f EXCEPT !.sink = [s EXCEPT !.dropped = @ + 1]]

\* offer_resubscribed: retained until the queue takes it; a second emit takes over the slot.
OfferResubscribed(st, g) ==
  LET s == IF ResubscribedPending(st.sink) THEN st.sink
           ELSE [Stamped(st.sink) EXCEPT !.resubscribed_at = st.sink.sequence + 1]
  IN  FlushPending([st EXCEPT !.sink = [s EXCEPT !.resubscribed = g]])

\* finish: one last flush; a loss that still cannot be reported becomes the end reason.
Finish(st, reason) == IF OverloadPending(st.sink) THEN Undeliverable ELSE reason

-----------------------------------------------------------------------------

State == [sink |-> sink, queue |-> queue]
Becomes(st) == sink' = st.sink /\ queue' = st.queue

Init ==
  /\ phase = "setup" /\ queue = <<>> /\ open = TRUE /\ sink = NewSink
  /\ emits = 0 /\ serial = 0 /\ drops = {} /\ received = <<>> /\ others = 0

\* run_connection: the dial or the handshake fails before anything was announced.
SetupFails ==
  /\ phase = "setup"
  /\ phase' \in SetupEnds
  /\ UNCHANGED <<queue, open, sink, emits, serial, drops, received, others>>

\* The first complete set is on the wire; Ready waits for room until the setup deadline.
Announce ==
  /\ phase = "setup"
  /\ \/ /\ open /\ Room(queue)
        /\ phase' = "running" /\ queue' = Append(queue, Ready) /\ emits' = 1
     \/ /\ ~(open /\ Room(queue))
        /\ phase' = Undeliverable
        /\ UNCHANGED <<queue, emits>>
  /\ UNCHANGED <<open, sink, serial, drops, received, others>>

\* A frame that produces an ordinary notice.
Read ==
  LET note == Ordinary(serial + 1, emits)
      after == Offer(State, note)
  IN  /\ Running /\ serial < MaxOrdinary
      /\ serial' = serial + 1
      /\ Becomes(after)
      /\ drops' = IF open /\ after.sink.dropped > 0 THEN drops \cup {<<serial + 1, emits>>} ELSE drops
      /\ UNCHANGED <<phase, open, emits, received, others>>

\* A command from the supervisor: the re-emit reaches the wire, or the write fails.
Command ==
  /\ Running /\ emits < MaxEmits
  /\ \/ /\ emits' = emits + 1
        /\ Becomes(OfferResubscribed(FlushPending(State), emits + 1))
        /\ UNCHANGED phase
     \/ LET f == FlushPending(State)
        IN  Becomes(f) /\ phase' = Finish(f, "WriteFailed") /\ UNCHANGED emits
  /\ UNCHANGED <<open, serial, drops, received, others>>

\* Mutant: nobody waits for room, so a pending note goes out with the next frame or never.
DeliverWhenClosed ==
  /\ Running /\ HasPending(sink) /\ ~open
  /\ Becomes([State EXCEPT !.sink = [NewSink EXCEPT !.sequence = sink.sequence]])
  /\ UNCHANGED <<phase, open, emits, serial, drops, received, others>>

\* Room was reserved for the oldest pending note, or the supervisor turned out to be gone.
Deliver ==
  /\ Running /\ HasPending(sink)
  /\ \/ open /\ Room(queue) /\ Becomes(FlushOne(State))
     \/ ~open /\ Becomes([State EXCEPT !.sink = [NewSink EXCEPT !.sequence = sink.sequence]])
  /\ UNCHANGED <<phase, open, emits, serial, drops, received, others>>

\* The socket ends or the venue sends a terminal frame.
End ==
  LET f == FlushPending(State)
  IN  /\ Running
      /\ Becomes(f)
      /\ phase' = Finish(f, "SocketClosed")
      /\ UNCHANGED <<open, emits, serial, drops, received, others>>

\* The supervisor takes the head of its queue.
Receive ==
  /\ open /\ queue # <<>>
  /\ queue' = Tail(queue)
  /\ received' = IF Head(queue).kind = "Other" THEN received ELSE Append(received, Head(queue))
  /\ UNCHANGED <<phase, open, sink, emits, serial, drops, others>>

\* The supervisor is gone.
Close ==
  /\ open
  /\ open' = FALSE /\ queue' = <<>>
  /\ UNCHANGED <<phase, sink, emits, serial, drops, received, others>>

\* Another connection of the rail takes room in the queue.
OtherNotice ==
  /\ open /\ Room(queue) /\ others < MaxOthers
  /\ queue' = Append(queue, Other) /\ others' = others + 1
  /\ UNCHANGED <<phase, open, sink, emits, serial, drops, received>>

Next ==
  \/ SetupFails \/ Announce \/ Read \/ Command \/ Deliver \/ End
  \/ Receive \/ Close \/ OtherNotice

Spec == Init /\ [][Next]_vars

\* The read loop waits on room alongside the socket, and a supervisor that lives drains.
FairSpec == Spec /\ WF_vars(Deliver) /\ WF_vars(Receive)

-----------------------------------------------------------------------------
(* Properties                                                              *)

\* What the supervisor has taken and what is on its way, in order.
Told == received \o SelectSeq(queue, LAMBDA n : n.kind # "Other")
DroppedBefore(n) == {d \in drops : d[1] < n}
Reported(notes) ==
  FoldSeq(LAMBDA n, sum : sum + (IF n.kind = "Overload" THEN n.n ELSE 0), 0, notes)
AnnouncedIn(notes) ==
  FoldSeq(LAMBDA n, max : IF n.kind \in {"Ready", "Resubscribed"} /\ n.n > max THEN n.n ELSE max,
          0, notes)

\* The sink, the queue and the phases keep their types.
TypeOK ==
  /\ phase \in {"setup", "running", Undeliverable} \cup SetupEnds \cup TransportEnds
  /\ Len(queue) <= Capacity /\ open \in BOOLEAN
  /\ sink \in [dropped : 0..MaxOrdinary, dropped_at : Nat, resubscribed : 0..MaxEmits,
               resubscribed_at : Nat, sequence : Nat]
  /\ emits \in 0..MaxEmits /\ serial \in 0..MaxOrdinary
  /\ drops \subseteq (1..MaxOrdinary) \X (1..MaxEmits)

\* "The supervisor can never apply what followed a loss before it learns of the loss": ahead of
\* every ordinary notice stand loss reports for everything dropped before it.
LossPrecedesSuccessors ==
  \A i \in DOMAIN Told :
    Told[i].kind = "Ordinary" =>
      Reported(SubSeq(Told, 1, i)) >= Cardinality(DroppedBefore(Told[i].n))

\* Nothing lost goes unaccounted for: every drop is in a delivered report, in the pending one, or
\* ends the generation as NoticeUndeliverable.
EveryDropAccounted ==
  open => \/ Reported(Told) + sink.dropped = Cardinality(drops) /\ (sink.dropped > 0 => Running)
          \/ phase = Undeliverable

\* An event reaches the supervisor only after the report of the emit it was read under, so
\* provenance never names an emit the supervisor has not heard of.
EmitPrecedesItsEvents ==
  \A i \in DOMAIN Told :
    Told[i].kind = "Ordinary" => AnnouncedIn(SubSeq(Told, 1, i)) = Told[i].under

\* "A loss reaches the supervisor whether or not the venue speaks again."
PendingIsDelivered == HasPending(sink) ~> (~HasPending(sink) \/ ~Running)

\* The supervisor learns of everything, in an order it may act on: each loss ahead of what
\* followed it, each emit ahead of its events, and no drop that nobody answers for.
SupervisorIsTold ==
  TypeOK /\ LossPrecedesSuccessors /\ EveryDropAccounted /\ EmitPrecedesItsEvents
=============================================================================

------------------------------ MODULE Doorbell -------------------------------
(***************************************************************************)
(* How a segment tells a consumer that something changed: the dirty-index  *)
(* ring, the doorbell word, publication_generation and the wake of a       *)
(* publication round (src/src/shm/writer.rs), and the consumer's           *)
(* dirty_cursor, next_dirty and wait_for_publication                       *)
(* (src/src/shm/reader.rs).                                                *)
(*                                                                         *)
(* As in EventRing, a record read is one whole publication of it, made no  *)
(* earlier than what the reader has acquired; the generation is acquired   *)
(* with every load, and the doorbell is a relaxed word that orders         *)
(* nothing.  The platform's wait compares the doorbell and parks in one    *)
(* step, ordered with the platform's wake.  A load that finds a record     *)
(* being written returns Idle or is retried, and is left out.              *)
(***************************************************************************)
EXTENDS Integers, Sequences, FiniteSetsExt

CONSTANTS
  Markets,          \* directory entries
  DirtyCapacity,    \* slots of the dirty-index ring
  MaxRounds,        \* bound on the publication rounds
  StaleLoads        \* FALSE: a load always returns the last store made

ASSUME DoorbellAssumption ==
  DirtyCapacity \in Nat \ {0} /\ MaxRounds \in Nat /\ StaleLoads \in BOOLEAN

VARIABLES
  rounds,           \* publication rounds begun
  round,            \* the steps the current round has yet to take
  clock,            \* the stores made so far
  published,        \* per market, the time of its last state publication
  dirty,            \* per slot of the dirty-index ring, its publications
  dirty_position,   \* the writer's next position
  doorbell,         \* the times of the doorbell's increments
  generation,       \* the times of the generation's increments
  rung,             \* the doorbell's value when the last wake was posted
  pc,               \* the consumer: see below
  seen,             \* the time of the latest store it has acquired
  cursor,           \* DirtyCursor, or the head found so far
  scanned,          \* slots dirty_head has visited
  polled,           \* per market, the time up to which the consumer knows its state
  last_seen,        \* the generation its last wait returned
  observed          \* the doorbell value it is about to wait on

writer == <<rounds, round, clock, published, dirty, dirty_position, doorbell, generation>>
consumer == <<seen, cursor, scanned, polled, last_seen, observed>>
vars == <<writer, rung, pc, consumer>>

Slots == 0 .. DirtyCapacity - 1
SlotOf(position) == position % DirtyCapacity
AtRest == round = <<>>

Init ==
  /\ rounds = 0
  /\ round = <<>>
  /\ clock = 0
  /\ published = [m \in Markets |-> 0]
  /\ dirty = [i \in Slots |-> <<>>]
  /\ dirty_position = 0
  /\ doorbell = <<>>
  /\ generation = <<>>
  /\ rung = 0
  /\ pc = "scanning"
  /\ seen = 0
  /\ cursor = 0
  /\ scanned = 0
  /\ polled = [m \in Markets |-> 0]
  /\ last_seen = 0
  /\ observed = 0

-----------------------------------------------------------------------------
(* The writer                                                              *)

\* A mutant of PublishState: the generation moves before the entry is in place.
Advertise == <<"doorbell", "generation">>

\* publish_stamped, and the mutation or resolution publications that precede
\* it in a round: only those ring the doorbell without a dirty entry or a wake.
PublishState == <<"state", "dirty">> \o Advertise \o <<"wake">>

BeginRound(m, events) ==
  /\ AtRest
  /\ rounds < MaxRounds
  /\ rounds' = rounds + 1
  /\ round' = [i \in 1 .. Len(events \o PublishState) |->
                 [step |-> (events \o PublishState)[i], market |-> m]]
  /\ UNCHANGED <<clock, published, dirty, dirty_position, doorbell, generation, rung, pc, consumer>>

Take(step) ==
  /\ round # <<>>
  /\ Head(round).step = step
  /\ round' = Tail(round)
  /\ UNCHANGED rounds

Store(step) == Take(step) /\ clock' = clock + 1

StoreState ==
  /\ Store("state")
  /\ published' = [published EXCEPT ![Head(round).market] = clock + 1]
  /\ UNCHANGED <<dirty, dirty_position, doorbell, generation, rung, pc, consumer>>

commit_dirty ==
  /\ Store("dirty")
  /\ dirty' = [dirty EXCEPT ![SlotOf(dirty_position)] = Append(@,
                 [at |-> clock + 1, position |-> dirty_position, market |-> Head(round).market])]
  /\ dirty_position' = dirty_position + 1
  /\ UNCHANGED <<published, doorbell, generation, rung, pc, consumer>>

ring_doorbell ==
  /\ Store("doorbell")
  /\ doorbell' = Append(doorbell, clock + 1)
  /\ UNCHANGED <<published, dirty, dirty_position, generation, rung, pc, consumer>>

StoreGeneration ==
  /\ Store("generation")
  /\ generation' = Append(generation, clock + 1)
  /\ UNCHANGED <<published, dirty, dirty_position, doorbell, rung, pc, consumer>>

post_wake ==
  /\ Take("wake")
  /\ rung' = Len(doorbell)
  /\ pc' = IF pc = "parked" THEN "parking" ELSE pc
  /\ UNCHANGED <<clock, published, dirty, dirty_position, doorbell, generation, consumer>>

-----------------------------------------------------------------------------
(* The consumer                                                            *)

Overlooked(at) == StaleLoads /\ at > seen

\* The values a load may return of a word incremented at these times.
Loadable(times) == {v \in 0 .. Len(times) : v = Len(times) \/ Overlooked(times[v + 1])}

\* The publications a read of this slot may return; 0 is the unpublished slot.
Readable(record) ==
  {i \in 0 .. Len(record) : i = Len(record) \/ Overlooked(record[i + 1].at)}

Acquired(t) == IF t > seen THEN t ELSE seen
Sees(record, i) == seen' = IF i = 0 THEN seen ELSE Acquired(record[i].at)

InFlight(i) == round # <<>> /\ Head(round).step = "dirty" /\ SlotOf(dirty_position) = i

\* dirty_head: one slot of the scan, skipped when it is being written.
ScanSlot ==
  /\ pc = "scanning" /\ scanned < DirtyCapacity
  /\ scanned' = scanned + 1
  /\ LET record == dirty[scanned] IN
     \/ InFlight(scanned) /\ UNCHANGED <<seen, cursor>>
     \/ \E i \in Readable(record) :
          /\ Sees(record, i)
          /\ cursor' = IF i = 0 THEN cursor ELSE Max({cursor, record[i].position + 1})
  /\ UNCHANGED <<writer, rung, pc, polled, last_seen, observed>>

\* The cursor is established, and the consumer reads every market once.
TakeCursor ==
  /\ pc = "scanning" /\ scanned = DirtyCapacity
  /\ pc' = "idle"
  /\ polled' = [m \in Markets |-> seen]
  /\ UNCHANGED <<writer, rung, seen, cursor, scanned, last_seen, observed>>

\* next_dirty's classification of the slot's publication i.
DirtyVerdict(record, i) ==
  IF i = 0 \/ record[i].position < cursor THEN "Idle"
  ELSE IF record[i].position = cursor THEN "Delivered"
  ELSE "Rescan"

\* The consumer reads the market delivered, or after a rescan every market.
next_dirty ==
  /\ pc = "idle"
  /\ LET record == dirty[SlotOf(cursor)] IN
     \E i \in Readable(record) :
       LET verdict == DirtyVerdict(record, i) IN
       /\ verdict # "Idle"
       /\ Sees(record, i)
       /\ cursor' = record[i].position + 1
       /\ polled' = [m \in Markets |->
                       IF verdict = "Rescan" \/ m = record[i].market THEN seen' ELSE polled[m]]
  /\ UNCHANGED <<writer, rung, pc, scanned, last_seen, observed>>

\* wait_for_publication.  A generation other than last_seen ends the call.
LoadGeneration(v) ==
  /\ v \in Loadable(generation)
  /\ seen' = IF v = 0 THEN seen ELSE Acquired(generation[v])

Changed(v) == v # last_seen /\ last_seen' = v /\ pc' = "idle"
Same(v, then) == v = last_seen /\ pc' = then /\ UNCHANGED last_seen

Spin ==
  /\ pc = "idle"
  /\ \E v \in Loadable(generation) :
       LoadGeneration(v) /\ (Changed(v) \/ Same(v, "parking"))
  /\ UNCHANGED <<writer, rung, cursor, scanned, polled, observed>>

LoadDoorbell ==
  /\ pc = "parking"
  /\ observed' \in {v \in Loadable(doorbell) : v >= observed}
  /\ pc' = "checking"
  /\ UNCHANGED <<writer, rung, seen, cursor, scanned, polled, last_seen>>

CheckGeneration ==
  /\ pc = "checking"
  /\ \E v \in Loadable(generation) :
       LoadGeneration(v) /\ (Changed(v) \/ Same(v, "waiting"))
  /\ UNCHANGED <<writer, rung, cursor, scanned, polled, observed>>

\* The platform parks the caller if the word still holds what it observed.  It
\* reads the word no older than at the last wake.
Wait ==
  /\ pc = "waiting"
  /\ \E v \in Loadable(doorbell) :
       /\ v >= observed /\ v >= rung
       /\ pc' = IF v = observed THEN "parked" ELSE "parking"
  /\ UNCHANGED <<writer, rung, consumer>>

\* The park ends by itself, its time over or spuriously: the loop looks again.
Unpark ==
  /\ pc = "parked"
  /\ pc' = "parking"
  /\ UNCHANGED <<writer, rung, consumer>>

\* The deadline has passed when the generation was last found unchanged.
TimeOut ==
  /\ pc = "waiting"
  /\ pc' = "idle"
  /\ UNCHANGED <<writer, rung, consumer>>

-----------------------------------------------------------------------------
Next ==
  \/ \E m \in Markets : BeginRound(m, <<>>) \/ BeginRound(m, Advertise)
  \/ StoreState \/ commit_dirty \/ ring_doorbell \/ StoreGeneration \/ post_wake
  \/ ScanSlot \/ TakeCursor \/ next_dirty
  \/ Spin \/ LoadDoorbell \/ CheckGeneration \/ Wait \/ Unpark \/ TimeOut

Spec == Init /\ [][Next]_vars

-----------------------------------------------------------------------------
\* Among the rest, a consumer's cursor is never past the writer's position.
TypeOK ==
  /\ rounds \in 0 .. MaxRounds
  /\ clock \in Nat /\ seen \in 0 .. clock
  /\ published \in [Markets -> 0 .. clock] /\ polled \in [Markets -> 0 .. clock]
  /\ dirty_position \in 0 .. rounds /\ cursor \in 0 .. dirty_position
  /\ scanned \in 0 .. DirtyCapacity
  /\ last_seen \in 0 .. Len(generation)
  /\ observed \in 0 .. Len(doorbell) /\ rung \in 0 .. Len(doorbell)
  /\ pc \in {"scanning", "idle", "parking", "checking", "waiting", "parked"}

Following == pc # "scanning"

\* A lapped cursor is never silent: when the writer is at rest and the slot at
\* the cursor has nothing new, the consumer has read every market since that
\* market's last publication.  It was told of each, one by one or by a Rescan.
NoSilentGap ==
  AtRest /\ Following =>
    LET record == dirty[SlotOf(cursor)] IN
    DirtyVerdict(record, Len(record)) = "Idle" =>
      \A m \in Markets : published[m] <= polled[m]


\* The lost-wake window is closed: when a publication round is over, no consumer
\* stays parked that has not returned the round's generation.
NoLostWake == AtRest /\ pc = "parked" => last_seen = Len(generation)
=============================================================================

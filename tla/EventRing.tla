----------------------------- MODULE EventRing -------------------------------
(***************************************************************************)
(* One market's state slot and retained-event ring in the shared segment,  *)
(* and one consumer's attachment to them: the publication rounds of        *)
(* ShardSegment (src/src/limitless/shard.rs), and attach_stream,           *)
(* EventStream::poll and reattach (src/src/shm/reader.rs).                 *)
(*                                                                         *)
(* SeqCell shows that an accepted read of a slot is one whole publication  *)
(* of it.  It need not be the latest: every publication closes with a      *)
(* release store and every read opens with an acquire load, so a reader    *)
(* that has read the publication made at time t sees every store up to t,  *)
(* and of each later store may or may not know.  A read that finds no      *)
(* stable revision is a fault that changes nothing, and is left out.       *)
(*                                                                         *)
(* The book (OrderBook) appears as its stream: epoch, next position,       *)
(* whether it is lost, whether it has had a base, and its content, a       *)
(* number that every level change advances.                                *)
(***************************************************************************)
EXTENDS Integers, Sequences, EventStream

CONSTANTS
  EventCapacity,    \* slots of the ring
  MaxBatch,         \* bound on the mutations of one commit
  MaxStores         \* bound on the publications made

ASSUME EventRingAssumption ==
  EventCapacity \in Nat \ {0} /\ MaxBatch \in Nat /\ MaxStores \in Nat \ {0}

VARIABLES
  book,             \* the market's book, as its stream and content
  live,             \* SegmentEntry.live
  retired_epoch,    \* SegmentEntry.retired_epoch
  failure,          \* whether a publication was refused
  round,            \* the stores the current publication round has yet to make
  clock,            \* the stores made so far
  slot,             \* the state slot's publications
  ring,             \* per slot of the ring, its publications
  contents,         \* the content the book had at each cursor of its stream
  stream,           \* the consumer's EventStream and the book it has rebuilt
  read,             \* the state its current call has read
  pc,               \* "idle", "probing" (attach) or "polling"
  seen              \* the time of the latest publication it has read

writer == <<book, live, retired_epoch, failure, round, clock, slot, ring, contents>>
consumer == <<stream, read, pc, seen>>
vars == <<writer, consumer>>

Slots == 0 .. EventCapacity - 1
SlotOf(position) == position % EventCapacity

NewBook == [epoch |-> 0, next |-> 0, lost |-> Intact, based |-> FALSE, content |-> 0]
Detached == [attached |-> FALSE, epoch |-> 0, position |-> 0, lost |-> Intact, based |-> FALSE,
             content |-> 0]

StateStore(b) == [kind |-> "state", book |-> b]
EventStore(e, p, from, to) ==
  [kind |-> "event", epoch |-> e, position |-> p, from |-> from, to |-> to]

\* The market has just been installed and its first state is about to be published.
Init ==
  /\ book = NewBook
  /\ live = TRUE
  /\ retired_epoch = 0
  /\ failure = FALSE
  /\ round = <<StateStore(NewBook)>>
  /\ clock = 0
  /\ slot = <<>>
  /\ ring = [i \in Slots |-> <<>>]
  /\ contents = [c \in {<<0, 0>>} |-> 0]
  /\ stream = Detached
  /\ read = NewBook
  /\ pc = "idle"
  /\ seen = 0

-----------------------------------------------------------------------------
(* Publication rounds                                                      *)

AtRest == round = <<>> /\ ~failure
Begin(b, stores) ==
  /\ AtRest
  /\ clock + Len(stores) <= MaxStores
  /\ book' = b
  /\ round' = stores
  /\ UNCHANGED <<failure, clock, slot, ring, consumer>>

Residence == <<live, retired_epoch>>

\* The cursors a book passes through: what each delivery leaves it holding.
Recorded(b, n, step) ==
  [c \in DOMAIN contents \cup {<<b.epoch, b.next + j>> : j \in 0 .. n} |->
     IF c \in DOMAIN contents THEN contents[c] ELSE b.content + step * (c[2] - b.next)]

\* publish_commit of a book's first base: no mutation and no new epoch.
FirstBase ==
  LET to == [book EXCEPT !.based = TRUE, !.content = @ + 1]
  IN /\ live /\ book.lost = Intact /\ ~book.based
     /\ Begin(to, <<StateStore(to)>>)
     /\ contents' = [contents EXCEPT ![<<book.epoch, book.next>>] = to.content]
     /\ UNCHANGED Residence

\* publish_commit of a commit on an intact stream: each mutation, then the state.
Commit(n) ==
  LET to == [book EXCEPT !.next = @ + n, !.content = @ + n]
      events == [j \in 1 .. n |-> EventStore(book.epoch, book.next + j - 1,
                                             book.content + j - 1, book.content + j)]
  IN /\ live /\ book.lost = Intact /\ book.based
     /\ Begin(to, Append(events, StateStore(to)))
     /\ contents' = Recorded(book, n, 1)
     /\ UNCHANGED Residence

\* publish_commit of a base that opens the next epoch, a recovery or a divergence: no
\* mutation, only the state.
Rebase ==
  LET to == [epoch |-> book.epoch + 1, next |-> 0, lost |-> Intact, based |-> TRUE,
             content |-> book.content + 1]
  IN /\ live /\ (book.lost # Intact \/ book.based)
     /\ Begin(to, <<StateStore(to)>>)
     /\ contents' = Recorded(to, 0, 1)
     /\ UNCHANGED Residence

\* publish_state after an evidence-based loss.
Lose ==
  /\ live
  /\ \E reason \in {"LocalLoss", "Reconnect"} :
       LET to == Broken(book, reason) IN Begin(to, <<StateStore(to)>>)
  /\ UNCHANGED <<contents, Residence>>

\* publish_resolution: the event takes a position, and the state is republished.
Resolve ==
  LET to == [book EXCEPT !.next = @ + 1]
  IN /\ live /\ book.lost = Intact
     /\ Begin(to, <<EventStore(book.epoch, book.next, book.content, book.content), StateStore(to)>>)
     /\ contents' = Recorded(book, 1, 0)
     /\ UNCHANGED Residence

\* close: the final state is published and the entry retired.
Retire ==
  /\ live
  /\ Begin(book, <<StateStore(book)>>)
  /\ live' = FALSE
  /\ retired_epoch' = book.epoch
  /\ UNCHANGED contents

rebased_past(b, epoch) == IF b.lost = Intact THEN b.epoch > epoch ELSE b.epoch >= epoch

\* install of a market whose entry is retired: the book comes back lost.
Resume ==
  LET to == Broken(book, "Reconnect")
  IN /\ ~live
     /\ rebased_past(to, retired_epoch)
     /\ Begin(to, <<StateStore(to)>>)
     /\ live' = TRUE
     /\ retired_epoch' = 0
     /\ UNCHANGED contents

\* One publication of the round.
Publish ==
  /\ round # <<>>
  /\ clock' = clock + 1
  /\ round' = Tail(round)
  /\ LET store == Head(round) IN
     \/ /\ store.kind = "state"
        /\ slot' = Append(slot, [at |-> clock + 1, book |-> store.book])
        /\ UNCHANGED ring
     \/ /\ store.kind = "event"
        /\ ring' = [ring EXCEPT ![SlotOf(store.position)] = Append(@,
                     [at |-> clock + 1, event |-> store])]
        /\ UNCHANGED slot
  /\ UNCHANGED <<book, Residence, failure, contents, consumer>>

\* A refused publication latches: the round is abandoned and nothing follows it.
Refuse ==
  /\ round # <<>>
  /\ round' = <<>>
  /\ failure' = TRUE
  /\ UNCHANGED <<book, Residence, clock, slot, ring, contents, consumer>>

-----------------------------------------------------------------------------
(* The consumer                                                            *)

\* The publications a read of this record may return; 0 is the unpublished record.
Readable(record) ==
  {i \in 0 .. Len(record) : i = Len(record) \/ record[i + 1].at > seen}

Sees(record, i) == seen' = IF i > 0 /\ record[i].at > seen THEN record[i].at ELSE seen

\* attach_at: the state read.  A lost book attaches straight into the loss.
AttachState ==
  /\ pc = "idle"
  /\ \E i \in Readable(slot) \ {0} :
       LET b == slot[i].book IN
       /\ Sees(slot, i)
       /\ IF b.lost = Intact
            THEN pc' = "probing" /\ read' = b /\ UNCHANGED stream
            ELSE stream' = StreamAt(b) /\ UNCHANGED <<pc, read>>
  /\ UNCHANGED writer

\* attach_at: the overtake probe.  An overtaken attachment reads the state
\* again or fails; either leaves the stream as it was.
AttachProbe ==
  /\ pc = "probing"
  /\ LET start == StreamAt(read)
         record == ring[SlotOf(start.position)]
     IN \E i \in Readable(record) :
          /\ Sees(record, i)
          /\ stream' = IF Overtaken(start, record, i) THEN stream ELSE start
  /\ pc' = "idle"
  /\ UNCHANGED <<writer, read>>

PollState ==
  /\ pc = "idle" /\ stream.attached /\ stream.lost = Intact
  /\ \E i \in Readable(slot) \ {0} :
       LET verdict == StateVerdict(stream, slot[i].book) IN
       /\ Sees(slot, i)
       /\ IF verdict = Intact
            THEN pc' = "polling" /\ UNCHANGED stream
            ELSE stream' = [stream EXCEPT !.lost = verdict] /\ UNCHANGED pc
  /\ UNCHANGED <<writer, read>>

PollEvent ==
  /\ pc = "polling"
  /\ LET record == ring[SlotOf(stream.position)] IN
     \E i \in Readable(record) :
       LET verdict == EventVerdict(stream, record, i) IN
       /\ Sees(record, i)
       /\ stream' =
            CASE verdict = "Idle" -> stream
              [] verdict = "Delivered" ->
                   [stream EXCEPT !.position = @ + 1, !.content = Applied(@, record[i].event)]
              [] OTHER -> [stream EXCEPT !.lost = verdict]
  /\ pc' = "idle"
  /\ UNCHANGED <<writer, read>>

-----------------------------------------------------------------------------
Next ==
  \/ \E n \in 0 .. MaxBatch : Commit(n)
  \/ FirstBase \/ Rebase \/ Lose \/ Resolve \/ Retire \/ Resume
  \/ Publish \/ Refuse
  \/ AttachState \/ AttachProbe \/ PollState \/ PollEvent

Spec == Init /\ [][Next]_vars

-----------------------------------------------------------------------------
Losses == {Intact, "LocalLoss", "Reconnect"}
Books == [epoch : Nat, next : Nat, lost : Losses, based : BOOLEAN, content : Nat]

\* Among the rest, the published states of a market never step back: not in
\* epoch, and within an epoch not in position, over removal and return as well.
TypeOK ==
  /\ book \in Books /\ read \in Books
  /\ live \in BOOLEAN /\ failure \in BOOLEAN /\ retired_epoch \in 0 .. book.epoch
  /\ clock \in 0 .. MaxStores /\ seen \in 0 .. clock
  /\ \A i \in 2 .. Len(slot) :
       LET was == slot[i - 1].book  is == slot[i].book IN
       ~later(was.epoch, was.next, [epoch |-> is.epoch, position |-> is.next])
  /\ stream \in [attached : BOOLEAN, epoch : Nat, position : Nat,
                 lost : Losses \cup {"RecoveryBase", "Overrun"}, based : BOOLEAN,
                 content : Nat \cup {Garbled}]
  /\ pc \in {"idle", "probing", "polling"}

\* Replay is exact: a consumer that has not been told of a loss holds, after
\* each delivery, the book as it stood at that cursor.  No change is skipped,
\* applied twice or taken from another lap of the ring or another epoch.  (One that
\* attached before the first base holds no book, and is told of that base by the
\* state alone, as SegmentReader::read warns.)
ReplicaIsFaithful ==
  stream.attached /\ stream.lost = Intact /\ stream.based =>
    stream.content = contents[<<stream.epoch, stream.position>>]

Current == stream.epoch = book.epoch /\ stream.position = book.next

\* No silence: with the writer at rest, a consumer whose book is behind the
\* market's, or whose market is lost, is told so by its next poll.
NeverParkedBehind ==
  AtRest /\ stream.attached /\ stream.lost = Intact /\ (book.lost # Intact \/ ~Current) =>
    LET record == ring[SlotOf(stream.position)] IN
    \/ StateVerdict(stream, slot[Len(slot)].book) # Intact
    \/ EventVerdict(stream, record, Len(record)) # "Idle"

\* With the writer at rest on an intact stream, an attachment that reads the
\* latest state is not found overtaken: the retry loop of attach_stream ends.
AttachableAtRest ==
  AtRest /\ slot # <<>> /\ book.lost = Intact =>
    LET start == StreamAt(slot[Len(slot)].book)
        record == ring[SlotOf(start.position)]
    IN ~Overtaken(start, record, Len(record))

\* A loss is never reported for nothing: Overrun only when the writer did write
\* a whole lap past the cursor, and RecoveryBase only when the epoch did move.
LossIsHonest ==
  stream.attached =>
    /\ stream.lost = "Overrun" =>
         <<stream.epoch, stream.position + EventCapacity + 1>> \in DOMAIN contents
    /\ stream.lost = "RecoveryBase" => book.epoch > stream.epoch

\* With the writer at rest nobody is stranded: a consumer that is behind is told by its next
\* poll, and one that attaches anew gets through.
NobodyIsStranded == NeverParkedBehind /\ AttachableAtRest
=============================================================================

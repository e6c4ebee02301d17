----------------------------- MODULE Consumer --------------------------------
(***************************************************************************)
(* One consumer session over a whole segment: the calls of the C surface   *)
(* (src/src/ffi/mod.rs) that resolve markets, attach to their books, follow *)
(* the dirty-index ring and poll event streams, composed with the writer   *)
(* and the waiting consumer of Doorbell, and with the encodings of         *)
(* SlotCodec, while the shard installs markets and publishes               *)
(* (src/src/shm/writer.rs, src/src/limitless/shard.rs).                    *)
(*                                                                         *)
(* As in Doorbell, a record read is one whole publication made no earlier  *)
(* than what the session has acquired.  A session's calls do not overlap.  *)
(* A call whose read finds no stable record changes nothing and is left    *)
(* out, and so is an argument the surface refuses.  A book has one level,  *)
(* of quantity content, or none when that is 0.                            *)
(***************************************************************************)
EXTENDS Doorbell, SlotCodec

CONSTANTS
  EventCapacity,      \* slots of each market's event ring
  DirectoryCapacity,  \* directory entries
  Identity,           \* the markets' native identities
  Resident,           \* markets already installed and based when the session opens
  Outcomes            \* winning outcomes the venue may report, as text lengths

ASSUME ConsumerAssumption ==
  EventCapacity \in Nat \ {0} /\ DirectoryCapacity \in Nat \ {0} /\ Resident \in Seq(Markets)

VARIABLES
  directory,          \* the published entries: their identity bytes
  books,              \* per market, its book
  contents,           \* per market, the content at each cursor of its stream
  staged,             \* the event the current round publishes
  failure,            \* whether a publication was refused
  slots,              \* per market, the publications of its state slot
  rings,              \* per market and ring slot, the publications
  style,              \* how the caller learns of publications: see Styles
  table,              \* PmwsSession.table, and the content the caller holds
  due                 \* the rows the caller has yet to poll dry

segment == <<directory, books, contents, staged, failure, slots, rings>>
session == <<style, table, due>>
cvars == <<vars, segment, session>>

\* A caller that waits, with or without a doorbell it can reach, makes no other
\* calls here: to them a wait is a load of the generation, which "polls" makes.
Styles == {"parks", "spins", "polls"}

EventSlots == 0 .. EventCapacity - 1
EventSlotOf(position) == position % EventCapacity

Levels(content) ==
  IF content = 0 THEN <<>>
  ELSE <<[side |-> "Ask", price |-> [coefficient |-> 7, scale |-> 1], quantity |-> Exact(content)]>>
ContentOf(levels) == IF levels = <<>> THEN 0 ELSE from_parts(levels[1].quantity).coefficient

Authority(state, reason) == [state |-> state, reason |-> reason]
NewBook == [revision |-> 0, epoch |-> 0, next |-> 0, lost |-> Intact, based |-> FALSE,
            authority |-> Authority("Synchronizing", NoReason), content |-> 0]
BasedBook == [NewBook EXCEPT !.revision = 1, !.based = TRUE, !.content = 1,
                             !.authority = Authority("Live", NoReason)]
Changed3(content) == (content + 1) % 3

AsPublished(b) ==
  [revision |-> b.revision, authority |-> b.authority, epoch |-> b.epoch, next |-> b.next,
   lost |-> b.lost, based |-> b.based, levels |-> Levels(b.content)]

Detached == [attached |-> FALSE, epoch |-> 0, position |-> 0, lost |-> Intact, based |-> FALSE,
             content |-> 0]
NoEvent == [resolution |-> FALSE]

Entry(m) == [identity |-> encode_identity(Identity[m]), at |-> 0]

\* The entry a market's identity is found under, 0 when it has none.
EntryOf(m) ==
  IF \E i \in DOMAIN directory : directory[i].identity = Entry(m).identity
    THEN CHOOSE i \in DOMAIN directory : directory[i].identity = Entry(m).identity
    ELSE 0

CInit ==
  /\ Init
  /\ \E n \in DOMAIN Resident : directory = [i \in 1 .. n |-> Entry(Resident[i])]
  /\ books = [m \in Markets |-> IF EntryOf(m) # 0 THEN BasedBook ELSE NewBook]
  /\ contents = [m \in Markets |-> [c \in {<<0, 0>>} |-> books[m].content]]
  /\ staged = NoEvent
  /\ failure = FALSE
  /\ slots = [m \in Markets |->
                IF EntryOf(m) # 0
                  THEN <<[at |-> 0, words |-> stage(EntryOf(m), AsPublished(BasedBook))]>>
                  ELSE <<>>]
  /\ rings = [m \in Markets |-> [i \in EventSlots |-> <<>>]]
  /\ style \in Styles
  /\ table = <<>>
  /\ due = {}

-----------------------------------------------------------------------------
(* The writer                                                              *)

Installed(m) == EntryOf(m) # 0

Publishes(m, to, event, steps) ==
  /\ ~failure
  /\ BeginRound(m, steps)
  /\ books' = [books EXCEPT ![m] = to]
  /\ staged' = event
  /\ UNCHANGED <<directory, failure, slots, rings, session>>

Recorded(m, b) == [contents EXCEPT ![m] = (<<b.epoch, b.next>> :> b.content) @@ @]

\* SegmentWriter::install, and the first publication of the book that follows it.
install(m) ==
  /\ ~Installed(m) /\ Len(directory) < DirectoryCapacity /\ IdentityFits(Identity[m])
  /\ Publishes(m, NewBook, NoEvent, <<"entry">>)
  /\ contents' = Recorded(m, NewBook)

\* publish_commit of a book's first base: no mutation and no new epoch.
FirstBase(m) ==
  LET to == [BasedBook EXCEPT !.next = books[m].next] IN
  /\ Installed(m) /\ ~books[m].based /\ books[m].lost = Intact
  /\ Publishes(m, to, NoEvent, <<>>)
  /\ contents' = Recorded(m, to)

Event(m, resolution) == [resolution |-> resolution, epoch |-> books[m].epoch,
  position |-> books[m].next, revision |-> books[m].revision, origin |-> "SourceReported",
  representation |-> "VenueNative"]

Mutation(m, to) ==
  Event(m, FALSE) @@ [side |-> "Ask", price |-> [coefficient |-> 7, scale |-> 1], family |-> 9,
                      old |-> books[m].content, new |-> to]

\* publish_commit of a commit on an intact stream: the mutation, then the state.
Commit(m) ==
  LET to == [books[m] EXCEPT !.revision = @ + 1, !.next = @ + 1, !.content = Changed3(@)] IN
  /\ Installed(m) /\ books[m].based /\ books[m].lost = Intact
  /\ Publishes(m, to, Mutation(m, to.content), <<"event">> \o Advertise)
  /\ contents' = Recorded(m, to)

\* publish_commit of a base that opens the next epoch.
Rebase(m) ==
  LET to == [books[m] EXCEPT !.revision = @ + 1, !.epoch = @ + 1, !.next = 0, !.lost = Intact,
                             !.based = TRUE, !.authority = Authority("Live", NoReason),
                             !.content = Changed3(@)] IN
  /\ Installed(m) /\ (books[m].based \/ books[m].lost # Intact)
  /\ Publishes(m, to, NoEvent, <<>>)
  /\ contents' = Recorded(m, to)

\* publish_state after an evidence-based loss.
Lose(m) ==
  LET to == [Broken(books[m], "Reconnect") EXCEPT !.authority = Authority("Stale", "Disconnect")] IN
  /\ Installed(m) /\ books[m].lost = Intact
  /\ Publishes(m, to, NoEvent, <<>>)
  /\ UNCHANGED contents

Resolution(m, outcome) ==
  Event(m, TRUE) @@ [winning_index |-> 1, path |-> "MarketFeed", outcome |-> outcome,
                     type |-> 3, date |-> 5]

resolution_fits_the_ring(e) ==
  e.outcome <= OutcomeCapacity /\ e.type <= TypeCapacity /\ e.date <= DateCapacity

\* A mutant of the next action: what the ring cannot carry is found out by the ring.
forward_resolution_unjudged(m, outcome) ==
  LET to == [books[m] EXCEPT !.next = @ + 1] IN
  /\ Installed(m) /\ books[m].lost = Intact
  /\ Publishes(m, to, Resolution(m, outcome), <<"event">> \o Advertise)
  /\ contents' = Recorded(m, to)

\* forward_resolution: a report the ring cannot carry takes no position.
forward_resolution(m, outcome) ==
  LET to == [books[m] EXCEPT !.next = @ + 1] IN
  /\ Installed(m) /\ books[m].lost = Intact
  /\ resolution_fits_the_ring(Resolution(m, outcome))
  /\ Publishes(m, to, Resolution(m, outcome), <<"event">> \o Advertise)
  /\ contents' = Recorded(m, to)

\* publish_write_once: the entry's bytes and its gate.
publish_write_once ==
  /\ Store("entry")
  /\ directory' = Append(directory, [Entry(Head(round).market) EXCEPT !.at = clock + 1])
  /\ UNCHANGED <<published, dirty, dirty_position, doorbell, generation, rung, pc, consumer>>
  /\ UNCHANGED <<books, contents, staged, failure, slots, rings, session>>

\* publish_mutation or publish_resolution; a refusal ends the round, and latches.
StoreEvent ==
  LET m == Head(round).market
      i == EventSlotOf(staged.position)
      record == rings[m][i]
      cells == IF record = <<>> THEN BlankSlot ELSE Last(record).event.cells
  IN /\ round # <<>> /\ Head(round).step = "event"
     /\ UNCHANGED <<rounds, published, dirty, dirty_position, doorbell, generation, rung, pc, consumer>>
     /\ IF Stages(staged)
          THEN /\ round' = Tail(round)
               /\ clock' = clock + 1
               /\ rings' = [rings EXCEPT ![m][i] = Append(@,
                    [at |-> clock + 1,
                     event |-> [epoch |-> staged.epoch, position |-> staged.position,
                                cells |-> PublishedCells(cells, EntryOf(m), staged)]])]
               /\ UNCHANGED failure
          ELSE round' = <<>> /\ failure' = TRUE /\ UNCHANGED <<clock, rings>>
     /\ UNCHANGED <<directory, books, contents, staged, slots, session>>

StoreBook ==
  LET m == Head(round).market IN
  /\ StoreState
  /\ slots' = [slots EXCEPT ![m] = Append(@,
       [at |-> clock + 1, words |-> stage(EntryOf(m), AsPublished(books[m]))])]
  /\ UNCHANGED <<directory, books, contents, staged, failure, rings, session>>

Advertises ==
  /\ commit_dirty \/ ring_doorbell \/ StoreGeneration \/ post_wake
  /\ UNCHANGED <<segment, session>>

-----------------------------------------------------------------------------
(* The session                                                             *)

\* Between two calls.  The cursor into the dirty ring is made by the first next_dirty.
Free == style = "polls" /\ (pc = "idle" \/ (pc = "scanning" /\ scanned = 0))

AttachedRows == {r \in DOMAIN table : table[r].stream.attached}

Calls(r) ==
  /\ Free /\ r \in DOMAIN table
  /\ UNCHANGED <<writer, rung, pc, cursor, scanned, polled, last_seen, observed, segment, style>>

\* The publications a read may return that has acquired what time t made.
ReadableAt(record, t) ==
  {i \in 0 .. Len(record) : i = Len(record) \/ (StaleLoads /\ record[i + 1].at > t)}
Later(t, record, i) == IF i = 0 \/ record[i].at <= t THEN t ELSE record[i].at

\* SegmentReader::resolve: the entry whose identity decodes to this market.
Matches(entry, m) == decode_identity(entry.identity) = Identity[m]

\* A market found for the first time gets a row; one found again keeps its own.
pmws_resolve(m) ==
  /\ Free
  /\ \E i \in DOMAIN directory :
       /\ Matches(directory[i], m)
       /\ seen' = Acquired(directory[i].at)
       /\ table' = IF \E r \in DOMAIN table : table[r].entry = i THEN table
                   ELSE Append(table, [market |-> m, entry |-> i, stream |-> Detached])
  /\ UNCHANGED <<writer, rung, pc, cursor, scanned, polled, last_seen, observed, segment,
                 style, due>>

StreamFrom(snapshot, answer) ==
  StreamAt([epoch |-> snapshot.epoch, next |-> snapshot.next, lost |-> snapshot.lost,
            based |-> snapshot.based, content |-> ContentOf(answer.levels)])

\* A mutant of the next operator: the cursor moves whatever the caller received.
AttachedAnyhow(r, snapshot, answer) ==
  [table EXCEPT ![r].stream =
     [StreamFrom(snapshot, answer) EXCEPT
        !.content = IF answer.status = "OK" THEN @ ELSE table[r].stream.content]]

\* The stream is replaced if and only if the call returns OK.
Attached(r, snapshot, answer) ==
  IF answer.status = "OK" THEN [table EXCEPT ![r].stream = StreamFrom(snapshot, answer)] ELSE table

\* attach_stream.  One that is overtaken reads again or gives up, and leaves the row alone.
attach_stream(r, capacity) ==
  LET m == table[r].market
      slot == slots[m]
  IN /\ Calls(r)
     /\ \E i \in Readable(slot) \ {0} :
          LET snapshot == decode(slot[i].words)
              answer == respond_snapshot(snapshot, capacity)
              start == StreamFrom(snapshot, answer)
              ring == rings[m][EventSlotOf(start.position)]
              t == Acquired(slot[i].at)
          IN /\ StateDefined(table[r].entry, slot[i].words)
             /\ \/ /\ snapshot.lost # Intact
                   /\ seen' = t
                   /\ table' = Attached(r, snapshot, answer)
                \/ /\ snapshot.lost = Intact
                   /\ \E j \in ReadableAt(ring, t) :
                        /\ seen' = Later(t, ring, j)
                        /\ table' = IF Overtaken(start, ring, j) THEN table
                                    ELSE Attached(r, snapshot, answer)
     /\ UNCHANGED due

\* An attach call on a row that has a stream does what a reattach does.
pmws_attach(r, capacity) == ~table[r].stream.attached /\ attach_stream(r, capacity)
pmws_reattach(r, capacity) == table[r].stream.attached /\ attach_stream(r, capacity)

\* The latest state, without moving the cursor.
pmws_read_state(r) ==
  /\ Calls(r)
  /\ \E i \in Readable(slots[table[r].market]) \ {0} : Sees(slots[table[r].market], i)
  /\ UNCHANGED <<table, due>>

\* EventStream::poll.  A loss is sticky, and a caller that is told of one, or of
\* nothing to deliver, has polled the row dry.
AfterPoll(r, stream) ==
  /\ table' = [table EXCEPT ![r].stream = stream]
  /\ due' = IF stream.lost = Intact /\ stream # table[r].stream THEN due ELSE due \ {r}

AppliedTo(content, event) ==
  IF event.delivery_kind = DELIVERY_MARKET_RESOLVED THEN content
  ELSE Applied(content, [from |-> event.old, to |-> event.new])

pmws_next_event(r) ==
  LET m == table[r].market
      stream == table[r].stream
      slot == slots[m]
      ring == rings[m][EventSlotOf(stream.position)]
  IN /\ Calls(r)
     /\ stream.attached
     /\ \/ /\ stream.lost # Intact
           /\ AfterPoll(r, stream) /\ UNCHANGED seen
        \/ /\ stream.lost = Intact
           /\ \E i \in Readable(slot) \ {0} :
                LET t == Acquired(slot[i].at)
                    state == StateVerdict(stream, continuity(slot[i].words.continuity))
                IN \/ /\ state # Intact
                      /\ seen' = t
                      /\ AfterPoll(r, [stream EXCEPT !.lost = state])
                   \/ /\ state = Intact
                      /\ \E j \in ReadableAt(ring, t) :
                           LET verdict == EventVerdict(stream, ring, j) IN
                           /\ seen' = Later(t, ring, j)
                           /\ \/ verdict = "Idle" /\ AfterPoll(r, stream)
                              \/ /\ verdict = "Delivered" /\ EventDefined(ring[j].event.cells)
                                 /\ AfterPoll(r, [stream EXCEPT !.position = @ + 1,
                                      !.content = AppliedTo(@, encode_retained(ring[j].event.cells))])
                              \/ /\ verdict \notin {"Idle", "Delivered"}
                                 /\ AfterPoll(r, [stream EXCEPT !.lost = verdict])

\* The first call makes the cursor; whoever follows the ring from here reads each
\* of its markets once.
pmws_first_dirty ==
  \/ ScanSlot /\ UNCHANGED <<segment, session>>
  \/ TakeCursor /\ due' = AttachedRows /\ UNCHANGED <<segment, style, table>>

\* The inverse of pmws_market_directory_index.
RowsOf(index) == {r \in AttachedRows : table[r].entry = index}

pmws_next_dirty ==
  /\ next_dirty
  /\ LET record == dirty[SlotOf(cursor)]
         told == SelectSeq(record, LAMBDA e : e.position = cursor)
     IN due' = due \cup IF cursor' = cursor + 1 THEN RowsOf(EntryOf(told[1].market))
                        ELSE AttachedRows
  /\ UNCHANGED <<segment, style, table>>

\* The generation, loaded without waiting.
pmws_publication_generation ==
  /\ Free
  /\ \E v \in Loadable(generation) : LoadGeneration(v)
  /\ UNCHANGED <<writer, rung, pc, cursor, scanned, polled, last_seen, observed, segment, session>>

\* wait_for_publication without a doorbell: the spin is all there is.
DoorbellUnavailable ==
  /\ pc = "parking" /\ style = "spins"
  /\ pc' = "idle"
  /\ UNCHANGED <<writer, rung, consumer>>

\* wait_retrying: a fault surfaces once the budget is spent; a retry waits again.
WaitFaulted ==
  /\ pc = "waiting"
  /\ pc' = "idle"
  /\ UNCHANGED <<writer, rung, consumer>>

pmws_wait ==
  /\ style # "polls"
  /\ \/ Spin \/ DoorbellUnavailable
     \/ style = "parks" /\ LoadDoorbell
     \/ CheckGeneration \/ Wait \/ Unpark \/ TimeOut \/ WaitFaulted
  /\ UNCHANGED <<segment, session>>

-----------------------------------------------------------------------------
CNext ==
  \/ \E m \in Markets :
       \/ install(m) \/ FirstBase(m) \/ Commit(m) \/ Rebase(m) \/ Lose(m)
       \/ \E outcome \in Outcomes : forward_resolution(m, outcome)
       \/ pmws_resolve(m)
  \/ publish_write_once \/ StoreEvent \/ StoreBook \/ Advertises
  \/ \E r \in DOMAIN table :
       \/ \E capacity \in 0 .. LevelCapacity : pmws_attach(r, capacity) \/ pmws_reattach(r, capacity)
       \/ pmws_read_state(r) \/ pmws_next_event(r)
  \/ pmws_first_dirty \/ pmws_next_dirty \/ pmws_publication_generation \/ pmws_wait

CSpec == CInit /\ [][CNext]_cvars

-----------------------------------------------------------------------------
\* What a caller is told of the book: a lost stream has no position.
Told(b) == [b EXCEPT !.next = IF b.lost = Intact THEN @ ELSE 0]

SameDelivery(event, sent) ==
  /\ event.cursor_epoch = sent.epoch /\ event.cursor_position = sent.position
  /\ event.book_revision = sent.revision
  /\ IF sent.resolution
       THEN event = [encode_resolution(ResolutionCells(sent) @@ SharedCells(0, sent, 3)) EXCEPT
                       !.outcome = sent.outcome, !.type = sent.type, !.date = sent.date]
       ELSE /\ event.delivery_kind = DELIVERY_LEVEL_MUTATION
            /\ event.old = sent.old /\ event.new = sent.new
            /\ event.outcome = 0

JustStored(record) == record # <<>> /\ clock > 0 /\ Last(record).at = clock

\* Every record as the writer publishes it, in a slot of whatever history, decodes, and to
\* what was published: no consumer ever meets MALFORMED_RECORD, a delivery of
\* the wrong kind or a cell left over from the slot's last occupant.
PublishedIsReadable ==
  \A m \in Markets :
    /\ JustStored(slots[m]) =>
         /\ StateDefined(EntryOf(m), Last(slots[m]).words)
         /\ decode(Last(slots[m]).words) = Told(AsPublished(books[m]))
    /\ \A i \in EventSlots : JustStored(rings[m][i]) =>
         LET cells == Last(rings[m][i]).event.cells IN
         EventDefined(cells) /\ SameDelivery(encode_retained(cells), staged)

\* A row is one market's, for good: its entry carries the identity asked for, no
\* two rows share an entry, and the dirty ring's index leads back to it.
RowsNameTheirEntry ==
  \A r \in DOMAIN table :
    /\ table[r].entry = EntryOf(table[r].market)
    /\ \A q \in DOMAIN table : table[q].entry = table[r].entry => q = r

\* The caller's book is the book at its cursor, on every row: through retries with
\* a larger buffer, overtaken attachments, reattachment and calls for other rows.
HeldIsBook ==
  \A r \in AttachedRows :
    LET s == table[r].stream IN
    s.lost = Intact /\ s.based => s.content = contents[table[r].market][<<s.epoch, s.position>>]

\* A consumer that follows the dirty ring is never silently behind: with the writer
\* at rest, nothing new at its cursor and every row it was told of polled dry, each
\* attached row has been told of a loss or holds the book's own cursor.
FollowerIsCurrent ==
  /\ AtRest /\ Following /\ due = {}
  /\ LET record == dirty[SlotOf(cursor)] IN DirtyVerdict(record, Len(record)) = "Idle"
  => \A r \in AttachedRows :
       LET s == table[r].stream  b == books[table[r].market] IN
       s.lost # Intact \/ (b.lost = Intact /\ s.epoch = b.epoch /\ s.position = b.next)

\* Every read is exact: the record decodes to what was published, the row is the market's, and
\* the caller's book is the book at its cursor.
ReadsAreExact == PublishedIsReadable /\ RowsNameTheirEntry /\ HeldIsBook

\* Nobody is silently behind: neither a cursor the dirty ring lapped nor a row it follows.
NeverSilentlyBehind == TypeOK /\ NoSilentGap /\ FollowerIsCurrent
=============================================================================

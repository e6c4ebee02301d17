------------------------- MODULE EventRingRestProofs -------------------------
(***************************************************************************)
(* Nobody is stranded: with the writer of EventRing at rest, a consumer    *)
(* that is behind is told so by its next poll, and an attachment that      *)
(* reads the latest state gets through.                                    *)
(*                                                                         *)
(* EventRingProofs shows that what a consumer reads is right; this module  *)
(* shows that what it has to read is there.  The strengthening says, of a  *)
(* round part way through, which positions are already in the ring: all    *)
(* those below the ones the round has yet to publish, each still in its    *)
(* slot or overwritten by a later lap of the same epoch.                   *)
(***************************************************************************)
EXTENDS EventRingProofs

(* The provers are given more than their default time: the contexts of the  *)
(* leaves below are long.                                                   *)
USE SMTT(20), SMTT(40)

\* The events the round has yet to publish: all of it but the state that ends it.
Pending == IF round = <<>> THEN 0 ELSE Len(round) - 1

\* The first position that is not in the ring.
Published == book.next - Pending

\* A round is the events of the positions from Published on, and then the book's state; once it is
\* over the state slot holds the book.
RoundEnds ==
  /\ round # <<>> => round[Len(round)] = StateStore(book)
  /\ round = <<>> => slot # <<>> /\ slot[Len(slot)].book = book
  /\ Published >= 0
  /\ \A j \in 1..Pending :
       /\ round[j].kind = "event" /\ round[j].epoch = book.epoch
       /\ round[j].position = Published + j - 1

\* Every position before Published is in its slot of the ring, or a later one of the epoch is.
RingFilled ==
  \A p \in Nat : p < Published =>
    LET record == ring[SlotOf(p)] IN
    /\ record # <<>> /\ record[Len(record)].event.epoch = book.epoch
    /\ record[Len(record)].event.position >= p

\* No event of the epoch from Published on is in the ring.
RingFresh ==
  \A k \in Slots : \A i \in 1..Len(ring[k]) :
    ring[k][i].event.epoch = book.epoch => ring[k][i].event.position < Published

\* A consumer that has not been told of a loss stands at a cursor the book has had.
OnCursor ==
  stream.attached /\ stream.lost = Intact => <<stream.epoch, stream.position>> \in DOMAIN contents

Complete == ~failure => RoundEnds /\ RingFilled /\ RingFresh
RestInv == Complete /\ OnCursor

-----------------------------------------------------------------------------
(* A round begins                                                          *)

\* With nothing pending every position before the book's is in the ring, and a round adds the
\* positions it is about to publish, or opens an epoch that has none.
LEMMA RoundBegins ==
  ASSUME IInv, RestInv, AtRest, book' \in Books, round' \in Seq(States \cup Events), round' # <<>>,
         UNCHANGED <<failure, slot, ring, stream>>, Grows,
         round'[Len(round')] = StateStore(book'),
         \/ book'.epoch = book.epoch /\ book'.next = book.next + (Len(round') - 1)
         \/ book'.epoch > book.epoch /\ book'.next = 0 /\ Len(round') = 1,
         \A j \in 1..(Len(round') - 1) :
           /\ round'[j].kind = "event" /\ round'[j].epoch = book.epoch
           /\ round'[j].position = book.next + j - 1
  PROVE  RestInv'
<1> DEFINE n == Len(round') - 1
<1>1. Len(round') \in Nat /\ Len(round') > 0 /\ n \in Nat
  OBVIOUS
<1>2. Pending' = n /\ Published' = book'.next - n /\ Pending = 0 /\ Published = book.next
  <2>1. Pending' = n /\ Pending = 0
    BY DEF Pending, AtRest
  <2>2. book.next \in Nat
    BY DEF IInv, Typed, Books
  <2> QED
    BY <2>1, <2>2 DEF Published
<1>3. /\ book.epoch \in Nat /\ book.next \in Nat /\ book'.epoch \in Nat /\ book'.next \in Nat
  BY DEF IInv, Typed, Books
<1>4. RingFilled /\ RingFresh
  BY DEF RestInv, Complete, AtRest
<1> HIDE DEF n
<1>5. CASE book'.epoch = book.epoch /\ book'.next = book.next + n
  <2>1. Published' = Published
    BY <1>1, <1>2, <1>3, <1>5
  <2>2. RoundEnds'
    <3>1. Published' \in Nat
      BY <1>2, <1>3, <2>1
    <3>2. \A j \in 1..Pending' :
            /\ round'[j].kind = "event" /\ round'[j].epoch = book'.epoch
            /\ round'[j].position = Published' + j - 1
      BY <1>2, <1>5, <2>1 DEF n
    <3> QED
      BY <3>1, <3>2 DEF RoundEnds
  <2>3. RingFilled' /\ RingFresh'
    BY <1>4, <1>5, <2>1 DEF RingFilled, RingFresh
  <2>4. OnCursor'
    BY DEF RestInv, OnCursor, Grows
  <2> QED
    BY <2>2, <2>3, <2>4 DEF RestInv, Complete
<1>6. CASE book'.epoch > book.epoch /\ book'.next = 0 /\ n = 0
  <2>1. Published' = 0 /\ Pending' = 0
    BY <1>2, <1>6
  <2>2. RoundEnds'
    BY <2>1 DEF RoundEnds
  <2>3. RingFilled'
    BY <2>1 DEF RingFilled
  <2>4. RingFresh'
    <3>1. ASSUME NEW k \in Slots, NEW i \in 1..Len(ring[k])
          PROVE  ring[k][i].event.epoch # book'.epoch
      <4>1. ring[k][i].event \in Events /\ EventOK(contents, ring[k][i].event)
        BY Elements DEF IInv, RingOK
      <4>2. ring[k][i].event.epoch \in Nat /\ ring[k][i].event.position \in Nat
        BY <4>1 DEF Events
      <4>3. ring[k][i].event.epoch <= book.epoch
        BY <4>1, <4>2 DEF IInv, BookOK, Cursors, EventOK
      <4> QED
        BY <1>3, <1>6, <4>2, <4>3
    <3> QED
      BY <3>1 DEF RingFresh
  <2>5. OnCursor'
    BY DEF RestInv, OnCursor, Grows
  <2> QED
    BY <2>2, <2>3, <2>4, <2>5 DEF RestInv, Complete
<1> QED
  BY <1>5, <1>6 DEF n

\* A round of one state, for a book that stands where it stood or in a later epoch.
LEMMA StateRoundRests ==
  ASSUME IInv, RestInv, Begins, NEW b \in Books, Begin(b, <<StateStore(b)>>),
         \/ b.epoch = book.epoch /\ b.next = book.next
         \/ b.epoch = book.epoch + 1 /\ b.next = 0
  PROVE  RestInv'
<1>1. /\ AtRest /\ book' = b /\ round' = <<StateStore(b)>>
      /\ UNCHANGED <<failure, slot, ring, stream>> /\ Grows /\ round' \in Seq(States \cup Events)
  BY DEF Begin, Begins, consumer
<1>2. Len(round') = 1 /\ round'[1] = StateStore(b)
  BY <1>1
<1>3. book.epoch \in Nat /\ book.next \in Nat
  BY DEF IInv, Typed, Books
<1>4. \/ book'.epoch = book.epoch /\ book'.next = book.next + (Len(round') - 1)
      \/ book'.epoch > book.epoch /\ book'.next = 0 /\ Len(round') = 1
  BY <1>1, <1>2, <1>3
<1>5. round' # <<>>
  BY <1>1
<1>6. round'[Len(round')] = StateStore(book') /\ book' \in Books
  BY <1>1, <1>2
<1>7. \A j \in 1..(Len(round') - 1) : FALSE
  BY <1>2
<1> QED
  BY <1>1, <1>4, <1>5, <1>6, <1>7, RoundBegins

LEMMA StateRoundsRest ==
  ASSUME IInv, RestInv, FirstBase \/ Rebase \/ Lose \/ Retire \/ Resume
  PROVE  RestInv'
<1>1. book \in Books /\ book.epoch \in Nat /\ book.next \in Nat /\ book.content \in Nat
  BY DEF IInv, Typed, Books
<1>2. Begins
  BY FirstBaseBegins, RebaseBegins, RestatesBegin
<1>3. CASE FirstBase
  <2> DEFINE to == [book EXCEPT !.based = TRUE, !.content = @ + 1]
  <2>1. Begin(to, <<StateStore(to)>>)
    BY <1>3 DEF FirstBase
  <2>2. to = book'
    BY <2>1 DEF Begin
  <2>3. to \in Books
    BY <1>2, <2>2 DEF Begins
  <2>4. to.epoch = book.epoch /\ to.next = book.next
    BY <1>1 DEF Books
  <2> HIDE DEF to
  <2> QED
    BY <1>2, <2>1, <2>3, <2>4, StateRoundRests
<1>4. CASE Rebase
  <2> DEFINE to == [epoch |-> book.epoch + 1, next |-> 0, lost |-> Intact, based |-> TRUE,
                    content |-> book.content + 1]
  <2>1. Begin(to, <<StateStore(to)>>)
    BY <1>4 DEF Rebase
  <2>2. to = book'
    BY <2>1 DEF Begin
  <2>3. to \in Books
    BY Zenon, <1>2, <2>2 DEF Begins
  <2>4. to.epoch = book.epoch + 1 /\ to.next = 0
    OBVIOUS
  <2> HIDE DEF to
  <2> QED
    BY <1>2, <2>1, <2>3, <2>4, StateRoundRests
<1>5. CASE Lose
  <2>1. PICK reason \in {"LocalLoss", "Reconnect"} :
          Begin(Broken(book, reason), <<StateStore(Broken(book, reason))>>)
    BY <1>5 DEF Lose
  <2> QED
    BY <1>1, <1>2, <2>1, BrokenBook, StateRoundRests
<1>6. CASE Retire
  <2>1. Begin(book, <<StateStore(book)>>)
    BY <1>6 DEF Retire
  <2> QED
    BY <1>1, <1>2, <2>1, StateRoundRests
<1>7. CASE Resume
  <2>1. Begin(Broken(book, "Reconnect"), <<StateStore(Broken(book, "Reconnect"))>>)
    BY <1>7 DEF Resume
  <2> QED
    BY <1>1, <1>2, <2>1, BrokenBook, StateRoundRests
<1> QED
  BY <1>3, <1>4, <1>5, <1>6, <1>7

LEMMA CommitRests ==
  ASSUME IInv, RestInv, NEW n \in 0..MaxBatch, Commit(n)
  PROVE  RestInv'
<1> DEFINE to == [book EXCEPT !.next = @ + n, !.content = @ + n]
           event(j) == EventStore(book.epoch, book.next + j - 1, book.content + j - 1,
                                  book.content + j)
           events == [j \in 1..n |-> event(j)]
<1>1. /\ AtRest /\ book' = to /\ round' = Append(events, StateStore(to))
      /\ UNCHANGED <<failure, slot, ring, stream>>
  BY DEF Commit, Begin, consumer
<1>2. Begins
  BY CommitBegins
<1>3. book' \in Books /\ round' \in Seq(States \cup Events) /\ Grows
  BY <1>2 DEF Begins
<1>4. n \in Nat /\ book \in Books /\ book.epoch \in Nat /\ book.next \in Nat
  BY EventRingAssumption DEF IInv, Typed, Books
<1>5. book'.epoch = book.epoch /\ book'.next = book.next + n
  <2> DEFINE t == [book EXCEPT !.next = @ + n]
  <2>1. to = [t EXCEPT !.content = book.content + n]
    BY <1>4 DEF Books
  <2>2. t \in Books /\ t.epoch = book.epoch /\ t.next = book.next + n
    BY <1>4 DEF Books
  <2> HIDE DEF t
  <2>3. to.epoch = t.epoch /\ to.next = t.next
    BY <2>1, <2>2 DEF Books
  <2> QED
    BY <1>1, <2>2, <2>3
<1>6. \A j \in 1..n : /\ event(j).kind = "event" /\ event(j).epoch = book.epoch
                      /\ event(j).position = book.next + j - 1
  BY DEF EventStore
<1> HIDE DEF event, to
<1>7. /\ Len(events) = n /\ \A j \in 1..n : events[j] = event(j)
      /\ events \in Seq({event(j) : j \in 1..n})
  BY <1>4
<1> HIDE DEF events
<1>8. /\ Len(round') = n + 1 /\ round'[n + 1] = StateStore(to)
      /\ \A j \in 1..n : round'[j] = event(j)
  BY <1>1, <1>4, <1>7
<1>9. round' # <<>> /\ round'[Len(round')] = StateStore(book') /\ Len(round') - 1 = n
  BY <1>1, <1>4, <1>8
<1>10. \A j \in 1..(Len(round') - 1) :
         /\ round'[j].kind = "event" /\ round'[j].epoch = book.epoch
         /\ round'[j].position = book.next + j - 1
  BY <1>6, <1>8, <1>9
<1>11. book'.next = book.next + (Len(round') - 1)
  BY <1>5, <1>9
<1> QED
  BY <1>1, <1>3, <1>5, <1>9, <1>10, <1>11, RoundBegins

LEMMA ResolveRests ==
  ASSUME IInv, RestInv, Resolve
  PROVE  RestInv'
<1> DEFINE to == [book EXCEPT !.next = @ + 1]
           event == EventStore(book.epoch, book.next, book.content, book.content)
<1>1. /\ AtRest /\ book' = to /\ round' = <<event, StateStore(to)>>
      /\ UNCHANGED <<failure, slot, ring, stream>>
  BY DEF Resolve, Begin, consumer
<1>2. Begins
  BY ResolveBegins
<1>3. book' \in Books /\ round' \in Seq(States \cup Events) /\ Grows
  BY <1>2 DEF Begins
<1>4. book \in Books /\ book.next \in Nat
  BY DEF IInv, Typed, Books
<1>5. to.epoch = book.epoch /\ to.next = book.next + 1
  BY <1>4 DEF Books
<1>6. event.kind = "event" /\ event.epoch = book.epoch /\ event.position = book.next
  BY DEF EventStore
<1> HIDE DEF event, to
<1>7. Len(round') = 2 /\ round'[1] = event /\ round'[2] = StateStore(to) /\ round' # <<>>
  BY <1>1
<1>8. \A j \in 1..(Len(round') - 1) :
         /\ round'[j].kind = "event" /\ round'[j].epoch = book.epoch
         /\ round'[j].position = book.next + j - 1
  <2>1. \A j \in 1..(Len(round') - 1) : j = 1
    BY <1>7
  <2> QED
    BY <1>4, <1>6, <1>7, <2>1
<1>9. book'.epoch = book.epoch /\ book'.next = book.next + (Len(round') - 1)
  BY <1>1, <1>5, <1>7
<1>10. round'[Len(round')] = StateStore(book')
  BY <1>1, <1>7
<1> QED
  BY <1>1, <1>3, <1>7, <1>8, <1>9, <1>10, RoundBegins

-----------------------------------------------------------------------------
(* The round is published                                                  *)

LEMMA PublishRests ==
  ASSUME IInv, RestInv, Publish
  PROVE  RestInv'
<1>1. /\ round # <<>> /\ round' = Tail(round)
      /\ UNCHANGED <<book, failure, contents, stream>>
  BY DEF Publish, consumer
<1>2. OnCursor'
  BY <1>1 DEF RestInv, OnCursor
<1>3. SUFFICES ASSUME ~failure PROVE RoundEnds' /\ RingFilled' /\ RingFresh'
  BY <1>1, <1>2 DEF RestInv, Complete
<1>4. RoundEnds /\ RingFilled /\ RingFresh
  BY <1>3 DEF RestInv, Complete
<1>5. /\ round \in Seq(States \cup Events) /\ Len(round) \in Nat /\ Len(round) > 0
      /\ Head(round) = round[1] /\ Len(round') = Len(round) - 1
      /\ \A j \in 1..Len(round') : round'[j] = round[j + 1]
  BY <1>1 DEF IInv, Typed
<1>6. Pending = Len(round) - 1 /\ book.next \in Nat /\ Published = book.next - Pending
  BY <1>1 DEF Pending, Published, IInv, Typed, Books
<1>7. CASE Head(round).kind = "state"
  <2>1. Pending = 0 /\ Len(round) = 1
    <3>1. ~(1 \in 1..Pending)
      BY <1>4, <1>5, <1>7 DEF RoundEnds
    <3> QED
      BY <1>5, <1>6, <3>1
  <2>2. round' = <<>> /\ Pending' = 0
    <3>1. round' = <<>>
      BY <1>1, <1>5, <2>1
    <3> QED
      BY <3>1 DEF Pending
  <2>3. Published' = Published
    BY <1>1, <2>1, <2>2 DEF Published
  <2>4. ring' = ring /\ slot' = Append(slot, [at |-> clock + 1, book |-> Head(round).book])
    BY <1>7 DEF Publish
  <2>5. Head(round) = StateStore(book)
    BY <1>1, <1>4, <1>5, <2>1 DEF RoundEnds
  <2>6. slot' # <<>> /\ slot'[Len(slot')].book = book
    <3> DEFINE new == [at |-> clock + 1, book |-> Head(round).book]
    <3>1. new.book = book
      BY <2>5 DEF StateStore
    <3>2. new \in Kept
      BY <2>5 DEF StateStore, Kept, IInv, Typed
    <3> HIDE DEF new
    <3>3. slot \in Seq(Kept) /\ slot' = Append(slot, new)
      BY <2>4 DEF new, IInv, Typed
    <3> QED
      BY <3>1, <3>2, <3>3
  <2>7. RoundEnds'
    BY <1>1, <1>4, <2>2, <2>3, <2>6 DEF RoundEnds
  <2>8. RingFilled' /\ RingFresh'
    BY <1>1, <1>4, <2>3, <2>4 DEF RingFilled, RingFresh
  <2> QED
    BY <2>7, <2>8
<1>8. CASE Head(round).kind = "event"
  <2> DEFINE e == Head(round)
             k == SlotOf(e.position)
             new == [at |-> clock + 1, event |-> e]
  <2>1. Len(round) > 1 /\ Pending > 0
    <3>1. Len(round) # 1
      BY <1>1, <1>4, <1>5, <1>8 DEF RoundEnds, StateStore
    <3> QED
      BY <1>5, <1>6, <3>1
  <2>2. /\ e.epoch = book.epoch /\ e.position = Published
    <3>1. 1 \in 1..Pending
      BY <1>5, <1>6, <2>1
    <3>2. Published + 1 - 1 = Published
      BY <1>5, <1>6
    <3> QED
      BY <1>4, <1>5, <3>1, <3>2 DEF RoundEnds
  <2>3. round' # <<>> /\ Pending' = Pending - 1 /\ Published' = Published + 1 /\ Published \in Nat
    <3>1. round' # <<>> /\ Pending' = Pending - 1
      BY <1>5, <1>6, <2>1 DEF Pending
    <3> QED
      BY <1>1, <1>4, <1>5, <1>6, <3>1 DEF Published, RoundEnds
  <2>4. /\ slot' = slot /\ ring' = [ring EXCEPT ![k] = Append(@, new)]
    BY <1>8 DEF Publish
  <2>5. e \in Events /\ new \in KeptEvents /\ new.event = e
    <3>1. e \in States \cup Events
      BY <1>5, Elements DEF IInv
    <3>2. e \notin States
      BY <1>8 DEF States
    <3>3. e \in Events
      BY <3>1, <3>2
    <3> HIDE DEF e
    <3> QED
      BY <3>3 DEF KeptEvents, IInv, Typed
  <2>6. k \in Slots /\ k = SlotOf(Published)
    BY <2>2, <2>3, EventRingAssumption DEF SlotOf, Slots
  <2> HIDE DEF e, k, new
  <2>7. /\ ring[k] \in Seq(KeptEvents) /\ ring'[k] = Append(ring[k], new)
        /\ \A m \in Slots : m # k => ring'[m] = ring[m]
    <3>1. ring \in [Slots -> Seq(KeptEvents)]
      BY DEF IInv, Typed
    <3> QED
      BY <2>4, <2>6, <3>1
  <2>8. /\ Len(ring[k]) \in Nat /\ Len(ring'[k]) = Len(ring[k]) + 1 /\ ring'[k] # <<>>
        /\ ring'[k][Len(ring'[k])] = new
        /\ \A i \in 1..Len(ring[k]) : ring'[k][i] = ring[k][i]
    BY <2>5, <2>7
  <2>9. RoundEnds'
    <3>1. round'[Len(round')] = StateStore(book)
      <4>1. Len(round') \in 1..Len(round') /\ Len(round') + 1 = Len(round)
        BY <1>5, <2>1
      <4> QED
        BY <1>1, <1>4, <1>5, <4>1 DEF RoundEnds
    <3>2. ASSUME NEW j \in 1..Pending'
          PROVE  /\ round'[j].kind = "event" /\ round'[j].epoch = book.epoch
                 /\ round'[j].position = Published' + j - 1
      <4>1. j + 1 \in 1..Pending /\ j \in 1..Len(round') /\ j \in Nat
        BY <1>5, <1>6, <2>3
      <4>2. /\ round[j + 1].kind = "event" /\ round[j + 1].epoch = book.epoch
            /\ round[j + 1].position = Published + (j + 1) - 1
        BY <1>4, <4>1 DEF RoundEnds
      <4>3. Published + (j + 1) - 1 = Published' + j - 1
        BY <2>3, <4>1
      <4> QED
        BY <1>5, <4>1, <4>2, <4>3
    <3>3. Published' >= 0
      BY <2>3
    <3> QED
      BY Zenon, <1>1, <2>3, <3>1, <3>2, <3>3 DEF RoundEnds
  <2>10. RingFilled'
    <3>1. ASSUME NEW p \in Nat, p < Published'
          PROVE  /\ ring'[SlotOf(p)] # <<>>
                 /\ ring'[SlotOf(p)][Len(ring'[SlotOf(p)])].event.epoch = book.epoch
                 /\ ring'[SlotOf(p)][Len(ring'[SlotOf(p)])].event.position >= p
      <4>1. SlotOf(p) \in Slots
        BY EventRingAssumption DEF SlotOf, Slots
      <4>2. CASE SlotOf(p) = k
        <5>1. Published >= p
          BY <2>3, <3>1
        <5> QED
          BY <2>2, <2>5, <2>8, <4>2, <5>1
      <4>3. CASE SlotOf(p) # k
        <5>1. p < Published
          BY <2>3, <2>6, <3>1, <4>3
        <5>2. ring'[SlotOf(p)] = ring[SlotOf(p)]
          BY <2>7, <4>1, <4>3
        <5> QED
          BY <1>4, <5>1, <5>2 DEF RingFilled
      <4> QED
        BY <4>2, <4>3
    <3> QED
      BY <1>1, <3>1 DEF RingFilled
  <2>11. RingFresh'
    <3>1. ASSUME NEW m \in Slots, NEW i \in 1..Len(ring'[m]), ring'[m][i].event.epoch = book.epoch
          PROVE  ring'[m][i].event.position < Published'
      <4>1. CASE i \in 1..Len(ring[m]) /\ ring'[m][i] = ring[m][i]
        <5>1. ring[m][i].event.position < Published
          BY <1>4, <3>1, <4>1 DEF RingFresh
        <5>2. ring[m][i].event \in Events
          BY <4>1, Elements DEF IInv
        <5>3. ring[m][i].event.position \in Nat
          BY <5>2 DEF Events
        <5> QED
          BY <2>3, <4>1, <5>1, <5>3
      <4>2. CASE ring'[m][i] = new
        BY <2>2, <2>3, <2>5, <4>2
      <4>3. CASE m # k
        BY <2>7, <4>1, <4>3
      <4>4. CASE m = k
        <5>1. i \in 1..Len(ring[k]) \/ i = Len(ring'[k])
          BY <2>8, <4>4
        <5> QED
          BY <2>8, <4>1, <4>2, <4>4, <5>1
      <4> QED
        BY <4>3, <4>4
    <3> QED
      BY <1>1, <3>1 DEF RingFresh
  <2> QED
    BY <2>9, <2>10, <2>11
<1> QED
  BY <1>7, <1>8 DEF Publish
-----------------------------------------------------------------------------
(* The consumer                                                            *)

\* A consumer's step leaves the records alone.
LEMMA ReaderRests ==
  ASSUME RestInv, UNCHANGED writer, OnCursor'
  PROVE  RestInv'
<1>1. UNCHANGED <<book, failure, round, slot, ring>>
  BY DEF writer
<1>2. Published' = Published /\ Pending' = Pending
  BY <1>1 DEF Published, Pending
<1>3. RoundEnds' = RoundEnds /\ RingFilled' = RingFilled /\ RingFresh' = RingFresh
  BY <1>1, <1>2 DEF RoundEnds, RingFilled, RingFresh
<1> QED
  BY <1>1, <1>3 DEF RestInv, Complete

\* An attachment starts at a published state's cursor, and a delivery moves to the next.
LEMMA ReadersRest ==
  ASSUME IInv, RestInv, AttachState \/ AttachProbe \/ PollState \/ PollEvent
  PROVE  RestInv'
<1>1. UNCHANGED writer /\ contents' = contents
  BY Zenon DEF AttachState, AttachProbe, PollState, PollEvent, writer
<1>2. stream \in Streams
  BY DEF IInv, Typed
<1>3. OnCursor
  BY DEF RestInv
<1>4. CASE AttachState
  <2>1. stream' = stream \/ \E b \in {slot[i].book : i \in 1..Len(slot)} :
                              b.lost # Intact /\ stream' = StreamAt(b)
    <3>1. Readable(slot) \ {0} \subseteq 1..Len(slot)
      BY DEF Readable, IInv, Typed
    <3> QED
      BY <1>4, <3>1 DEF AttachState
  <2>2. stream' = stream \/ stream'.lost # Intact
    BY <2>1 DEF StreamAt
  <2>3. OnCursor'
    BY <1>1, <1>3, <2>2 DEF OnCursor
  <2> QED
    BY <1>1, <2>3, ReaderRests
<1>5. CASE AttachProbe
  <2>1. stream' = stream \/ stream' = StreamAt(read)
    BY <1>5 DEF AttachProbe
  <2>2. read.lost = Intact /\ <<read.epoch, read.next>> \in DOMAIN contents
    BY <1>5 DEF AttachProbe, IInv, ReaderOK, StateOK
  <2>3. StreamAt(read).epoch = read.epoch /\ StreamAt(read).position = read.next
    BY <2>2 DEF StreamAt
  <2>4. OnCursor'
    BY <1>1, <1>3, <2>1, <2>2, <2>3 DEF OnCursor
  <2> QED
    BY <1>1, <2>4, ReaderRests
<1>6. CASE PollState
  <2>1. stream' = stream \/ \E v : v # Intact /\ stream' = [stream EXCEPT !.lost = v]
    BY <1>6 DEF PollState
  <2>2. stream' = stream \/ stream'.lost # Intact
    BY <1>2, <2>1 DEF Streams
  <2>3. OnCursor'
    BY <1>1, <1>3, <2>2 DEF OnCursor
  <2> QED
    BY <1>1, <2>3, ReaderRests
<1>7. CASE PollEvent
  <2> DEFINE k == SlotOf(stream.position)
  <2>1. PICK i \in Readable(ring[k]) :
          stream' =
            CASE EventVerdict(stream, ring[k], i) = "Idle" -> stream
              [] EventVerdict(stream, ring[k], i) = "Delivered" ->
                   [stream EXCEPT !.position = @ + 1, !.content = Applied(@, ring[k][i].event)]
              [] OTHER -> [stream EXCEPT !.lost = EventVerdict(stream, ring[k], i)]
    BY ZenonT(30), <1>7 DEF PollEvent
  <2> DEFINE verdict == EventVerdict(stream, ring[k], i)
             e == ring[k][i].event
  <2>2. stream.attached /\ stream.lost = Intact
    BY Zenon, <1>7 DEF PollEvent, IInv, ReaderOK
  <2>3. k \in Slots
    <3>1. stream.position \in Nat
      BY <1>2 DEF Streams
    <3> QED
      BY <3>1, EventRingAssumption DEF SlotOf, Slots
  <2>4. i \in Nat /\ (i = 0 \/ i \in 1..Len(ring[k]))
    <3>1. ring[k] \in Seq(KeptEvents)
      BY <2>3, Elements DEF IInv
    <3> QED
      BY <3>1 DEF Readable
  <2>5. /\ verdict \in {"Idle", "Delivered", "RecoveryBase", "Overrun"}
        /\ verdict = "Delivered" =>
             EventOK(contents, e) /\ e.epoch = stream.epoch /\ e.position = stream.position
    BY <2>2, <2>3, <2>4, EventTells
  <2>6. stream' = CASE verdict = "Idle" -> stream
                    [] verdict = "Delivered" ->
                         [stream EXCEPT !.position = @ + 1, !.content = Applied(@, e)]
                    [] OTHER -> [stream EXCEPT !.lost = verdict]
    BY <2>1
  <2> HIDE DEF verdict, e, k
  <2>7. CASE verdict = "Idle"
    <3>1. stream' = stream
      BY <2>6, <2>7
    <3> QED
      BY <1>1, <1>3, <3>1, ReaderRests DEF OnCursor
  <2>8. CASE verdict = "Delivered"
    <3> DEFINE c == Applied(stream.content, e)
               moved == [stream EXCEPT !.position = @ + 1]
    <3>1. stream' = [moved EXCEPT !.content = c]
      BY <1>2, <2>6, <2>8 DEF Streams
    <3>2. moved \in Streams /\ moved.position = stream.position + 1 /\ moved.epoch = stream.epoch
      BY <1>2 DEF Streams
    <3> HIDE DEF moved, c
    <3>3. stream'.position = stream.position + 1 /\ stream'.epoch = stream.epoch
      BY <3>1, <3>2 DEF Streams
    <3>4. <<stream.epoch, stream.position + 1>> \in DOMAIN contents
      BY <2>5, <2>8 DEF EventOK
    <3>5. OnCursor'
      BY <1>1, <3>3, <3>4 DEF OnCursor
    <3> QED
      BY <1>1, <3>5, ReaderRests
  <2>9. CASE verdict \in {"RecoveryBase", "Overrun"}
    <3>1. stream' = [stream EXCEPT !.lost = verdict]
      BY <2>6, <2>9
    <3>2. stream'.lost # Intact
      BY <1>2, <2>9, <3>1 DEF Streams, Intact
    <3> QED
      BY <1>1, <3>2, ReaderRests DEF OnCursor
  <2> QED
    BY <2>5, <2>7, <2>8, <2>9
<1> QED
  BY <1>4, <1>5, <1>6, <1>7

-----------------------------------------------------------------------------
(* The theorem                                                             *)

LEMMA InitRests ==
  ASSUME Init
  PROVE  RestInv
<1> USE DEF Init
<1>1. round # <<>> /\ Len(round) = 1 /\ round[1] = StateStore(book)
  OBVIOUS
<1>2. Pending = 0 /\ Published = 0
  BY <1>1 DEF Pending, Published, NewBook
<1>3. RoundEnds
  BY <1>1, <1>2 DEF RoundEnds
<1>4. RingFilled /\ RingFresh
  BY <1>2 DEF RingFilled, RingFresh
<1>5. OnCursor
  BY DEF OnCursor, Detached
<1> QED
  BY <1>3, <1>4, <1>5 DEF RestInv, Complete

LEMMA NextRests ==
  ASSUME IInv, RestInv, [Next]_vars
  PROVE  RestInv'
<1>1. CASE \E n \in 0..MaxBatch : Commit(n)
  BY <1>1, CommitRests
<1>2. CASE FirstBase \/ Rebase \/ Lose \/ Retire \/ Resume
  BY <1>2, StateRoundsRest
<1>3. CASE Resolve
  BY <1>3, ResolveRests
<1>4. CASE Publish
  BY <1>4, PublishRests
<1>5. CASE Refuse
  <2>1. failure' /\ stream' = stream /\ contents' = contents
    BY <1>5 DEF Refuse, consumer
  <2> QED
    BY <2>1 DEF RestInv, Complete, OnCursor
<1>6. CASE AttachState \/ AttachProbe \/ PollState \/ PollEvent
  BY <1>6, ReadersRest
<1>7. CASE UNCHANGED vars
  <2>1. UNCHANGED writer /\ stream' = stream /\ contents' = contents
    BY <1>7 DEF vars, writer, consumer
  <2>2. OnCursor'
    BY <2>1 DEF RestInv, OnCursor
  <2> QED
    BY <2>1, <2>2, ReaderRests
<1> QED
  BY <1>1, <1>2, <1>3, <1>4, <1>5, <1>6, <1>7 DEF Next

\* With the writer at rest what a consumer needs is in the records it reads next.
LEMMA RestTells ==
  ASSUME IInv, RestInv
  PROVE  NobodyIsStranded
<1>1. SUFFICES ASSUME AtRest PROVE NobodyIsStranded
  BY DEF NobodyIsStranded, NeverParkedBehind, AttachableAtRest
<1>2. /\ RoundEnds /\ RingFilled /\ slot # <<>> /\ slot[Len(slot)].book = book
      /\ Published = book.next
  <2>1. RoundEnds /\ RingFilled /\ round = <<>>
    BY <1>1 DEF AtRest, RestInv, Complete
  <2>2. book.next \in Nat
    BY DEF IInv, Typed, Books
  <2> QED
    BY <2>1, <2>2 DEF RoundEnds, Published, Pending
<1>3. /\ book \in Books /\ stream \in Streams /\ Cursors(contents, book)
      /\ book.epoch \in Nat /\ book.next \in Nat /\ stream.epoch \in Nat /\ stream.position \in Nat
  BY DEF IInv, Typed, BookOK, Books, Streams
<1>4. NeverParkedBehind
  <2> DEFINE record == ring[SlotOf(stream.position)]
  <2>1. SUFFICES ASSUME stream.attached, stream.lost = Intact, book.lost # Intact \/ ~Current,
                        StateVerdict(stream, book) = Intact
                 PROVE  EventVerdict(stream, record, Len(record)) # "Idle"
    BY <1>2 DEF NeverParkedBehind
  <2>2. book.lost = Intact /\ book.epoch = stream.epoch
    BY <2>1 DEF StateVerdict, Intact
  <2>3. stream.position <= book.next
    BY <1>3, <2>1, <2>2 DEF RestInv, OnCursor, Cursors
  <2>4. stream.position < book.next
    BY <1>3, <2>1, <2>2, <2>3 DEF Current
  <2>5. /\ record # <<>> /\ record[Len(record)].event.epoch = book.epoch
        /\ record[Len(record)].event.position >= stream.position
    BY <1>2, <1>3, <2>4 DEF RingFilled
  <2>6. Len(record) # 0 /\ record[Len(record)].event.position \in Nat
    <3>1. SlotOf(stream.position) \in Slots
      BY <1>3, EventRingAssumption DEF SlotOf, Slots
    <3>2. record \in Seq(KeptEvents)
      BY <3>1, Elements DEF IInv
    <3>3. Len(record) \in 1..Len(record)
      BY <2>5, <3>2
    <3>4. record[Len(record)].event \in Events
      BY <3>1, <3>3, Elements DEF IInv
    <3> QED
      BY <3>3, <3>4 DEF Events
  <2> HIDE DEF record
  <2> QED
    BY <1>3, <2>2, <2>5, <2>6 DEF EventVerdict, later
<1>5. AttachableAtRest
  <2> DEFINE start == StreamAt(book)
             k == SlotOf(start.position)
             i == Len(ring[k])
             e == ring[k][i].event
  <2>1. SUFFICES ASSUME book.lost = Intact PROVE ~Overtaken(start, ring[k], i)
    BY <1>2 DEF AttachableAtRest
  <2>2. start.epoch = book.epoch /\ start.position = book.next
    BY <2>1 DEF StreamAt
  <2>3. k \in Slots
    BY <1>3, <2>2, EventRingAssumption DEF SlotOf, Slots
  <2>4. SUFFICES ASSUME i > 0 PROVE ~later(e.epoch, e.position, start)
    BY DEF Overtaken
  <2>5. i \in 1..Len(ring[k])
    <3>1. ring[k] \in Seq(KeptEvents)
      BY <2>3, Elements DEF IInv
    <3> QED
      BY <2>4, <3>1
  <2>6. e \in Events /\ EventOK(contents, e)
    BY <2>3, <2>5, Elements DEF IInv, RingOK
  <2> HIDE DEF start, k, i, e
  <2>7. e.epoch \in Nat /\ e.position \in Nat
    BY <2>6 DEF Events
  <2>8. e.epoch <= book.epoch /\ (e.epoch = book.epoch => e.position + 1 <= book.next)
    BY <1>3, <2>6, <2>7 DEF EventOK, Cursors
  <2> QED
    BY <1>3, <2>2, <2>7, <2>8 DEF later
<1> QED
  BY <1>4, <1>5 DEF NobodyIsStranded

\* Nobody is stranded, for every ring size: once ShardSegment has finished a publication round, a
\* consumer that is behind or whose market is lost learns of it from the state slot or from the
\* ring slot at its position (EventStream::poll), and attach_stream's probe of the latest state
\* finds it not overtaken.
THEOREM NobodyStranded == Spec => []NobodyIsStranded
<1>1. Init => RestInv
  BY InitRests
<1>2. IInv /\ RestInv /\ [Next]_vars => RestInv'
  BY NextRests
<1>3. IInv /\ RestInv => NobodyIsStranded
  BY RestTells
<1> QED
  BY <1>1, <1>2, <1>3, Invariance, PTL DEF Spec
=============================================================================

--------------------------- MODULE EventRingProofs ---------------------------
(***************************************************************************)
(* Proofs about EventRing for every ring size, batch bound and length of   *)
(* behaviour: replay is exact, a reported loss is real, and the published  *)
(* states of a market never step back.                                     *)
(*                                                                         *)
(* The stored records outlive the book they were derived from, so the      *)
(* invariant says of each one, wherever it is (still in the round, in the  *)
(* state slot, in the ring), what it has to do with `contents`, the        *)
(* content the book had at each cursor.  `contents` only grows, but for    *)
(* the first base, which changes the content at the cursor it finds; what  *)
(* the book was before it, content 0, is what tells the records of before  *)
(* from the others.                                                        *)
(***************************************************************************)
EXTENDS EventRing, TLAPS

(* The provers are given more than their default time: the contexts of the  *)
(* leaves below are long.                                                   *)
USE SMTT(20), SMTT(40)

States == [kind : {"state"}, book : Books]
Events == [kind : {"event"}, epoch : Nat, position : Nat, from : Nat, to : Nat]
Kept == [at : Nat, book : Books]
KeptEvents == [at : Nat, event : Events]
Streams == [attached : BOOLEAN, epoch : Nat, position : Nat,
            lost : Losses \cup {"RecoveryBase", "Overrun"}, based : BOOLEAN,
            content : Nat \cup {Garbled}]

\* A state agrees with the content the book had at its cursor, once there was a base.
StateOK(f, b) ==
  /\ <<b.epoch, b.next>> \in DOMAIN f
  /\ b.based => b.content > 0 /\ f[<<b.epoch, b.next>>] = b.content

\* An event leads from the content at its cursor to the content at the next; one of before the
\* first base (content 0) only starts there.
EventOK(f, e) ==
  /\ <<e.epoch, e.position>> \in DOMAIN f /\ <<e.epoch, e.position + 1>> \in DOMAIN f
  /\ f[<<e.epoch, e.position>>] = e.from
  /\ e.from > 0 => f[<<e.epoch, e.position + 1>>] = e.to
  /\ e.to >= e.from

\* A state is not past the book.
NotPast(b, c) == b.epoch < c.epoch \/ (b.epoch = c.epoch /\ b.next <= c.next)

Typed ==
  /\ book \in Books /\ read \in Books
  /\ live \in BOOLEAN /\ failure \in BOOLEAN /\ retired_epoch \in 0..book.epoch
  /\ clock \in Nat /\ clock + Len(round) <= MaxStores /\ seen \in 0..clock
  /\ stream \in Streams
  /\ pc \in {"idle", "probing", "polling"}
  /\ round \in Seq(States \cup Events)
  /\ slot \in Seq(Kept)
  /\ ring \in [Slots -> Seq(KeptEvents)]

\* The cursors the book has had: all those up to its own, in every epoch it has reached.
Cursors(f, b) ==
  /\ <<b.epoch, b.next>> \in DOMAIN f /\ f[<<b.epoch, b.next>>] = b.content
  /\ \A e, p \in Nat : <<e, p>> \in DOMAIN f =>
       /\ e <= b.epoch /\ (e = b.epoch => p <= b.next)
       /\ \A q \in 0..p : <<e, q>> \in DOMAIN f

BookOK == Cursors(contents, book) /\ (book.based <=> book.content > 0)

RoundOK ==
  \A i \in 1..Len(round) :
    /\ round[i].kind = "state" => round[i].book = book
    /\ round[i].kind = "event" => EventOK(contents, round[i])

SlotOK ==
  /\ \A i \in 1..Len(slot) :
       /\ StateOK(contents, slot[i].book) /\ NotPast(slot[i].book, book) /\ slot[i].at <= clock
  /\ \A i, j \in 1..Len(slot) :
       i < j => NotPast(slot[i].book, slot[j].book) /\ slot[i].at <= slot[j].at

RingOK ==
  \A k \in Slots : \A i \in 1..Len(ring[k]) :
    /\ EventOK(contents, ring[k][i].event) /\ SlotOf(ring[k][i].event.position) = k
    /\ ring[k][i].at <= clock

\* Every publication of an epoch before this one is behind what a consumer that has seen the
\* publications up to time t may still read.
Behind(e, states, t) ==
  \A i \in 1..Len(states) :
    states[i].book.epoch < e => i < Len(states) /\ states[i + 1].at <= t

ReaderOK ==
  /\ stream.attached => stream.epoch <= book.epoch /\ Behind(stream.epoch, slot, seen)
  /\ stream.attached /\ stream.lost = Intact /\ stream.based =>
       /\ stream.content > 0
       /\ <<stream.epoch, stream.position>> \in DOMAIN contents
       /\ stream.content = contents[<<stream.epoch, stream.position>>]
  /\ pc = "probing" => /\ read.lost = Intact /\ StateOK(contents, read)
                       /\ read.epoch <= book.epoch /\ Behind(read.epoch, slot, seen)
  /\ pc = "polling" => stream.attached /\ stream.lost = Intact

\* Before the first base nothing anywhere has one.
Unbased ==
  ~book.based =>
    /\ \A i \in 1..Len(slot) : ~slot[i].book.based
    /\ \A i \in 1..Len(round) : round[i].kind = "event" => round[i].from = 0
    /\ \A k \in Slots : \A i \in 1..Len(ring[k]) : ring[k][i].event.from = 0
    /\ stream.attached => ~stream.based
    /\ pc = "probing" => ~read.based

IInv == /\ Typed /\ BookOK /\ RoundOK /\ SlotOK /\ RingOK /\ ReaderOK /\ Unbased /\ LossIsHonest

-----------------------------------------------------------------------------
(* Arithmetic of laps, and records under contents that grow                *)

\* Two positions of one ring slot are a lap or more apart.
LEMMA LapApart ==
  ASSUME NEW c \in Nat \ {0}, NEW s \in Nat, NEW p \in Nat, s < p, s % c = p % c
  PROVE  s + c <= p
<1> DEFINE a == p \div c
           b == s \div c
           r == p % c
<1>1. /\ a \in Nat /\ b \in Nat /\ r \in 0..(c - 1) /\ c \in Nat
      /\ p = c * a + r /\ s = c * b + r
  OBVIOUS
<1> HIDE DEF a, b, r
<1>2. b < a
  <2>1. SUFFICES ASSUME a <= b PROVE FALSE
    BY <1>1
  <2>2. PICK d \in Nat : b = a + d
    <3>1. b - a \in Nat /\ b = a + (b - a)
      BY <1>1, <2>1
    <3> QED
      BY <3>1
  <2>3. c * b = c * a + c * d /\ c * d \in Nat /\ c * a \in Nat
    BY <1>1, <2>2
  <2> QED
    BY <1>1, <2>3
<1>3. PICK d \in Nat : a = b + 1 + d
  <2>1. a - b - 1 \in Nat /\ a = b + 1 + (a - b - 1)
    BY <1>1, <1>2
  <2> QED
    BY <2>1
<1>4. c * a = c * b + c + c * d /\ c * d \in Nat /\ c * b \in Nat
  BY <1>1, <1>3
<1> QED
  BY <1>1, <1>4

\* The elements of a typed slot, ring and round.
LEMMA Elements ==
  ASSUME Typed
  PROVE  /\ \A i \in 1..Len(slot) : slot[i] \in Kept /\ slot[i].book \in Books /\ slot[i].at \in Nat
         /\ \A k \in Slots : ring[k] \in Seq(KeptEvents)
         /\ \A k \in Slots : \A i \in 1..Len(ring[k]) :
              ring[k][i] \in KeptEvents /\ ring[k][i].event \in Events /\ ring[k][i].at \in Nat
         /\ \A i \in 1..Len(round) : round[i] \in States \cup Events
<1>1. \A x \in Kept : x.book \in Books /\ x.at \in Nat
  BY DEF Kept
<1>2. \A x \in KeptEvents : x.event \in Events /\ x.at \in Nat
  BY DEF KeptEvents
<1>3. \A i \in 1..Len(slot) : slot[i] \in Kept
  BY DEF Typed
<1>4. \A k \in Slots : ring[k] \in Seq(KeptEvents)
  BY DEF Typed
<1>5. \A k \in Slots : \A i \in 1..Len(ring[k]) : ring[k][i] \in KeptEvents
  BY <1>4
<1>6. \A i \in 1..Len(round) : round[i] \in States \cup Events
  BY DEF Typed
<1> QED
  BY <1>1, <1>2, <1>3, <1>4, <1>5, <1>6

\* `contents` grows, but for the first base's own cursor.
Grows ==
  /\ DOMAIN contents \subseteq DOMAIN contents'
  /\ \A c \in DOMAIN contents :
       contents'[c] = contents[c] \/ (~book.based /\ c = <<book.epoch, book.next>>)

LEMMA StateKept ==
  ASSUME Grows, NEW b \in Books, StateOK(contents, b), book.based \/ ~b.based
  PROVE  StateOK(contents', b)
  BY DEF Grows, StateOK

LEMMA EventKept ==
  ASSUME Grows, Cursors(contents, book), book \in Books, NEW e \in Events,
         EventOK(contents, e), book.based \/ e.from = 0
  PROVE  EventOK(contents', e)
<1>1. e.epoch \in Nat /\ e.position \in Nat /\ e.position + 1 \in Nat /\ e.from \in Nat
  BY DEF Events
<1>2. book.epoch \in Nat /\ book.next \in Nat
  BY DEF Books
<1>3. <<e.epoch, e.position>> # <<book.epoch, book.next>>
  <2>1. e.epoch = book.epoch => e.position + 1 <= book.next
    BY <1>1 DEF EventOK, Cursors
  <2> QED
    BY <1>1, <1>2, <2>1
<1>4. contents'[<<e.epoch, e.position>>] = contents[<<e.epoch, e.position>>]
  BY <1>3 DEF Grows, EventOK
<1>5. e.from > 0 => contents'[<<e.epoch, e.position + 1>>] = contents[<<e.epoch, e.position + 1>>]
  BY <1>1 DEF Grows, EventOK
<1> QED
  BY <1>4, <1>5 DEF Grows, EventOK

-----------------------------------------------------------------------------
(* The writer begins a round                                               *)

\* What the actions that begin a round have in common.
Begins ==
  /\ round = <<>>
  /\ book' \in Books /\ Cursors(contents', book') /\ (book'.based <=> book'.content > 0)
  /\ NotPast(book, book') /\ (book.based => book'.based)
  /\ round' \in Seq(States \cup Events) /\ clock + Len(round') <= MaxStores
  /\ \A i \in 1..Len(round') :
       /\ round'[i].kind = "state" => round'[i].book = book'
       /\ round'[i].kind = "event" => EventOK(contents', round'[i])
       /\ round'[i].kind = "event" /\ ~book'.based => round'[i].from = 0
  /\ Grows
  /\ live' \in BOOLEAN /\ retired_epoch' \in 0..book'.epoch
  /\ UNCHANGED <<failure, clock, slot, ring, consumer>>

LEMMA NotPastTransitive ==
  ASSUME NEW a \in Books, NEW b \in Books, NEW c \in Books, NotPast(a, b), NotPast(b, c)
  PROVE  NotPast(a, c)
  BY DEF NotPast, Books

LEMMA BeginsKeeps ==
  ASSUME IInv, Begins
  PROVE  IInv'
<1> USE DEF IInv
<1>0. /\ slot' = slot /\ ring' = ring /\ clock' = clock /\ stream' = stream /\ read' = read
      /\ pc' = pc /\ seen' = seen /\ failure' = failure
  BY DEF Begins, consumer
<1>1. Typed'
  BY <1>0 DEF Typed, Begins
<1>2. BookOK'
  BY DEF BookOK, Begins
<1>3. RoundOK'
  BY DEF RoundOK, Begins
<1>4. book \in Books /\ book' \in Books /\ NotPast(book, book') /\ Grows /\ Cursors(contents, book)
  BY DEF Typed, Begins, BookOK
<1>5. SlotOK'
  <2>1. ASSUME NEW i \in 1..Len(slot)
        PROVE  StateOK(contents', slot[i].book) /\ NotPast(slot[i].book, book') /\ slot[i].at <= clock
    <3>1. slot[i].book \in Books
      BY Elements
    <3>2. StateOK(contents, slot[i].book) /\ NotPast(slot[i].book, book) /\ slot[i].at <= clock
      BY DEF SlotOK
    <3>3. book.based \/ ~slot[i].book.based
      BY DEF Unbased
    <3> QED
      BY <1>4, <3>1, <3>2, <3>3, StateKept, NotPastTransitive
  <2> QED
    BY <1>0, <2>1 DEF SlotOK
<1>6. RingOK'
  <2>1. ASSUME NEW k \in Slots, NEW i \in 1..Len(ring[k])
        PROVE  EventOK(contents', ring[k][i].event)
    <3>1. ring[k][i].event \in Events
      BY Elements
    <3>2. EventOK(contents, ring[k][i].event) /\ (book.based \/ ring[k][i].event.from = 0)
      BY DEF RingOK, Unbased
    <3> QED
      BY <1>4, <3>1, <3>2, EventKept
  <2> QED
    BY <1>0, <2>1 DEF RingOK
<1>7. book.epoch \in Nat /\ book'.epoch \in Nat /\ book.epoch <= book'.epoch
  BY <1>4 DEF Books, NotPast
<1>8. ReaderOK'
  <2>1. Behind(stream'.epoch, slot', seen') = Behind(stream.epoch, slot, seen) /\ Behind(read'.epoch, slot', seen') = Behind(read.epoch, slot, seen)
    BY <1>0 DEF Behind
  <2>2. read \in Books /\ stream.epoch \in Nat /\ read.epoch \in Nat
    BY DEF Typed, Streams, Books
  <2>3. stream'.attached => stream'.epoch <= book'.epoch /\ Behind(stream'.epoch, slot', seen')
    BY <1>0, <1>7, <2>1, <2>2 DEF ReaderOK
  <2>4. ASSUME stream.attached, stream.lost = Intact, stream.based
        PROVE  /\ stream.content > 0
               /\ <<stream.epoch, stream.position>> \in DOMAIN contents'
               /\ stream.content = contents'[<<stream.epoch, stream.position>>]
    BY <1>4, <2>4 DEF ReaderOK, Unbased, Grows
  <2>5. ASSUME pc = "probing"
        PROVE  /\ read.lost = Intact /\ StateOK(contents', read)
               /\ read.epoch <= book'.epoch /\ Behind(read'.epoch, slot', seen')
    <3>1. /\ read.lost = Intact /\ StateOK(contents, read) /\ read.epoch <= book.epoch
          /\ Behind(read.epoch, slot, seen) /\ (book.based \/ ~read.based)
      BY <2>5 DEF ReaderOK, Unbased
    <3>2. StateOK(contents', read)
      BY <1>4, <2>2, <3>1, StateKept
    <3> QED
      BY <1>7, <2>1, <2>2, <3>1, <3>2
  <2>6. pc = "polling" => stream.attached /\ stream.lost = Intact
    BY DEF ReaderOK
  <2> QED
    BY <1>0, <2>3, <2>4, <2>5, <2>6 DEF ReaderOK
<1>9. Unbased'
  BY <1>0 DEF Unbased, Begins
<1>10. LossIsHonest'
  <2>1. stream.epoch \in Nat
    BY DEF Typed, Streams
  <2> QED
    BY <1>0, <1>4, <1>7, <2>1 DEF LossIsHonest, Grows
<1> QED
  BY <1>1, <1>2, <1>3, <1>5, <1>6, <1>8, <1>9, <1>10

-----------------------------------------------------------------------------
(* The actions that begin a round                                          *)

\* The contents after a round that moves the book n cursors on.
LEMMA RecordedGrows ==
  ASSUME book \in Books, Cursors(contents, book), NEW n \in Nat, NEW step \in {0, 1},
         NEW b \in Books, b.epoch = book.epoch, b.next = book.next + n,
         b.content = book.content + step * n, contents' = Recorded(book, n, step)
  PROVE  /\ Cursors(contents', b) /\ Grows
         /\ \A j \in 0..n : /\ <<book.epoch, book.next + j>> \in DOMAIN contents'
                            /\ contents'[<<book.epoch, book.next + j>>] = book.content + step * j
<1> DEFINE dom == DOMAIN contents \cup {<<book.epoch, book.next + j>> : j \in 0..n}
<1>0. book.epoch \in Nat /\ book.next \in Nat /\ book.content \in Nat
  BY DEF Books
<1>1. /\ DOMAIN contents' = dom
      /\ \A c \in dom : contents'[c] = IF c \in DOMAIN contents THEN contents[c]
                                       ELSE book.content + step * (c[2] - book.next)
  BY DEF Recorded
<1>2. Grows
  BY <1>1 DEF Grows
<1>3. ASSUME NEW j \in 0..n
      PROVE  /\ <<book.epoch, book.next + j>> \in DOMAIN contents'
             /\ contents'[<<book.epoch, book.next + j>>] = book.content + step * j
  <2>1. <<book.epoch, book.next + j>> \in dom
    OBVIOUS
  <2>2. CASE j = 0
    <3>1. <<book.epoch, book.next + j>> \in DOMAIN contents
          /\ contents[<<book.epoch, book.next + j>>] = book.content
      BY <1>0, <2>2 DEF Cursors
    <3>2. step * j = 0
      BY <2>2
    <3> QED
      BY <1>0, <1>1, <2>1, <3>1, <3>2
  <2>3. CASE j # 0
    <3>1. <<book.epoch, book.next + j>> \notin DOMAIN contents
      BY <1>0, <2>3 DEF Cursors
    <3>2. <<book.epoch, book.next + j>>[2] - book.next = j
      BY <1>0
    <3> QED
      BY <1>1, <2>1, <3>1, <3>2
  <2> QED
    BY <2>2, <2>3
<1>4. Cursors(contents', b)
  <2>1. <<b.epoch, b.next>> \in DOMAIN contents' /\ contents'[<<b.epoch, b.next>>] = b.content
    BY <1>3
  <2>2. ASSUME NEW e \in Nat, NEW p \in Nat, <<e, p>> \in DOMAIN contents'
        PROVE  /\ e <= b.epoch /\ (e = b.epoch => p <= b.next)
               /\ \A q \in 0..p : <<e, q>> \in DOMAIN contents'
    <3>1. CASE <<e, p>> \in DOMAIN contents
      BY <1>0, <1>1, <3>1 DEF Cursors
    <3>2. CASE <<e, p>> \notin DOMAIN contents
      <4>1. PICK j \in 0..n : e = book.epoch /\ p = book.next + j
        BY <1>1, <2>2, <3>2
      <4>2. \A q \in 0..p : <<e, q>> \in DOMAIN contents'
        <5> TAKE q \in 0..p
        <5>1. CASE q <= book.next
          BY <1>0, <1>1, <4>1, <5>1 DEF Cursors
        <5>2. CASE q > book.next
          <6>1. q - book.next \in 0..n /\ q = book.next + (q - book.next)
            BY <1>0, <4>1, <5>2
          <6> QED
            BY <1>3, <4>1, <6>1
        <5> QED
          BY <1>0, <5>1, <5>2
      <4> QED
        BY <1>0, <4>1, <4>2
    <3> QED
      BY <3>1, <3>2
  <2> QED
    BY <2>1, <2>2 DEF Cursors
<1> QED
  BY <1>2, <1>3, <1>4

\* The contents after a base that opens the next epoch.
LEMMA RebasedGrows ==
  ASSUME book \in Books, Cursors(contents, book), NEW b \in Books, b.epoch = book.epoch + 1,
         b.next = 0, contents' = Recorded(b, 0, 1)
  PROVE  Cursors(contents', b) /\ Grows
<1> DEFINE dom == DOMAIN contents \cup {<<b.epoch, b.next + j>> : j \in 0..0}
<1>0. book.epoch \in Nat /\ b.content \in Nat
  BY DEF Books
<1>1. /\ DOMAIN contents' = dom
      /\ \A c \in dom : contents'[c] = IF c \in DOMAIN contents THEN contents[c]
                                       ELSE b.content + 1 * (c[2] - b.next)
  BY DEF Recorded
<1>2. dom = DOMAIN contents \cup {<<b.epoch, 0>>}
  OBVIOUS
<1>3. <<b.epoch, 0>> \notin DOMAIN contents
  BY <1>0 DEF Cursors
<1>4. contents'[<<b.epoch, 0>>] = b.content
  <2>1. <<b.epoch, 0>>[2] - b.next = 0
    OBVIOUS
  <2> QED
    BY <1>0, <1>1, <1>2, <1>3, <2>1
<1>5. \A e, p \in Nat : <<e, p>> \in dom =>
        /\ e <= b.epoch /\ (e = b.epoch => p <= b.next)
        /\ \A q \in 0..p : <<e, q>> \in dom
  <2> SUFFICES ASSUME NEW e \in Nat, NEW p \in Nat, <<e, p>> \in dom
               PROVE  /\ e <= b.epoch /\ (e = b.epoch => p <= b.next)
                      /\ \A q \in 0..p : <<e, q>> \in dom
    OBVIOUS
  <2>1. CASE <<e, p>> \in DOMAIN contents
    BY <1>0, <2>1 DEF Cursors
  <2>2. CASE <<e, p>> = <<b.epoch, 0>>
    BY <1>0, <1>2, <2>2
  <2> QED
    BY <1>2, <2>1, <2>2
<1> QED
  BY <1>1, <1>2, <1>4, <1>5 DEF Cursors, Grows

\* A round of one state and no other cursor: contents as they were.
LEMMA StateRound ==
  ASSUME IInv, NEW b \in Books, Begin(b, <<StateStore(b)>>), contents' = contents,
         b.epoch = book.epoch, b.next = book.next, b.content = book.content, b.based = book.based,
         live' \in BOOLEAN, retired_epoch' \in 0..b.epoch
  PROVE  Begins
<1>1. /\ round = <<>> /\ book' = b /\ round' = <<StateStore(b)>>
      /\ clock + Len(<<StateStore(b)>>) <= MaxStores
      /\ UNCHANGED <<failure, clock, slot, ring, consumer>>
  BY DEF Begin, AtRest
<1>2. StateStore(b) \in States
  BY DEF StateStore, States
<1>3. /\ Len(round') = 1 /\ round'[1].kind = "state" /\ round'[1].book = b
      /\ round' \in Seq(States \cup Events) /\ clock + Len(round') <= MaxStores
  BY <1>1, <1>2 DEF StateStore
<1>4. book \in Books /\ Cursors(contents, book) /\ (book.based <=> book.content > 0)
  BY DEF IInv, Typed, BookOK
<1>5. Cursors(contents', book') /\ (book'.based <=> book'.content > 0)
  BY <1>1, <1>4 DEF Cursors
<1>6. NotPast(book, book') /\ (book.based => book'.based)
  BY <1>1, <1>4 DEF NotPast, Books
<1>7. Grows
  BY DEF Grows
<1>8. \A k \in 1..Len(round') : k = 1
  BY <1>3
<1> QED
  BY <1>1, <1>3, <1>5, <1>6, <1>7, <1>8 DEF Begins

LEMMA BrokenBook ==
  ASSUME NEW b \in Books, NEW reason \in {"LocalLoss", "Reconnect"}
  PROVE  /\ Broken(b, reason) \in Books
         /\ Broken(b, reason).epoch = b.epoch /\ Broken(b, reason).next = b.next
         /\ Broken(b, reason).content = b.content /\ Broken(b, reason).based = b.based
         /\ Broken(b, reason).lost # Intact
  BY DEF Broken, Books, Losses, Intact

LEMMA FirstBaseBegins ==
  ASSUME IInv, FirstBase
  PROVE  Begins
<1> DEFINE to == [book EXCEPT !.based = TRUE, !.content = @ + 1]
           at == <<book.epoch, book.next>>
<1>1. /\ live /\ book.lost = Intact /\ ~book.based /\ Begin(to, <<StateStore(to)>>)
      /\ contents' = [contents EXCEPT ![at] = to.content]
      /\ UNCHANGED <<live, retired_epoch>>
  BY DEF FirstBase, Residence
<1>2. /\ book \in Books /\ Cursors(contents, book) /\ live \in BOOLEAN
      /\ retired_epoch \in 0..book.epoch /\ book.epoch \in Nat /\ book.next \in Nat
      /\ book.content \in Nat
  BY DEF IInv, Typed, BookOK, Books
<1>3. /\ to \in Books /\ to.epoch = book.epoch /\ to.next = book.next /\ to.based
      /\ to.content = book.content + 1
  <2> DEFINE t == [book EXCEPT !.based = TRUE]
  <2>1. /\ t \in Books /\ t.epoch = book.epoch /\ t.next = book.next /\ t.content = book.content
        /\ t.based = TRUE
    BY Zenon, <1>2 DEF Books
  <2>2. to = [t EXCEPT !.content = t.content + 1]
    BY <1>2 DEF Books
  <2> HIDE DEF t, to
  <2> QED
    BY <1>2, <2>1, <2>2 DEF Books
<1> HIDE DEF to
<1>4. /\ round = <<>> /\ book' = to /\ round' = <<StateStore(to)>>
      /\ clock + Len(<<StateStore(to)>>) <= MaxStores
      /\ UNCHANGED <<failure, clock, slot, ring, consumer>>
  BY <1>1 DEF Begin, AtRest
<1>5. StateStore(to) \in States
  BY <1>3 DEF StateStore, States
<1>6. /\ Len(round') = 1 /\ round'[1].kind = "state" /\ round'[1].book = to
      /\ round' \in Seq(States \cup Events) /\ clock + Len(round') <= MaxStores
  BY <1>4, <1>5 DEF StateStore
<1>7. at \in DOMAIN contents
  BY <1>2 DEF Cursors
<1>8. /\ DOMAIN contents' = DOMAIN contents /\ contents'[at] = to.content
      /\ \A c \in DOMAIN contents : c # at => contents'[c] = contents[c]
  BY <1>1, <1>7
<1>9. Cursors(contents', book')
  BY <1>2, <1>3, <1>4, <1>7, <1>8 DEF Cursors
<1>10. Grows
  BY <1>1, <1>8 DEF Grows
<1>11. NotPast(book, book') /\ (book'.based <=> book'.content > 0)
  BY <1>2, <1>3, <1>4 DEF NotPast
<1>12. live' \in BOOLEAN /\ retired_epoch' \in 0..book'.epoch
  BY <1>1, <1>2, <1>3, <1>4
<1>13. \A k \in 1..Len(round') : k = 1
  BY <1>6
<1> QED
  BY <1>3, <1>4, <1>6, <1>9, <1>10, <1>11, <1>12, <1>13 DEF Begins

LEMMA CommitBegins ==
  ASSUME IInv, NEW n \in 0..MaxBatch, Commit(n)
  PROVE  Begins
<1> DEFINE to == [book EXCEPT !.next = @ + n, !.content = @ + n]
           event(j) == EventStore(book.epoch, book.next + j - 1, book.content + j - 1,
                                  book.content + j)
           events == [j \in 1..n |-> event(j)]
<1>1. /\ live /\ book.lost = Intact /\ book.based /\ Begin(to, Append(events, StateStore(to)))
      /\ contents' = Recorded(book, n, 1)
      /\ UNCHANGED <<live, retired_epoch>>
  BY DEF Commit, Residence
<1>2. /\ book \in Books /\ Cursors(contents, book) /\ live \in BOOLEAN /\ n \in Nat
      /\ retired_epoch \in 0..book.epoch /\ book.epoch \in Nat /\ book.next \in Nat
      /\ book.content \in Nat /\ book.content > 0
  BY <1>1, EventRingAssumption DEF IInv, Typed, BookOK, Books
<1>3. /\ to \in Books /\ to.epoch = book.epoch /\ to.next = book.next + n /\ to.based
      /\ to.content = book.content + n
  <2> DEFINE t == [book EXCEPT !.next = @ + n]
  <2>1. /\ t \in Books /\ t.epoch = book.epoch /\ t.next = book.next + n
        /\ t.content = book.content /\ t.based = book.based
    BY <1>2 DEF Books
  <2>2. to = [t EXCEPT !.content = t.content + n]
    BY <1>2 DEF Books
  <2> HIDE DEF t, to
  <2>3. to \in Books /\ to.epoch = t.epoch /\ to.next = t.next /\ to.based = t.based
    BY <1>2, <2>1, <2>2 DEF Books
  <2>4. to.content = t.content + n
    BY <2>1, <2>2 DEF Books
  <2> QED
    BY <1>1, <2>1, <2>3, <2>4
<1>4. \A j \in 1..n : event(j) \in Events
  BY <1>2 DEF EventStore, Events
<1>5. events \in Seq(States \cup Events) /\ Len(events) = n /\ \A j \in 1..n : events[j] = event(j)
  BY <1>2, <1>4
<1> HIDE DEF to, events, event
<1>6. /\ round = <<>> /\ book' = to /\ round' = Append(events, StateStore(to))
      /\ clock + Len(Append(events, StateStore(to))) <= MaxStores
      /\ UNCHANGED <<failure, clock, slot, ring, consumer>>
  BY <1>1 DEF Begin, AtRest
<1>7. StateStore(to) \in States
  BY <1>3 DEF StateStore, States
<1>8. /\ round' \in Seq(States \cup Events) /\ Len(round') = n + 1
      /\ clock + Len(round') <= MaxStores
      /\ round'[n + 1] = StateStore(to) /\ \A j \in 1..n : round'[j] = event(j)
  BY <1>2, <1>5, <1>6, <1>7
<1>9. /\ Cursors(contents', to) /\ Grows
      /\ \A j \in 0..n : /\ <<book.epoch, book.next + j>> \in DOMAIN contents'
                         /\ contents'[<<book.epoch, book.next + j>>] = book.content + 1 * j
  <2>1. to.content = book.content + 1 * n
    BY <1>2, <1>3
  <2> QED
    BY <1>1, <1>2, <1>3, <2>1, RecordedGrows
<1>10. ASSUME NEW j \in 1..n
       PROVE  event(j).kind = "event" /\ EventOK(contents', event(j))
  <2>1. /\ event(j).kind = "event" /\ event(j).epoch = book.epoch
        /\ event(j).position = book.next + (j - 1) /\ event(j).from = book.content + (j - 1)
        /\ event(j).to = book.content + j
    BY <1>2 DEF event, EventStore
  <2>2. j - 1 \in 0..n /\ j \in 0..n /\ event(j).position + 1 = book.next + j
    BY <1>2, <2>1
  <2>3. /\ <<event(j).epoch, event(j).position>> \in DOMAIN contents'
        /\ contents'[<<event(j).epoch, event(j).position>>] = event(j).from
    BY <1>2, <1>9, <2>1, <2>2
  <2>4. /\ <<event(j).epoch, event(j).position + 1>> \in DOMAIN contents'
        /\ contents'[<<event(j).epoch, event(j).position + 1>>] = event(j).to
    BY <1>2, <1>9, <2>1, <2>2
  <2> QED
    BY <1>2, <2>1, <2>3, <2>4 DEF EventOK
<1>11. StateStore(to).kind = "state" /\ StateStore(to).book = to
  BY DEF StateStore
<1>12. \A k \in 1..Len(round') :
         /\ round'[k].kind = "state" => round'[k].book = book'
         /\ round'[k].kind = "event" => EventOK(contents', round'[k])
  <2> SUFFICES ASSUME NEW k \in 1..Len(round')
               PROVE  /\ round'[k].kind = "state" => round'[k].book = book'
                      /\ round'[k].kind = "event" => EventOK(contents', round'[k])
    OBVIOUS
  <2>1. CASE k = n + 1
    BY <1>6, <1>8, <1>11, <2>1
  <2>2. CASE k \in 1..n
    BY <1>8, <1>10, <2>2
  <2> QED
    BY <1>2, <1>8, <2>1, <2>2
<1>13. NotPast(book, book') /\ (book'.based <=> book'.content > 0)
  BY <1>2, <1>3, <1>6 DEF NotPast
<1>14. live' \in BOOLEAN /\ retired_epoch' \in 0..book'.epoch
  BY <1>1, <1>2, <1>3, <1>6
<1> QED
  BY <1>3, <1>6, <1>8, <1>9, <1>12, <1>13, <1>14 DEF Begins

LEMMA ResolveBegins ==
  ASSUME IInv, Resolve
  PROVE  Begins
<1> DEFINE to == [book EXCEPT !.next = @ + 1]
           event == EventStore(book.epoch, book.next, book.content, book.content)
<1>1. /\ live /\ book.lost = Intact /\ Begin(to, <<event, StateStore(to)>>)
      /\ contents' = Recorded(book, 1, 0)
      /\ UNCHANGED <<live, retired_epoch>>
  BY DEF Resolve, Residence
<1>2. /\ book \in Books /\ Cursors(contents, book) /\ live \in BOOLEAN
      /\ retired_epoch \in 0..book.epoch /\ book.epoch \in Nat /\ book.next \in Nat
      /\ book.content \in Nat /\ (book.based <=> book.content > 0)
  BY DEF IInv, Typed, BookOK, Books
<1>3. /\ to \in Books /\ to.epoch = book.epoch /\ to.next = book.next + 1
      /\ to.based = book.based /\ to.content = book.content
  BY <1>2 DEF Books
<1>4. /\ event \in Events /\ event.kind = "event" /\ event.epoch = book.epoch
      /\ event.position = book.next /\ event.from = book.content /\ event.to = book.content
  BY <1>2 DEF EventStore, Events
<1> HIDE DEF to, event
<1>5. /\ round = <<>> /\ book' = to /\ round' = <<event, StateStore(to)>>
      /\ clock + Len(<<event, StateStore(to)>>) <= MaxStores
      /\ UNCHANGED <<failure, clock, slot, ring, consumer>>
  BY <1>1 DEF Begin, AtRest
<1>6. StateStore(to) \in States /\ StateStore(to).kind = "state" /\ StateStore(to).book = to
  BY <1>3 DEF StateStore, States
<1>7. /\ round' \in Seq(States \cup Events) /\ Len(round') = 2
      /\ clock + Len(round') <= MaxStores /\ round'[1] = event /\ round'[2] = StateStore(to)
  BY <1>4, <1>5, <1>6
<1>8. /\ Cursors(contents', to) /\ Grows
      /\ \A j \in 0..1 : /\ <<book.epoch, book.next + j>> \in DOMAIN contents'
                         /\ contents'[<<book.epoch, book.next + j>>] = book.content + 0 * j
  <2>1. to.content = book.content + 0 * 1
    BY <1>2, <1>3
  <2> QED
    BY <1>1, <1>2, <1>3, <2>1, RecordedGrows
<1>9. EventOK(contents', event)
  <2>1. /\ <<book.epoch, book.next + 0>> \in DOMAIN contents'
        /\ contents'[<<book.epoch, book.next + 0>>] = book.content + 0 * 0
        /\ <<book.epoch, book.next + 1>> \in DOMAIN contents'
        /\ contents'[<<book.epoch, book.next + 1>>] = book.content + 0 * 1
    BY <1>8
  <2>2. book.next + 0 = book.next /\ book.content + 0 * 0 = book.content
        /\ book.content + 0 * 1 = book.content
    BY <1>2
  <2> QED
    BY <1>2, <1>4, <2>1, <2>2 DEF EventOK
<1>10. \A k \in 1..Len(round') : k = 1 \/ k = 2
  BY <1>7
<1>11. NotPast(book, book') /\ (book'.based <=> book'.content > 0)
  BY <1>2, <1>3, <1>5 DEF NotPast
<1>12. live' \in BOOLEAN /\ retired_epoch' \in 0..book'.epoch
  BY <1>1, <1>2, <1>3, <1>5
<1>13. ~book'.based => event.from = 0
  BY <1>2, <1>3, <1>4, <1>5
<1> QED
  BY <1>3, <1>4, <1>5, <1>6, <1>7, <1>8, <1>9, <1>10, <1>11, <1>12, <1>13 DEF Begins

LEMMA RebaseBegins ==
  ASSUME IInv, Rebase
  PROVE  Begins
<1> DEFINE to == [epoch |-> book.epoch + 1, next |-> 0, lost |-> Intact, based |-> TRUE,
                  content |-> book.content + 1]
<1>1. /\ Begin(to, <<StateStore(to)>>) /\ contents' = Recorded(to, 0, 1)
      /\ UNCHANGED <<live, retired_epoch>>
  BY DEF Rebase, Residence
<1>2. /\ book \in Books /\ Cursors(contents, book) /\ live \in BOOLEAN
      /\ retired_epoch \in 0..book.epoch /\ book.epoch \in Nat /\ book.next \in Nat
      /\ book.content \in Nat
  BY DEF IInv, Typed, BookOK, Books
<1>3. /\ to \in Books /\ to.epoch = book.epoch + 1 /\ to.next = 0 /\ to.based
      /\ to.content = book.content + 1
  BY <1>2 DEF Books, Losses
<1> HIDE DEF to
<1>4. /\ round = <<>> /\ book' = to /\ round' = <<StateStore(to)>>
      /\ clock + Len(<<StateStore(to)>>) <= MaxStores
      /\ UNCHANGED <<failure, clock, slot, ring, consumer>>
  BY <1>1 DEF Begin, AtRest
<1>5. StateStore(to) \in States
  BY <1>3 DEF StateStore, States
<1>6. /\ Len(round') = 1 /\ round'[1].kind = "state" /\ round'[1].book = to
      /\ round' \in Seq(States \cup Events) /\ clock + Len(round') <= MaxStores
  BY <1>4, <1>5 DEF StateStore
<1>7. Cursors(contents', to) /\ Grows
  BY <1>1, <1>2, <1>3, RebasedGrows
<1>8. NotPast(book, book') /\ (book'.based <=> book'.content > 0)
  BY <1>2, <1>3, <1>4 DEF NotPast
<1>9. live' \in BOOLEAN /\ retired_epoch' \in 0..book'.epoch
  BY <1>1, <1>2, <1>3, <1>4
<1>10. \A k \in 1..Len(round') : k = 1
  BY <1>6
<1> QED
  BY <1>3, <1>4, <1>6, <1>7, <1>8, <1>9, <1>10 DEF Begins

\* The actions that only restate the book begin a round of one state.
LEMMA RestatesBegin ==
  ASSUME IInv, Lose \/ Retire \/ Resume
  PROVE  Begins
<1>1. /\ book \in Books /\ live \in BOOLEAN /\ retired_epoch \in 0..book.epoch /\ book.epoch \in Nat
  BY DEF IInv, Typed, Books
<1>2. CASE Lose
  <2>1. PICK reason \in {"LocalLoss", "Reconnect"} :
          Begin(Broken(book, reason), <<StateStore(Broken(book, reason))>>)
    BY <1>2 DEF Lose
  <2>2. contents' = contents /\ live' = live /\ retired_epoch' = retired_epoch
    BY <1>2 DEF Lose, Residence
  <2> QED
    BY <1>1, <2>1, <2>2, BrokenBook, StateRound
<1>3. CASE Retire
  <2>1. /\ Begin(book, <<StateStore(book)>>) /\ contents' = contents /\ live' = FALSE
        /\ retired_epoch' = book.epoch
    BY <1>3 DEF Retire
  <2>2. retired_epoch' \in 0..book.epoch
    BY <1>1, <2>1
  <2>3. live' \in BOOLEAN
    BY <2>1, Zenon
  <2> QED
    BY <1>1, <2>1, <2>2, <2>3, StateRound
<1>4. CASE Resume
  <2> DEFINE to == Broken(book, "Reconnect")
  <2>1. /\ Begin(to, <<StateStore(to)>>) /\ contents' = contents /\ live' = TRUE
        /\ retired_epoch' = 0
    BY <1>4 DEF Resume
  <2>2. /\ to \in Books /\ to.epoch = book.epoch /\ to.next = book.next
        /\ to.content = book.content /\ to.based = book.based
    BY <1>1, BrokenBook
  <2> HIDE DEF to
  <2>3. retired_epoch' \in 0..to.epoch /\ live' \in BOOLEAN
    BY <1>1, <2>1, <2>2
  <2> QED
    BY <2>1, <2>2, <2>3, StateRound
<1> QED
  BY <1>2, <1>3, <1>4

-----------------------------------------------------------------------------
(* The writer publishes                                                    *)

\* What is left of the round keeps its facts.
LEMMA RoundTail ==
  ASSUME IInv, round # <<>>, UNCHANGED <<book, contents>>, round' = Tail(round)
  PROVE  /\ RoundOK' /\ round' \in Seq(States \cup Events) /\ Len(round') = Len(round) - 1
         /\ Len(round) \in Nat /\ Len(round) > 0 /\ Head(round) = round[1] /\ 1 \in 1..Len(round)
         /\ \A i \in 1..Len(round') : round'[i] = round[i + 1] /\ i + 1 \in 1..Len(round)
<1>1. round \in Seq(States \cup Events)
  BY DEF IInv, Typed
<1>2. /\ round' \in Seq(States \cup Events) /\ Len(round') = Len(round) - 1
      /\ Len(round) \in Nat /\ Len(round) > 0 /\ Head(round) = round[1] /\ 1 \in 1..Len(round)
      /\ \A i \in 1..Len(round') : round'[i] = round[i + 1] /\ i + 1 \in 1..Len(round)
  BY <1>1
<1>3. \A i \in 1..Len(round) :
        /\ round[i].kind = "state" => round[i].book = book
        /\ round[i].kind = "event" => EventOK(contents, round[i])
  BY DEF IInv, RoundOK
<1>4. RoundOK'
  BY <1>2, <1>3 DEF RoundOK
<1> QED
  BY <1>2, <1>4

\* A state is published: it is the book's own, so it is behind no earlier one.
LEMMA PublishState ==
  ASSUME IInv, Publish, Head(round).kind = "state"
  PROVE  IInv'
<1> DEFINE new == [at |-> clock + 1, book |-> Head(round).book]
<1>1. /\ round # <<>> /\ round' = Tail(round) /\ clock' = clock + 1
      /\ slot' = Append(slot, new) /\ ring' = ring
      /\ UNCHANGED <<book, live, retired_epoch, failure, contents, stream, read, pc, seen>>
  BY DEF Publish, Residence, consumer
<1>2. /\ RoundOK' /\ round' \in Seq(States \cup Events) /\ Len(round') = Len(round) - 1
      /\ Len(round) \in Nat /\ Head(round) = round[1] /\ 1 \in 1..Len(round)
      /\ \A i \in 1..Len(round') : round'[i] = round[i + 1] /\ i + 1 \in 1..Len(round)
  BY <1>1, RoundTail
<1>3. /\ Typed /\ BookOK /\ RoundOK /\ SlotOK /\ RingOK /\ ReaderOK /\ Unbased /\ LossIsHonest
  BY DEF IInv
<1>4. /\ Head(round).book = book /\ book \in Books /\ clock \in Nat /\ seen \in 0..clock
      /\ clock + Len(round) <= MaxStores /\ slot \in Seq(Kept)
  BY <1>2, <1>3 DEF RoundOK, Typed
<1>5. new \in Kept /\ new.book = book /\ new.at = clock + 1
  BY <1>4 DEF Kept
<1> HIDE DEF new
<1>6. /\ slot' \in Seq(Kept) /\ Len(slot') = Len(slot) + 1 /\ Len(slot) \in Nat
      /\ slot'[Len(slot) + 1] = new /\ \A i \in 1..Len(slot) : slot'[i] = slot[i]
  BY <1>1, <1>4, <1>5
<1>7. Typed'
  <2>1. clock' \in Nat /\ clock' + Len(round') <= MaxStores /\ seen' \in 0..clock'
    BY <1>1, <1>2, <1>4, EventRingAssumption
  <2> QED
    BY <1>1, <1>2, <1>3, <1>6, <2>1 DEF Typed
<1>8. BookOK' /\ RingOK'
  <2>1. \A m \in Slots : \A i \in 1..Len(ring[m]) : ring[m][i].at <= clock + 1
    <3>1. \A m \in Slots : \A i \in 1..Len(ring[m]) : ring[m][i].at \in Nat
      BY <1>3, Elements
    <3> QED
      BY <1>3, <1>4, <3>1 DEF RingOK
  <2> QED
    BY <1>1, <1>3, <2>1 DEF BookOK, RingOK
<1>9. SlotOK'
  <2>1. ASSUME NEW i \in 1..Len(slot')
        PROVE  /\ StateOK(contents, slot'[i].book) /\ NotPast(slot'[i].book, book)
               /\ slot'[i].at <= clock + 1
    <3>1. CASE i \in 1..Len(slot)
      <4>1. slot[i].at \in Nat /\ slot[i].at <= clock
        BY <1>3, <3>1, Elements DEF SlotOK
      <4> QED
        BY <1>3, <1>4, <1>6, <3>1, <4>1 DEF SlotOK
    <3>2. CASE i = Len(slot) + 1
      <4>1. StateOK(contents, book)
        BY <1>3 DEF BookOK, Cursors, StateOK
      <4>2. NotPast(book, book)
        BY <1>4 DEF NotPast, Books
      <4> QED
        BY <1>4, <1>5, <1>6, <3>2, <4>1, <4>2
    <3> QED
      BY <1>6, <3>1, <3>2
  <2>2. ASSUME NEW i \in 1..Len(slot'), NEW j \in 1..Len(slot'), i < j
        PROVE  NotPast(slot'[i].book, slot'[j].book) /\ slot'[i].at <= slot'[j].at
    <3>1. i \in 1..Len(slot)
      BY <1>6, <2>2
    <3>2. CASE j \in 1..Len(slot)
      BY <1>3, <1>6, <2>2, <3>1, <3>2 DEF SlotOK
    <3>3. CASE j = Len(slot) + 1
      BY <1>5, <1>6, <2>1, <3>3
    <3> QED
      BY <1>6, <3>2, <3>3
  <2> QED
    BY <1>1, <2>1, <2>2 DEF SlotOK
<1>10. ASSUME NEW e \in Nat, e <= book.epoch, Behind(e, slot, seen)
       PROVE  /\ \A i \in 1..Len(slot') :
                   slot'[i].book.epoch < e => i < Len(slot') /\ slot'[i + 1].at <= seen
  <2> SUFFICES ASSUME NEW i \in 1..Len(slot'), slot'[i].book.epoch < e
               PROVE  i < Len(slot') /\ slot'[i + 1].at <= seen
    OBVIOUS
  <2>1. book.epoch \in Nat
    BY <1>4 DEF Books
  <2>2. i # Len(slot) + 1
    BY <1>5, <1>6, <1>10, <2>1
  <2>3. i \in 1..Len(slot)
    BY <1>6, <2>2
  <2>4. i < Len(slot) /\ slot[i + 1].at <= seen
    BY <1>6, <1>10, <2>3 DEF Behind
  <2>5. i + 1 \in 1..Len(slot)
    BY <1>6, <2>3, <2>4
  <2> QED
    BY <1>6, <2>4, <2>5
<1>11. ReaderOK'
  <2>1. stream.epoch \in Nat /\ read.epoch \in Nat
    BY <1>3 DEF Typed, Streams, Books
  <2>2. stream.attached => stream.epoch <= book.epoch /\ Behind(stream'.epoch, slot', seen')
    <3>1. SUFFICES ASSUME stream.attached PROVE stream.epoch <= book.epoch /\ Behind(stream'.epoch, slot', seen')
      OBVIOUS
    <3>2. stream.epoch <= book.epoch /\ Behind(stream.epoch, slot, seen)
      BY <1>3, <3>1 DEF ReaderOK
    <3>3. \A i \in 1..Len(slot') :
            slot'[i].book.epoch < stream.epoch => i < Len(slot') /\ slot'[i + 1].at <= seen
      BY <1>10, <2>1, <3>2
    <3> QED
      BY <1>1, <3>2, <3>3 DEF Behind
  <2>3. pc = "probing" => read.epoch <= book.epoch /\ Behind(read'.epoch, slot', seen')
    <3>1. SUFFICES ASSUME pc = "probing" PROVE read.epoch <= book.epoch /\ Behind(read'.epoch, slot', seen')
      OBVIOUS
    <3>2. read.epoch <= book.epoch /\ Behind(read.epoch, slot, seen)
      BY <1>3, <3>1 DEF ReaderOK
    <3>3. \A i \in 1..Len(slot') :
            slot'[i].book.epoch < read.epoch => i < Len(slot') /\ slot'[i + 1].at <= seen
      BY <1>10, <2>1, <3>2
    <3> QED
      BY <1>1, <3>2, <3>3 DEF Behind
  <2> QED
    BY <1>1, <1>3, <2>2, <2>3 DEF ReaderOK
<1>12. Unbased'
  <2>1. SUFFICES ASSUME ~book.based PROVE Unbased'
    BY <1>1 DEF Unbased
  <2>2. \A i \in 1..Len(slot') : ~slot'[i].book.based
    BY <1>3, <1>5, <1>6, <2>1 DEF Unbased
  <2>3. \A i \in 1..Len(round') : round'[i].kind = "event" => round'[i].from = 0
    BY <1>2, <1>3, <2>1 DEF Unbased
  <2> QED
    BY <1>1, <1>3, <2>1, <2>2, <2>3 DEF Unbased
<1>13. LossIsHonest'
  BY <1>1, <1>3 DEF LossIsHonest
<1> QED
  BY <1>2, <1>7, <1>8, <1>9, <1>11, <1>12, <1>13 DEF IInv

\* An event is published into the slot its position names.
LEMMA PublishEvent ==
  ASSUME IInv, Publish, Head(round).kind = "event"
  PROVE  IInv'
<1> DEFINE store == Head(round)
           k == SlotOf(store.position)
           new == [at |-> clock + 1, event |-> store]
<1>1. /\ round # <<>> /\ round' = Tail(round) /\ clock' = clock + 1
      /\ slot' = slot /\ ring' = [ring EXCEPT ![k] = Append(@, new)]
      /\ UNCHANGED <<book, live, retired_epoch, failure, contents, stream, read, pc, seen>>
  BY DEF Publish, Residence, consumer
<1>2. /\ RoundOK' /\ round' \in Seq(States \cup Events) /\ Len(round') = Len(round) - 1
      /\ Len(round) \in Nat /\ store = round[1] /\ 1 \in 1..Len(round)
      /\ \A i \in 1..Len(round') : round'[i] = round[i + 1] /\ i + 1 \in 1..Len(round)
  BY <1>1, RoundTail
<1>3. /\ Typed /\ BookOK /\ RoundOK /\ SlotOK /\ RingOK /\ ReaderOK /\ Unbased /\ LossIsHonest
  BY DEF IInv
<1>4. /\ clock \in Nat /\ seen \in 0..clock /\ clock + Len(round) <= MaxStores
      /\ ring \in [Slots -> Seq(KeptEvents)]
  BY <1>3 DEF Typed
<1>5. store \in Events /\ EventOK(contents, store) /\ (~book.based => store.from = 0)
  <2>1. store \in States \cup Events
    BY <1>2, <1>3, Elements
  <2>2. store \notin States
    BY DEF States
  <2> QED
    BY <1>2, <1>3, <2>1, <2>2 DEF RoundOK, Unbased
<1>6. k \in Slots
  <2>1. store.position \in Nat
    BY <1>5 DEF Events
  <2> QED
    BY <2>1, EventRingAssumption DEF SlotOf, Slots
<1>7. new \in KeptEvents /\ new.event = store /\ SlotOf(new.event.position) = k /\ new.at = clock + 1
  BY <1>4, <1>5 DEF KeptEvents
<1> HIDE DEF new, store, k
<1>8. /\ ring' \in [Slots -> Seq(KeptEvents)]
      /\ ring'[k] = Append(ring[k], new) /\ \A m \in Slots : m # k => ring'[m] = ring[m]
      /\ ring[k] \in Seq(KeptEvents)
  <2>1. ring[k] \in Seq(KeptEvents)
    BY <1>4, <1>6
  <2>2. Append(ring[k], new) \in Seq(KeptEvents)
    BY <1>7, <2>1
  <2> QED
    BY <1>1, <1>4, <1>6, <2>1, <2>2
<1>9. /\ Len(ring'[k]) = Len(ring[k]) + 1 /\ Len(ring[k]) \in Nat
      /\ ring'[k][Len(ring[k]) + 1] = new /\ \A i \in 1..Len(ring[k]) : ring'[k][i] = ring[k][i]
  BY <1>7, <1>8
<1>10. Typed'
  <2>1. clock' \in Nat /\ clock' + Len(round') <= MaxStores /\ seen' \in 0..clock'
    BY <1>1, <1>2, <1>4, EventRingAssumption
  <2> QED
    BY <1>1, <1>2, <1>3, <1>8, <2>1 DEF Typed
<1>11. BookOK'
  BY <1>1, <1>3 DEF BookOK
<1>12. SlotOK'
  <2>1. \A i \in 1..Len(slot) : slot[i].at <= clock + 1
    BY <1>3, <1>4, Elements DEF SlotOK
  <2> QED
    BY <1>1, <1>3, <2>1 DEF SlotOK
<1>13. ASSUME NEW m \in Slots, NEW i \in 1..Len(ring'[m])
       PROVE  \/ i \in 1..Len(ring[m]) /\ ring'[m][i] = ring[m][i]
              \/ m = k /\ ring'[m][i] = new
  <2>1. CASE m = k
    BY <1>9, <2>1
  <2>2. CASE m # k
    BY <1>8, <2>2
  <2> QED
    BY <2>1, <2>2
<1>14. RingOK'
  <2>1. ASSUME NEW m \in Slots, NEW i \in 1..Len(ring'[m])
        PROVE  /\ EventOK(contents, ring'[m][i].event) /\ SlotOf(ring'[m][i].event.position) = m
               /\ ring'[m][i].at <= clock + 1
    <3>1. CASE i \in 1..Len(ring[m]) /\ ring'[m][i] = ring[m][i]
      <4>1. ring[m][i].at \in Nat
        BY <1>3, <3>1, Elements
      <4> QED
        BY <1>3, <1>4, <3>1, <4>1 DEF RingOK
    <3>2. CASE m = k /\ ring'[m][i] = new
      BY <1>4, <1>5, <1>7, <3>2
    <3> QED
      BY <1>13, <3>1, <3>2
  <2> QED
    BY <1>1, <2>1 DEF RingOK
<1>15. ReaderOK'
  BY <1>1, <1>3 DEF ReaderOK, Behind
<1>16. Unbased'
  <2>1. SUFFICES ASSUME ~book.based PROVE Unbased'
    BY <1>1 DEF Unbased
  <2>2. ASSUME NEW m \in Slots, NEW i \in 1..Len(ring'[m])
        PROVE  ring'[m][i].event.from = 0
    <3>1. \A n \in Slots : \A j \in 1..Len(ring[n]) : ring[n][j].event.from = 0
      BY <1>3, <2>1 DEF Unbased
    <3>2. new.event.from = 0
      BY <1>5, <1>7, <2>1
    <3> QED
      BY <1>13, <3>1, <3>2
  <2>3. \A i \in 1..Len(round') : round'[i].kind = "event" => round'[i].from = 0
    BY <1>2, <1>3, <2>1 DEF Unbased
  <2> QED
    BY <1>1, <1>3, <2>1, <2>2, <2>3 DEF Unbased
<1>17. LossIsHonest'
  BY <1>1, <1>3 DEF LossIsHonest
<1> QED
  BY <1>2, <1>10, <1>11, <1>12, <1>14, <1>15, <1>16, <1>17 DEF IInv

LEMMA RefuseKeeps ==
  ASSUME IInv, Refuse
  PROVE  IInv'
<1>1. /\ round' = <<>> /\ failure' = TRUE /\ round # <<>>
      /\ UNCHANGED <<book, live, retired_epoch, clock, slot, ring, contents, stream, read, pc, seen>>
  BY DEF Refuse, Residence, consumer
<1>2. Typed'
  <2>1. round' \in Seq(States \cup Events) /\ Len(round') = 0 /\ Len(round) \in Nat
    BY <1>1 DEF IInv, Typed
  <2>2. clock \in Nat /\ clock + Len(round') <= MaxStores
    BY <2>1, EventRingAssumption DEF IInv, Typed
  <2>3. failure' \in BOOLEAN
    BY <1>1, Zenon
  <2> QED
    BY <1>1, <2>1, <2>2, <2>3 DEF IInv, Typed
<1>3. RoundOK'
  BY <1>1 DEF RoundOK
<1>4. BookOK' /\ SlotOK' /\ RingOK'
  BY <1>1 DEF IInv, BookOK, SlotOK, RingOK
<1>5. ReaderOK' /\ LossIsHonest'
  BY <1>1 DEF IInv, ReaderOK, Behind, LossIsHonest
<1>6. Unbased'
  BY <1>1 DEF IInv, Unbased
<1> QED
  BY <1>2, <1>3, <1>4, <1>5, <1>6 DEF IInv

-----------------------------------------------------------------------------
(* The consumer                                                            *)

\* A consumer's step that leaves the writer alone and reads no further back keeps the rest.
LEMMA ReaderMoves ==
  ASSUME IInv, UNCHANGED writer, seen' \in seen..clock, stream' \in Streams, read' \in Books,
         pc' \in {"idle", "probing", "polling"}, ReaderOK',
         book.based \/ ((stream'.attached => ~stream'.based) /\ (pc' = "probing" => ~read'.based)),
         LossIsHonest'
  PROVE  IInv'
<1>1. UNCHANGED <<book, live, retired_epoch, failure, round, clock, slot, ring, contents>>
  BY DEF writer
<1>2. Typed'
  <2>1. seen \in 0..clock /\ clock \in Nat
    BY DEF IInv, Typed
  <2>2. seen' \in 0..clock
    BY <2>1
  <2> QED
    BY <1>1, <2>2 DEF IInv, Typed
<1>3. BookOK' /\ RoundOK' /\ SlotOK' /\ RingOK'
  BY <1>1 DEF IInv, BookOK, RoundOK, SlotOK, RingOK
<1>4. Unbased'
  BY ZenonT(30), <1>1 DEF IInv, Unbased
<1> QED
  BY <1>2, <1>3, <1>4 DEF IInv

\* Once a state is read, those of earlier epochs are behind.
LEMMA ReadIsAhead ==
  ASSUME IInv, UNCHANGED writer, NEW i \in Readable(slot) \ {0}, Sees(slot, i)
  PROVE  /\ i \in 1..Len(slot) /\ slot[i].book \in Books
         /\ seen' \in seen..clock
         /\ Behind(slot[i].book.epoch, slot', seen')
         /\ \A e \in Nat : Behind(e, slot, seen) => Behind(e, slot', seen') /\ e <= slot[i].book.epoch
<1>1. /\ slot' = slot /\ clock' = clock
  BY DEF writer
<1>2. /\ slot \in Seq(Kept) /\ Len(slot) \in Nat /\ seen \in 0..clock /\ clock \in Nat
  BY DEF IInv, Typed
<1>3. i \in 1..Len(slot) /\ (i = Len(slot) \/ slot[i + 1].at > seen)
  BY <1>2 DEF Readable
<1>4. /\ \A j \in 1..Len(slot) : slot[j].book \in Books /\ slot[j].at \in Nat
      /\ \A j \in 1..Len(slot) : slot[j].book.epoch \in Nat
  <2>0. Typed
    BY Zenon DEF IInv
  <2>1. \A j \in 1..Len(slot) : slot[j].book \in Books /\ slot[j].at \in Nat
    BY <2>0, Elements, Zenon
  <2> QED
    BY <2>1 DEF Books
<1>5. \A j \in 1..Len(slot) : slot[j].at <= clock
  BY DEF IInv, SlotOK
<1>6. \A j, m \in 1..Len(slot) : j < m =>
        slot[j].at <= slot[m].at /\ slot[j].book.epoch <= slot[m].book.epoch
  BY <1>4 DEF IInv, SlotOK, NotPast
<1>7. seen' \in seen..clock /\ slot[i].at <= seen'
  BY <1>2, <1>3, <1>4, <1>5 DEF Sees
<1>8. ASSUME NEW j \in 1..Len(slot), slot[j].book.epoch < slot[i].book.epoch
      PROVE  j < Len(slot) /\ slot[j + 1].at <= seen'
  <2>1. j < i
    <3>1. j = i \/ i < j \/ j < i
      BY <1>3
    <3>2. ~(i < j)
      BY <1>3, <1>4, <1>6, <1>8
    <3> QED
      BY <1>3, <1>4, <1>8, <3>1, <3>2
  <2>2. j + 1 \in 1..Len(slot) /\ (j + 1 = i \/ j + 1 < i)
    BY <1>2, <1>3, <2>1
  <2>3. slot[j + 1].at <= slot[i].at /\ slot[j + 1].at \in Nat /\ slot[i].at \in Nat
    BY <1>3, <1>4, <1>6, <2>2
  <2> QED
    BY <1>2, <1>3, <1>7, <2>1, <2>2, <2>3
<1>9. Behind(slot[i].book.epoch, slot', seen')
  <2>1. \A j \in 1..Len(slot) :
          slot[j].book.epoch < slot[i].book.epoch => j < Len(slot) /\ slot[j + 1].at <= seen'
    BY <1>8
  <2>2. i' = i
    OBVIOUS
  <2> QED
    BY <1>1, <2>1, <2>2 DEF Behind
<1>10. ASSUME NEW e \in Nat, Behind(e, slot, seen)
       PROVE  Behind(e, slot', seen') /\ e <= slot[i].book.epoch
  <2>1. \A j \in 1..Len(slot) : slot[j].book.epoch < e => j < Len(slot) /\ slot[j + 1].at <= seen
    BY <1>10 DEF Behind
  <2>2. \A j \in 1..Len(slot) : slot[j].book.epoch < e => j < Len(slot) /\ slot[j + 1].at <= seen'
    <3> SUFFICES ASSUME NEW j \in 1..Len(slot), slot[j].book.epoch < e
                 PROVE  j < Len(slot) /\ slot[j + 1].at <= seen'
      OBVIOUS
    <3>1. j < Len(slot) /\ slot[j + 1].at <= seen
      BY <2>1
    <3>2. j + 1 \in 1..Len(slot) /\ slot[j + 1].at \in Nat
      BY <1>2, <1>4, <3>1
    <3> QED
      BY <1>2, <1>7, <3>1, <3>2
  <2>3. ~(slot[i].book.epoch < e)
    <3>1. SUFFICES ASSUME slot[i].book.epoch < e PROVE FALSE
      OBVIOUS
    <3>2. i < Len(slot) /\ slot[i + 1].at <= seen
      BY <1>3, <2>1, <3>1
    <3>3. i + 1 \in 1..Len(slot) /\ slot[i + 1].at \in Nat /\ slot[i + 1].at > seen
      BY <1>2, <1>3, <1>4, <3>2
    <3> QED
      BY <1>2, <3>2, <3>3
  <2> QED
    BY <1>1, <1>3, <1>4, <2>2, <2>3 DEF Behind
<1> QED
  BY <1>3, <1>4, <1>7, <1>9, <1>10

LEMMA AttachStateKeeps ==
  ASSUME IInv, AttachState
  PROVE  IInv'
<1>1. PICK i \in Readable(slot) \ {0} :
        /\ Sees(slot, i)
        /\ IF slot[i].book.lost = Intact
           THEN pc' = "probing" /\ read' = slot[i].book /\ UNCHANGED stream
           ELSE stream' = StreamAt(slot[i].book) /\ UNCHANGED <<pc, read>>
  BY DEF AttachState
<1>2. UNCHANGED writer /\ pc = "idle"
  BY DEF AttachState
<1>3. UNCHANGED <<book, contents, slot>>
  BY <1>2 DEF writer
<1>4. /\ i \in 1..Len(slot) /\ slot[i].book \in Books /\ seen' \in seen..clock
      /\ Behind(slot[i].book.epoch, slot', seen')
      /\ \A e \in Nat : Behind(e, slot, seen) => Behind(e, slot', seen') /\ e <= slot[i].book.epoch
  BY <1>1, <1>2, ReadIsAhead
<1> DEFINE b == slot[i].book
<1>5. /\ StateOK(contents, b) /\ b.epoch <= book.epoch /\ (book.based \/ ~b.based)
      /\ b.epoch \in Nat /\ b.next \in Nat /\ b.content \in Nat /\ b.lost \in Losses
  <2>1. slot[i].book \in Books /\ book \in Books
    BY <1>4 DEF IInv, Typed
  <2>2. StateOK(contents, b) /\ NotPast(b, book) /\ (book.based \/ ~b.based)
    BY ZenonT(30), <1>4 DEF IInv, SlotOK, Unbased
  <2>3. b.epoch \in Nat /\ b.next \in Nat /\ b.content \in Nat /\ b.lost \in Losses
    BY <2>1 DEF Books
  <2> QED
    BY <2>1, <2>2, <2>3 DEF NotPast, Books
<1>6. /\ stream \in Streams /\ read \in Books /\ stream.epoch \in Nat /\ ReaderOK /\ LossIsHonest
      /\ (book.based \/ (stream.attached => ~stream.based))
  BY DEF IInv, Typed, Unbased, Streams
<1>7. stream.attached => stream.epoch <= book.epoch /\ Behind(stream.epoch, slot', seen')
  BY <1>4, <1>6 DEF ReaderOK
<1> HIDE DEF b
<1>8. CASE b.lost = Intact
  <2>1. pc' = "probing" /\ read' = b /\ stream' = stream
    BY <1>1, <1>8 DEF b
  <2>2. ReaderOK'
    <3>1. Behind(read'.epoch, slot', seen')
      BY <1>3, <1>4, <2>1 DEF Behind, b
    <3> QED
      BY <1>3, <1>5, <1>6, <1>7, <1>8, <2>1, <3>1 DEF ReaderOK
  <2>3. LossIsHonest'
    BY <1>3, <1>6, <2>1 DEF LossIsHonest
  <2> QED
    BY <1>2, <1>4, <1>5, <1>6, <2>1, <2>2, <2>3, ReaderMoves DEF b
<1>9. CASE b.lost # Intact
  <2>1. pc' = "idle" /\ read' = read /\ stream' = StreamAt(b)
    BY <1>1, <1>2, <1>9 DEF b
  <2>2. /\ stream' \in Streams /\ stream'.epoch = b.epoch /\ stream'.lost = b.lost
        /\ stream'.based = b.based
    <3>1. b \in Books
      BY <1>4 DEF b
    <3> QED
      BY <1>5, <1>9, <2>1, <3>1 DEF StreamAt, Streams, Books, Losses
  <2>3. ReaderOK'
    <3>1. Behind(stream'.epoch, slot', seen')
      BY <1>3, <1>4, <2>2 DEF Behind, b
    <3> QED
      BY <1>3, <1>5, <1>9, <2>1, <2>2, <3>1 DEF ReaderOK
  <2>4. LossIsHonest'
    BY <1>5, <2>2 DEF LossIsHonest, Losses, Intact
  <2> QED
    BY <1>2, <1>4, <1>5, <1>6, <2>1, <2>2, <2>3, <2>4, ReaderMoves
<1> QED
  BY <1>8, <1>9

\* A read of a ring slot leaves what is behind behind.
LEMMA RingRead ==
  ASSUME IInv, UNCHANGED writer, NEW k \in Slots, NEW i \in Readable(ring[k]), Sees(ring[k], i)
  PROVE  /\ i = 0 \/ i \in 1..Len(ring[k])
         /\ \A e \in Nat : Behind(e, slot, seen) => Behind(e, slot', seen')
         /\ seen' \in seen..clock
<1>1. /\ ring[k] \in Seq(KeptEvents) /\ Len(ring[k]) \in Nat /\ seen \in 0..clock /\ clock \in Nat
      /\ slot \in Seq(Kept) /\ Len(slot) \in Nat
  <2>1. Typed
    BY DEF IInv
  <2>2. ring[k] \in Seq(KeptEvents)
    BY <2>1, Elements
  <2> QED
    BY <2>1, <2>2 DEF Typed
<1>2. i = 0 \/ i \in 1..Len(ring[k])
  BY <1>1 DEF Readable
<1>3. i > 0 => ring[k][i].at \in Nat /\ ring[k][i].at <= clock
  <2>1. SUFFICES ASSUME i > 0 PROVE ring[k][i].at \in Nat /\ ring[k][i].at <= clock
    OBVIOUS
  <2>2. i \in 1..Len(ring[k])
    BY <1>2, <2>1
  <2> QED
    BY <2>2, Elements DEF IInv, RingOK
<1>4. seen' \in seen..clock /\ seen' \in Nat
  BY <1>1, <1>2, <1>3 DEF Sees
<1>5. ASSUME NEW e \in Nat, Behind(e, slot, seen)
      PROVE  Behind(e, slot', seen')
  <2>1. \A j \in 1..Len(slot) : slot[j].book.epoch < e => j < Len(slot) /\ slot[j + 1].at <= seen'
    <3> SUFFICES ASSUME NEW j \in 1..Len(slot), slot[j].book.epoch < e
                 PROVE  j < Len(slot) /\ slot[j + 1].at <= seen'
      OBVIOUS
    <3>1. j < Len(slot) /\ slot[j + 1].at <= seen
      BY <1>5 DEF Behind
    <3>2. slot[j + 1].at \in Nat
      <4>1. j + 1 \in 1..Len(slot)
        BY <1>1, <3>1
      <4> QED
        BY <4>1, Elements DEF IInv
    <3> QED
      BY <1>1, <1>4, <3>1, <3>2
  <2> QED
    BY <2>1 DEF Behind, writer
<1> QED
  BY <1>2, <1>4, <1>5

LEMMA AttachProbeKeeps ==
  ASSUME IInv, AttachProbe
  PROVE  IInv'
<1> DEFINE start == StreamAt(read)
           k == SlotOf(start.position)
<1>1. /\ pc = "probing" /\ pc' = "idle" /\ read' = read /\ UNCHANGED writer
      /\ stream' = stream \/ stream' = start
  BY DEF AttachProbe
<1>2. PICK i \in Readable(ring[k]) : Sees(ring[k], i)
  BY DEF AttachProbe
<1>3. /\ read.lost = Intact /\ StateOK(contents, read) /\ read.epoch <= book.epoch
      /\ Behind(read.epoch, slot, seen) /\ (book.based \/ ~read.based)
      /\ read \in Books /\ stream \in Streams /\ ReaderOK /\ LossIsHonest
      /\ (book.based \/ (stream.attached => ~stream.based))
  BY ZenonT(30), <1>1 DEF IInv, ReaderOK, Unbased, Typed
<1>4. /\ start \in Streams /\ start.attached /\ start.epoch = read.epoch /\ start.lost = Intact
      /\ start.position = read.next /\ start.based = read.based /\ start.content = read.content
  BY <1>3 DEF StreamAt, Streams, Books
<1> HIDE DEF start
<1>5. k \in Slots
  <2>1. start.position \in Nat
    BY <1>4 DEF Streams
  <2> QED
    BY <2>1, EventRingAssumption DEF SlotOf, Slots
<1> HIDE DEF k
<1>6. seen' \in seen..clock /\ \A e \in Nat : Behind(e, slot, seen) => Behind(e, slot', seen')
  BY <1>1, <1>2, <1>5, RingRead
<1>7. UNCHANGED <<book, contents, slot>>
  BY <1>1 DEF writer
<1>8. CASE stream' = stream
  <2>1. stream.epoch \in Nat
    BY <1>3 DEF Streams
  <2>2. stream.attached => Behind(stream.epoch, slot', seen')
    BY <1>3, <1>6, <2>1 DEF ReaderOK
  <2>3. ReaderOK' /\ LossIsHonest'
    BY <1>1, <1>3, <1>7, <1>8, <2>2 DEF ReaderOK, LossIsHonest
  <2> QED
    BY <1>1, <1>3, <1>6, <1>8, <2>3, ReaderMoves
<1>9. CASE stream' = start
  <2>1. read.epoch \in Nat
    BY <1>3 DEF Books
  <2>3. Behind(stream'.epoch, slot', seen')
    BY <1>3, <1>4, <1>6, <1>9, <2>1
  <2>4. ReaderOK'
    BY <1>1, <1>3, <1>4, <1>7, <1>9, <2>3 DEF ReaderOK, StateOK
  <2>5. LossIsHonest'
    BY <1>4, <1>9 DEF LossIsHonest, Intact
  <2> QED
    BY ZenonT(30), <1>1, <1>3, <1>4, <1>6, <1>9, <2>4, <2>5, ReaderMoves
<1> QED
  BY <1>1, <1>8, <1>9

\* A loss is recorded: the cursor stays, and the verdict is one the market bears out.
LEMMA LossKeeps ==
  ASSUME IInv, UNCHANGED writer, seen' \in seen..clock, pc' = "idle", read' = read,
         stream.attached, \A e \in Nat : Behind(e, slot, seen) => Behind(e, slot', seen'),
         NEW verdict \in {"LocalLoss", "Reconnect", "RecoveryBase", "Overrun"},
         stream' = [stream EXCEPT !.lost = verdict],
         verdict = "Overrun" =>
           <<stream.epoch, stream.position + EventCapacity + 1>> \in DOMAIN contents,
         verdict = "RecoveryBase" => book.epoch > stream.epoch
  PROVE  IInv'
<1>1. /\ stream \in Streams /\ read \in Books /\ ReaderOK
      /\ (book.based \/ (stream.attached => ~stream.based))
  BY DEF IInv, Typed, Unbased
<1>2. /\ stream' \in Streams /\ stream'.attached /\ stream'.epoch = stream.epoch
      /\ stream'.position = stream.position /\ stream'.lost = verdict
      /\ stream'.based = stream.based /\ stream.epoch \in Nat
  BY <1>1 DEF Streams, Losses
<1>3. UNCHANGED <<book, contents, slot>>
  BY DEF writer
<1>4. stream.epoch <= book.epoch /\ Behind(stream'.epoch, slot', seen')
  BY <1>1, <1>2 DEF ReaderOK
<1>5. ReaderOK'
  BY <1>2, <1>3, <1>4 DEF ReaderOK, Intact
<1>6. LossIsHonest'
  BY <1>2, <1>3 DEF LossIsHonest
<1> QED
  BY <1>1, <1>2, <1>5, <1>6, ReaderMoves
LEMMA PollStateKeeps ==
  ASSUME IInv, PollState
  PROVE  IInv'
<1>1. PICK i \in Readable(slot) \ {0} :
        /\ Sees(slot, i)
        /\ IF StateVerdict(stream, slot[i].book) = Intact
           THEN pc' = "polling" /\ UNCHANGED stream
           ELSE stream' = [stream EXCEPT !.lost = StateVerdict(stream, slot[i].book)] /\ UNCHANGED pc
  BY DEF PollState
<1>2. /\ UNCHANGED writer /\ read' = read /\ pc = "idle" /\ stream.attached /\ stream.lost = Intact
  BY DEF PollState
<1>3. UNCHANGED <<book, contents, slot>>
  BY <1>2 DEF writer
<1>4. /\ i \in 1..Len(slot) /\ slot[i].book \in Books /\ seen' \in seen..clock
      /\ \A e \in Nat : Behind(e, slot, seen) => Behind(e, slot', seen') /\ e <= slot[i].book.epoch
  BY <1>1, <1>2, ReadIsAhead
<1> DEFINE b == slot[i].book
           verdict == StateVerdict(stream, b)
<1>5. /\ stream \in Streams /\ read \in Books /\ ReaderOK /\ LossIsHonest /\ book \in Books
      /\ (book.based \/ (stream.attached => ~stream.based)) /\ NotPast(b, book)
  BY <1>4 DEF IInv, Typed, Unbased, SlotOK
<1>6. /\ stream.epoch \in Nat /\ b.epoch \in Nat /\ b.lost \in Losses /\ book.epoch \in Nat
      /\ b.epoch <= book.epoch
  BY <1>4, <1>5 DEF Streams, Books, NotPast
<1>7. Behind(stream.epoch, slot', seen') /\ stream.epoch <= b.epoch
  BY <1>2, <1>4, <1>5, <1>6 DEF ReaderOK
<1> HIDE DEF b
<1>8. CASE verdict = Intact
  <2>1. pc' = "polling" /\ stream' = stream
    BY <1>1, <1>8 DEF b
  <2>2. ReaderOK'
    BY <1>2, <1>3, <1>5, <1>7, <2>1 DEF ReaderOK
  <2>3. LossIsHonest'
    BY <1>3, <1>5, <2>1 DEF LossIsHonest
  <2> QED
    BY <1>2, <1>4, <1>5, <2>1, <2>2, <2>3, ReaderMoves
<1>9. CASE verdict # Intact
  <2>1. pc' = "idle" /\ stream' = [stream EXCEPT !.lost = verdict]
    BY <1>1, <1>2, <1>9 DEF b
  <2>2. /\ verdict \in {"LocalLoss", "Reconnect", "RecoveryBase"}
        /\ verdict = "RecoveryBase" => b.epoch # stream.epoch
    BY <1>6, <1>9 DEF StateVerdict, Losses, Intact
  <2> HIDE DEF verdict
  <2>3. verdict = "RecoveryBase" => book.epoch > stream.epoch
    BY <1>6, <1>7, <2>2
  <2> QED
    BY <1>2, <1>4, <2>1, <2>2, <2>3, LossKeeps
<1> QED
  BY <1>8, <1>9

\* What the ring slot at a stream's position tells it.
LEMMA EventTells ==
  ASSUME IInv, stream.attached, stream.lost = Intact, NEW k \in Slots, k = SlotOf(stream.position),
         NEW i \in Nat, i = 0 \/ i \in 1..Len(ring[k]),
         NEW verdict, verdict = EventVerdict(stream, ring[k], i)
  PROVE  /\ verdict \in {"Idle", "Delivered", "RecoveryBase", "Overrun"}
         /\ verdict = "RecoveryBase" => book.epoch > stream.epoch
         /\ verdict = "Overrun" =>
              <<stream.epoch, stream.position + EventCapacity + 1>> \in DOMAIN contents
         /\ verdict = "Delivered" =>
              /\ i \in 1..Len(ring[k]) /\ ring[k][i].event \in Events
              /\ EventOK(contents, ring[k][i].event)
              /\ ring[k][i].event.epoch = stream.epoch /\ ring[k][i].event.position = stream.position
<1> DEFINE e == ring[k][i].event
<1>1. CASE i = 0
  BY <1>1 DEF EventVerdict
<1>2. CASE i # 0
  <2>1. i \in 1..Len(ring[k])
    BY <1>2
  <2>2. /\ e \in Events /\ EventOK(contents, e) /\ SlotOf(e.position) = k
    BY <2>1, Elements DEF IInv, RingOK
  <2>3. /\ e.epoch \in Nat /\ e.position \in Nat /\ stream.epoch \in Nat /\ stream.position \in Nat
        /\ book.epoch \in Nat /\ EventCapacity \in Nat \ {0}
    BY ZenonT(30), <2>2, EventRingAssumption DEF Events, IInv, Typed, Streams, Books
  <2>4. Cursors(contents, book)
    BY DEF IInv, BookOK
  <2>5. verdict = IF e.epoch > stream.epoch THEN "RecoveryBase"
                  ELSE IF later(e.epoch, e.position, stream) THEN "Overrun"
                  ELSE IF e.epoch # stream.epoch \/ e.position # stream.position THEN "Idle"
                  ELSE "Delivered"
    BY <1>2 DEF EventVerdict
  <2> HIDE DEF e
  <2>6. CASE e.epoch > stream.epoch
    <3>1. e.epoch <= book.epoch
      BY <2>2, <2>3, <2>4 DEF EventOK, Cursors
    <3>2. verdict = "RecoveryBase"
      BY <2>5, <2>6
    <3> QED
      BY <2>3, <2>6, <3>1, <3>2
  <2>7. CASE ~(e.epoch > stream.epoch) /\ later(e.epoch, e.position, stream)
    <3>1. e.epoch = stream.epoch /\ stream.position < e.position
      BY <2>3, <2>7 DEF later
    <3>2. stream.position + EventCapacity <= e.position
      BY <2>2, <2>3, <3>1, LapApart DEF SlotOf
    <3>3. stream.position + EventCapacity + 1 \in 0..(e.position + 1)
      BY <2>3, <3>2
    <3>4. <<stream.epoch, stream.position + EventCapacity + 1>> \in DOMAIN contents
      <4>1. e.position + 1 \in Nat /\ <<e.epoch, e.position + 1>> \in DOMAIN contents
        BY <2>2, <2>3 DEF EventOK
      <4>2. \A q \in 0..(e.position + 1) : <<e.epoch, q>> \in DOMAIN contents
        BY <2>3, <2>4, <4>1 DEF Cursors
      <4> QED
        BY <3>1, <3>3, <4>2
    <3>5. verdict = "Overrun"
      BY <2>5, <2>7
    <3> QED
      BY <3>4, <3>5
  <2>8. CASE ~(e.epoch > stream.epoch) /\ ~later(e.epoch, e.position, stream)
    <3>1. CASE e.epoch # stream.epoch \/ e.position # stream.position
      BY <2>5, <2>8, <3>1
    <3>2. CASE e.epoch = stream.epoch /\ e.position = stream.position
      BY <2>1, <2>2, <2>5, <2>8, <3>2 DEF e
    <3> QED
      BY ZenonT(30), <3>1, <3>2
  <2> QED
    BY ZenonT(30), <2>6, <2>7, <2>8
<1> QED
  BY <1>1, <1>2

LEMMA PollEventKeeps ==
  ASSUME IInv, PollEvent
  PROVE  IInv'
<1> DEFINE k == SlotOf(stream.position)
<1>1. PICK i \in Readable(ring[k]) :
        /\ Sees(ring[k], i)
        /\ stream' =
             CASE EventVerdict(stream, ring[k], i) = "Idle" -> stream
               [] EventVerdict(stream, ring[k], i) = "Delivered" ->
                    [stream EXCEPT !.position = @ + 1, !.content = Applied(@, ring[k][i].event)]
               [] OTHER -> [stream EXCEPT !.lost = EventVerdict(stream, ring[k], i)]
  BY Zenon DEF PollEvent
<1>2. UNCHANGED writer /\ read' = read /\ pc = "polling" /\ pc' = "idle"
  BY DEF PollEvent
<1>3. UNCHANGED <<book, contents, slot>>
  BY <1>2 DEF writer
<1>4. /\ stream \in Streams /\ read \in Books /\ ReaderOK /\ LossIsHonest
      /\ stream.attached /\ stream.lost = Intact
      /\ (book.based \/ (stream.attached => ~stream.based))
  BY Zenon, <1>2 DEF IInv, Typed, Unbased, ReaderOK
<1>5. stream.position \in Nat /\ stream.epoch \in Nat /\ k \in Slots
  <2>1. stream.position \in Nat /\ stream.epoch \in Nat
    BY <1>4 DEF Streams
  <2> QED
    BY <2>1, EventRingAssumption DEF SlotOf, Slots
<1>6. /\ (i = 0 \/ i \in 1..Len(ring[k])) /\ seen' \in seen..clock
      /\ \A e \in Nat : Behind(e, slot, seen) => Behind(e, slot', seen')
  BY <1>1, <1>2, <1>5, RingRead
<1>7. i \in Nat
  BY DEF Readable
<1> DEFINE verdict == EventVerdict(stream, ring[k], i)
           e == ring[k][i].event
<1>8. /\ verdict \in {"Idle", "Delivered", "RecoveryBase", "Overrun"}
      /\ verdict = "RecoveryBase" => book.epoch > stream.epoch
      /\ verdict = "Overrun" =>
           <<stream.epoch, stream.position + EventCapacity + 1>> \in DOMAIN contents
      /\ verdict = "Delivered" =>
           /\ e \in Events /\ EventOK(contents, e)
           /\ e.epoch = stream.epoch /\ e.position = stream.position
  BY ZenonT(30), <1>4, <1>5, <1>6, <1>7, EventTells
<1>9. Behind(stream.epoch, slot', seen') /\ stream.epoch <= book.epoch
  BY <1>4, <1>5, <1>6 DEF ReaderOK
<1>10. stream' = CASE verdict = "Idle" -> stream
                   [] verdict = "Delivered" ->
                        [stream EXCEPT !.position = @ + 1, !.content = Applied(@, e)]
                   [] OTHER -> [stream EXCEPT !.lost = verdict]
  BY <1>1
<1> HIDE DEF verdict, e, k
<1>11. CASE verdict = "Idle"
  <2>1. stream' = stream
    BY <1>10, <1>11
  <2>2. ReaderOK' /\ LossIsHonest'
    BY <1>2, <1>3, <1>4, <1>9, <2>1 DEF ReaderOK, LossIsHonest
  <2> QED
    BY <1>2, <1>4, <1>6, <2>1, <2>2, ReaderMoves
<1>12. CASE verdict = "Delivered"
  <2> DEFINE c == Applied(stream.content, e)
             moved == [stream EXCEPT !.position = @ + 1]
  <2>1. stream' = [moved EXCEPT !.content = c]
    BY <1>4, <1>10, <1>12 DEF Streams
  <2>2. /\ e \in Events /\ EventOK(contents, e) /\ e.epoch = stream.epoch
        /\ e.position = stream.position /\ e.from \in Nat /\ e.to \in Nat
    BY <1>8, <1>12 DEF Events
  <2>3. c \in Nat \cup {Garbled}
    BY <2>2 DEF Applied
  <2>4. stream.based => c > 0 /\ c = contents[<<stream.epoch, stream.position + 1>>]
    BY <1>4, <2>2 DEF ReaderOK, EventOK, Applied
  <2> HIDE DEF c
  <2>5. /\ moved \in Streams /\ moved.position = stream.position + 1 /\ moved.epoch = stream.epoch
        /\ moved.attached /\ moved.lost = Intact /\ moved.based = stream.based
    BY <1>4, <1>5 DEF Streams
  <2> HIDE DEF moved
  <2>6. /\ stream' \in Streams /\ stream'.position = stream.position + 1
        /\ stream'.epoch = stream.epoch /\ stream'.attached /\ stream'.lost = Intact
        /\ stream'.based = stream.based /\ stream'.content = c
    BY <2>1, <2>3, <2>5 DEF Streams
  <2>7. ReaderOK'
    BY <1>2, <1>3, <1>9, <2>2, <2>4, <2>6 DEF ReaderOK, EventOK
  <2>8. LossIsHonest'
    BY <2>6 DEF LossIsHonest, Intact
  <2> QED
    BY <1>2, <1>4, <1>6, <2>6, <2>7, <2>8, ReaderMoves
<1>13. CASE verdict \in {"RecoveryBase", "Overrun"}
  <2>1. stream' = [stream EXCEPT !.lost = verdict]
    BY <1>10, <1>13
  <2> QED
    BY <1>2, <1>4, <1>6, <1>8, <1>13, <2>1, LossKeeps
<1> QED
  BY <1>8, <1>11, <1>12, <1>13

-----------------------------------------------------------------------------
(* The invariant                                                           *)

LEMMA InitEventRing ==
  ASSUME Init
  PROVE  IInv
<1> USE DEF Init
<1>1. NewBook \in Books /\ Detached \in Streams /\ StateStore(NewBook) \in States
  BY DEF NewBook, Detached, StateStore, States, Books, Streams, Losses, Intact
<1>2. /\ round \in Seq(States \cup Events) /\ Len(round) = 1 /\ round[1] = StateStore(NewBook)
  BY <1>1
<1>3. Typed
  <2>1. retired_epoch \in 0..book.epoch
    BY DEF NewBook
  <2>2. clock \in Nat /\ seen \in 0..clock
    OBVIOUS
  <2>3. clock + Len(round) <= MaxStores
    BY <1>2, EventRingAssumption
  <2>4. live \in BOOLEAN /\ failure \in BOOLEAN
    BY Zenon
  <2>5. slot \in Seq(Kept) /\ ring \in [Slots -> Seq(KeptEvents)]
    OBVIOUS
  <2> QED
    BY <1>1, <1>2, <2>1, <2>2, <2>3, <2>4, <2>5 DEF Typed
<1>4. BookOK
  BY DEF BookOK, Cursors, NewBook
<1>5. RoundOK /\ Unbased
  BY <1>2 DEF RoundOK, StateStore, Unbased, Detached
<1>6. SlotOK /\ RingOK
  BY DEF SlotOK, RingOK
<1>7. ReaderOK /\ LossIsHonest
  BY DEF ReaderOK, LossIsHonest, Detached
<1> QED
  BY <1>3, <1>4, <1>5, <1>6, <1>7 DEF IInv

LEMMA NextEventRing ==
  ASSUME IInv, [Next]_vars
  PROVE  IInv'
<1>1. CASE \E n \in 0..MaxBatch : Commit(n)
  BY <1>1, CommitBegins, BeginsKeeps
<1>2. CASE FirstBase
  BY <1>2, FirstBaseBegins, BeginsKeeps
<1>3. CASE Rebase
  BY <1>3, RebaseBegins, BeginsKeeps
<1>4. CASE Lose \/ Retire \/ Resume
  BY <1>4, RestatesBegin, BeginsKeeps
<1>5. CASE Resolve
  BY <1>5, ResolveBegins, BeginsKeeps
<1>6. CASE Publish
  <2>1. Head(round).kind = "state" \/ Head(round).kind = "event"
    BY <1>6 DEF Publish
  <2> QED
    BY <1>6, <2>1, PublishState, PublishEvent
<1>7. CASE Refuse
  BY <1>7, RefuseKeeps
<1>8. CASE AttachState
  BY <1>8, AttachStateKeeps
<1>9. CASE AttachProbe
  BY <1>9, AttachProbeKeeps
<1>10. CASE PollState
  BY <1>10, PollStateKeeps
<1>11. CASE PollEvent
  BY <1>11, PollEventKeeps
<1>12. CASE UNCHANGED vars
  <2>1. /\ UNCHANGED <<book, live, retired_epoch, failure, round, clock, slot, ring, contents>>
        /\ UNCHANGED <<stream, read, pc, seen>>
    BY <1>12 DEF vars, writer, consumer
  <2> QED
    BY ZenonT(30), <2>1 DEF IInv, Typed, BookOK, RoundOK, SlotOK, RingOK, ReaderOK, Unbased, LossIsHonest
<1> QED
  BY <1>1, <1>2, <1>3, <1>4, <1>5, <1>6, <1>7, <1>8, <1>9, <1>10, <1>11, <1>12 DEF Next

LEMMA Invariance == Spec => []IInv
<1>1. Init => IInv
  BY InitEventRing
<1>2. IInv /\ [Next]_vars => IInv'
  BY NextEventRing
<1> QED
  BY <1>1, <1>2, PTL DEF Spec

\* Every variable keeps its type, and the states published for a market never step back: not in
\* epoch, nor in position within one, over a removal and a return as well (ShardSegment::install
\* and close).
THEOREM TypeCorrect == Spec => []TypeOK
<1>1. IInv => TypeOK
  <2> SUFFICES ASSUME IInv PROVE TypeOK
    OBVIOUS
  <2>1. Typed /\ SlotOK
    BY DEF IInv
  <2>2. clock \in 0..MaxStores
    <3>1. round \in Seq(States \cup Events) /\ clock \in Nat /\ clock + Len(round) <= MaxStores
      BY <2>1 DEF Typed
    <3> QED
      BY <3>1, EventRingAssumption
  <2>3. ASSUME NEW i \in 2..Len(slot)
        PROVE  ~later(slot[i - 1].book.epoch, slot[i - 1].book.next,
                      [epoch |-> slot[i].book.epoch, position |-> slot[i].book.next])
    <3>1. Len(slot) \in Nat
      BY <2>1 DEF Typed
    <3>2. i - 1 \in 1..Len(slot) /\ i \in 1..Len(slot) /\ i - 1 < i
      BY <3>1
    <3>3. NotPast(slot[i - 1].book, slot[i].book)
      BY <2>1, <3>2 DEF SlotOK
    <3>4. slot[i - 1].book \in Books /\ slot[i].book \in Books
      BY <2>1, <3>2, Elements
    <3> QED
      BY <3>3, <3>4 DEF NotPast, later, Books
  <2> QED
    BY <2>1, <2>2, <2>3 DEF TypeOK, Typed, Streams
<1> QED
  BY <1>1, Invariance, PTL

\* Replay is exact for every ring size and every interleaving of the writer's stores with a
\* reader's loads (SegmentReader::attach_stream, EventStream::poll): a consumer that has not been
\* told of a loss holds the book as it stood at its cursor.
THEOREM ReplayExact == Spec => []ReplicaIsFaithful
<1>1. IInv => ReplicaIsFaithful
  BY ZenonT(30) DEF IInv, ReaderOK, ReplicaIsFaithful
<1> QED
  BY <1>1, Invariance, PTL

\* A loss EventStream::poll reports is real: Overrun only once the writer is a whole lap past the
\* cursor, RecoveryBase only once the epoch moved on.
THEOREM LossHonest == Spec => []LossIsHonest
<1>1. IInv => LossIsHonest
  BY DEF IInv
<1> QED
  BY <1>1, Invariance, PTL
=============================================================================

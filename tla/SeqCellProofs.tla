--------------------------- MODULE SeqCellProofs -----------------------------
(***************************************************************************)
(* Proofs about SeqCell for every set of words, counter bound and number   *)
(* of attempts: its types, that no accepted copy is torn, that a verdict   *)
(* is honest, and that the seqlock implements AtomicRecord.                *)
(*                                                                         *)
(* Publication k closes with the counter's store number 2k + 1, and that   *)
(* store's view says where each word stood.  The argument has two halves.  *)
(* A reader that opened at 2k has acquired that view, so it never loads a  *)
(* word older than publication k left it.  A word of a later publication   *)
(* was stored behind a release fence that follows the odd counter store,   *)
(* so a reader that met one has, after its acquire fence, left 2k behind   *)
(* and cannot find it again.                                               *)
(***************************************************************************)
EXTENDS SeqCell, TLAPS

(* The provers are given more than their default time: the contexts of the  *)
(* leaves below are long.                                                   *)
USE SMTT(20), SMTT(40)

\* The view that the closing store of publication k carries.
Closing(k) == stores[Counter][2 * k + 1].view

\* What the writer's stores say of each other.
ViewsWithin ==
  \A c, d \in Cells : \A i \in 1 .. Last(c) : stores[c][i].view[d] <= Last(d)
OwnIndex == \A i \in 1 .. Last(Counter) : stores[Counter][i].view[Counter] = i
WordsFenced ==
  \A w \in Words : \A i \in 1 .. Last(w) :
    2 * stores[w][i].value <= stores[w][i].view[Counter]
ClosedKept ==
  \A k \in 1 .. Len(closed) : \A w \in Words :
    /\ closed[k][w] = stores[w][Closing(k)[w]].value
    /\ \A j \in 1 .. Last(w) : Closing(k)[w] < j => k < stores[w][j].value

WriterInv ==
  /\ writing => Last(Counter) <= U64Max /\ fenced[Counter] = Last(Counter)
  /\ ViewsWithin /\ OwnIndex /\ WordsFenced /\ ClosedKept

\* A word copied under publication k: no older than k, and known to the next
\* acquire fence.
CopiedFrom(k, w) ==
  \E t \in Closing(k)[w] .. Last(w) :
    /\ copy[w] = stores[w][t].value
    /\ stores[w][t].view[Counter] <= heard[Counter]

\* What the reader knows.
ReaderInv ==
  /\ 2 * accepted.at + 1 <= view[Counter]
  /\ pc = "copying" =>
       \E k \in 1 .. Len(closed) :
         /\ opened = 2 * k
         /\ \A w \in Words : Closing(k)[w] <= view[w]
         /\ \A w \in Words : copy[w] # Unread => CopiedFrom(k, w)

\* What a call knows of the counter values it has loaded.
CallInv ==
  /\ pc # "idle" => /\ stalled_at # 0 => stalled_at % 2 = 1 /\ stalled_at \in observed
                    /\ moved => \E a, b \in observed : a # b
  /\ pc = "copying" => opened \in observed
  /\ pc = "opening" /\ ~moved => IF stalled_at = 0 THEN attempts = 0 /\ observed = {}
                                 ELSE observed = {stalled_at}

IInv == TypeOK /\ WriterInv /\ ReaderInv /\ AcceptedIsStable
Honest == CallInv /\ VerdictIsHonest

-----------------------------------------------------------------------------
(* The writer's stores                                                     *)

\* The counter is a cell, and no word.
LEMMA CellFacts == Counter \in Cells /\ (\A w \in Words : w \in Cells /\ w # Counter)
BY SeqCellAssumption DEF Cells

\* A store leaves the earlier ones in place.
Grown ==
  /\ \A c \in Cells : /\ Last(c) <= Last(c)'
                      /\ \A i \in 1 .. Last(c) : stores'[c][i] = stores[c][i]
  /\ Len(closed) <= Len(closed')
  /\ \A k \in 1 .. Len(closed) : closed'[k] = closed[k]

\* What one store does to the cells.
LEMMA StoreFacts ==
  ASSUME TypeOK, NEW c \in Cells, NEW m \in Stores,
         stores' = [stores EXCEPT ![c] = Append(@, m)]
  PROVE  /\ stores' \in [Cells -> Seq(Stores)]
         /\ \A d \in Cells : Last(d)' \in Nat \ {0} /\ Last(d) <= Last(d)'
         /\ \A d \in Cells : d # c => stores'[d] = stores[d]
         /\ \A d \in Cells : \A i \in 1 .. Last(d) : stores'[d][i] = stores[d][i]
         /\ Last(c)' = Last(c) + 1
         /\ stores'[c][Last(c) + 1] = m
<1>1. stores \in [Cells -> Seq(Stores)] /\ \A d \in Cells : Last(d) \in Nat \ {0}
  BY DEF TypeOK, WriterTypes
<1>2. \A d \in Cells : d # c => stores'[d] = stores[d]
  BY <1>1
<1>3. stores'[c] = Append(stores[c], m)
  BY <1>1
<1>4. stores[c] \in Seq(Stores)
  BY <1>1
<1>5. /\ stores'[c] \in Seq(Stores)
      /\ Len(stores'[c]) = Len(stores[c]) + 1
      /\ stores'[c][Len(stores[c]) + 1] = m
      /\ \A i \in 1 .. Len(stores[c]) : stores'[c][i] = stores[c][i]
  BY <1>3, <1>4
<1>6. stores' \in [Cells -> Seq(Stores)]
  <2>1. DOMAIN stores' = Cells /\ stores' = [d \in Cells |-> stores'[d]]
    BY Zenon, <1>1
  <2>2. \A d \in Cells : stores'[d] \in Seq(Stores)
    BY <1>1, <1>2, <1>5
  <2> QED BY Zenon, <2>1, <2>2
<1> QED BY <1>1, <1>2, <1>5, <1>6 DEF Last

\* The parts of a store.
LEMMA StorePart ==
  ASSUME NEW m \in Stores
  PROVE  m.value \in Nat /\ m.value \in 0 .. U64Max /\ \A d \in Cells : m.view[d] \in Nat \ {0}
BY SeqCellAssumption DEF Stores

\* What a cell holds are stores.
LEMMA StoreTypes ==
  ASSUME TypeOK, NEW c \in Cells, NEW i \in 1 .. Last(c)
  PROVE  stores[c][i] \in Stores
<1>1. stores[c] \in Seq(Stores)
  BY DEF TypeOK, WriterTypes
<1> QED BY <1>1 DEF Last

\* Where a publication's closing store is, and what kind of view it carries.
LEMMA ClosingFacts ==
  ASSUME TypeOK
  PROVE  /\ Len(closed) \in Nat
         /\ \A c \in Cells : Last(c) \in Nat \ {0}
         /\ \A k \in 1 .. Len(closed) : /\ 2 * k + 1 \in 1 .. Last(Counter)
                                        /\ Closing(k) \in [Cells -> Nat \ {0}]
<1>1. Len(closed) \in Nat
  BY DEF TypeOK, WriterTypes
<1>2. \A c \in Cells : Last(c) \in Nat \ {0}
  BY DEF TypeOK, WriterTypes
<1>3. Last(Counter) = 2 * Len(closed) + (IF writing THEN 2 ELSE 1)
  BY DEF TypeOK, WriterTypes
<1>4. Last(Counter) >= 2 * Len(closed) + 1
  BY <1>1, <1>3
<1>5. ASSUME NEW k \in 1 .. Len(closed)
      PROVE  2 * k + 1 \in 1 .. Last(Counter) /\ Closing(k) \in [Cells -> Nat \ {0}]
  <2>1. 2 * k + 1 \in 1 .. Last(Counter)
    BY <1>1, <1>2, <1>4, CellFacts
  <2>2. stores[Counter] \in Seq(Stores)
    BY CellFacts DEF TypeOK, WriterTypes
  <2>3. stores[Counter][2 * k + 1] \in Stores
    BY <2>1, <2>2 DEF Last
  <2> QED BY <2>1, <2>3 DEF Closing, Stores
<1> QED BY <1>1, <1>2, <1>5

\* The writer's stores do not disturb what the reader knows.
LEMMA ReaderStays ==
  ASSUME IInv, Grown, UNCHANGED reader
  PROVE  ReaderInv' /\ AcceptedIsStable'
<1>1. \A k \in 1 .. Len(closed) : Closing(k)' = Closing(k)
  <2> SUFFICES ASSUME NEW k \in 1 .. Len(closed) PROVE Closing(k)' = Closing(k)
    OBVIOUS
  <2>1. 2 * k + 1 \in 1 .. Last(Counter)
    BY ClosingFacts DEF IInv
  <2> QED BY <2>1, CellFacts DEF Grown, Closing
<1>3. ASSUME NEW k \in 1 .. Len(closed), NEW w \in Words, copy[w] # Unread, CopiedFrom(k, w)
      PROVE  CopiedFrom(k, w)'
  <2>1. PICK t \in Closing(k)[w] .. Last(w) :
          copy[w] = stores[w][t].value /\ stores[w][t].view[Counter] <= heard[Counter]
    BY <1>3 DEF CopiedFrom
  <2>2. w \in Cells
    BY CellFacts
  <2>3. Closing(k)[w] \in Nat \ {0} /\ Last(w) \in Nat
    BY <2>2, ClosingFacts DEF IInv
  <2>4. t \in 1 .. Last(w)
    BY <2>1, <2>3
  <2>5. stores'[w][t] = stores[w][t] /\ Last(w) <= Last(w)'
    BY <2>2, <2>4 DEF Grown
  <2>6. copy'[w] = stores'[w][t].value /\ stores'[w][t].view[Counter] <= heard'[Counter]
    BY <2>1, <2>5 DEF reader
  <2>8. Last(w)' \in Int
    BY <2>2 DEF Grown, Last
  <2>7. t \in Closing(k)'[w] .. Last(w)'
    BY <1>1, <2>1, <2>3, <2>4, <2>5, <2>8
  <2> QED BY <2>6, <2>7 DEF CopiedFrom
<1>4. ReaderInv'
  <2>1. 2 * accepted'.at + 1 <= view'[Counter]
    BY DEF IInv, ReaderInv, reader
  <2>2. ASSUME pc' = "copying"
        PROVE  \E k \in 1 .. Len(closed') :
                 /\ opened' = 2 * k
                 /\ \A w \in Words : Closing(k)'[w] <= view'[w]
                 /\ \A w \in Words : copy'[w] # Unread => CopiedFrom(k, w)'
    <3>1. PICK k \in 1 .. Len(closed) :
            /\ opened = 2 * k
            /\ \A w \in Words : Closing(k)[w] <= view[w]
            /\ \A w \in Words : copy[w] # Unread => CopiedFrom(k, w)
      BY <2>2 DEF IInv, ReaderInv, reader
    <3>2. \A w \in Words : copy'[w] # Unread => CopiedFrom(k, w)'
      BY <3>1, <1>3 DEF reader
    <3>3. k \in 1 .. Len(closed')
      BY DEF IInv, TypeOK, WriterTypes, Grown
    <3> QED BY <1>1, <3>1, <3>2, <3>3 DEF reader
  <2> QED BY <2>1, <2>2 DEF ReaderInv
<1>5. AcceptedIsStable'
  <2>1. accepted' = accepted /\ accepted.at \in 0 .. Len(closed)
    BY DEF IInv, TypeOK, ReaderTypes, reader
  <2>2. accepted.at # 0 => closed'[accepted.at] = closed[accepted.at]
    BY <2>1, ClosingFacts DEF IInv, Grown
  <2> QED BY <2>1, <2>2 DEF IInv, AcceptedIsStable
<1> QED BY <1>4, <1>5

-----------------------------------------------------------------------------
(* The writer's steps                                                      *)

\* The record a relaxed store appends carries the view of the last release fence.
LEMMA RelaxedFacts ==
  ASSUME IInv, NEW c \in Cells, NEW v \in 0 .. U64Max, RelaxedStore(c, v)
  PROVE  LET m == [value |-> v, view |-> [fenced EXCEPT ![c] = Last(c) + 1]] IN
         /\ m \in Stores
         /\ stores' = [stores EXCEPT ![c] = Append(@, m)]
         /\ m.value = v
         /\ \A d \in Cells : m.view[d] = IF d = c THEN Last(c) + 1 ELSE fenced[d]
         /\ \A d \in Cells : m.view[d] <= IF d = c THEN Last(c) + 1 ELSE Last(d)
<1> DEFINE m == [value |-> v, view |-> [fenced EXCEPT ![c] = Last(c) + 1]]
<1>1. fenced \in [Cells -> Nat \ {0}] /\ Last(c) \in Nat /\ \A d \in Cells : fenced[d] <= Last(d)
  BY DEF IInv, TypeOK, WriterTypes
<1>2. m.view \in [Cells -> Nat \ {0}]
  BY <1>1
<1>3. m \in Stores
  BY <1>2 DEF Stores
<1>4. \A d \in Cells : m.view[d] = IF d = c THEN Last(c) + 1 ELSE fenced[d]
  BY <1>1
<1> QED BY <1>1, <1>3, <1>4 DEF RelaxedStore

\* What any store must satisfy for the views to stay within the cells.
LEMMA ViewsStay ==
  ASSUME IInv, NEW c \in Cells, NEW m \in Stores,
         stores' = [stores EXCEPT ![c] = Append(@, m)],
         \A d \in Cells : m.view[d] <= IF d = c THEN Last(c) + 1 ELSE Last(d)
  PROVE  ViewsWithin'
<1> SUFFICES ASSUME NEW b \in Cells, NEW d \in Cells, NEW i \in 1 .. Last(b)'
             PROVE  stores'[b][i].view[d] <= Last(d)'
  BY Zenon DEF ViewsWithin
<1>1. /\ \A e \in Cells : Last(e)' \in Nat \ {0} /\ Last(e) <= Last(e)'
      /\ \A e \in Cells : e # c => stores'[e] = stores[e]
      /\ \A e \in Cells : \A j \in 1 .. Last(e) : stores'[e][j] = stores[e][j]
      /\ Last(c)' = Last(c) + 1
      /\ stores'[c][Last(c) + 1] = m
  BY Zenon, StoreFacts DEF IInv
<1>2. \A e \in Cells : Last(e) \in Nat
  BY DEF IInv, TypeOK, WriterTypes
<1>3. CASE i \in 1 .. Last(b)
  <2>1. stores[b][i].view[d] <= Last(d) /\ stores[b][i].view[d] \in Nat
    <3>1. stores[b][i] \in Stores
      BY <1>3, StoreTypes DEF IInv
    <3>2. stores[b][i].view[d] \in Nat
      BY <3>1, StorePart
    <3> QED BY <1>3, <3>2 DEF IInv, WriterInv, ViewsWithin
  <2>2. stores'[b][i] = stores[b][i]
    BY Zenon, <1>1, <1>3
  <2>3. Last(d) \in Nat /\ Last(d)' \in Nat /\ Last(d) <= Last(d)'
    BY <1>1, <1>2
  <2>4. stores[b][i].view[d] <= Last(d)'
    BY <2>1, <2>3
  <2> QED BY Zenon, <2>2, <2>4
<1>4. CASE b = c /\ i = Last(c) + 1
  <2>1. m.view[d] \in Nat
    BY StorePart
  <2>2. stores'[b][i] = m
    BY Zenon, <1>1, <1>4
  <2>3. m.view[d] <= Last(d)'
    <3>1. CASE d = c
      BY <1>1, <3>1
    <3>2. CASE d # c
      BY <1>1, <1>2, <2>1, <3>2
    <3> QED BY <3>1, <3>2
  <2> QED BY Zenon, <2>2, <2>3
<1>5. (b = c /\ i = Last(c) + 1) \/ i \in 1 .. Last(b)
  BY <1>1, <1>2 DEF Last
<1> QED BY Zenon, <1>3, <1>4, <1>5

\* A closed publication stays where its closing store says, whatever word or
\* counter store follows.
LEMMA ClosedStays ==
  ASSUME IInv, NEW c \in Cells, NEW m \in Stores,
         stores' = [stores EXCEPT ![c] = Append(@, m)],
         c = Counter \/ Len(closed) < m.value,
         NEW k \in 1 .. Len(closed), NEW w \in Words
  PROVE  /\ Closing(k)' = Closing(k)
         /\ closed[k][w] = stores'[w][Closing(k)[w]].value
         /\ \A j \in 1 .. Last(w)' : Closing(k)[w] < j => k < stores'[w][j].value
<1>1. /\ \A e \in Cells : Last(e)' \in Nat \ {0} /\ Last(e) <= Last(e)'
      /\ \A e \in Cells : e # c => stores'[e] = stores[e]
      /\ \A e \in Cells : \A j \in 1 .. Last(e) : stores'[e][j] = stores[e][j]
      /\ Last(c)' = Last(c) + 1
      /\ stores'[c][Last(c) + 1] = m
  BY Zenon, StoreFacts DEF IInv
<1>2. /\ Len(closed) \in Nat /\ w \in Cells /\ w # Counter
      /\ 2 * k + 1 \in 1 .. Last(Counter) /\ Closing(k)[w] \in Nat \ {0}
      /\ Last(w) \in Nat
  BY ClosingFacts, CellFacts DEF IInv
<1>3. Closing(k)' = Closing(k)
  BY Zenon, <1>1, <1>2, CellFacts DEF Closing
<1>4. Closing(k)[w] <= Last(w)
  BY <1>2, CellFacts DEF IInv, WriterInv, ViewsWithin, Closing
<1>5. closed[k][w] = stores'[w][Closing(k)[w]].value
  <2>1. closed[k][w] = stores[w][Closing(k)[w]].value
    BY DEF IInv, WriterInv, ClosedKept
  <2>2. Closing(k)[w] \in 1 .. Last(w)
    BY <1>2, <1>4
  <2> QED BY Zenon, <1>1, <1>2, <2>1, <2>2
<1>6. ASSUME NEW j \in 1 .. Last(w)', Closing(k)[w] < j PROVE k < stores'[w][j].value
  <2>1. CASE j \in 1 .. Last(w)
    BY Zenon, <1>1, <1>2, <1>6, <2>1 DEF IInv, WriterInv, ClosedKept
  <2>2. CASE w = c /\ j = Last(c) + 1
    <3>1. m.value \in Nat
      BY StorePart
    <3>2. stores'[w][j] = m
      BY Zenon, <1>1, <2>2
    <3>3. Len(closed) < m.value
      BY <1>2, <2>2
    <3>4. k < m.value
      BY <1>2, <3>1, <3>3
    <3> QED BY Zenon, <3>2, <3>4
  <2>3. (w = c /\ j = Last(c) + 1) \/ j \in 1 .. Last(w)
    BY <1>1, <1>2 DEF Last
  <2> QED BY Zenon, <2>1, <2>2, <2>3
<1> QED BY Zenon, <1>3, <1>5, <1>6

\* A store keeps the words behind their fences and the counter's stores at
\* their own index, when the record it appends does.
LEMMA StoreKeeps ==
  ASSUME IInv, NEW c \in Cells, NEW m \in Stores,
         stores' = [stores EXCEPT ![c] = Append(@, m)],
         IF c = Counter THEN m.value = Last(Counter) /\ m.view[Counter] = Last(Counter) + 1
                        ELSE 2 * m.value <= m.view[Counter]
  PROVE  /\ \A i \in 1 .. Last(Counter)' : stores'[Counter][i].value = i - 1
         /\ OwnIndex'
         /\ WordsFenced'
<1>1. /\ \A e \in Cells : Last(e)' \in Nat \ {0} /\ Last(e) <= Last(e)'
      /\ \A e \in Cells : e # c => stores'[e] = stores[e]
      /\ \A e \in Cells : \A j \in 1 .. Last(e) : stores'[e][j] = stores[e][j]
      /\ Last(c)' = Last(c) + 1
      /\ stores'[c][Last(c) + 1] = m
  BY Zenon, StoreFacts DEF IInv
<1>2. \A e \in Cells : Last(e) \in Nat
  BY DEF IInv, TypeOK, WriterTypes
<1>3. ASSUME NEW e \in Cells, NEW i \in 1 .. Last(e)'
      PROVE  \/ i \in 1 .. Last(e) /\ stores'[e][i] = stores[e][i]
             \/ e = c /\ i = Last(c) + 1 /\ stores'[e][i] = m
  <2>1. CASE i \in 1 .. Last(e)
    BY Zenon, <1>1, <2>1
  <2>2. CASE i \notin 1 .. Last(e)
    <3>1. e = c
      BY <1>1, <2>2 DEF Last
    <3>2. i = Last(c) + 1
      BY <1>1, <1>2, <2>2, <3>1
    <3> QED BY Zenon, <1>1, <3>1, <3>2
  <2> QED BY Zenon, <2>1, <2>2
<1>4. ASSUME NEW i \in 1 .. Last(Counter)'
      PROVE  stores'[Counter][i].value = i - 1 /\ stores'[Counter][i].view[Counter] = i
  <2>1. CASE i \in 1 .. Last(Counter) /\ stores'[Counter][i] = stores[Counter][i]
    <3>1. stores[Counter][i].value = i - 1 /\ stores[Counter][i].view[Counter] = i
      BY <2>1 DEF IInv, TypeOK, WriterTypes, WriterInv, OwnIndex
    <3> QED BY Zenon, <2>1, <3>1
  <2>2. CASE Counter = c /\ i = Last(c) + 1 /\ stores'[Counter][i] = m
    <3>1. m.value = i - 1 /\ m.view[Counter] = i
      BY <1>2, <2>2, CellFacts
    <3> QED BY Zenon, <2>2, <3>1
  <2> QED BY Zenon, <1>3, <2>1, <2>2, CellFacts
<1>5. ASSUME NEW w \in Words, NEW i \in 1 .. Last(w)'
      PROVE  2 * stores'[w][i].value <= stores'[w][i].view[Counter]
  <2>1. CASE i \in 1 .. Last(w) /\ stores'[w][i] = stores[w][i]
    <3>1. 2 * stores[w][i].value <= stores[w][i].view[Counter]
      BY <2>1 DEF IInv, WriterInv, WordsFenced
    <3> QED BY Zenon, <2>1, <3>1
  <2>2. CASE w = c /\ i = Last(c) + 1 /\ stores'[w][i] = m
    <3>1. 2 * m.value <= m.view[Counter]
      BY <2>2, CellFacts
    <3> QED BY Zenon, <2>2, <3>1
  <2> QED BY Zenon, <1>3, <2>1, <2>2, CellFacts
<1> QED BY Zenon, <1>4, <1>5 DEF OwnIndex, WordsFenced

\* The types of the reader survive a step of the writer.
LEMMA ReaderTypesStay ==
  ASSUME IInv, WriterTypes', Grown, UNCHANGED reader
  PROVE  ReaderTypes'
<1>1. ReaderTypes
  BY DEF IInv, TypeOK
<1>2. \A c \in Cells : Last(c) \in Nat /\ Last(c)' \in Nat /\ Last(c) <= Last(c)'
  BY DEF IInv, TypeOK, WriterTypes, Grown
<1>3. \A c \in Cells : view'[c] <= Last(c)' /\ heard'[c] <= Last(c)'
  BY <1>1, <1>2 DEF ReaderTypes, reader
<1>4. accepted' \in [at : 0 .. Len(closed'), copy : Copies]
  <2>1. Len(closed) \in Nat /\ Len(closed') \in Nat /\ Len(closed) <= Len(closed')
    BY DEF IInv, TypeOK, WriterTypes, Grown
  <2>2. 0 .. Len(closed) \subseteq 0 .. Len(closed')
    BY <2>1
  <2> QED BY <1>1, <2>2 DEF ReaderTypes, reader
<1> QED BY <1>1, <1>3, <1>4 DEF ReaderTypes, reader

\* The counter's current value is one less than the number of its stores.
LEMMA CurrentFacts ==
  ASSUME TypeOK
  PROVE  writer_current = Last(Counter) - 1 /\ Last(Counter) \in Nat \ {0}
<1>1. Last(Counter) \in Nat \ {0}
  BY CellFacts DEF TypeOK, WriterTypes
<1>2. Last(Counter) \in 1 .. Last(Counter)
  BY <1>1
<1> QED BY <1>1, <1>2 DEF TypeOK, WriterTypes, writer_current

\* The writer opens an interval.
LEMMA OpenWriteIInv == IInv /\ OpenWrite => IInv'
<1> SUFFICES ASSUME IInv, OpenWrite PROVE IInv'
  OBVIOUS
<1> DEFINE v == writer_current + 1
           m == [value |-> v, view |-> [fenced EXCEPT ![Counter] = Last(Counter) + 1]]
<1>1. writer_current = Last(Counter) - 1 /\ Last(Counter) \in Nat \ {0}
  BY CurrentFacts DEF IInv
<1>2. v = Last(Counter) /\ v \in 0 .. U64Max /\ Last(Counter) + 1 <= U64Max
  BY <1>1, SeqCellAssumption DEF OpenWrite
<1>3. /\ m \in Stores
      /\ stores' = [stores EXCEPT ![Counter] = Append(@, m)]
      /\ m.value = v
      /\ \A d \in Cells : m.view[d] = IF d = Counter THEN Last(Counter) + 1 ELSE fenced[d]
      /\ \A d \in Cells : m.view[d] <= IF d = Counter THEN Last(Counter) + 1 ELSE Last(d)
  <2>1. RelaxedStore(Counter, v)
    BY DEF OpenWrite
  <2> HIDE DEF v
  <2> QED BY <1>2, <2>1, RelaxedFacts, CellFacts
<1> HIDE DEF v, m
<1>4. /\ stores' \in [Cells -> Seq(Stores)]
      /\ \A d \in Cells : Last(d)' \in Nat \ {0} /\ Last(d) <= Last(d)'
      /\ \A d \in Cells : \A i \in 1 .. Last(d) : stores'[d][i] = stores[d][i]
      /\ Last(Counter)' = Last(Counter) + 1
  BY Zenon, <1>3, StoreFacts, CellFacts DEF IInv
<1>5. ~writing /\ writing' /\ closed' = closed /\ UNCHANGED reader
  BY DEF OpenWrite
<1>6. Grown
  BY <1>4, <1>5 DEF Grown, IInv, TypeOK, WriterTypes
<1>7. ViewsWithin'
  BY Zenon, <1>3, ViewsStay, CellFacts
<1>8. /\ \A i \in 1 .. Last(Counter)' : stores'[Counter][i].value = i - 1
      /\ OwnIndex' /\ WordsFenced'
  <2>1. m.value = Last(Counter) /\ m.view[Counter] = Last(Counter) + 1
    BY <1>2, <1>3, CellFacts
  <2> QED BY Zenon, <1>3, <2>1, StoreKeeps, CellFacts
<1>9. ClosedKept'
  <2> SUFFICES ASSUME NEW k \in 1 .. Len(closed), NEW x \in Words
               PROVE  /\ closed[k][x] = stores'[x][Closing(k)'[x]].value
                      /\ \A j \in 1 .. Last(x)' : Closing(k)'[x] < j => k < stores'[x][j].value
    BY <1>5 DEF ClosedKept
  <2>1. /\ Closing(k)' = Closing(k)
        /\ closed[k][x] = stores'[x][Closing(k)[x]].value
        /\ \A j \in 1 .. Last(x)' : Closing(k)[x] < j => k < stores'[x][j].value
    BY Zenon, <1>3, CellFacts, ClosedStays
  <2> QED BY <2>1
<1>10. /\ fenced' \in [Cells -> Nat \ {0}] /\ \A c \in Cells : fenced'[c] <= Last(c)'
       /\ fenced'[Counter] = Last(Counter)'
  <2>1. \A d \in Cells : Last(d) \in Nat \ {0}
    BY DEF IInv, TypeOK, WriterTypes
  <2>2. fenced' = [c \in Cells |-> IF c = Counter THEN Last(Counter) + 1 ELSE Last(c)]
    BY Zenon DEF OpenWrite, Latest
  <2> QED BY <1>4, <2>1, <2>2, CellFacts
<1>11. WriterTypes'
  <2>1. Last(Counter)' = 2 * Len(closed') + (IF writing' THEN 2 ELSE 1)
    BY <1>1, <1>4, <1>5 DEF IInv, TypeOK, WriterTypes
  <2>2. closed' \in Seq([Words -> 0 .. U64Max])
    BY <1>5 DEF IInv, TypeOK, WriterTypes
  <2>3. writing' \in BOOLEAN
    BY DEF OpenWrite
  <2> QED BY <1>4, <1>8, <1>10, <2>1, <2>2, <2>3 DEF WriterTypes
<1>12. WriterInv'
  BY <1>2, <1>4, <1>7, <1>8, <1>9, <1>10 DEF WriterInv
<1> QED BY <1>5, <1>6, <1>11, <1>12, ReaderStays, ReaderTypesStay DEF IInv, TypeOK

\* The writer stores a word of the open interval.
LEMMA StoreWordIInv == ASSUME IInv, NEW w \in Words, StoreWord(w) PROVE IInv'
<1> DEFINE v == Len(closed) + 1
           m == [value |-> v, view |-> [fenced EXCEPT ![w] = Last(w) + 1]]
<1>1. /\ writing /\ UNCHANGED <<fenced, writing, closed>> /\ UNCHANGED reader
      /\ RelaxedStore(w, v)
  BY DEF StoreWord
<1>2. /\ w \in Cells /\ w # Counter /\ Len(closed) \in Nat
      /\ Last(Counter) = 2 * Len(closed) + 2 /\ fenced[Counter] = Last(Counter)
      /\ Last(Counter) <= U64Max
  BY <1>1, CellFacts, ClosingFacts DEF IInv, TypeOK, WriterTypes, WriterInv
<1>3. v \in 0 .. U64Max
  BY <1>2, SeqCellAssumption
<1>4. /\ m \in Stores
      /\ stores' = [stores EXCEPT ![w] = Append(@, m)]
      /\ m.value = v
      /\ \A d \in Cells : m.view[d] = IF d = w THEN Last(w) + 1 ELSE fenced[d]
      /\ \A d \in Cells : m.view[d] <= IF d = w THEN Last(w) + 1 ELSE Last(d)
  <2> HIDE DEF v
  <2> QED BY <1>1, <1>2, <1>3, RelaxedFacts
<1>5. 2 * m.value <= m.view[Counter] /\ Len(closed) < m.value
  <2>1. m.view[Counter] = Last(Counter)
    BY <1>2, <1>4, CellFacts
  <2> QED BY <1>2, <1>4, <2>1
<1> HIDE DEF v, m
<1>6. /\ stores' \in [Cells -> Seq(Stores)]
      /\ \A d \in Cells : Last(d)' \in Nat \ {0} /\ Last(d) <= Last(d)'
      /\ \A d \in Cells : d # w => stores'[d] = stores[d]
      /\ \A d \in Cells : \A i \in 1 .. Last(d) : stores'[d][i] = stores[d][i]
  BY Zenon, <1>2, <1>4, StoreFacts DEF IInv
<1>7. Last(Counter)' = Last(Counter)
  BY <1>2, <1>6, CellFacts DEF Last
<1>8. Grown
  BY <1>1, <1>6 DEF Grown, IInv, TypeOK, WriterTypes
<1>9. ViewsWithin'
  BY Zenon, <1>2, <1>4, ViewsStay
<1>10. /\ \A i \in 1 .. Last(Counter)' : stores'[Counter][i].value = i - 1
       /\ OwnIndex' /\ WordsFenced'
  BY Zenon, <1>2, <1>4, <1>5, StoreKeeps
<1>11. ClosedKept'
  <2> SUFFICES ASSUME NEW k \in 1 .. Len(closed), NEW x \in Words
               PROVE  /\ closed[k][x] = stores'[x][Closing(k)'[x]].value
                      /\ \A j \in 1 .. Last(x)' : Closing(k)'[x] < j => k < stores'[x][j].value
    BY <1>1 DEF ClosedKept
  <2>1. /\ Closing(k)' = Closing(k)
        /\ closed[k][x] = stores'[x][Closing(k)[x]].value
        /\ \A j \in 1 .. Last(x)' : Closing(k)[x] < j => k < stores'[x][j].value
    BY Zenon, <1>2, <1>4, <1>5, ClosedStays
  <2> QED BY <2>1
<1>12. fenced' \in [Cells -> Nat \ {0}] /\ \A c \in Cells : fenced'[c] <= Last(c)'
  <2>1. \A c \in Cells : fenced[c] \in Nat /\ fenced[c] <= Last(c) /\ Last(c) \in Nat
    BY DEF IInv, TypeOK, WriterTypes
  <2> QED BY <1>1, <1>6, <2>1 DEF IInv, TypeOK, WriterTypes
<1>13. WriterTypes'
  BY <1>1, <1>2, <1>6, <1>7, <1>10, <1>12 DEF WriterTypes, IInv, TypeOK
<1>14. WriterInv'
  BY <1>1, <1>2, <1>7, <1>9, <1>10, <1>11 DEF WriterInv
<1> QED BY <1>1, <1>8, <1>13, <1>14, ReaderStays, ReaderTypesStay DEF IInv, TypeOK

\* The writer closes an interval: the counter's store carries where every word stands.
LEMMA CloseWriteIInv == IInv /\ CloseWrite => IInv'
<1> SUFFICES ASSUME IInv, CloseWrite PROVE IInv'
  OBVIOUS
<1> DEFINE v == writer_current + 1
           m == [value |-> v, view |-> [Latest EXCEPT ![Counter] = Last(Counter) + 1]]
           n == Len(closed) + 1
           now == [w \in Words |-> stores[w][Last(w)].value]
<1>1. /\ writing /\ ~writing' /\ writing' \in BOOLEAN /\ fenced' = fenced /\ UNCHANGED reader
      /\ closed' = Append(closed, now)
      /\ ReleaseStore(Counter, v)
  BY Zenon DEF CloseWrite
<1>2. /\ writer_current = Last(Counter) - 1 /\ Last(Counter) \in Nat \ {0}
      /\ Len(closed) \in Nat /\ Last(Counter) = 2 * Len(closed) + 2 /\ Last(Counter) <= U64Max
  BY <1>1, CurrentFacts, ClosingFacts DEF IInv, TypeOK, WriterTypes, WriterInv
<1>3. v = Last(Counter) /\ v \in 0 .. U64Max
  BY <1>2, SeqCellAssumption
<1>4. \A d \in Cells : Last(d) \in Nat \ {0}
  BY DEF IInv, TypeOK, WriterTypes
<1>5. /\ m \in Stores
      /\ stores' = [stores EXCEPT ![Counter] = Append(@, m)]
      /\ m.value = v
      /\ \A d \in Cells : m.view[d] = IF d = Counter THEN Last(Counter) + 1 ELSE Last(d)
  <2>1. \A d \in Cells : m.view[d] = IF d = Counter THEN Last(Counter) + 1 ELSE Last(d)
    BY DEF Latest
  <2>2. m.view \in [Cells -> Nat \ {0}]
    BY <1>4, CellFacts DEF Latest
  <2>3. m \in Stores
    BY <1>3, <2>2 DEF Stores
  <2> QED BY <1>1, <2>1, <2>3 DEF ReleaseStore
<1>6. \A d \in Cells : m.view[d] <= IF d = Counter THEN Last(Counter) + 1 ELSE Last(d)
  BY <1>4, <1>5
<1> HIDE DEF v, m
<1>7. /\ stores' \in [Cells -> Seq(Stores)]
      /\ \A d \in Cells : Last(d)' \in Nat \ {0} /\ Last(d) <= Last(d)'
      /\ \A d \in Cells : d # Counter => stores'[d] = stores[d]
      /\ \A d \in Cells : \A i \in 1 .. Last(d) : stores'[d][i] = stores[d][i]
      /\ Last(Counter)' = Last(Counter) + 1
      /\ stores'[Counter][Last(Counter) + 1] = m
  BY Zenon, <1>5, StoreFacts, CellFacts DEF IInv
<1>8. /\ now \in [Words -> 0 .. U64Max]
      /\ closed \in Seq([Words -> 0 .. U64Max])
  <2>1. ASSUME NEW w \in Words PROVE stores[w][Last(w)].value \in 0 .. U64Max
    <3>1. Last(w) \in 1 .. Last(w) /\ w \in Cells
      BY <1>4, CellFacts
    <3> QED BY <3>1, StoreTypes, StorePart DEF IInv
  <2> QED BY <2>1 DEF IInv, TypeOK, WriterTypes
<1>9. /\ closed' \in Seq([Words -> 0 .. U64Max])
      /\ Len(closed') = n
      /\ closed'[n] = now
      /\ \A k \in 1 .. Len(closed) : closed'[k] = closed[k]
  <2> HIDE DEF now
  <2> QED BY <1>1, <1>8
<1>10. Grown
  BY <1>2, <1>7, <1>9 DEF Grown
<1>11. ViewsWithin'
  BY Zenon, <1>5, <1>6, ViewsStay, CellFacts
<1>12. /\ \A i \in 1 .. Last(Counter)' : stores'[Counter][i].value = i - 1
       /\ OwnIndex' /\ WordsFenced'
  <2>1. m.value = Last(Counter) /\ m.view[Counter] = Last(Counter) + 1
    BY <1>3, <1>5, CellFacts
  <2> QED BY Zenon, <1>5, <2>1, StoreKeeps, CellFacts
<1>13. ClosedKept'
  <2> SUFFICES ASSUME NEW k \in 1 .. n, NEW w \in Words
               PROVE  /\ closed'[k][w] = stores'[w][Closing(k)'[w]].value
                      /\ \A j \in 1 .. Last(w)' : Closing(k)'[w] < j => k < stores'[w][j].value
    BY <1>9 DEF ClosedKept
  <2>1. CASE k \in 1 .. Len(closed)
    <3>1. /\ Closing(k)' = Closing(k)
          /\ closed[k][w] = stores'[w][Closing(k)[w]].value
          /\ \A j \in 1 .. Last(w)' : Closing(k)[w] < j => k < stores'[w][j].value
      BY Zenon, <1>5, <2>1, ClosedStays, CellFacts
    <3> QED BY <1>9, <2>1, <3>1
  <2>2. CASE k = n
    <3>1. 2 * k + 1 = Last(Counter) + 1
      BY <1>2, <2>2
    <3>2. Closing(k)' = m.view
      BY <1>7, <3>1 DEF Closing
    <3>3. Closing(k)'[w] = Last(w)
      BY <1>5, <3>2, CellFacts
    <3>4. stores'[w] = stores[w] /\ Last(w)' = Last(w) /\ Last(w) \in Nat
      BY <1>4, <1>7, CellFacts DEF Last
    <3>5. closed'[k][w] = stores[w][Last(w)].value
      BY <1>9, <2>2
    <3>6. \A j \in 1 .. Last(w)' : ~(Closing(k)'[w] < j)
      BY <3>3, <3>4
    <3> QED BY <3>3, <3>4, <3>5, <3>6
  <2> QED BY <1>2, <2>1, <2>2
<1>14. fenced' \in [Cells -> Nat \ {0}] /\ \A c \in Cells : fenced'[c] <= Last(c)'
  <2>1. \A c \in Cells : fenced[c] \in Nat /\ fenced[c] <= Last(c) /\ Last(c) \in Nat
    BY DEF IInv, TypeOK, WriterTypes
  <2> QED BY <1>1, <1>7, <2>1 DEF IInv, TypeOK, WriterTypes
<1>15. WriterTypes'
  <2>1. Last(Counter)' = 2 * Len(closed') + (IF writing' THEN 2 ELSE 1)
    BY <1>1, <1>2, <1>7, <1>9
  <2> QED BY <1>1, <1>7, <1>9, <1>12, <1>14, <2>1 DEF WriterTypes
<1>16. WriterInv'
  BY <1>1, <1>11, <1>12, <1>13 DEF WriterInv
<1> QED BY <1>1, <1>10, <1>15, <1>16, ReaderStays, ReaderTypesStay DEF IInv, TypeOK

-----------------------------------------------------------------------------
(* The reader's steps                                                      *)

\* Joining views moves neither back, and stays within the stores made.
LEMMA JoinFacts ==
  ASSUME NEW v \in [Cells -> Nat \ {0}], NEW u \in [Cells -> Nat \ {0}]
  PROVE  /\ Join(v, u) \in [Cells -> Nat \ {0}]
         /\ \A c \in Cells : v[c] <= Join(v, u)[c] /\ u[c] <= Join(v, u)[c]
         /\ \A c \in Cells : Join(v, u)[c] = v[c] \/ Join(v, u)[c] = u[c]
BY DEF Join, Later

\* Joining what a store carries to one of the reader's views.
LEMMA JoinStore ==
  ASSUME IInv, NEW v \in [Cells -> Nat \ {0}], \A c \in Cells : v[c] <= Last(c),
         NEW c \in Cells, NEW i \in 1 .. Last(c)
  PROVE  LET j == Join(v, stores[c][i].view) IN
         /\ j \in [Cells -> Nat \ {0}]
         /\ \A d \in Cells : v[d] <= j[d] /\ stores[c][i].view[d] <= j[d] /\ j[d] <= Last(d)
<1>1. stores[c][i].view \in [Cells -> Nat \ {0}]
  BY StoreTypes DEF IInv, Stores
<1>2. \A d \in Cells : stores[c][i].view[d] <= Last(d)
  BY DEF IInv, WriterInv, ViewsWithin
<1> DEFINE j == Join(v, stores[c][i].view)
<1>3. /\ j \in [Cells -> Nat \ {0}]
      /\ \A d \in Cells : v[d] <= j[d] /\ stores[c][i].view[d] <= j[d]
      /\ \A d \in Cells : j[d] = v[d] \/ j[d] = stores[c][i].view[d]
  BY <1>1, JoinFacts
<1> HIDE DEF j
<1>4. \A d \in Cells : j[d] <= Last(d)
  BY <1>2, <1>3
<1> QED BY <1>3, <1>4 DEF j

\* The reader's steps leave the writer's part of the invariant alone.
LEMMA WriterStays ==
  ASSUME IInv, UNCHANGED writer
  PROVE  /\ WriterTypes' /\ WriterInv'
         /\ \A k : Closing(k)' = Closing(k)
         /\ \A c \in Cells : Last(c)' = Last(c)
<1>1. stores' = stores /\ fenced' = fenced /\ writing' = writing /\ closed' = closed
  BY DEF writer
<1>2. WriterTypes'
  BY <1>1 DEF IInv, TypeOK, WriterTypes, Last
<1>3. ViewsWithin' /\ OwnIndex' /\ WordsFenced' /\ ClosedKept'
  BY <1>1 DEF IInv, WriterInv, ViewsWithin, OwnIndex, WordsFenced, ClosedKept, Last, Closing
<1> QED BY <1>1, <1>2, <1>3 DEF IInv, WriterInv, Last, Closing

\* The reader's types, in the form its steps use.
LEMMA ReaderFacts ==
  ASSUME IInv
  PROVE  /\ view \in [Cells -> Nat \ {0}] /\ heard \in [Cells -> Nat \ {0}]
         /\ \A c \in Cells : view[c] <= Last(c) /\ heard[c] <= Last(c)
         /\ \A c \in Cells : Last(c) \in Nat
         /\ accepted.at \in Nat
BY DEF IInv, TypeOK, ReaderTypes, WriterTypes

\* The value the counter's store number i holds.
LEMMA CounterValue ==
  ASSUME IInv, NEW i \in 1 .. Last(Counter)
  PROVE  /\ stores[Counter][i].value = i - 1
         /\ stores[Counter][i].value \in 0 .. U64Max
         /\ stores[Counter][i].view[Counter] = i
BY StoreTypes, StorePart, CellFacts DEF IInv, TypeOK, WriterTypes, WriterInv, OwnIndex

\* A call starts with nothing opened.
LEMMA StartReadIInv == IInv /\ StartRead => IInv'
<1> SUFFICES ASSUME IInv, StartRead PROVE IInv'
  OBVIOUS
<1>1. WriterTypes' /\ WriterInv' /\ \A c \in Cells : Last(c)' = Last(c)
  BY WriterStays DEF StartRead
<1>2. ReaderTypes'
  <2>1. attempts' \in 0 .. MaxReadAttempts /\ stalled_at' \in 0 .. U64Max
    BY SeqCellAssumption DEF StartRead
  <2> QED BY ZenonT(30), <1>1, <2>1 DEF IInv, TypeOK, ReaderTypes, StartRead, writer
<1>3. ReaderInv' /\ AcceptedIsStable'
  <2>1. pc' = "opening" /\ view' = view /\ accepted' = accepted /\ closed' = closed
    BY DEF StartRead, writer
  <2> QED BY <2>1 DEF IInv, ReaderInv, AcceptedIsStable
<1> QED BY <1>1, <1>2, <1>3 DEF IInv, TypeOK

\* The bound expires and nothing is accepted.
LEMMA GiveUpIInv == IInv /\ GiveUp => IInv'
<1> SUFFICES ASSUME IInv, GiveUp PROVE IInv'
  OBVIOUS
<1>1. WriterTypes' /\ WriterInv' /\ \A c \in Cells : Last(c)' = Last(c)
  BY WriterStays DEF GiveUp
<1>2. pc' = "idle" /\ verdict' \in [kind : Verdicts, at : 0 .. U64Max]
  <2>1. stalled_at \in 0 .. U64Max /\ 0 \in 0 .. U64Max
    BY SeqCellAssumption DEF IInv, TypeOK, ReaderTypes
  <2>2. Return("stalled", stalled_at) \/ Return("contended", 0)
    BY DEF GiveUp
  <2> QED BY <2>1, <2>2 DEF Return, Verdicts
<1>3. ReaderTypes'
  BY <1>1, <1>2 DEF IInv, TypeOK, ReaderTypes, GiveUp, writer
<1>4. ReaderInv' /\ AcceptedIsStable'
  BY <1>2 DEF IInv, ReaderInv, AcceptedIsStable, GiveUp, writer
<1> QED BY <1>1, <1>3, <1>4 DEF IInv, TypeOK

\* An even number is twice its half.
LEMMA Halves == \A n \in Nat : n % 2 = 0 => n \div 2 \in Nat /\ n = 2 * (n \div 2)
OBVIOUS

\* The opening load: a reader that finds publication k closed has acquired its view.
LEMMA OpenReadIInv == IInv /\ OpenRead => IInv'
<1> SUFFICES ASSUME IInv, OpenRead PROVE IInv'
  OBVIOUS
<1>1. /\ WriterTypes' /\ WriterInv' /\ (\A c \in Cells : Last(c)' = Last(c))
      /\ \A k : Closing(k)' = Closing(k)
  BY WriterStays DEF OpenRead
<1>2. PICK i \in view[Counter] .. Last(Counter) :
        /\ view' = Join(view, stores[Counter][i].view)
        /\ heard' = Join(heard, stores[Counter][i].view)
        /\ observed' = observed \cup {stores[Counter][i].value}
        /\ \/ FindUnpublished(stores[Counter][i].value)
           \/ FindInFlight(stores[Counter][i].value)
           \/ FindStable(stores[Counter][i].value)
  BY DEF OpenRead
<1>3. i \in 1 .. Last(Counter)
  BY ReaderFacts, CellFacts
<1> DEFINE value == stores[Counter][i].value
<1>4. value = i - 1 /\ value \in 0 .. U64Max
  BY <1>3, CounterValue
<1>5. /\ view' \in [Cells -> Nat \ {0}]
      /\ \A d \in Cells : /\ view[d] <= view'[d] /\ view'[d] <= Last(d)
                          /\ stores[Counter][i].view[d] <= view'[d]
  BY <1>2, <1>3, ReaderFacts, JoinStore, CellFacts
<1>6. heard' \in [Cells -> Nat \ {0}] /\ \A d \in Cells : heard'[d] <= Last(d)
  BY <1>2, <1>3, ReaderFacts, JoinStore, CellFacts
<1> HIDE DEF value
<1>7. accepted' = accepted /\ closed' = closed /\ pc = "opening"
  BY DEF OpenRead, writer
<1>8. attempts' \in 0 .. MaxReadAttempts
  BY SeqCellAssumption DEF OpenRead, IInv, TypeOK, ReaderTypes
<1>9. observed' \subseteq 0 .. U64Max
  BY Zenon, <1>2, <1>4 DEF value, IInv, TypeOK, ReaderTypes
<1>10. 2 * accepted'.at + 1 <= view'[Counter]
  <2>1. 2 * accepted.at + 1 <= view[Counter]
    BY DEF IInv, ReaderInv
  <2>2. view[Counter] \in Nat /\ view'[Counter] \in Nat /\ view[Counter] <= view'[Counter]
    BY <1>5, ReaderFacts, CellFacts
  <2> QED BY <1>7, <2>1, <2>2, ReaderFacts
<1>11. AcceptedIsStable'
  BY <1>7 DEF IInv, AcceptedIsStable
<1>12. ASSUME pc' \in {"idle", "opening", "copying"}, opened' \in 0 .. U64Max, copy' \in Copies,
              stalled_at' \in 0 .. U64Max, moved' \in BOOLEAN,
              verdict' \in [kind : Verdicts, at : 0 .. U64Max]
       PROVE  ReaderTypes'
  BY <1>1, <1>5, <1>6, <1>7, <1>8, <1>9, <1>12 DEF ReaderTypes, IInv, TypeOK
<1>13. CASE FindUnpublished(value)
  <2>1. pc' = "idle" /\ verdict' \in [kind : Verdicts, at : 0 .. U64Max]
    BY <1>13, SeqCellAssumption DEF FindUnpublished, Return, Verdicts
  <2>2. ReaderTypes'
    BY <1>12, <1>13, <2>1 DEF FindUnpublished, IInv, TypeOK, ReaderTypes
  <2>3. ReaderInv'
    BY <1>10, <2>1 DEF ReaderInv
  <2> QED BY <1>1, <1>11, <2>2, <2>3 DEF IInv, TypeOK
<1>14. CASE FindInFlight(value)
  <2>1. pc' = "opening" /\ stalled_at' \in 0 .. U64Max /\ moved' \in BOOLEAN
    BY <1>4, <1>7, <1>14 DEF FindInFlight, IInv, TypeOK, ReaderTypes
  <2>2. ReaderTypes'
    BY <1>12, <1>14, <2>1 DEF FindInFlight, IInv, TypeOK, ReaderTypes
  <2>3. ReaderInv'
    BY <1>10, <2>1 DEF ReaderInv
  <2> QED BY <1>1, <1>11, <2>2, <2>3 DEF IInv, TypeOK
<1>15. CASE FindStable(value)
  <2>1. pc' = "copying" /\ opened' = value /\ copy' = Nothing /\ value # 0 /\ value % 2 = 0
    BY <1>15 DEF FindStable
  <2>2. copy' \in Copies /\ \A w \in Words : copy'[w] = Unread
    BY <2>1 DEF Nothing, Copies
  <2>3. ReaderTypes'
    BY <1>4, <1>12, <1>15, <2>1, <2>2 DEF FindStable, IInv, TypeOK, ReaderTypes
  <2>4. PICK k \in Nat : value = 2 * k
    <3>1. value \in Nat
      BY <1>4
    <3>2. value \div 2 \in Nat /\ value = 2 * (value \div 2)
      BY <2>1, <3>1, Halves
    <3> QED BY <3>2, Zenon
  <2>5. k \in 1 .. Len(closed) /\ i = 2 * k + 1
    <3>1. Last(Counter) <= 2 * Len(closed) + 2 /\ Len(closed) \in Nat /\ Last(Counter) \in Nat
      BY ClosingFacts, CellFacts DEF IInv, TypeOK, WriterTypes
    <3> QED BY <1>3, <1>4, <2>1, <2>4, <3>1
  <2>6. \A w \in Words : Closing(k)'[w] <= view'[w]
    BY Zenon, <1>1, <1>5, <2>5, CellFacts DEF Closing
  <2>7. ReaderInv'
    <3>1. k \in 1 .. Len(closed') /\ opened' = 2 * k
      BY <1>7, <2>1, <2>4, <2>5
    <3>2. \A w \in Words : copy'[w] # Unread => CopiedFrom(k, w)'
      BY <2>2
    <3> QED BY <1>10, <2>6, <3>1, <3>2 DEF ReaderInv
  <2> QED BY <1>1, <1>11, <2>3, <2>7 DEF IInv, TypeOK
<1> QED BY <1>2, <1>13, <1>14, <1>15 DEF value

\* A data load: what it copies is no older than the publication opened, and the
\* next acquire fence knows of the interval that stored it.
LEMMA LoadWordIInv == ASSUME IInv, NEW w \in Words, LoadWord(w) PROVE IInv'
<1>1. /\ WriterTypes' /\ WriterInv' /\ (\A c \in Cells : Last(c)' = Last(c))
      /\ \A k : Closing(k)' = Closing(k)
  BY WriterStays DEF LoadWord
<1>2. PICK i \in view[w] .. Last(w) :
        /\ copy' = [copy EXCEPT ![w] = stores[w][i].value]
        /\ view' = [view EXCEPT ![w] = i]
        /\ heard' = Join(heard, stores[w][i].view)
  BY Zenon DEF LoadWord
<1>3. w \in Cells /\ w # Counter /\ i \in 1 .. Last(w) /\ view[w] \in Nat /\ i \in Nat
  BY ReaderFacts, CellFacts
<1>4. stores[w][i].value \in 0 .. U64Max /\ stores[w][i].view[Counter] \in Nat
  BY <1>3, StoreTypes, StorePart, CellFacts DEF IInv
<1>5. /\ heard' \in [Cells -> Nat \ {0}]
      /\ \A d \in Cells : /\ heard[d] <= heard'[d] /\ heard'[d] <= Last(d)
                          /\ stores[w][i].view[d] <= heard'[d]
  BY <1>2, <1>3, ReaderFacts, JoinStore
<1>6. /\ view' \in [Cells -> Nat \ {0}]
      /\ \A d \in Cells : view[d] <= view'[d] /\ view'[d] <= Last(d)
      /\ view'[Counter] = view[Counter]
  <2>1. i \in Nat \ {0} /\ i <= Last(w) /\ view[w] <= i
    BY <1>3, ReaderFacts
  <2> QED BY <1>2, <1>3, <2>1, ReaderFacts, CellFacts
<1>7. copy \in Copies /\ copy' \in Copies
  BY <1>2, <1>4 DEF IInv, TypeOK, ReaderTypes, Copies
<1>8. /\ pc = "copying" /\ stores' = stores /\ closed' = closed
      /\ UNCHANGED <<pc, opened, attempts, stalled_at, moved, observed, verdict, accepted>>
  BY DEF LoadWord, writer
<1>9. ReaderTypes'
  BY <1>1, <1>5, <1>6, <1>7, <1>8 DEF IInv, TypeOK, ReaderTypes
<1>10. PICK k \in 1 .. Len(closed) :
         /\ opened = 2 * k
         /\ \A x \in Words : Closing(k)[x] <= view[x]
         /\ \A x \in Words : copy[x] # Unread => CopiedFrom(k, x)
  BY <1>8 DEF IInv, ReaderInv
<1>11. \A x \in Cells : Closing(k)[x] \in Nat \ {0}
  BY ClosingFacts DEF IInv
<1>12. \A x \in Words : Closing(k)'[x] <= view'[x]
  BY <1>1, <1>6, <1>10, <1>11, ReaderFacts, CellFacts
<1>13. ASSUME NEW x \in Words, copy'[x] # Unread PROVE CopiedFrom(k, x)'
  <2>1. CASE x = w
    <3>1. copy'[x] = stores'[x][i].value
      BY <1>2, <1>7, <1>8, <2>1 DEF Copies
    <3>2. stores'[x][i].view[Counter] <= heard'[Counter]
      BY <1>5, <1>8, <2>1, CellFacts
    <3>3. i \in Closing(k)'[x] .. Last(x)'
      BY <1>1, <1>3, <1>10, <1>11, <2>1, ReaderFacts
    <3> QED BY <3>1, <3>2, <3>3 DEF CopiedFrom
  <2>2. CASE x # w
    <3>1. copy'[x] = copy[x]
      BY <1>2, <1>7, <2>2 DEF Copies
    <3>2. PICK t \in Closing(k)[x] .. Last(x) :
            copy[x] = stores[x][t].value /\ stores[x][t].view[Counter] <= heard[Counter]
      BY <1>10, <1>13, <3>1 DEF CopiedFrom
    <3>3. x \in Cells /\ Counter \in Cells
      BY CellFacts
    <3>4. t \in 1 .. Last(x)
      BY <1>11, <3>2, <3>3, ReaderFacts
    <3>5. stores[x][t].view[Counter] \in Nat
      BY <3>3, <3>4, StoreTypes, StorePart DEF IInv
    <3>6. stores[x][t].view[Counter] <= heard'[Counter]
      <4>1. /\ heard[Counter] \in Nat /\ heard'[Counter] \in Nat
            /\ heard[Counter] <= heard'[Counter]
        BY <1>5, <3>3, ReaderFacts
      <4> QED BY <3>2, <3>5, <4>1
    <3>7. t \in Closing(k)'[x] .. Last(x)'
      BY <1>1, <3>2, <3>3
    <3> QED BY <1>8, <3>1, <3>2, <3>6, <3>7 DEF CopiedFrom
  <2> QED BY <2>1, <2>2
<1>14. ReaderInv'
  <2>1. 2 * accepted'.at + 1 <= view'[Counter]
    BY <1>6, <1>8 DEF IInv, ReaderInv
  <2>2. k \in 1 .. Len(closed') /\ opened' = 2 * k
    BY <1>8, <1>10
  <2> QED BY <1>12, <1>13, <2>1, <2>2 DEF ReaderInv
<1>15. AcceptedIsStable'
  BY <1>8 DEF IInv, AcceptedIsStable
<1> QED BY <1>1, <1>9, <1>14, <1>15 DEF IInv, TypeOK

\* The recheck.  If the counter is found where it was opened, no word copied is
\* of a later publication: one would have carried the counter past it.
LEMMA CloseReadIInv ==
  ASSUME IInv, CloseRead
  PROVE  /\ IInv'
         /\ \/ accepted' = accepted
            \/ \E n \in 1 .. Len(closed) :
                 /\ accepted.at <= n
                 /\ accepted' = [at |-> n, copy |-> copy]
                 /\ \A w \in Words : copy[w] \in {Unread, closed[n][w]}
<1> DEFINE fence == Join(view, heard)
<1>1. /\ WriterTypes' /\ WriterInv' /\ (\A c \in Cells : Last(c)' = Last(c))
      /\ \A k : Closing(k)' = Closing(k)
  BY WriterStays DEF CloseRead
<1>2. PICK i \in fence[Counter] .. Last(Counter) :
        /\ view' = [fence EXCEPT ![Counter] = i]
        /\ heard' = Join(heard, stores[Counter][i].view)
        /\ observed' = observed \cup {stores[Counter][i].value}
        /\ Accept(stores[Counter][i].value) \/ Retry(stores[Counter][i].value)
  BY ZenonT(30) DEF CloseRead
<1>3. /\ fence \in [Cells -> Nat \ {0}]
      /\ \A c \in Cells : view[c] <= fence[c] /\ heard[c] <= fence[c] /\ fence[c] <= Last(c)
  <2>1. /\ fence \in [Cells -> Nat \ {0}]
        /\ \A c \in Cells : view[c] <= fence[c] /\ heard[c] <= fence[c]
        /\ \A c \in Cells : fence[c] = view[c] \/ fence[c] = heard[c]
    BY ReaderFacts, JoinFacts
  <2> HIDE DEF fence
  <2> QED BY <2>1, ReaderFacts
<1> HIDE DEF fence
<1> DEFINE value == stores[Counter][i].value
<1>4. i \in 1 .. Last(Counter) /\ i \in Nat \ {0} /\ fence[Counter] <= i /\ i <= Last(Counter)
  BY <1>3, ReaderFacts, CellFacts
<1>5. value = i - 1 /\ value \in 0 .. U64Max
  BY <1>4, CounterValue
<1>6. heard' \in [Cells -> Nat \ {0}] /\ \A d \in Cells : heard'[d] <= Last(d)
  BY <1>2, <1>4, ReaderFacts, JoinStore, CellFacts
<1> HIDE DEF value
<1>7. /\ view' \in [Cells -> Nat \ {0}] /\ view'[Counter] = i
      /\ \A d \in Cells : view'[d] <= Last(d)
  BY <1>2, <1>3, <1>4, CellFacts
<1>8. /\ pc = "copying" /\ closed' = closed
      /\ UNCHANGED <<opened, copy, attempts, stalled_at>>
  BY DEF CloseRead, writer
<1>9. observed' \subseteq 0 .. U64Max
  BY <1>2, <1>5 DEF value, IInv, TypeOK, ReaderTypes
<1>10. ASSUME pc' \in {"idle", "opening", "copying"}, moved' \in BOOLEAN,
              verdict' \in [kind : Verdicts, at : 0 .. U64Max],
              accepted' \in [at : 0 .. Len(closed), copy : Copies]
       PROVE  ReaderTypes'
  BY <1>1, <1>6, <1>7, <1>8, <1>9, <1>10 DEF ReaderTypes, IInv, TypeOK
<1>11. 2 * accepted.at + 1 <= i
  <2>1. 2 * accepted.at + 1 <= view[Counter] /\ accepted.at \in Nat
    BY ReaderFacts DEF IInv, ReaderInv
  <2>2. view[Counter] <= fence[Counter] /\ view[Counter] \in Nat /\ fence[Counter] \in Nat
    BY <1>3, ReaderFacts, CellFacts
  <2> QED BY <1>4, <2>1, <2>2
<1>12. CASE Retry(value)
  <2>1. pc' = "opening" /\ moved' /\ verdict' = verdict /\ accepted' = accepted /\ moved' \in BOOLEAN
    BY <1>12 DEF Retry
  <2>2. ReaderTypes'
    BY <1>10, <2>1 DEF IInv, TypeOK, ReaderTypes
  <2>3. ReaderInv' /\ AcceptedIsStable'
    BY <1>7, <1>8, <1>11, <2>1 DEF IInv, ReaderInv, AcceptedIsStable
  <2> QED BY <1>1, <2>1, <2>2, <2>3 DEF IInv, TypeOK
<1>13. CASE Accept(value)
  <2>1. /\ value = opened /\ pc' = "idle" /\ verdict' = [kind |-> "copied", at |-> opened]
        /\ accepted' = [at |-> opened \div 2, copy |-> copy] /\ moved' = moved
    BY <1>13 DEF Accept, Return
  <2>2. PICK k \in 1 .. Len(closed) :
          /\ opened = 2 * k
          /\ \A x \in Words : Closing(k)[x] <= view[x]
          /\ \A x \in Words : copy[x] # Unread => CopiedFrom(k, x)
    BY <1>8 DEF IInv, ReaderInv
  <2>3. i = 2 * k + 1 /\ k \in Nat /\ k # 0
    BY <1>4, <1>5, <2>1, <2>2
  <2>4. opened \div 2 = k
    BY <2>2, <2>3
  <2>5. ASSUME NEW w \in Words, copy[w] # Unread PROVE copy[w] = closed[k][w]
    <3>1. PICK t \in Closing(k)[w] .. Last(w) :
            copy[w] = stores[w][t].value /\ stores[w][t].view[Counter] <= heard[Counter]
      BY <2>2, <2>5 DEF CopiedFrom
    <3>2. w \in Cells /\ Counter \in Cells /\ Closing(k)[w] \in Nat \ {0} /\ Last(w) \in Nat
      BY CellFacts, ClosingFacts, ReaderFacts DEF IInv
    <3>3. t \in 1 .. Last(w)
      BY <3>1, <3>2
    <3>4. stores[w][t].view[Counter] \in Nat /\ stores[w][t].value \in Nat
      BY <3>2, <3>3, StoreTypes, StorePart DEF IInv
    <3>5. 2 * stores[w][t].value <= stores[w][t].view[Counter]
      BY <3>3 DEF IInv, WriterInv, WordsFenced
    <3>6. stores[w][t].view[Counter] <= i
      <4>1. heard[Counter] \in Nat /\ fence[Counter] \in Nat /\ heard[Counter] <= fence[Counter]
        BY <1>3, <3>2, ReaderFacts
      <4> QED BY <1>4, <3>1, <3>4, <4>1
    <3>7. stores[w][t].value <= k
      BY <2>3, <3>4, <3>5, <3>6
    <3>8. ~(Closing(k)[w] < t)
      <4>1. Closing(k)[w] < t => k < stores[w][t].value
        BY <3>3 DEF IInv, WriterInv, ClosedKept
      <4> QED BY <2>3, <3>4, <3>7, <4>1
    <3>9. t = Closing(k)[w]
      BY <3>1, <3>2, <3>8
    <3> QED BY <3>1, <3>9 DEF IInv, WriterInv, ClosedKept
  <2>6. accepted' = [at |-> k, copy |-> copy] /\ accepted.at <= k
    BY <1>11, <2>1, <2>3, <2>4, ReaderFacts
  <2>7. ReaderTypes'
    <3>1. verdict' \in [kind : Verdicts, at : 0 .. U64Max]
      BY <2>1 DEF IInv, TypeOK, ReaderTypes, Verdicts
    <3>2. accepted' \in [at : 0 .. Len(closed), copy : Copies]
      BY <2>3, <2>6 DEF IInv, TypeOK, ReaderTypes
    <3> QED BY <1>10, <2>1, <3>1, <3>2 DEF IInv, TypeOK, ReaderTypes
  <2>8. ReaderInv'
    BY <1>7, <2>1, <2>3, <2>6 DEF ReaderInv
  <2>9. AcceptedIsStable'
    BY <1>8, <2>5, <2>6 DEF AcceptedIsStable
  <2>10. IInv'
    BY <1>1, <2>7, <2>8, <2>9 DEF IInv, TypeOK
  <2> QED BY <2>5, <2>6, <2>10
<1> QED BY <1>2, <1>12, <1>13 DEF value

-----------------------------------------------------------------------------
(* The theorems                                                            *)

\* The zeroed segment satisfies the invariant.
LEMMA InitIInv == Init => IInv
<1> SUFFICES ASSUME Init PROVE IInv
  OBVIOUS
<1> DEFINE first == [value |-> 0, view |-> Start]
<1>1. first \in Stores /\ Start \in [Cells -> Nat \ {0}] /\ Nothing \in Copies
  BY SeqCellAssumption DEF Stores, Start, Nothing, Copies
<1>2. stores = [c \in Cells |-> <<first>>]
  BY DEF Init
<1>3. \A d \in Cells : Start[d] = 1
  BY DEF Start
<1>4. first.value = 0 /\ first.view = Start
  OBVIOUS
<1> HIDE DEF first
<1>5. stores \in [Cells -> Seq(Stores)] /\ \A c \in Cells : Last(c) = 1 /\ stores[c][1] = first
  BY <1>1, <1>2 DEF Last
<1>6. closed = <<>> /\ Len(closed) = 0 /\ closed \in Seq([Words -> 0 .. U64Max])
  BY DEF Init
<1>7. WriterTypes
  <2>1. \A i \in 1 .. Last(Counter) : stores[Counter][i].value = i - 1
    BY <1>4, <1>5, CellFacts
  <2>2. fenced \in [Cells -> Nat \ {0}] /\ \A c \in Cells : fenced[c] <= Last(c)
    BY <1>1, <1>3, <1>5 DEF Init
  <2>3. writing = FALSE /\ Last(Counter) = 2 * Len(closed) + 1
    BY <1>5, <1>6, CellFacts DEF Init
  <2>4. writing \in BOOLEAN /\ Last(Counter) = 2 * Len(closed) + (IF writing THEN 2 ELSE 1)
    BY Zenon, <2>3
  <2>5. \A c \in Cells : Last(c) \in Nat \ {0}
    BY <1>5
  <2> QED BY <1>5, <1>6, <2>1, <2>2, <2>4, <2>5 DEF WriterTypes
<1>8. ReaderTypes
  <2>1. \A c \in Cells : view[c] <= Last(c) /\ heard[c] <= Last(c)
    BY <1>3, <1>5 DEF Init
  <2>2. 0 \in 0 .. U64Max /\ 0 \in 0 .. MaxReadAttempts /\ 0 \in 0 .. Len(closed)
    BY <1>6, SeqCellAssumption
  <2>3. accepted \in [at : 0 .. Len(closed), copy : Copies]
    BY <1>1, <2>2 DEF Init
  <2>4. verdict \in [kind : Verdicts, at : 0 .. U64Max]
    BY <2>2 DEF Init, Verdicts
  <2>5. pc = "idle" /\ moved = FALSE /\ observed = {}
    BY DEF Init
  <2> QED BY Zenon, <1>1, <2>1, <2>2, <2>3, <2>4, <2>5 DEF ReaderTypes, Init
<1>9. WriterInv
  <2>1. ViewsWithin /\ OwnIndex
    BY <1>3, <1>4, <1>5, CellFacts DEF ViewsWithin, OwnIndex
  <2>2. WordsFenced
    BY <1>3, <1>4, <1>5, CellFacts DEF WordsFenced
  <2>3. ClosedKept
    BY <1>6 DEF ClosedKept
  <2> QED BY <2>1, <2>2, <2>3 DEF WriterInv, Init
<1>10. ReaderInv /\ AcceptedIsStable
  BY <1>3, CellFacts DEF ReaderInv, AcceptedIsStable, Init
<1> QED BY <1>7, <1>8, <1>9, <1>10 DEF IInv, TypeOK

\* Every step keeps it.
LEMMA NextIInv == IInv /\ [Next]_vars => IInv'
<1> SUFFICES ASSUME IInv, [Next]_vars PROVE IInv'
  OBVIOUS
<1>1. CASE UNCHANGED vars
  <2>1. UNCHANGED writer /\ UNCHANGED reader
    BY <1>1 DEF vars
  <2>2. WriterTypes' /\ WriterInv'
    BY <2>1, WriterStays
  <2>3. Grown
    BY <2>1 DEF Grown, writer, IInv, TypeOK, WriterTypes, Last
  <2> QED BY <2>1, <2>2, <2>3, ReaderStays, ReaderTypesStay DEF IInv, TypeOK
<1>2. ASSUME NEW w \in Words, StoreWord(w) \/ LoadWord(w) PROVE IInv'
  BY <1>2, StoreWordIInv, LoadWordIInv
<1> QED BY <1>1, <1>2, OpenWriteIInv, CloseWriteIInv, StartReadIInv, OpenReadIInv, CloseReadIInv,
           GiveUpIInv DEF Next

\* Types, for every record and counter width: among them that the counter
\* never exceeds 64 bits, because open_write checks two increments ahead.
THEOREM TypeCorrect == Spec => []TypeOK
<1>1. IInv => TypeOK
  BY DEF IInv
<1> QED BY InitIInv, NextIInv, <1>1, PTL DEF Spec

\* No copy that under_seqlock returns is torn, for any number of words, of
\* publications and of attempts, under the release/acquire memory model.
THEOREM NoTornRead == Spec => []AcceptedIsStable
<1>1. IInv => AcceptedIsStable
  BY DEF IInv
<1> QED BY InitIInv, NextIInv, <1>1, PTL DEF Spec

\* The seqlock implements the atomic record: each step of the writer or of a
\* reader publishes a whole record, reads one no older than the last, or is
\* invisible.
THEOREM Atomicity == Spec => AtomicSpec
<1>1. Init => Atomic!Init
  BY DEF Init, Atomic!Init, Nothing, Unread, Atomic!Unread
<1>2. IInv /\ [Next]_vars => [Atomic!Next]_<<closed, accepted>>
  <2> SUFFICES ASSUME IInv, [Next]_vars, ~UNCHANGED <<closed, accepted>> PROVE Atomic!Next
    OBVIOUS
  <2>1. CASE CloseWrite
    <3> DEFINE now == [w \in Words |-> stores[w][Last(w)].value]
    <3>1. now \in [Words -> 0 .. U64Max]
      <4> SUFFICES ASSUME NEW w \in Words PROVE stores[w][Last(w)].value \in 0 .. U64Max
        OBVIOUS
      <4>1. w \in Cells /\ Last(w) \in 1 .. Last(w)
        BY CellFacts DEF IInv, TypeOK, WriterTypes
      <4> QED BY <4>1, StoreTypes, StorePart DEF IInv
    <3>2. closed' = Append(closed, now) /\ accepted' = accepted
      BY <2>1 DEF CloseWrite, reader
    <3> HIDE DEF now
    <3> QED BY <3>1, <3>2 DEF Atomic!Next, Atomic!Publish
  <2>2. CASE CloseRead
    <3>1. closed' = closed
      BY <2>2 DEF CloseRead, writer
    <3>2. PICK n \in 1 .. Len(closed) :
            /\ accepted.at <= n
            /\ accepted' = [at |-> n, copy |-> copy]
            /\ \A w \in Words : copy[w] \in {Unread, closed[n][w]}
      BY <2>2, <3>1, CloseReadIInv
    <3> DEFINE some == {w \in Words : copy[w] # Unread}
    <3>3. copy = [w \in Words |-> IF w \in some THEN closed[n][w] ELSE Unread]
      BY <3>2 DEF IInv, TypeOK, ReaderTypes, Copies
    <3>4. copy = Atomic!Some(closed[n], some)
      BY <3>3 DEF Atomic!Some, Atomic!Unread, Unread
    <3>5. some \in SUBSET Words
      OBVIOUS
    <3> HIDE DEF some
    <3> QED BY <3>1, <3>2, <3>4, <3>5 DEF Atomic!Next, Atomic!Read
  <2>3. ASSUME NEW w \in Words, StoreWord(w) \/ LoadWord(w) PROVE FALSE
    BY <2>3 DEF StoreWord, LoadWord, reader, writer
  <2>4. CASE OpenWrite \/ StartRead \/ OpenRead \/ GiveUp \/ UNCHANGED vars
    BY Zenon, <2>4 DEF OpenWrite, StartRead, OpenRead, GiveUp, vars, reader, writer
  <2> QED BY <2>1, <2>2, <2>3, <2>4 DEF Next
<1> QED BY InitIInv, NextIInv, <1>1, <1>2, PTL DEF Spec, AtomicSpec, Atomic!Spec

\* A verdict of under_seqlock is honest: a call's own loads justify WriterStalled
\* and Contended alike.
THEOREM HonestVerdict == Spec => []VerdictIsHonest
<1>1. Init => Honest
  BY DEF Init, Honest, CallInv, VerdictIsHonest
<1>2. IInv /\ Honest /\ [Next]_vars => Honest'
  <2> SUFFICES ASSUME IInv, Honest, [Next]_vars PROVE Honest'
    OBVIOUS
  <2>1. CASE UNCHANGED vars
    BY <2>1 DEF vars, reader, Honest, CallInv, VerdictIsHonest
  <2>2. CASE OpenWrite \/ CloseWrite
    BY <2>2 DEF OpenWrite, CloseWrite, reader, Honest, CallInv, VerdictIsHonest
  <2>3. ASSUME NEW w \in Words, StoreWord(w) PROVE Honest'
    BY <2>3 DEF StoreWord, reader, Honest, CallInv, VerdictIsHonest
  <2>4. ASSUME NEW w \in Words, LoadWord(w) PROVE Honest'
    <3>1. pc = "copying" /\ UNCHANGED <<pc, opened, attempts, stalled_at, moved, observed, verdict>>
      BY <2>4 DEF LoadWord
    <3> QED BY <3>1 DEF Honest, CallInv, VerdictIsHonest
  <2>5. CASE StartRead
    <3>1. pc' = "opening" /\ attempts' = 0 /\ stalled_at' = 0 /\ moved' = FALSE /\ observed' = {}
      BY <2>5 DEF StartRead
    <3> QED BY <3>1 DEF Honest, CallInv, VerdictIsHonest
  <2>6. CASE OpenRead
    <3>1. PICK value \in 0 .. U64Max :
            /\ observed' = observed \cup {value}
            /\ FindUnpublished(value) \/ FindInFlight(value) \/ FindStable(value)
      <4>1. PICK i \in view[Counter] .. Last(Counter) :
              /\ observed' = observed \cup {stores[Counter][i].value}
              /\ \/ FindUnpublished(stores[Counter][i].value)
                 \/ FindInFlight(stores[Counter][i].value)
                 \/ FindStable(stores[Counter][i].value)
        BY <2>6 DEF OpenRead
      <4>2. i \in 1 .. Last(Counter)
        BY ReaderFacts, CellFacts
      <4> QED BY <4>1, <4>2, CounterValue
    <3>2. /\ pc = "opening" /\ stalled_at \in Nat /\ moved \in BOOLEAN
          /\ stalled_at # 0 => stalled_at % 2 = 1 /\ stalled_at \in observed
          /\ moved => \E a, b \in observed : a # b
          /\ ~moved => IF stalled_at = 0 THEN attempts = 0 /\ observed = {}
                                         ELSE observed = {stalled_at}
      BY <2>6 DEF OpenRead, Honest, CallInv, IInv, TypeOK, ReaderTypes
    <3>3. CASE FindUnpublished(value)
      BY <3>3 DEF FindUnpublished, Return, Honest, CallInv, VerdictIsHonest
    <3>4. CASE FindStable(value)
      <4>1. pc' = "copying" /\ opened' = value /\ stalled_at' = stalled_at /\ moved' = moved
        BY <3>4 DEF FindStable
      <4> QED BY <3>1, <3>2, <4>1 DEF Honest, CallInv, VerdictIsHonest
    <3>5. CASE FindInFlight(value)
      <4>1. /\ pc' = "opening" /\ value % 2 = 1 /\ value # 0
            /\ stalled_at' = IF stalled_at = 0 THEN value ELSE stalled_at
            /\ moved' = (moved \/ (stalled_at # 0 /\ stalled_at # value))
        BY <3>1, <3>2, <3>5 DEF FindInFlight
      <4>2. stalled_at' # 0 /\ stalled_at' % 2 = 1 /\ stalled_at' \in observed'
        BY <3>1, <3>2, <4>1
      <4>3. moved' => \E a, b \in observed' : a # b
        BY <3>1, <3>2, <4>1
      <4>4. ~moved' => observed' = {stalled_at'}
        BY Zenon, <3>1, <3>2, <4>1
      <4> QED BY Zenon, <4>1, <4>2, <4>3, <4>4 DEF Honest, CallInv, VerdictIsHonest
    <3> QED BY <3>1, <3>3, <3>4, <3>5
  <2>7. CASE CloseRead
    <3>1. PICK value :
            observed' = observed \cup {value} /\ (Accept(value) \/ Retry(value))
      BY <2>7 DEF CloseRead
    <3>2. pc = "copying" /\ opened \in observed /\ stalled_at' = stalled_at
      BY <2>7 DEF CloseRead, Honest, CallInv
    <3>3. CASE Accept(value)
      BY <3>3 DEF Accept, Return, Honest, CallInv, VerdictIsHonest
    <3>4. CASE Retry(value)
      <4>1. pc' = "opening" /\ moved' = TRUE /\ value # opened
        BY <3>4 DEF Retry
      <4>2. stalled_at' # 0 => stalled_at' % 2 = 1 /\ stalled_at' \in observed'
        BY <3>1, <3>2 DEF Honest, CallInv
      <4>3. \E a, b \in observed' : a # b
        BY <3>1, <3>2, <4>1
      <4> QED BY <4>1, <4>2, <4>3 DEF Honest, CallInv, VerdictIsHonest
    <3> QED BY <3>1, <3>3, <3>4
  <2>8. CASE GiveUp
    <3>1. pc = "opening" /\ attempts = MaxReadAttempts /\ observed' = observed /\ attempts # 0
      BY <2>8, SeqCellAssumption DEF GiveUp
    <3>2. /\ stalled_at # 0 => stalled_at % 2 = 1
          /\ moved => \E a, b \in observed : a # b
          /\ ~moved => stalled_at # 0 /\ observed = {stalled_at}
      BY <3>1 DEF Honest, CallInv
    <3>3. CASE stalled_at # 0 /\ ~moved
      <4>1. pc' = "idle" /\ verdict' = [kind |-> "stalled", at |-> stalled_at]
        BY <2>8, <3>3 DEF GiveUp, Return
      <4> QED BY <3>1, <3>2, <3>3, <4>1 DEF Honest, CallInv, VerdictIsHonest
    <3>4. CASE ~(stalled_at # 0 /\ ~moved)
      <4>1. pc' = "idle" /\ verdict' = [kind |-> "contended", at |-> 0]
        BY <2>8, <3>4 DEF GiveUp, Return
      <4> QED BY <3>1, <3>2, <3>4, <4>1 DEF Honest, CallInv, VerdictIsHonest
    <3> QED BY <3>3, <3>4
  <2> QED BY <2>1, <2>2, <2>3, <2>4, <2>5, <2>6, <2>7, <2>8 DEF Next
<1>3. Honest => VerdictIsHonest
  BY DEF Honest
<1> QED BY InitIInv, NextIInv, <1>1, <1>2, <1>3, PTL DEF Spec
=============================================================================

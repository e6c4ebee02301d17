--------------------------- MODULE OrderBookProofs ---------------------------
(***************************************************************************)
(* For every set of coordinates and quantities and every counter ceiling:  *)
(* the book keeps its types, hands out a gap-free stream of cursors, and a *)
(* consumer replaying that stream never drifts from the book.              *)
(***************************************************************************)
EXTENDS OrderBookHistory, FiniteSetTheorems, TLAPS

(* The provers are given more than their default time: the contexts of the  *)
(* leaves below are long.                                                   *)
USE SMTT(20), SMTT(40)

-----------------------------------------------------------------------------
(* Level lists and the maps they denote                                    *)

\* A quantity looked up in a candidate's list is one of the venue's quantities.
LEMMA NamedQuantityType ==
  ASSUME NEW cand \in Candidates, NEW c \in Complementable, Named(cand.levels, c)
  PROVE  NamedQuantity(cand.levels, c) \in Quantities
<1>1. cand.levels \in LevelSeqs
  <2>1. CASE cand \in [own : {TRUE}, op : {"Snapshot", "SourceDelta"}, levels : LevelSeqs]
    BY <2>1
  <2>2. CASE cand \in [own : {FALSE}, op : {"Snapshot", "SourceDelta"}, levels : {<<>>}]
    <3>1. <<>> \in [1..0 -> [coord : Coordinates, qty : Quantities]]
      OBVIOUS
    <3>2. 0 \in 0..MaxLevels
      BY BoundsAssumption
    <3>3. <<>> \in LevelSeqs
      BY ONLY <3>1, <3>2 DEF LevelSeqs
    <3>. QED  BY <2>2, <3>3
  <2>. QED  BY Zenon, <2>1, <2>2 DEF Candidates
<1>2. PICK n \in 0..MaxLevels : cand.levels \in [1..n -> [coord : Coordinates, qty : Quantities]]
  BY <1>1 DEF LevelSeqs
<1>. DEFINE i == CHOOSE i \in DOMAIN cand.levels : cand.levels[i].coord = c
<1>3. i \in DOMAIN cand.levels
  BY DEF Named
<1>. QED  BY Zenon, <1>2, <1>3 DEF NamedQuantity

\* apply_snapshot's staged map is a level map.
LEMMA SnapshotLevelsType ==
  ASSUME NEW cand \in Candidates
  PROVE  SnapshotLevels(cand.levels) \in PhysicalLevels
BY NamedQuantityType DEF SnapshotLevels, PhysicalLevels, Held

\* apply_source_delta leaves a level map.
LEMMA DeltaLevelsType ==
  ASSUME NEW cand \in Candidates, levels \in PhysicalLevels
  PROVE  DeltaLevels(cand.levels) \in PhysicalLevels
BY NamedQuantityType DEF DeltaLevels, PhysicalLevels, Held

\* Facts about the listing of a set of changed coordinates: it is a sequence of them.
LEMMA ListingFacts ==
  ASSUME NEW S \in SUBSET Complementable, NEW s \in Listings(S)
  PROVE  /\ Cardinality(S) \in Nat
         /\ Len(s) = Cardinality(S)
         /\ DOMAIN s = 1..Len(s)
         /\ s \in Seq(S)
         /\ \A c \in S : \E i \in DOMAIN s : s[i] = c
         /\ \A i, j \in DOMAIN s : s[i] = s[j] => i = j
<1>1. IsFiniteSet(S)
  BY Zenon, FS_Subset, CoordinatesAssumption
<1>2. Cardinality(S) \in Nat
  BY <1>1, FS_CardinalityType
<1>3. s \in [1..Cardinality(S) -> S]
  BY DEF Listings
<1>. QED  BY <1>2, <1>3 DEF Listings
-----------------------------------------------------------------------------
(* Extending the stream                                                    *)

\* n further positions of epoch e, numbered from p.
Run(e, p, n) == [i \in 1..n |-> Cursor(e, p + i - 1)]

\* Appending positions from the one the log is extended by keeps it contiguous, and the log is
\* then extended by the position after them: what advanced(emitted) relies on.
LEMMA ExtendLog ==
  ASSUME NEW lg \in Seq(Cursors), NEW e \in Counter, NEW p \in Counter, NEW n \in Nat,
         p + n <= U64Max, ContiguousLog(lg), Extends(lg, Cursor(e, p))
  PROVE  /\ lg \o Run(e, p, n) \in Seq(Cursors)
         /\ ContiguousLog(lg \o Run(e, p, n))
         /\ Extends(lg \o Run(e, p, n), Cursor(e, p + n))
<1>. DEFINE new == lg \o Run(e, p, n)
            m == Len(lg)
<1>0. /\ e \in Nat /\ p \in Nat /\ U64Max \in Nat /\ m \in Nat
  BY BoundsAssumption DEF Counter
<1>1. Run(e, p, n) \in Seq(Cursors) /\ Len(Run(e, p, n)) = n
  <2>1. \A i \in 1..n : Cursor(e, p + i - 1) \in Cursors
    BY <1>0 DEF Cursor, Cursors, Counter
  <2>. QED  BY <2>1 DEF Run
<1>2. /\ new \in Seq(Cursors)
      /\ Len(new) = m + n
      /\ \A i \in 1..m : new[i] = lg[i]
      /\ \A i \in 1..n : new[m + i] = Run(e, p, n)[i]
  BY <1>1
<1>3. \A i \in 1..n : new[m + i] = Cursor(e, p + i - 1)
  BY <1>2 DEF Run
<1>a. n = 0 => new = lg
  BY <1>1
<1>b. lg = <<>> <=> m = 0
  OBVIOUS
<1>c. new = <<>> <=> m + n = 0
  BY <1>2
<1>d. Len(new) = m + n
  BY <1>2
<1>. HIDE DEF new, m
<1>4. \A i \in 1..n : new[m + i].epoch = e /\ new[m + i].position = p + i - 1
  <2>1. TAKE i \in 1..n
  <2>2. new[m + i] = Cursor(e, p + i - 1)
    BY <1>3
  <2>. QED  BY <2>2 DEF Cursor
<1>5. \A i \in 1..(Len(new) - 1) : Follows(new[i], new[i + 1])
  <2>. SUFFICES ASSUME NEW i \in 1..(m + n - 1)
                PROVE  Follows(new[i], new[i + 1])
    <3>1. Len(new) - 1 = m + n - 1
      BY <1>0, <1>d
    <3>. QED  BY <3>1
  <2>1. CASE i < m
    <3>1. new[i] = lg[i] /\ new[i + 1] = lg[i + 1] /\ i \in 1..(m - 1)
      BY <2>1, <1>0, <1>2
    <3>. QED  BY <3>1 DEF ContiguousLog, m
  <2>2. CASE i = m
    <3>1. lg # <<>> /\ new[i] = lg[m] /\ new[i + 1] = Cursor(e, p + 1 - 1)
      BY <2>2, <1>0, <1>2, <1>3, <1>b
    <3>2. p + 1 - 1 = p
      BY <1>0
    <3>. QED  BY <3>1, <3>2 DEF Extends, m
  <2>3. CASE i > m
    <3>1. PICK k \in 1..(n - 1) : i = m + k
      <4>1. i - m \in 1..(n - 1) /\ i = m + (i - m)
        BY <2>3, <1>0
      <4>. QED  BY <4>1
    <3>2. /\ new[i].epoch = e /\ new[i].position = p + k - 1
          /\ new[i + 1].epoch = e /\ new[i + 1].position = p + k
      <4>1. k \in 1..n /\ k + 1 \in 1..n /\ i + 1 = m + (k + 1)
        BY <3>1, <1>0
      <4>2. new[m + k].epoch = e /\ new[m + k].position = p + k - 1
        BY <4>1, <1>4
      <4>3. new[m + (k + 1)].epoch = e /\ new[m + (k + 1)].position = p + (k + 1) - 1
        BY <4>1, <1>4
      <4>4. p + (k + 1) - 1 = p + k
        BY <1>0
      <4>. QED  BY <3>1, <4>1, <4>2, <4>3, <4>4
    <3>. QED  BY <3>2, <1>0 DEF Follows
  <2>. QED  BY <2>1, <2>2, <2>3, <1>0
<1>6. new # <<>> => new[1].position = 0
  <2>1. CASE lg # <<>>
    <3>1. m >= 1 /\ new[1] = lg[1]
      BY <2>1, <1>0, <1>2, <1>b
    <3>. QED  BY <2>1, <3>1 DEF ContiguousLog
  <2>2. CASE lg = <<>> /\ n > 0
    <3>1. m = 0 /\ p = 0
      BY <2>2, <1>b DEF Extends, Cursor
    <3>2. new[m + 1].position = p + 1 - 1 /\ m + 1 = 1
      BY <2>2, <3>1, <1>4
    <3>. QED  BY <3>1, <3>2
  <2>3. CASE lg = <<>> /\ n = 0
    BY <2>3, <1>a
  <2>. QED  BY <2>1, <2>2, <2>3
<1>7. Extends(new, Cursor(e, p + n))
  <2>1. CASE n = 0
    <3>1. new = lg /\ p + n = p
      BY <2>1, <1>a, <1>0
    <3>. QED  BY <3>1
  <2>2. CASE n > 0
    <3>1. new # <<>> /\ Len(new) = m + n /\ n \in 1..n
      BY <2>2, <1>0, <1>2, <1>c
    <3>2. new[Len(new)].epoch = e /\ new[Len(new)].position = p + n - 1
      BY <3>1, <1>4
    <3>. QED  BY <3>1, <3>2, <1>0 DEF Extends, Follows, Cursor
  <2>. QED  BY <2>1, <2>2
<1>8. ContiguousLog(new)
  BY <1>5, <1>6 DEF ContiguousLog
<1>. QED  BY <1>2, <1>7, <1>8 DEF new

-----------------------------------------------------------------------------
(* What an accepted call may rely on                                       *)

\* An accepted snapshot passed every counter check.
LEMMA SnapshotAccepted ==
  ASSUME NEW cand \in Candidates, TypeOK, SnapshotError(cand) = "None"
  PROVE  LET next == SnapshotLevels(cand.levels)
         IN  /\ revision < U64Max
             /\ Diverges(next) => sync_divergences < U64Max
             /\ SnapshotContinuity(next) \in [kind : {"Intact"}, epoch : Counter, next_position : Counter]
             /\ SnapshotContinuity(next).next_position + Cardinality(SnapshotDiff(next)) <= U64Max
<1>. DEFINE next == SnapshotLevels(cand.levels)
            opened == SnapshotContinuity(next)
            last == opened.next_position + Cardinality(SnapshotDiff(next))
<1>. USE BoundsAssumption
<1>1. /\ cand.own
      /\ cand.op = "Snapshot"
  BY DEF SnapshotError
<1>2. "None" = IF ListFault(cand.levels) # "None" THEN ListFault(cand.levels)
             ELSE IF revision >= U64Max THEN "CounterOverflow"
             ELSE IF Diverges(next) /\ sync_divergences >= U64Max THEN "CounterOverflow"
             ELSE IF opened.epoch > U64Max THEN "Continuity"
             ELSE IF last - 1 > U64Max THEN "CounterOverflow"
             ELSE IF last > U64Max THEN "Continuity"
             ELSE "None"
  BY <1>1 DEF SnapshotError
<1>3. /\ ~(revision >= U64Max)
      /\ ~(Diverges(next) /\ sync_divergences >= U64Max)
      /\ ~(opened.epoch > U64Max)
      /\ ~(last > U64Max)
  BY <1>2, Zenon
<1>4. /\ revision \in Nat /\ revision <= U64Max
      /\ sync_divergences \in Nat
  BY DEF TypeOK, Counter
<1>5. /\ opened.kind = "Intact" /\ opened.epoch \in Nat /\ opened.next_position \in Nat
      /\ opened \in [kind : {"Intact"}, epoch : Nat, next_position : Nat]
  <2>1. CASE SnapshotIsRecoveryBase(next)
    <3>1. LostFor(continuity, "SyncDivergence").epoch \in Nat
      BY DEF TypeOK, Continuities, LostFor, Lost, IsIntact, Counter
    <3>2. opened = Intact(LostFor(continuity, "SyncDivergence").epoch + 1, 0)
      BY <2>1 DEF SnapshotContinuity, Recovered
    <3>. QED  BY <3>1, <3>2 DEF Intact
  <2>2. CASE ~SnapshotIsRecoveryBase(next)
    <3>1. opened = continuity /\ ~IsLost(continuity)
      BY <2>2 DEF SnapshotContinuity, SnapshotIsRecoveryBase
    <3>. QED  BY <3>1 DEF TypeOK, Continuities, IsLost, Counter
  <2>. QED  BY <2>1, <2>2
<1>6. SnapshotDiff(next) \in SUBSET Complementable
  BY DEF SnapshotDiff, Changed
<1>7. Cardinality(SnapshotDiff(next)) \in Nat
  BY <1>6, FS_Subset, FS_CardinalityType, CoordinatesAssumption
<1>8. last \in Nat /\ last <= U64Max /\ opened.next_position <= U64Max /\ opened.epoch <= U64Max
  BY <1>3, <1>5, <1>7
<1>. QED  BY <1>3, <1>4, <1>5, <1>8 DEF Counter

\* An accepted delta rides an intact stream and passed every counter check.
LEMMA DeltaAccepted ==
  ASSUME NEW cand \in Candidates, TypeOK, DeltaError(cand) = "None"
  PROVE  /\ provenance
         /\ continuity \in [kind : {"Intact"}, epoch : Counter, next_position : Counter]
         /\ revision < U64Max
         /\ deltas_since_snapshot < U64Max
         /\ continuity.next_position + Cardinality(Changed(DeltaLevels(cand.levels))) <= U64Max
<1>. DEFINE last == continuity.next_position + Cardinality(Changed(DeltaLevels(cand.levels)))
<1>. USE BoundsAssumption
<1>1. /\ cand.own
      /\ cand.op = "SourceDelta"
  BY DEF DeltaError
<1>2. "None" = IF cand.levels = <<>> THEN "EmptyDelta"
             ELSE IF ~provenance THEN "NoEstablishedBase"
             ELSE IF IsLost(continuity) THEN "ContinuityLost"
             ELSE IF ListFault(cand.levels) # "None" THEN ListFault(cand.levels)
             ELSE IF revision >= U64Max THEN "CounterOverflow"
             ELSE IF last - 1 > U64Max THEN "CounterOverflow"
             ELSE IF deltas_since_snapshot >= U64Max THEN "CounterOverflow"
             ELSE IF last > U64Max THEN "Continuity"
             ELSE "None"
  BY <1>1 DEF DeltaError
<1>3. /\ provenance
      /\ ~IsLost(continuity)
      /\ ~(revision >= U64Max)
      /\ ~(deltas_since_snapshot >= U64Max)
      /\ ~(last > U64Max)
  BY <1>2, Zenon
<1>4. /\ revision \in Nat
      /\ deltas_since_snapshot \in Nat
      /\ continuity \in [kind : {"Intact"}, epoch : Counter, next_position : Counter]
  BY <1>3 DEF TypeOK, Counter, Continuities, IsLost
<1>5. Cardinality(Changed(DeltaLevels(cand.levels))) \in Nat
  <2>1. Changed(DeltaLevels(cand.levels)) \in SUBSET Complementable
    BY DEF Changed
  <2>. QED  BY <2>1, FS_Subset, FS_CardinalityType, CoordinatesAssumption
<1>. QED  BY <1>3, <1>4, <1>5 DEF Counter

-----------------------------------------------------------------------------
(* What the history makes of a reply                                       *)

\* A refused call, or one that only reports whether it changed anything, adds no history.
LEMMA QuietReply ==
  ASSUME TypeOK, HNext, reply'.kind \in {"Changed", "Error"}
  PROVE  log' = log /\ replayed' = replayed
<1>1. ReplyCursors(reply') = <<>>
  BY DEF ReplyCursors
<1>2. log \o <<>> = log
  BY DEF TypeOK
<1>. QED  BY <1>1, <1>2 DEF HNext, ReplayedAfter, IsBase

\* A commit's cursors are the run of positions that starts at its continuity's next one.
LEMMA CommitCursors ==
  ASSUME NEW S \in SUBSET Complementable, NEW s \in Listings(S), NEW next,
         NEW e, NEW p, NEW rev, NEW base, NEW div
  PROVE  ReplyCursors(BookCommit(rev, e, base, div, MutationRecords(s, next, e, p))) = Run(e, p, Len(s))
<1>1. DOMAIN s = 1..Len(s)
  BY ListingFacts
<1>. QED  BY <1>1 DEF ReplyCursors, BookCommit, MutationRecords, Run

\* Replaying a commit's mutations rewrites exactly the listed coordinates.
LEMMA ReplayOfRecords ==
  ASSUME NEW S \in SUBSET Complementable, NEW s \in Listings(S), NEW next \in PhysicalLevels,
         NEW held \in PhysicalLevels, NEW e, NEW p
  PROVE  Replay(held, MutationRecords(s, next, e, p)) =
           [c \in Complementable |-> IF c \in S THEN next[c] ELSE held[c]]
<1>. DEFINE ms == MutationRecords(s, next, e, p)
<1>1. /\ DOMAIN ms = DOMAIN s
      /\ \A i \in DOMAIN s : ms[i].coord = s[i] /\ ms[i].replacement = next[s[i]]
  BY DEF MutationRecords
<1>2. \A i \in DOMAIN s : s[i] \in S
  BY ListingFacts
<1>3. ASSUME NEW c \in Complementable
      PROVE  Replay(held, ms)[c] = IF c \in S THEN next[c] ELSE held[c]
  <2>1. Replay(held, ms)[c] = IF \E i \in DOMAIN ms : ms[i].coord = c
                              THEN ms[CHOOSE i \in DOMAIN ms : ms[i].coord = c].replacement
                              ELSE held[c]
    BY DEF Replay
  <2>2. CASE c \in S
    <3>1. \E i \in DOMAIN ms : ms[i].coord = c
      BY <2>2, <1>1, ListingFacts
    <3>. DEFINE k == CHOOSE i \in DOMAIN ms : ms[i].coord = c
    <3>2. k \in DOMAIN ms /\ ms[k].coord = c
      BY <3>1
    <3>3. ms[k].replacement = next[c]
      BY <3>2, <1>1
    <3>. QED  BY <2>1, <2>2, <3>1, <3>3
  <2>3. CASE c \notin S
    <3>1. ~ \E i \in DOMAIN ms : ms[i].coord = c
      BY <2>3, <1>1, <1>2
    <3>. QED  BY <2>1, <2>3, <3>1
  <2>. QED  BY <2>2, <2>3
<1>. QED  BY <1>3 DEF Replay

-----------------------------------------------------------------------------
(* The inductive invariant                                                 *)

IInv == TypeOK /\ StreamContiguous /\ ReplayMatchesBook

\* A new book, with nothing delivered, satisfies it.
LEMMA InitIInv ==
  ASSUME HInit
  PROVE  IInv
<1>. USE BoundsAssumption DEF HInit, Init
<1>1. TypeOK
  <2>1. 0 \in Counter
    BY DEF Counter
  <2>2. levels \in PhysicalLevels
    BY DEF PhysicalLevels, Held
  <2>3. continuity \in Continuities
    BY <2>1 DEF Continuities, Intact
  <2>4. authority \in Authorities
    BY DEF Authorities
  <2>5. log \in Seq(Cursors)
    OBVIOUS
  <2>. QED  BY Zenon, <2>1, <2>2, <2>3, <2>4, <2>5 DEF TypeOK
<1>2. StreamContiguous
  BY DEF StreamContiguous, ContiguousLog, Extends, Intact, Cursor, IsLost
<1>3. ReplayMatchesBook
  BY DEF ReplayMatchesBook, EconomicallyEqual
<1>. QED  BY <1>1, <1>2, <1>3 DEF IInv

\* No delivery belongs to an epoch later than the book's own.
LEMMA LastEpoch ==
  ASSUME TypeOK, StreamContiguous
  PROVE  /\ continuity.epoch \in Nat
         /\ log # <<>> => /\ log[Len(log)].epoch \in Nat
                         /\ log[Len(log)].epoch <= continuity.epoch
                         /\ continuity.epoch + 1 > log[Len(log)].epoch
<1>1. continuity.epoch \in Nat /\ (IsIntact(continuity) \/ IsLost(continuity))
  BY BoundsAssumption DEF TypeOK, Continuities, Counter, IsIntact, IsLost
<1>2. SUFFICES ASSUME log # <<>>
               PROVE  log[Len(log)].epoch \in Nat /\ log[Len(log)].epoch <= continuity.epoch
  BY <1>1
<1>3. Len(log) \in 1..Len(log) /\ log[Len(log)] \in Cursors
  BY <1>2 DEF TypeOK
<1>4. log[Len(log)].epoch \in Nat
  BY <1>3, BoundsAssumption DEF Cursors, Counter
<1>5. CASE IsLost(continuity)
  BY <1>2, <1>4, <1>5 DEF StreamContiguous
<1>6. CASE IsIntact(continuity)
  <2>1. Follows(log[Len(log)], Cursor(continuity.epoch, continuity.next_position))
    BY <1>2, <1>6 DEF StreamContiguous, Extends
  <2>. QED  BY <2>1, <1>1, <1>4 DEF Follows, Cursor
<1>. QED  BY <1>1, <1>5, <1>6

\* An accepted snapshot: derived diff, first base, checkpoint or recovery base.
LEMMA SnapshotStep ==
  ASSUME IInv, HNext, NEW cand \in Candidates, ApplySnapshot(cand), SnapshotError(cand) = "None"
  PROVE  IInv'
<1>. DEFINE next == SnapshotLevels(cand.levels)
            opened == SnapshotContinuity(next)
            base == SnapshotIsRecoveryBase(next)
            diff == SnapshotDiff(next)
<1>1. PICK s \in Listings(diff) :
        /\ continuity' = Advanced(opened, Len(s))
        /\ reply' = BookCommit(revision + 1, opened.epoch, base, Diverges(next),
                      MutationRecords(s, next, opened.epoch, opened.next_position))
  BY DEF ApplySnapshot
<1>2. /\ levels' = next
      /\ revision' = revision + 1
      /\ authority' = Live
      /\ provenance' = TRUE
      /\ deltas_since_snapshot' = 0
      /\ sync_divergences' = sync_divergences + (IF Diverges(next) THEN 1 ELSE 0)
      /\ delta_rail' = delta_rail
  BY DEF ApplySnapshot
<1>3. /\ revision < U64Max
      /\ Diverges(next) => sync_divergences < U64Max
      /\ opened \in [kind : {"Intact"}, epoch : Counter, next_position : Counter]
      /\ opened.next_position + Cardinality(diff) <= U64Max
  BY SnapshotAccepted DEF IInv
<1>4. diff \in SUBSET Complementable /\ next \in PhysicalLevels
  BY SnapshotLevelsType DEF SnapshotDiff, Changed
<1>5. Len(s) \in Nat /\ Len(s) = Cardinality(diff)
  BY <1>1, <1>4, ListingFacts
<1>. HIDE DEF next, opened, base, diff
<1>6. log' = log \o Run(opened.epoch, opened.next_position, Len(s))
  BY <1>1, <1>4, CommitCursors DEF HNext
<1>7. Extends(log, Cursor(opened.epoch, opened.next_position))
  <2>1. CASE base
    <3>1. opened.next_position = 0 /\ opened.epoch = continuity.epoch + 1
      BY <2>1 DEF opened, base, SnapshotContinuity, Recovered, LostFor, Intact, Lost
    <3>. QED  BY <3>1, LastEpoch DEF Extends, Follows, Cursor, IInv
  <2>2. CASE ~base
    <3>1. opened = continuity /\ IsIntact(continuity)
      BY <2>2, <1>3 DEF opened, base, SnapshotContinuity, IsIntact
    <3>. QED  BY <3>1 DEF IInv, StreamContiguous
  <2>. QED  BY <2>1, <2>2
<1>8. /\ log' \in Seq(Cursors)
      /\ ContiguousLog(log')
      /\ Extends(log', Cursor(opened.epoch, opened.next_position + Len(s)))
  BY <1>3, <1>5, <1>6, <1>7, ExtendLog DEF IInv, TypeOK, StreamContiguous
<1>9. /\ continuity' \in [kind : {"Intact"}, epoch : Counter, next_position : Counter]
      /\ continuity'.epoch = opened.epoch
      /\ continuity'.next_position = opened.next_position + Len(s)
  BY <1>1, <1>3, <1>5, BoundsAssumption DEF Advanced, Intact, Counter
<1>10. StreamContiguous'
  BY <1>8, <1>9 DEF StreamContiguous, IsIntact, IsLost
<1>11. replayed' = IF base \/ ~provenance THEN next
                   ELSE [c \in Complementable |-> IF c \in diff THEN next[c] ELSE replayed[c]]
  <2>1. reply'.kind = "Commit" /\ reply'.recovery_base = base
        /\ reply'.mutations = MutationRecords(s, next, opened.epoch, opened.next_position)
    BY <1>1 DEF BookCommit
  <2>2. replayed' = IF base \/ ~provenance THEN levels' ELSE Replay(replayed, reply'.mutations)
    BY <2>1 DEF HNext, ReplayedAfter, IsBase
  <2>3. Replay(replayed, reply'.mutations)
           = [c \in Complementable |-> IF c \in diff THEN next[c] ELSE replayed[c]]
    BY <2>1, <1>4, ReplayOfRecords DEF IInv, TypeOK
  <2>. QED  BY <2>2, <2>3, <1>2
<1>12. replayed' \in PhysicalLevels
  BY <1>11, <1>4 DEF IInv, TypeOK, PhysicalLevels
<1>13. ReplayMatchesBook'
  <2>1. CASE base \/ ~provenance
    BY <2>1, <1>11, <1>2 DEF ReplayMatchesBook, EconomicallyEqual
  <2>2. CASE ~base /\ provenance /\ delta_rail
    <3>1. diff = {} /\ EconomicallyEqual(levels, next)
      BY <2>2, <1>3 DEF diff, base, SnapshotDiff, SnapshotIsRecoveryBase, Diverges, IsIntact, IsLost,
         IInv, TypeOK, Continuities
    <3>2. replayed' = replayed
      BY <3>1, <2>2, <1>11 DEF IInv, TypeOK, PhysicalLevels
    <3>. QED  BY <3>1, <3>2, <2>2, <1>2 DEF ReplayMatchesBook, EconomicallyEqual, IInv
  <2>3. CASE ~base /\ provenance /\ ~delta_rail
    <3>1. diff = Changed(next) /\ replayed = levels
      BY <2>3 DEF diff, base, SnapshotDiff, IInv, ReplayMatchesBook
    <3>2. replayed' = next
      BY <3>1, <2>3, <1>11, <1>4 DEF Changed, IInv, TypeOK, PhysicalLevels
    <3>. QED  BY <3>2, <1>2 DEF ReplayMatchesBook, EconomicallyEqual
  <2>. QED  BY <2>1, <2>2, <2>3 DEF IInv, TypeOK
<1>14. TypeOK'
  <2>1. revision' \in Counter /\ sync_divergences' \in Counter /\ deltas_since_snapshot' \in Counter
    BY <1>2, <1>3, BoundsAssumption DEF IInv, TypeOK, Counter
  <2>2. authority' \in Authorities
    BY <1>2 DEF Authorities
  <2>. QED  BY <2>1, <2>2, <1>2, <1>4, <1>8, <1>9, <1>12 DEF IInv, TypeOK, Continuities
<1>. QED  BY <1>10, <1>13, <1>14 DEF IInv

\* An accepted source delta.
LEMMA DeltaStep ==
  ASSUME IInv, HNext, NEW cand \in Candidates, ApplySourceDelta(cand), DeltaError(cand) = "None"
  PROVE  IInv'
<1>. DEFINE next == DeltaLevels(cand.levels)
            e == continuity.epoch
            p == continuity.next_position
<1>1. PICK s \in Listings(Changed(next)) :
        /\ continuity' = Advanced(continuity, Len(s))
        /\ reply' = BookCommit(revision + 1, e, FALSE, FALSE, MutationRecords(s, next, e, p))
  BY Zenon DEF ApplySourceDelta
<1>2. /\ levels' = next
      /\ revision' = revision + 1
      /\ authority' = Live
      /\ provenance' = TRUE
      /\ delta_rail' = TRUE
      /\ deltas_since_snapshot' = deltas_since_snapshot + 1
      /\ sync_divergences' = sync_divergences
  BY DEF ApplySourceDelta
<1>3. /\ provenance
      /\ revision < U64Max
      /\ deltas_since_snapshot < U64Max
      /\ continuity \in [kind : {"Intact"}, epoch : Counter, next_position : Counter]
      /\ p + Cardinality(Changed(next)) <= U64Max
  BY DeltaAccepted DEF IInv
<1>4. Changed(next) \in SUBSET Complementable /\ next \in PhysicalLevels
  BY DeltaLevelsType DEF Changed, IInv, TypeOK
<1>5. Len(s) \in Nat /\ Len(s) = Cardinality(Changed(next))
  BY <1>1, <1>4, ListingFacts
<1>6. Extends(log, Cursor(e, p))
  BY <1>3 DEF IInv, StreamContiguous, IsIntact
<1>. HIDE DEF next
<1>7. log' = log \o Run(e, p, Len(s))
  BY Zenon, <1>1, <1>4, CommitCursors DEF HNext
<1>8. /\ log' \in Seq(Cursors)
      /\ ContiguousLog(log')
      /\ Extends(log', Cursor(e, p + Len(s)))
  BY <1>3, <1>5, <1>6, <1>7, ExtendLog DEF IInv, TypeOK, StreamContiguous
<1>9. /\ continuity' \in [kind : {"Intact"}, epoch : Counter, next_position : Counter]
      /\ continuity'.epoch = e
      /\ continuity'.next_position = p + Len(s)
  BY <1>1, <1>3, <1>5, BoundsAssumption DEF Advanced, Intact, Counter
<1>10. StreamContiguous'
  BY <1>8, <1>9 DEF StreamContiguous, IsIntact, IsLost
<1>11. replayed' = [c \in Complementable |-> IF c \in Changed(next) THEN next[c] ELSE replayed[c]]
  <2>1. reply'.kind = "Commit" /\ reply'.recovery_base = FALSE
        /\ reply'.mutations = MutationRecords(s, next, e, p)
    BY <1>1 DEF BookCommit
  <2>2. replayed' = Replay(replayed, reply'.mutations)
    BY <2>1, <1>3 DEF HNext, ReplayedAfter, IsBase
  <2>. QED  BY <2>1, <2>2, <1>4, ReplayOfRecords DEF IInv, TypeOK
<1>12. replayed' \in PhysicalLevels
  BY <1>11, <1>4 DEF IInv, TypeOK, PhysicalLevels
<1>13. ReplayMatchesBook'
  <2>1. \A c \in Complementable :
          \/ replayed'[c] = next[c]
          \/ replayed'[c] = replayed[c] /\ next[c] = levels[c]
    BY <1>11 DEF Changed
  <2>2. EconomicallyEqual(replayed, levels)
    BY DEF IInv, ReplayMatchesBook
  <2>3. EconomicallyEqual(replayed', next)
    BY <2>1, <2>2 DEF EconomicallyEqual, Resting
  <2>. QED  BY <2>3, <1>2 DEF ReplayMatchesBook
<1>14. TypeOK'
  <2>1. revision' \in Counter /\ sync_divergences' \in Counter /\ deltas_since_snapshot' \in Counter
    BY <1>2, <1>3, BoundsAssumption DEF IInv, TypeOK, Counter
  <2>2. authority' \in Authorities
    BY <1>2 DEF Authorities
  <2>. QED  BY <2>1, <2>2, <1>2, <1>4, <1>8, <1>9, <1>12 DEF IInv, TypeOK, Continuities
<1>. QED  BY <1>10, <1>13, <1>14 DEF IInv

\* A call that returns an error leaves the book and its history as they were.
LEMMA RefusedStep ==
  ASSUME IInv, HNext, UNCHANGED book, reply'.kind \in {"Changed", "Error"}
  PROVE  IInv'
<1>1. log' = log /\ replayed' = replayed
  BY QuietReply DEF IInv
<1>2. TypeOK'
  BY <1>1 DEF IInv, TypeOK, book
<1>3. StreamContiguous'
  BY <1>1 DEF IInv, StreamContiguous, book
<1>4. ReplayMatchesBook'
  BY <1>1 DEF IInv, ReplayMatchesBook, book
<1>. QED  BY <1>2, <1>3, <1>4 DEF IInv

\* Unsubscribing touches authority and revision only.
LEMMA UnsubscribeStep ==
  ASSUME IInv, HNext, Unsubscribe
  PROVE  IInv'
<1>1. CASE UNCHANGED book /\ reply' \in {ChangedReply(FALSE), ErrorReply("CounterOverflow")}
  BY <1>1, RefusedStep DEF ChangedReply, ErrorReply
<1>2. CASE /\ revision < U64Max /\ revision' = revision + 1
           /\ authority' = Unsubscribed
           /\ reply' = ChangedReply(TRUE)
           /\ UNCHANGED <<levels, continuity, provenance, delta_rail, deltas_since_snapshot,
                          sync_divergences>>
  <2>1. log' = log /\ replayed' = replayed
    BY <1>2, QuietReply DEF IInv, ChangedReply
  <2>2. revision' \in Counter
    BY <1>2, BoundsAssumption DEF IInv, TypeOK, Counter
  <2>3. TypeOK'
    BY <1>2, <2>1, <2>2 DEF IInv, TypeOK, Authorities
  <2>4. StreamContiguous' /\ ReplayMatchesBook'
    BY <1>2, <2>1 DEF IInv, StreamContiguous, ReplayMatchesBook
  <2>. QED  BY <2>3, <2>4 DEF IInv
<1>. QED  BY Zenon, <1>1, <1>2 DEF Unsubscribe

\* Reporting a loss closes the epoch at the position already reached.
LEMMA LossStep ==
  ASSUME IInv, HNext, NEW reason \in ContinuityReasons, NEW why \in AuthorityReasons,
         ReportContinuityLoss(reason, why)
  PROVE  IInv'
<1>1. CASE UNCHANGED book /\ reply' \in {ChangedReply(FALSE), ErrorReply("CounterOverflow")}
  BY <1>1, RefusedStep DEF ChangedReply, ErrorReply
<1>2. CASE /\ revision < U64Max /\ revision' = revision + 1
           /\ continuity' = LostFor(continuity, reason)
           /\ authority' = Stale(why)
           /\ reply' = ChangedReply(TRUE)
           /\ UNCHANGED <<levels, provenance, delta_rail, deltas_since_snapshot, sync_divergences>>
  <2>1. log' = log /\ replayed' = replayed
    BY <1>2, QuietReply DEF IInv, ChangedReply
  <2>2. revision' \in Counter
    BY <1>2, BoundsAssumption DEF IInv, TypeOK, Counter
  <2>3. /\ continuity' \in [kind : {"Lost"}, epoch : Counter, reason : ContinuityReasons \cup {"SyncDivergence"}]
        /\ continuity'.epoch = continuity.epoch
    BY <1>2 DEF IInv, TypeOK, Continuities, LostFor, Lost, IsIntact
  <2>4. authority' \in Authorities
    BY <1>2 DEF Authorities
  <2>5. TypeOK'
    BY <1>2, <2>1, <2>2, <2>3, <2>4 DEF IInv, TypeOK, Continuities
  <2>6. StreamContiguous'
    BY <2>1, <2>3, LastEpoch DEF IInv, StreamContiguous, IsIntact, IsLost
  <2>7. ReplayMatchesBook'
    BY <1>2, <2>1 DEF IInv, ReplayMatchesBook
  <2>. QED  BY <2>5, <2>6, <2>7 DEF IInv
<1>. QED  BY Zenon, <1>1, <1>2 DEF ReportContinuityLoss

\* A resolution takes one position of the stream and changes no level.
LEMMA EventStep ==
  ASSUME IInv, HNext, NoteStreamEvent
  PROVE  IInv'
<1>1. CASE UNCHANGED book /\ reply' \in {ErrorReply("ContinuityLost"), ErrorReply("Continuity")}
  BY <1>1, RefusedStep DEF ErrorReply
<1>2. CASE /\ IsIntact(continuity) /\ continuity.next_position < U64Max
           /\ continuity' = Advanced(continuity, 1)
           /\ reply' = CursorReply(Cursor(continuity.epoch, continuity.next_position))
           /\ UNCHANGED <<levels, authority, revision, provenance, delta_rail,
                          deltas_since_snapshot, sync_divergences>>
  <2>. DEFINE e == continuity.epoch
              p == continuity.next_position
  <2>1. e \in Counter /\ p \in Counter /\ p + 1 \in Counter /\ p + 1 <= U64Max
    BY <1>2, BoundsAssumption DEF IInv, TypeOK, Continuities, Counter, IsIntact
  <2>2. Extends(log, Cursor(e, p))
    BY <1>2 DEF IInv, StreamContiguous
  <2>3. reply'.kind = "Cursor" /\ reply'.cursor = Cursor(e, p)
    BY <1>2 DEF CursorReply
  <2>4. Run(e, p, 1) = <<Cursor(e, p)>>
    <3>1. \A i \in 1..1 : p + i - 1 = p
      BY <2>1, BoundsAssumption DEF Counter
    <3>. QED  BY <3>1 DEF Run
  <2>5. log' = log \o Run(e, p, 1) /\ replayed' = replayed
    BY Zenon, <2>3, <2>4 DEF HNext, ReplyCursors, ReplayedAfter, IsBase
  <2>6. /\ log' \in Seq(Cursors)
        /\ ContiguousLog(log')
        /\ Extends(log', Cursor(e, p + 1))
    BY <2>1, <2>2, <2>5, ExtendLog DEF IInv, TypeOK, StreamContiguous
  <2>7. /\ continuity' \in [kind : {"Intact"}, epoch : Counter, next_position : Counter]
        /\ continuity'.epoch = e
        /\ continuity'.next_position = p + 1
    BY <1>2, <2>1 DEF Advanced, Intact
  <2>8. TypeOK'
    BY <1>2, <2>5, <2>6, <2>7 DEF IInv, TypeOK, Continuities
  <2>9. StreamContiguous'
    BY <2>6, <2>7 DEF StreamContiguous, IsIntact, IsLost
  <2>10. ReplayMatchesBook'
    BY <1>2, <2>5 DEF IInv, ReplayMatchesBook
  <2>. QED  BY <2>8, <2>9, <2>10 DEF IInv
<1>. QED  BY <1>1, <1>2 DEF NoteStreamEvent

\* Every call of the book, and stuttering, preserves the invariant.
LEMMA NextIInv ==
  ASSUME IInv, [HNext]_hvars
  PROVE  IInv'
<1>1. CASE UNCHANGED hvars
  BY <1>1 DEF IInv, TypeOK, StreamContiguous, ReplayMatchesBook, hvars, vars, book
<1>2. ASSUME HNext, NEW cand \in Candidates, ApplySnapshot(cand)
      PROVE  IInv'
  <2>1. CASE SnapshotError(cand) = "None"
    BY <1>2, <2>1, SnapshotStep
  <2>2. CASE SnapshotError(cand) # "None"
    BY <1>2, <2>2, RefusedStep DEF ApplySnapshot, ErrorReply
  <2>. QED  BY <2>1, <2>2
<1>3. ASSUME HNext, NEW cand \in Candidates, ApplySourceDelta(cand)
      PROVE  IInv'
  <2>1. CASE DeltaError(cand) = "None"
    BY <1>3, <2>1, DeltaStep
  <2>2. CASE DeltaError(cand) # "None"
    <3>1. UNCHANGED book /\ reply' = ErrorReply(DeltaError(cand))
      BY <1>3, <2>2, Zenon DEF ApplySourceDelta
    <3>. QED  BY <1>3, <3>1, RefusedStep DEF ErrorReply
  <2>. QED  BY <2>1, <2>2
<1>. QED  BY Zenon, <1>1, <1>2, <1>3, UnsubscribeStep, LossStep, EventStep DEF HNext, Next

-----------------------------------------------------------------------------
(* Authority and continuity                                                *)

\* The three families of authority a reader tells apart are different values.
LEMMA AuthoritiesDiffer ==
  /\ Live # Unsubscribed /\ Live # Synchronizing /\ Unsubscribed # Synchronizing
  /\ \A r : Stale(r) # Live /\ Stale(r) # Unsubscribed /\ Stale(r) # Synchronizing
<1>1. Live[1] = "Live" /\ Unsubscribed[1] = "Unsubscribed" /\ Synchronizing[1] = "Synchronizing"
  BY DEF Live, Unsubscribed, Synchronizing
<1>2. \A r : Stale(r)[1] = "Stale"
  BY DEF Stale
<1>. QED  BY <1>1, <1>2

\* Each call keeps authority and continuity in agreement.
LEMMA AuthorityStep ==
  ASSUME TypeOK, AuthorityMatchesContinuity, [HNext]_hvars
  PROVE  AuthorityMatchesContinuity'
<1>. USE AuthoritiesDiffer
<1>0. IsIntact(continuity) <=> ~IsLost(continuity)
  BY DEF TypeOK, Continuities, IsIntact, IsLost
<1>1. CASE UNCHANGED book
  BY <1>1 DEF AuthorityMatchesContinuity, book
<1>2. ASSUME NEW cand \in Candidates, ApplySnapshot(cand), SnapshotError(cand) = "None"
      PROVE  AuthorityMatchesContinuity'
  <2>1. authority' = Live /\ provenance' = TRUE
    BY <1>2 DEF ApplySnapshot
  <2>2. continuity'.kind = "Intact"
    BY <1>2 DEF ApplySnapshot, Advanced, Intact
  <2>. QED  BY <2>1, <2>2 DEF AuthorityMatchesContinuity, IsIntact, IsLost
<1>3. ASSUME NEW cand \in Candidates, ApplySourceDelta(cand), DeltaError(cand) = "None"
      PROVE  AuthorityMatchesContinuity'
  <2>1. authority' = Live /\ provenance' = TRUE
    BY <1>3 DEF ApplySourceDelta
  <2>2. \E s \in Listings(Changed(DeltaLevels(cand.levels))) : continuity' = Advanced(continuity, Len(s))
    BY <1>3, Zenon DEF ApplySourceDelta
  <2>3. continuity'.kind = "Intact"
    BY <2>2 DEF Advanced, Intact
  <2>. QED  BY <2>1, <2>3 DEF AuthorityMatchesContinuity, IsIntact, IsLost
<1>4. CASE authority' = Unsubscribed /\ UNCHANGED <<continuity, provenance>>
  BY <1>4 DEF AuthorityMatchesContinuity
<1>5. ASSUME NEW reason, NEW why, authority' = Stale(why), continuity' = LostFor(continuity, reason)
      PROVE  AuthorityMatchesContinuity'
  <2>1. IsLost(continuity')
    BY <1>0, <1>5 DEF LostFor, Lost, IsLost
  <2>. QED  BY <1>5, <2>1 DEF AuthorityMatchesContinuity
<1>6. CASE IsIntact(continuity) /\ continuity' = Advanced(continuity, 1) /\ UNCHANGED <<authority, provenance>>
  <2>1. IsIntact(continuity') /\ ~IsLost(continuity')
    BY <1>6 DEF Advanced, Intact, IsIntact, IsLost
  <2>. QED  BY <1>0, <1>6, <2>1 DEF AuthorityMatchesContinuity
<1>7. CASE HNext
  <2>1. ASSUME NEW cand \in Candidates, ApplySnapshot(cand)
        PROVE  AuthorityMatchesContinuity'
    <3>1. SnapshotError(cand) = "None" \/ UNCHANGED book
      BY <2>1, Zenon DEF ApplySnapshot
    <3>. QED  BY <1>1, <1>2, <2>1, <3>1
  <2>2. ASSUME NEW cand \in Candidates, ApplySourceDelta(cand)
        PROVE  AuthorityMatchesContinuity'
    <3>1. DeltaError(cand) = "None" \/ UNCHANGED book
      BY <2>2, Zenon DEF ApplySourceDelta
    <3>. QED  BY <1>1, <1>3, <2>2, <3>1
  <2>3. CASE Unsubscribe
    BY Zenon, <1>1, <1>4, <2>3 DEF Unsubscribe
  <2>4. ASSUME NEW reason, NEW why, ReportContinuityLoss(reason, why)
        PROVE  AuthorityMatchesContinuity'
    BY Zenon, <1>1, <1>5, <2>4 DEF ReportContinuityLoss
  <2>5. CASE NoteStreamEvent
    BY <1>1, <1>6, <2>5 DEF NoteStreamEvent
  <2>. QED  BY <1>7, <2>1, <2>2, <2>3, <2>4, <2>5 DEF HNext, Next
<1>. QED  BY <1>1, <1>7 DEF hvars, vars

-----------------------------------------------------------------------------
(* The theorems                                                            *)

\* The book keeps its types and no counter overflows, its cursors are gap free, and a
\* consumer replaying them holds the book's depth.
THEOREM Invariance == HSpec => []IInv
<1>1. HInit => IInv
  BY InitIInv
<1>2. IInv /\ [HNext]_hvars => IInv'
  BY NextIInv
<1>. QED  BY <1>1, <1>2, PTL DEF HSpec

\* Every field of the book keeps its type and every counter stays inside the u64 range.
THEOREM TypeCorrect == HSpec => []TypeOK
<1>1. IInv => TypeOK
  BY DEF IInv
<1>. QED  BY <1>1, Invariance, PTL

\* The cursors handed out across losses, recovery bases and divergences have no gap and no repeat.
THEOREM StreamIsContiguous == HSpec => []StreamContiguous
<1>1. IInv => StreamContiguous
  BY DEF IInv
<1>. QED  BY <1>1, Invariance, PTL

\* Replaying the returned mutations from each base reproduces the book.
THEOREM ReplayIsFaithful == HSpec => []ReplayMatchesBook
<1>1. IInv => ReplayMatchesBook
  BY DEF IInv
<1>. QED  BY <1>1, Invariance, PTL

\* Authority never contradicts continuity.
THEOREM AuthorityIsHonest == HSpec => []AuthorityMatchesContinuity
<1>1. HInit => AuthorityMatchesContinuity
  BY AuthoritiesDiffer DEF HInit, Init, AuthorityMatchesContinuity, Intact, IsIntact, IsLost
<1>2. TypeOK /\ AuthorityMatchesContinuity /\ [HNext]_hvars => AuthorityMatchesContinuity'
  BY AuthorityStep
<1>. QED  BY <1>1, <1>2, TypeCorrect, PTL DEF HSpec

\* A revision a reader has already seen names a state it has already seen.
THEOREM RevisionIsFaithful == HSpec => RevisionNamesState
<1>1. ASSUME TypeOK, [HNext]_hvars
      PROVE  [RevisionStep]_hvars
  <2>1. CASE UNCHANGED book
    BY <2>1 DEF RevisionStep, SameState, book
  <2>2. CASE revision' = revision + 1
    BY <2>2 DEF RevisionStep
  <2>3. ASSUME NEW cand \in Candidates, ApplySnapshot(cand)
        PROVE  UNCHANGED book \/ revision' = revision + 1
    BY <2>3, Zenon DEF ApplySnapshot
  <2>4. ASSUME NEW cand \in Candidates, ApplySourceDelta(cand)
        PROVE  UNCHANGED book \/ revision' = revision + 1
    BY <2>4, Zenon DEF ApplySourceDelta
  <2>5. ASSUME NEW reason, NEW why, ReportContinuityLoss(reason, why)
        PROVE  UNCHANGED book \/ revision' = revision + 1
    BY <2>5, Zenon DEF ReportContinuityLoss
  <2>6. CASE Unsubscribe
    BY Zenon, <2>1, <2>2, <2>6 DEF Unsubscribe
  <2>7. CASE NoteStreamEvent
    <3>1. CASE IsIntact(continuity) /\ continuity' = Advanced(continuity, 1)
               /\ UNCHANGED <<levels, authority, revision, provenance, sync_divergences>>
      BY <3>1 DEF RevisionStep, SameState, Advanced, Intact, IsIntact
    <3>. QED  BY <2>1, <2>7, <3>1 DEF NoteStreamEvent
  <2>8. CASE UNCHANGED hvars
    BY <2>1, <2>8 DEF hvars, vars
  <2>. QED  BY <1>1, <2>1, <2>2, <2>3, <2>4, <2>5, <2>6, <2>7, <2>8 DEF HNext, Next
<1>. QED  BY <1>1, TypeCorrect, PTL DEF HSpec, RevisionNamesState
=============================================================================

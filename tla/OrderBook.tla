------------------------------ MODULE OrderBook ------------------------------
(***************************************************************************)
(* The single-writer authoritative book of one market (src/src/book.rs)    *)
(* with the mutation-continuity algebra it carries (src/src/state.rs).     *)
(*                                                                         *)
(* A coordinate (side, price) is its rank in the code's (side, price)      *)
(* order.  A quantity is a natural number, zero included: a snapshot may   *)
(* rest a level at exact zero, a delta of zero removes the level.          *)
(* U64Max is the ceiling of every checked counter, so a small value makes  *)
(* TLC walk the CounterOverflow refusals as well.  `reply` is what the     *)
(* last call returned: the BookCommit, the cursor, the changed flag or the *)
(* BookError.                                                              *)
(***************************************************************************)
EXTENDS Integers, Sequences, FiniteSets

CONSTANTS
  Coordinates,          \* ranks of the (side, price) pairs a venue may name
  Complementable,       \* those whose price has a complement (price <= 1)
  Quantities,           \* exact quantities, 0 among them
  Absent,               \* "no entry at this coordinate"
  ContinuityReasons,    \* what a caller may report a broken stream for
  AuthorityReasons,     \* what a caller may mark the book stale for
  MaxLevels,            \* bound on the levels of one candidate
  U64Max                \* the largest value of a u64 counter

ASSUME CoordinatesAssumption ==
  /\ Coordinates \subseteq Nat
  /\ Complementable \subseteq Coordinates
  /\ IsFiniteSet(Complementable)
ASSUME QuantitiesAssumption ==
  /\ Quantities \subseteq Nat
  /\ 0 \in Quantities
  /\ Absent \notin Quantities
ASSUME BoundsAssumption == MaxLevels \in Nat /\ U64Max \in Nat

VARIABLES levels, authority, continuity, revision, provenance, delta_rail,
          deltas_since_snapshot, sync_divergences, reply

book == <<levels, authority, continuity, revision, provenance, delta_rail,
          deltas_since_snapshot, sync_divergences>>
vars == <<book, reply>>

-----------------------------------------------------------------------------
(* Values                                                                  *)

Held == Quantities \cup {Absent}
PhysicalLevels == [Complementable -> Held]

Intact(e, p) == [kind |-> "Intact", epoch |-> e, next_position |-> p]
Lost(e, r)   == [kind |-> "Lost", epoch |-> e, reason |-> r]
IsIntact(c)  == c.kind = "Intact"
IsLost(c)    == c.kind = "Lost"

Stale(r)     == <<"Stale", r>>
Live         == <<"Live">>
Unsubscribed == <<"Unsubscribed">>
Synchronizing == <<"Synchronizing">>

Cursor(e, p) == [epoch |-> e, position |-> p]

\* One received candidate: does it name this market, which operation, which levels.  One for
\* another market is refused before its levels are looked at, so it carries none here.
LevelSeqs == UNION {[1..n -> [coord : Coordinates, qty : Quantities]] : n \in 0..MaxLevels}
Candidates == [own : {TRUE}, op : {"Snapshot", "SourceDelta"}, levels : LevelSeqs]
         \cup [own : {FALSE}, op : {"Snapshot", "SourceDelta"}, levels : {<<>>}]

-----------------------------------------------------------------------------
(* MutationContinuity                                                      *)

\* The stream marked lost; an already lost stream keeps its first reason.
LostFor(c, reason) == IF IsIntact(c) THEN Lost(c.epoch, reason) ELSE c

\* Mutant: recovery reuses the epoch it closes.
RecoveredSameEpoch(c) == Intact(c.epoch, 0)

\* The next epoch of a lost stream, numbered from 0.
Recovered(c) == Intact(c.epoch + 1, 0)

Advanced(c, emitted) == Intact(c.epoch, c.next_position + emitted)

-----------------------------------------------------------------------------
(* Levels                                                                  *)

Resting(lv) == {c \in Complementable : lv[c] \notin {Absent, 0}}

EconomicallyEqual(left, right) ==
  /\ Resting(left) = Resting(right)
  /\ \A c \in Resting(left) : left[c] = right[c]

\* The list is validated level by level: complement first, then repetition.
ListFault(list) ==
  LET bad == {i \in DOMAIN list : list[i].coord \notin Complementable}
      dup == {i \in DOMAIN list : \E j \in 1..(i - 1) : list[j].coord = list[i].coord}
      first(i) == \A j \in bad \cup dup : i <= j
  IN  IF bad \cup dup = {} THEN "None"
      ELSE IF \E i \in bad : first(i) THEN "NonComplementablePrice"
      ELSE "DuplicateLevelCoordinate"

\* The quantity a well-formed list names at c, if it names c at all.
Named(list, c) == \E i \in DOMAIN list : list[i].coord = c
NamedQuantity(list, c) == list[CHOOSE i \in DOMAIN list : list[i].coord = c].qty

\* The map a complete snapshot denotes: zero quantities rest like any other.
SnapshotLevels(list) ==
  [c \in Complementable |-> IF Named(list, c) THEN NamedQuantity(list, c) ELSE Absent]

\* The map after a delta: zero removes, anything else sets.
DeltaLevels(list) ==
  [c \in Complementable |->
     IF ~Named(list, c) THEN levels[c]
     ELSE IF NamedQuantity(list, c) = 0 THEN Absent
     ELSE NamedQuantity(list, c)]

Changed(next) == {c \in Complementable : levels[c] # next[c]}

\* Every way to list the elements of S once each.
Listings(S) ==
  {s \in [1..Cardinality(S) -> S] :
     /\ \A c \in S : \E i \in DOMAIN s : s[i] = c
     /\ \A i, j \in DOMAIN s : s[i] = s[j] => i = j}

Ascending(s) == \A i, j \in DOMAIN s : i < j => s[i] < s[j]

VenueOrder(s, list) ==
  \A i, j \in DOMAIN s : i < j =>
     \E k, l \in DOMAIN list : k < l /\ list[k].coord = s[i] /\ list[l].coord = s[j]

\* One mutation per listed coordinate, numbered from `first` in `epoch`.
MutationRecords(s, next, epoch, first) ==
  [i \in DOMAIN s |-> [cursor |-> Cursor(epoch, first + i - 1), coord |-> s[i],
                       old |-> levels[s[i]], replacement |-> next[s[i]]]]

-----------------------------------------------------------------------------
(* Replies                                                                 *)

BookCommit(rev, epoch, base, divergence, mutations) ==
  [kind |-> "Commit", revision |-> rev, epoch |-> epoch, recovery_base |-> base,
   divergence |-> divergence, mutations |-> mutations]
ChangedReply(b) == [kind |-> "Changed", value |-> b]
CursorReply(c)  == [kind |-> "Cursor", cursor |-> c]
ErrorReply(e)   == [kind |-> "Error", error |-> e]

-----------------------------------------------------------------------------
(* Operations                                                              *)

\* OrderBook::new
Init ==
  /\ levels = [c \in Complementable |-> Absent]
  /\ authority = Synchronizing
  /\ continuity = Intact(0, 0)
  /\ revision = 0
  /\ provenance = FALSE
  /\ delta_rail = FALSE
  /\ deltas_since_snapshot = 0
  /\ sync_divergences = 0
  /\ reply = ChangedReply(FALSE)

\* Mutant: a checkpoint is not held against the deltas applied so far.
DivergesNever(next) == FALSE

\* A sync snapshot that contradicts the deltas applied so far.
Diverges(next) == delta_rail /\ IsIntact(continuity) /\ ~EconomicallyEqual(levels, next)

\* The continuity an accepted snapshot commits under, and whether it opened an epoch.
SnapshotIsRecoveryBase(next) == Diverges(next) \/ IsLost(continuity)
SnapshotContinuity(next) ==
  IF SnapshotIsRecoveryBase(next)
  THEN Recovered(LostFor(continuity, "SyncDivergence")) ELSE continuity

\* The coordinates an accepted snapshot derives a mutation for.
SnapshotDiff(next) ==
  IF SnapshotIsRecoveryBase(next) \/ ~provenance \/ delta_rail THEN {} ELSE Changed(next)

\* The first refusal apply_snapshot meets, in the order of its checks.
SnapshotError(cand) ==
  LET next == SnapshotLevels(cand.levels)
      last == SnapshotContinuity(next).next_position + Cardinality(SnapshotDiff(next))
  IN  CASE ~cand.own -> "MarketMismatch"
        [] cand.own /\ cand.op # "Snapshot" -> "UnsupportedCandidateOperation"
        [] OTHER ->
             IF ListFault(cand.levels) # "None" THEN ListFault(cand.levels)
             ELSE IF revision >= U64Max THEN "CounterOverflow"
             ELSE IF Diverges(next) /\ sync_divergences >= U64Max THEN "CounterOverflow"
             ELSE IF SnapshotContinuity(next).epoch > U64Max THEN "Continuity"
             ELSE IF last - 1 > U64Max THEN "CounterOverflow"
             ELSE IF last > U64Max THEN "Continuity"
             ELSE "None"

ApplySnapshot(cand) ==
  LET next == SnapshotLevels(cand.levels)
      opened == SnapshotContinuity(next)
      base == SnapshotIsRecoveryBase(next)
  IN \/ /\ SnapshotError(cand) # "None"
        /\ reply' = ErrorReply(SnapshotError(cand))
        /\ UNCHANGED book
     \/ /\ SnapshotError(cand) = "None"
        /\ \E s \in Listings(SnapshotDiff(next)) :
             /\ Ascending(s)
             /\ continuity' = Advanced(opened, Len(s))
             /\ reply' = BookCommit(revision + 1, opened.epoch, base, Diverges(next),
                           MutationRecords(s, next, opened.epoch, opened.next_position))
        /\ levels' = next
        /\ revision' = revision + 1
        /\ authority' = Live
        /\ provenance' = TRUE
        /\ deltas_since_snapshot' = 0
        /\ sync_divergences' = sync_divergences + (IF Diverges(next) THEN 1 ELSE 0)
        /\ UNCHANGED delta_rail

\* The first refusal apply_source_delta meets, in the order of its checks.
DeltaError(cand) ==
  LET last == continuity.next_position + Cardinality(Changed(DeltaLevels(cand.levels)))
  IN  CASE ~cand.own -> "MarketMismatch"
        [] cand.own /\ cand.op # "SourceDelta" -> "UnsupportedCandidateOperation"
        [] OTHER ->
             IF cand.levels = <<>> THEN "EmptyDelta"
             ELSE IF ~provenance THEN "NoEstablishedBase"
             ELSE IF IsLost(continuity) THEN "ContinuityLost"
             ELSE IF ListFault(cand.levels) # "None" THEN ListFault(cand.levels)
             ELSE IF revision >= U64Max THEN "CounterOverflow"
             ELSE IF last - 1 > U64Max THEN "CounterOverflow"
             ELSE IF deltas_since_snapshot >= U64Max THEN "CounterOverflow"
             ELSE IF last > U64Max THEN "Continuity"
             ELSE "None"

ApplySourceDelta(cand) ==
  LET next == DeltaLevels(cand.levels)
  IN \/ /\ DeltaError(cand) # "None"
        /\ reply' = ErrorReply(DeltaError(cand))
        /\ UNCHANGED book
     \/ /\ DeltaError(cand) = "None"
        /\ \E s \in Listings(Changed(next)) :
             /\ VenueOrder(s, cand.levels)
             /\ continuity' = Advanced(continuity, Len(s))
             /\ reply' = BookCommit(revision + 1, continuity.epoch, FALSE, FALSE,
                           MutationRecords(s, next, continuity.epoch, continuity.next_position))
        /\ levels' = next
        /\ revision' = revision + 1
        /\ authority' = Live
        /\ provenance' = TRUE
        /\ delta_rail' = TRUE
        /\ deltas_since_snapshot' = deltas_since_snapshot + 1
        /\ UNCHANGED sync_divergences

Unsubscribe ==
  \/ /\ authority = Unsubscribed
     /\ reply' = ChangedReply(FALSE)
     /\ UNCHANGED book
  \/ /\ authority # Unsubscribed
     /\ revision >= U64Max
     /\ reply' = ErrorReply("CounterOverflow")
     /\ UNCHANGED book
  \/ /\ authority # Unsubscribed
     /\ revision < U64Max
     /\ revision' = revision + 1
     /\ authority' = Unsubscribed
     /\ reply' = ChangedReply(TRUE)
     /\ UNCHANGED <<levels, continuity, provenance, delta_rail, deltas_since_snapshot,
                    sync_divergences>>

ReportContinuityLoss(reason, why) ==
  LET next == LostFor(continuity, reason)
      same == next = continuity /\ authority = Stale(why)
  IN \/ /\ same
        /\ reply' = ChangedReply(FALSE)
        /\ UNCHANGED book
     \/ /\ ~same
        /\ revision >= U64Max
        /\ reply' = ErrorReply("CounterOverflow")
        /\ UNCHANGED book
     \/ /\ ~same
        /\ revision < U64Max
        /\ revision' = revision + 1
        /\ continuity' = next
        /\ authority' = Stale(why)
        /\ reply' = ChangedReply(TRUE)
        /\ UNCHANGED <<levels, provenance, delta_rail, deltas_since_snapshot, sync_divergences>>

\* The position of a delivery that changes no level (a market resolution).
NoteStreamEvent ==
  \/ /\ IsLost(continuity)
     /\ reply' = ErrorReply("ContinuityLost")
     /\ UNCHANGED book
  \/ /\ IsIntact(continuity)
     /\ continuity.next_position >= U64Max
     /\ reply' = ErrorReply("Continuity")
     /\ UNCHANGED book
  \/ /\ IsIntact(continuity)
     /\ continuity.next_position < U64Max
     /\ continuity' = Advanced(continuity, 1)
     /\ reply' = CursorReply(Cursor(continuity.epoch, continuity.next_position))
     /\ UNCHANGED <<levels, authority, revision, provenance, delta_rail,
                    deltas_since_snapshot, sync_divergences>>

Next ==
  \/ \E cand \in Candidates : ApplySnapshot(cand)
  \/ \E cand \in Candidates : ApplySourceDelta(cand)
  \/ Unsubscribe
  \/ \E reason \in ContinuityReasons, why \in AuthorityReasons : ReportContinuityLoss(reason, why)
  \/ NoteStreamEvent

Spec == Init /\ [][Next]_vars
=============================================================================

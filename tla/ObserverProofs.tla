---------------------------- MODULE ObserverProofs ----------------------------
(***************************************************************************)
(* For every ring capacity, every set of candidates and every length of    *)
(* behaviour: what an observer is handed adds up to the book, and it is    *)
(* told of a loss exactly when it has one.                                 *)
(***************************************************************************)
EXTENDS Observer, OrderBookProofs

(* The provers are given more than their default time: the contexts of the  *)
(* leaves below are long.                                                   *)
USE SMTT(20), SMTT(40)

Places == [epoch : Nat, position : Nat]

Deliveries ==
       [kind : {"Mutation"}, revision : Nat, cursor : Places, coord : Complementable, replacement : Held]
  \cup [kind : {"Resolution"}, revision : Nat, cursor : Places]

Observers ==
  [pc : {"None", "Attached", "Resubscribed"}, next : Nat, fresh : BOOLEAN, resume_after : Nat,
   boundary : Places, cursor : Places, pending : Nat, lost : {"None", "Overrun", "RecoveryBase"},
   state_open : BOOLEAN, closed : BOOLEAN, held : PhysicalLevels, from : Nat \ {0}, taken : Nat,
   whole : BOOLEAN, based : BOOLEAN]

\* Every delivery an owned book has numbered: those sent, and those of the call under way.
Stream == sent \o outbox

Names(d, c) == d.kind = "Mutation" /\ d.coord = c

\* The same depth: a level of quantity zero rests nothing.
SameRest(x, y) == x = y \/ {x, y} \subseteq {Absent, 0}

-----------------------------------------------------------------------------
(* The inductive invariant                                                 *)

SurfaceTyped ==
  /\ owned \in BOOLEAN /\ alive \in BOOLEAN /\ (alive => owned)
  /\ outbox \in Seq(Deliveries) /\ sent \in Seq(Deliveries) /\ (~alive => outbox = <<>>)
  /\ obs \in Observers /\ obs.next \in 1..(Len(sent) + 1)
  /\ ~owned => sent = <<>> /\ obs.pc = "None"
  /\ owned => published = PublishedBook
  /\ obs.pc = "None" =>
       /\ obs.next = 1 /\ obs.pending = 0 /\ obs.taken = 0 /\ obs.from = 1
       /\ obs.lost = "None" /\ ~obs.closed

\* The deliveries of the current epoch end where the book's next position is.
StreamOK ==
  \A i \in 1..Len(Stream) :
    /\ Stream[i].revision <= revision
    /\ Stream[i].cursor.epoch <= continuity.epoch
    /\ IsIntact(continuity) /\ Stream[i].cursor.epoch = continuity.epoch =>
         Stream[i].cursor.position + (Len(Stream) - i) + 1 = continuity.next_position

\* What an attachment remembers lies behind the book, and a mutation later than it is of no
\* earlier epoch.
AttachmentOK ==
  obs.pc # "None" =>
    /\ obs.resume_after <= revision /\ obs.boundary.epoch <= continuity.epoch
    /\ obs.based => provenance
    /\ obs.lost = "RecoveryBase" => obs.boundary.epoch < continuity.epoch
    /\ \A i \in 1..Len(Stream) :
         Stream[i].kind = "Mutation" /\ Stream[i].revision > obs.resume_after =>
           obs.boundary.epoch <= Stream[i].cursor.epoch

\* An overrun still to judge leaves something to receive, and an end is final.
EndOK ==
  /\ obs.pc = "Attached" /\ obs.pending > 0 => obs.next <= Len(sent)
  /\ obs.closed => ~alive /\ obs.next = Len(sent) + 1 /\ obs.pending = 0 /\ obs.lost = "None"
  /\ ~obs.state_open => ~alive /\ ~obs.fresh

\* An attachment to an intact stream divides the deliveries at an index b: it contains those up
\* to b, and those after it in its epoch are numbered from its boundary on.
Divides(b) ==
  /\ b <= Len(Stream) /\ obs.from <= b + 1
  /\ \A i \in 1..b : Stream[i].revision <= obs.resume_after /\ Before(Stream[i].cursor, obs.boundary)
  /\ \A i \in (b + 1)..Len(Stream) :
       /\ ~Redundant(obs, Stream[i])
       /\ Stream[i].cursor.epoch = obs.boundary.epoch =>
            Stream[i].cursor.position = obs.boundary.position + (i - b - 1)
  /\ IsIntact(continuity) /\ continuity.epoch = obs.boundary.epoch =>
       continuity.next_position = obs.boundary.position + (Len(Stream) - b)

\* How far the receiver is: before the overrun it has still to judge it stands inside what its
\* state contains, or one past the last delivery handed over.
Reading(b) ==
  /\ obs.pending < obs.next
  /\ obs.lost = "None" =>
       \/ obs.taken = 0 /\ obs.next - obs.pending <= b + 1
       \/ obs.taken > 0 /\ obs.next - obs.pending = b + 1 + obs.taken
  /\ obs.lost = "Overrun" => obs.taken < obs.next - 2 - b

\* What the consumer holds is the book but for the deliveries it has yet to receive.
Holding(b) ==
  obs.lost = "None" /\ obs.based /\ IsIntact(continuity) /\ continuity.epoch = obs.boundary.epoch =>
    \A c \in Complementable :
      /\ (\A i \in (b + 1 + obs.taken)..Len(Stream) : ~Names(Stream[i], c)) =>
           SameRest(obs.held[c], levels[c])
      /\ \A i \in (b + 1)..Len(Stream) :
           Names(Stream[i], c) /\ (\A j \in (i + 1)..Len(Stream) : ~Names(Stream[j], c)) =>
             SameRest(Stream[i].replacement, levels[c])

WholeOK ==
  obs.pc = "Attached" /\ obs.whole => \E b \in Nat : Divides(b) /\ Reading(b) /\ Holding(b)

SInv == SurfaceTyped /\ StreamOK /\ AttachmentOK /\ EndOK /\ HandedGapFree /\ WholeOK

-----------------------------------------------------------------------------
(* Fields and indices                                                      *)

\* Equal depth is equal depth at every coordinate.
LEMMA RestEquality ==
  ASSUME NEW left \in PhysicalLevels, NEW right \in PhysicalLevels
  PROVE  EconomicallyEqual(left, right) <=> \A c \in Complementable : SameRest(left[c], right[c])
BY DEF EconomicallyEqual, Resting, SameRest

\* The types the calls below start from.
LEMMA BookTypes ==
  ASSUME TypeOK
  PROVE  /\ revision \in Nat /\ continuity.epoch \in Nat /\ levels \in PhysicalLevels
         /\ IsIntact(continuity) => continuity.next_position \in Nat
         /\ IsIntact(continuity) <=> ~IsLost(continuity)
         /\ provenance \in BOOLEAN
BY BoundsAssumption DEF TypeOK, Counter, Continuities, IsIntact, IsLost

\* The deliveries numbered so far are those sent and then those of the outbox.
LEMMA StreamFacts ==
  ASSUME SurfaceTyped
  PROVE  /\ Stream \in Seq(Deliveries) /\ Len(Stream) \in Nat /\ Len(sent) \in Nat
         /\ Len(sent) <= Len(Stream) /\ (outbox = <<>> => Len(Stream) = Len(sent))
         /\ \A i \in 1..Len(sent) : i \in 1..Len(Stream) /\ Stream[i] = sent[i]
         /\ \A i \in 1..Len(Stream) :
              /\ Stream[i].revision \in Nat
              /\ Stream[i].cursor.epoch \in Nat /\ Stream[i].cursor.position \in Nat
              /\ Stream[i].kind = "Mutation" =>
                   Stream[i].coord \in Complementable /\ Stream[i].replacement \in Held
<1>1. sent \in Seq(Deliveries) /\ outbox \in Seq(Deliveries)
  BY DEF SurfaceTyped
<1>2. /\ Stream \in Seq(Deliveries) /\ Len(Stream) = Len(sent) + Len(outbox)
      /\ Len(sent) \in Nat /\ Len(outbox) \in Nat /\ (outbox = <<>> => Len(outbox) = 0)
      /\ \A i \in 1..Len(sent) : Stream[i] = sent[i]
  BY <1>1 DEF Stream
<1>3. \A d \in Deliveries : /\ d.revision \in Nat /\ d.cursor.epoch \in Nat /\ d.cursor.position \in Nat
                            /\ d.kind = "Mutation" => d.coord \in Complementable /\ d.replacement \in Held
  BY DEF Deliveries, Places
<1>4. \A i \in 1..Len(Stream) : Stream[i] \in Deliveries
  BY <1>2
<1> QED
  BY <1>2, <1>3, <1>4

\* The types of an observer's fields.
LEMMA Fields ==
  ASSUME obs \in Observers
  PROVE  /\ obs.next \in Nat /\ obs.pending \in Nat /\ obs.taken \in Nat /\ obs.from \in Nat \ {0}
         /\ obs.resume_after \in Nat /\ obs.boundary \in Places /\ obs.cursor \in Places
         /\ obs.boundary.epoch \in Nat /\ obs.boundary.position \in Nat
         /\ obs.held \in PhysicalLevels /\ obs.pc \in {"None", "Attached", "Resubscribed"}
         /\ obs.lost \in {"None", "Overrun", "RecoveryBase"}
BY DEF Observers, Places

\* The receiver at index n of an intact attachment: redundant is what lies up to b.
LEMMA AtIndex ==
  ASSUME SurfaceTyped, NEW n \in 1..Len(sent), NEW b \in Nat, Divides(b)
  PROVE  /\ Redundant(obs, sent[n]) <=> n <= b
         /\ n > b /\ sent[n].cursor.epoch = obs.boundary.epoch =>
              sent[n].cursor.position = obs.boundary.position + (n - b - 1)
<1>1. /\ Len(sent) \in Nat /\ Len(Stream) \in Nat /\ Len(sent) <= Len(Stream)
      /\ n \in 1..Len(Stream) /\ sent[n] = Stream[n]
  BY StreamFacts
<1>2. CASE n <= b
  <2>1. n \in 1..b
    BY <1>1, <1>2
  <2>2. Stream[n].revision <= obs.resume_after /\ Before(Stream[n].cursor, obs.boundary)
    BY ZenonT(30), <2>1 DEF Divides
  <2>3. ~(n > b)
    BY <1>1, <1>2
  <2> QED
    BY ZenonT(30), <1>1, <1>2, <2>2, <2>3 DEF Redundant
<1>3. CASE n > b
  <2>1. n \in (b + 1)..Len(Stream) /\ ~(n <= b)
    BY <1>1, <1>3
  <2> QED
    BY ZenonT(30), <1>1, <2>1 DEF Divides
<1> QED
  BY <1>1, <1>2, <1>3

-----------------------------------------------------------------------------
(* What the invariant says                                                 *)

\* The size of an interval.
LEMMA IntervalCount ==
  ASSUME NEW b \in Nat, NEW n \in Nat
  PROVE  Cardinality((b + 1)..n) = IF n > b THEN n - b ELSE 0
<1>1. b + 1 \in Int /\ n \in Int
  OBVIOUS
<1>2. Cardinality((b + 1)..n) = IF b + 1 > n THEN 0 ELSE n - (b + 1) + 1
  BY ZenonT(30), <1>1, FS_Interval
<1> QED
  BY <1>2

\* The deliveries an attachment needs are those after its division, so they can be counted.
LEMMA NeededCount ==
  ASSUME SurfaceTyped, NEW b \in Nat, Divides(b), NEW n \in 1..(Len(sent) + 1)
  PROVE  /\ NeededBefore(obs, n) = IF n - 1 > b THEN n - 1 - b ELSE 0
         /\ Cardinality(Needed(obs)) = IF Len(sent) > b THEN Len(sent) - b ELSE 0
<1>1. obs \in Observers /\ Len(sent) \in Nat
  BY DEF SurfaceTyped
<1>2. obs.from \in Nat \ {0}
  BY <1>1, Fields
<1>3. obs.from <= b + 1
  BY DEF Divides
<1>4. \A i \in 1..Len(sent) : ~Redundant(obs, sent[i]) <=> i > b
  <2>1. TAKE i \in 1..Len(sent)
  <2>2. Redundant(obs, sent[i]) <=> i <= b
    BY ZenonT(30), <2>1, AtIndex
  <2> QED
    BY <1>1, <2>2
<1>5. Needed(obs) = (b + 1)..Len(sent)
  BY <1>1, <1>2, <1>3, <1>4 DEF Needed
<1>6. {i \in Needed(obs) : i < n} = (b + 1)..(n - 1)
  BY <1>1, <1>5
<1>7. n - 1 \in Nat
  BY <1>1
<1>8. /\ Cardinality((b + 1)..(n - 1)) = IF n - 1 > b THEN n - 1 - b ELSE 0
      /\ Cardinality((b + 1)..Len(sent)) = IF Len(sent) > b THEN Len(sent) - b ELSE 0
  BY ZenonT(30), <1>1, <1>7, IntervalCount
<1> QED
  BY ZenonT(30), <1>5, <1>6, <1>8 DEF NeededBefore

\* An attachment with no overrun to judge has been handed all it needs up to where it stands.
LEMMA NoneSkipped ==
  ASSUME SInv
  PROVE  NothingSkipped
<1>1. SurfaceTyped /\ WholeOK
  BY DEF SInv
<1>2. obs \in Observers /\ Len(sent) \in Nat /\ obs.next \in 1..(Len(sent) + 1)
  BY <1>1 DEF SurfaceTyped
<1>3. obs.pending \in Nat /\ obs.taken \in Nat /\ obs.pc \in {"None", "Attached", "Resubscribed"}
  BY <1>2, Fields
<1>4. SUFFICES ASSUME obs.pc # "Resubscribed", obs.whole, obs.lost = "None", obs.pending = 0
               PROVE  NeededBefore(obs, obs.next) = obs.taken
  BY ZenonT(30) DEF NothingSkipped
<1>5. CASE obs.pc = "None"
  <2>1. obs.next = 1 /\ obs.taken = 0 /\ obs.from = 1
    BY <1>1, <1>5 DEF SurfaceTyped
  <2>2. {i \in Needed(obs) : i < obs.next} = {}
    BY <1>2, <2>1 DEF Needed
  <2> QED
    BY <2>1, <2>2, FS_EmptySet DEF NeededBefore
<1>6. CASE obs.pc = "Attached"
  <2>1. PICK b \in Nat : Divides(b) /\ Reading(b)
    BY ZenonT(30), <1>1, <1>4, <1>6 DEF WholeOK
  <2>2. \/ obs.taken = 0 /\ obs.next - obs.pending <= b + 1
        \/ obs.taken > 0 /\ obs.next - obs.pending = b + 1 + obs.taken
    BY <1>4, <2>1 DEF Reading
  <2>3. NeededBefore(obs, obs.next) = IF obs.next - 1 > b THEN obs.next - 1 - b ELSE 0
    BY ZenonT(30), <1>1, <1>2, <2>1, NeededCount
  <2> QED
    BY <1>2, <1>3, <1>4, <2>2, <2>3
<1> QED
  BY <1>3, <1>4, <1>5, <1>6

\* What is reported lost is lost, and the end comes after the last delivery.
LEMMA VerdictsHold ==
  ASSUME SInv
  PROVE  VerdictsAreReal
<1>1. SurfaceTyped /\ WholeOK /\ AttachmentOK /\ EndOK
  BY DEF SInv
<1>2. obs \in Observers /\ Len(sent) \in Nat /\ obs.next \in 1..(Len(sent) + 1)
  BY <1>1 DEF SurfaceTyped
<1>3. /\ obs.pending \in Nat /\ obs.taken \in Nat /\ obs.pc \in {"None", "Attached", "Resubscribed"}
      /\ obs.lost \in {"None", "Overrun", "RecoveryBase"}
  BY <1>2, Fields
<1>4. /\ ConsumerState(obs) = "Overrun" => obs.lost = "Overrun"
      /\ ConsumerState(obs) = "Rebased" => obs.lost = "RecoveryBase"
      /\ ConsumerState(obs) = "Detached" => obs.closed
  BY DEF ConsumerState
<1>5. obs.pc = "None" => obs.lost = "None" /\ ~obs.closed
  BY ZenonT(30), <1>1 DEF SurfaceTyped
<1>6. ASSUME obs.pc # "Resubscribed", obs.lost = "Overrun", obs.whole
      PROVE  NeededBefore(obs, obs.next - 1) > obs.taken
  <2>1. obs.pc = "Attached"
    BY <1>3, <1>5, <1>6
  <2>2. PICK b \in Nat : Divides(b) /\ Reading(b)
    BY ZenonT(30), <1>1, <1>6, <2>1 DEF WholeOK
  <2>3. obs.taken < obs.next - 2 - b
    BY <1>6, <2>2 DEF Reading
  <2>4. obs.next - 1 \in 1..(Len(sent) + 1)
    BY <1>2, <1>3, <2>3
  <2>5. NeededBefore(obs, obs.next - 1) =
          IF (obs.next - 1) - 1 > b THEN (obs.next - 1) - 1 - b ELSE 0
    BY ZenonT(30), <1>1, <2>2, <2>4, NeededCount
  <2> QED
    BY <1>2, <1>3, <2>3, <2>5
<1>7. ASSUME obs.pc # "Resubscribed", obs.lost = "RecoveryBase"
      PROVE  published.continuity.epoch > obs.boundary.epoch
  <2>1. obs.pc # "None"
    BY <1>5, <1>7
  <2>2. published = PublishedBook
    BY ZenonT(30), <1>1, <2>1 DEF SurfaceTyped
  <2>3. published.continuity = continuity
    BY ZenonT(30), <2>2 DEF PublishedBook
  <2>4. obs.boundary.epoch < continuity.epoch
    BY ZenonT(30), <1>1, <1>7, <2>1 DEF AttachmentOK
  <2> QED
    BY <2>3, <2>4
<1>8. ASSUME obs.pc # "Resubscribed", obs.closed, obs.whole
      PROVE  Cardinality(Needed(obs)) = obs.taken
  <2>1. obs.pc = "Attached"
    BY <1>3, <1>5, <1>8
  <2>2. PICK b \in Nat : Divides(b) /\ Reading(b)
    BY ZenonT(30), <1>1, <1>8, <2>1 DEF WholeOK
  <2>3. obs.next = Len(sent) + 1 /\ obs.pending = 0 /\ obs.lost = "None"
    BY ZenonT(30), <1>1, <1>8 DEF EndOK
  <2>4. \/ obs.taken = 0 /\ obs.next - obs.pending <= b + 1
        \/ obs.taken > 0 /\ obs.next - obs.pending = b + 1 + obs.taken
    BY <2>2, <2>3 DEF Reading
  <2>5. Cardinality(Needed(obs)) = IF Len(sent) > b THEN Len(sent) - b ELSE 0
    BY ZenonT(30), <1>1, <1>2, <2>2, NeededCount
  <2> QED
    BY <1>2, <1>3, <2>3, <2>4, <2>5
<1> QED
  BY ZenonT(30), <1>4, <1>6, <1>7, <1>8 DEF VerdictsAreReal

\* What was sent lies before the position the published state starts from.
LEMMA StateLeads ==
  ASSUME SInv, TypeOK
  PROVE  StateLeadsRing
<1>1. SurfaceTyped /\ StreamOK
  BY DEF SInv
<1>2. SUFFICES ASSUME NEW i \in DOMAIN sent
               PROVE  /\ sent[i].revision <= published.revision
                      /\ IsIntact(published.continuity) =>
                           Before(sent[i].cursor, AttachmentCursor(published))
  BY ZenonT(30) DEF StateLeadsRing
<1>3. /\ Len(Stream) \in Nat /\ i \in 1..Len(sent) /\ i \in 1..Len(Stream) /\ Stream[i] = sent[i]
      /\ sent[i].cursor.epoch \in Nat /\ sent[i].cursor.position \in Nat
  <2>1. DOMAIN sent = 1..Len(sent)
    BY <1>1 DEF SurfaceTyped
  <2> QED
    BY <1>1, <2>1, StreamFacts
<1>4. owned
  <2>1. Len(<<>>) = 0
    OBVIOUS
  <2> QED
    BY <1>1, <1>3, <2>1 DEF SurfaceTyped
<1>5. published.revision = revision /\ published.continuity = continuity
  <2>1. published = PublishedBook
    BY ZenonT(30), <1>1, <1>4 DEF SurfaceTyped
  <2> QED
    BY ZenonT(30), <2>1 DEF PublishedBook
<1>6. /\ sent[i].revision <= revision /\ sent[i].cursor.epoch <= continuity.epoch
      /\ IsIntact(continuity) /\ sent[i].cursor.epoch = continuity.epoch =>
           sent[i].cursor.position + (Len(Stream) - i) + 1 = continuity.next_position
  BY ZenonT(30), <1>1, <1>3 DEF StreamOK
<1>7. continuity.epoch \in Nat /\ (IsIntact(continuity) => continuity.next_position \in Nat)
  BY BookTypes
<1>8. ASSUME IsIntact(continuity)
      PROVE  Before(sent[i].cursor, AttachmentCursor(published))
  <2>1. /\ AttachmentCursor(published).epoch = continuity.epoch
        /\ AttachmentCursor(published).position = continuity.next_position
    BY <1>5, <1>8 DEF AttachmentCursor, Cursor
  <2>2. sent[i].cursor.epoch = continuity.epoch => sent[i].cursor.position < continuity.next_position
    BY <1>3, <1>6, <1>7, <1>8
  <2> QED
    BY <1>3, <1>6, <1>7, <2>1, <2>2 DEF Before
<1> QED
  BY ZenonT(30), <1>5, <1>6, <1>8

\* With the ring drained nothing is left to name a coordinate, so the depths agree.
LEMMA DrainedHolds ==
  ASSUME SInv, TypeOK
  PROVE  DrainedHoldsBook
<1>1. SurfaceTyped /\ EndOK /\ WholeOK
  BY DEF SInv
<1>2. SUFFICES ASSUME obs.pc = "Attached", obs.lost = "None", obs.whole, obs.based,
                      obs.next > Len(sent), outbox = <<>>,
                      IsIntact(continuity), continuity.epoch = obs.boundary.epoch
               PROVE  /\ EconomicallyEqual(obs.held, levels)
                      /\ obs.boundary.position + obs.taken = continuity.next_position
  BY ZenonT(30) DEF DrainedHoldsBook
<1>3. /\ obs \in Observers /\ Len(sent) \in Nat /\ obs.next \in 1..(Len(sent) + 1)
      /\ Len(Stream) = Len(sent)
  BY <1>1, <1>2, StreamFacts DEF SurfaceTyped
<1>4. /\ obs.pending \in Nat /\ obs.taken \in Nat /\ obs.held \in PhysicalLevels
      /\ obs.boundary.position \in Nat
  BY <1>3, Fields
<1>5. PICK b \in Nat : Divides(b) /\ Reading(b) /\ Holding(b)
  BY ZenonT(30), <1>1, <1>2 DEF WholeOK
<1>6. obs.next = Len(sent) + 1 /\ obs.pending = 0
  <2>1. obs.pending > 0 => obs.next <= Len(sent)
    BY <1>1, <1>2 DEF EndOK
  <2> QED
    BY <1>2, <1>3, <1>4, <2>1
<1>7. Len(sent) = b + obs.taken
  <2>1. \/ obs.taken = 0 /\ obs.next - obs.pending <= b + 1
        \/ obs.taken > 0 /\ obs.next - obs.pending = b + 1 + obs.taken
    BY <1>2, <1>5 DEF Reading
  <2>2. b <= Len(sent)
    BY <1>3, <1>5 DEF Divides
  <2> QED
    BY <1>3, <1>4, <1>6, <2>1, <2>2
<1>8. obs.boundary.position + obs.taken = continuity.next_position
  <2>1. continuity.next_position = obs.boundary.position + (Len(Stream) - b)
    BY ZenonT(30), <1>2, <1>5 DEF Divides
  <2> QED
    BY <1>3, <1>4, <1>7, <2>1
<1>9. \A c \in Complementable : SameRest(obs.held[c], levels[c])
  <2>1. (b + 1 + obs.taken)..Len(Stream) = {}
    BY <1>3, <1>4, <1>7
  <2> QED
    BY ZenonT(30), <1>2, <1>5, <2>1 DEF Holding
<1>10. levels \in PhysicalLevels
  BY BookTypes
<1> QED
  BY <1>4, <1>8, <1>9, <1>10, RestEquality

-----------------------------------------------------------------------------
(* What a call adds to the stream                                          *)

\* The deliveries ds of a call follow the book's stream, are newer than its revision, and make up
\* for what the call changed, unless it opened an epoch or set the first base.
Appends(ds) ==
  /\ ds \in Seq(Deliveries)
  /\ revision' \in Nat /\ revision <= revision'
  /\ continuity'.epoch \in Nat /\ continuity.epoch <= continuity'.epoch
  /\ ds # <<>> => IsIntact(continuity) /\ continuity'.epoch = continuity.epoch
  /\ \A i \in 1..Len(ds) :
       /\ ds[i].cursor = Cursor(continuity.epoch, continuity.next_position + i - 1)
       /\ ds[i].revision <= revision'
       /\ ds[i].kind = "Mutation" => revision < ds[i].revision
  /\ IsIntact(continuity') /\ continuity'.epoch = continuity.epoch =>
       IsIntact(continuity) /\ continuity'.next_position = continuity.next_position + Len(ds)
  /\ provenance => provenance'
  /\ provenance /\ IsIntact(continuity') /\ continuity'.epoch = continuity.epoch =>
       \A c \in Complementable :
         /\ (\A i \in 1..Len(ds) : ~Names(ds[i], c)) => SameRest(levels[c], levels'[c])
         /\ \A i \in 1..Len(ds) : Names(ds[i], c) => SameRest(ds[i].replacement, levels'[c])

\* The deliveries of a commit: one mutation for each listed coordinate, in order.
LEMMA CommitDeliveries ==
  ASSUME NEW S \in SUBSET Complementable, NEW s \in Listings(S), NEW next \in PhysicalLevels,
         NEW e \in Nat, NEW p \in Nat, NEW rev \in Nat, NEW base, NEW div,
         NEW ds, ds = DeliveriesOf(BookCommit(rev, e, base, div, MutationRecords(s, next, e, p)))
  PROVE  /\ ds \in Seq(Deliveries) /\ Len(ds) = Len(s) /\ Len(s) \in Nat
         /\ \A i \in 1..Len(s) :
              /\ s[i] \in S
              /\ ds[i].kind = "Mutation" /\ ds[i].revision = rev /\ ds[i].cursor = Cursor(e, p + i - 1)
              /\ ds[i].coord = s[i] /\ ds[i].replacement = next[s[i]]
<1> DEFINE m(i) == [kind |-> "Mutation", revision |-> rev, cursor |-> Cursor(e, p + i - 1),
                    coord |-> s[i], replacement |-> next[s[i]]]
<1>1. DOMAIN s = 1..Len(s) /\ Len(s) \in Nat /\ \A i \in 1..Len(s) : s[i] \in S
  BY ListingFacts
<1>2. ds = [i \in 1..Len(s) |-> m(i)]
  BY <1>1 DEF DeliveriesOf, BookCommit, MutationRecords
<1>3. \A i \in 1..Len(s) : m(i) \in Deliveries
  BY <1>1 DEF Deliveries, Places, Cursor, PhysicalLevels
<1>4. /\ \A i \in 1..Len(s) : /\ m(i).kind = "Mutation" /\ m(i).revision = rev
                              /\ m(i).cursor = Cursor(e, p + i - 1)
                              /\ m(i).coord = s[i] /\ m(i).replacement = next[s[i]]
  OBVIOUS
<1> HIDE DEF m
<1> QED
  BY <1>1, <1>2, <1>3, <1>4

\* An accepted snapshot: a base delivers nothing, and neither does an agreeing checkpoint.
LEMMA SnapshotAppends ==
  ASSUME TypeOK, NEW cand \in Candidates, ApplySnapshot(cand), SnapshotError(cand) = "None"
  PROVE  Appends(DeliveriesOf(reply'))
<1> DEFINE next == SnapshotLevels(cand.levels)
           opened == SnapshotContinuity(next)
           base == SnapshotIsRecoveryBase(next)
           diff == SnapshotDiff(next)
           ds == DeliveriesOf(reply')
<1>1. PICK s \in Listings(diff) :
        /\ continuity' = Advanced(opened, Len(s))
        /\ reply' = BookCommit(revision + 1, opened.epoch, base, Diverges(next),
                      MutationRecords(s, next, opened.epoch, opened.next_position))
  BY DEF ApplySnapshot
<1>2. levels' = next /\ revision' = revision + 1 /\ provenance' = TRUE
  BY DEF ApplySnapshot
<1>3. opened \in [kind : {"Intact"}, epoch : Counter, next_position : Counter]
  BY SnapshotAccepted
<1>4. diff \in SUBSET Complementable /\ next \in PhysicalLevels
  BY SnapshotLevelsType DEF SnapshotDiff, Changed
<1>5. opened.epoch \in Nat /\ opened.next_position \in Nat
  BY <1>3, BoundsAssumption DEF Counter
<1>6. /\ revision \in Nat /\ continuity.epoch \in Nat /\ levels \in PhysicalLevels
      /\ IsIntact(continuity) <=> ~IsLost(continuity)
  BY BookTypes
<1>7. base => opened.epoch = continuity.epoch + 1 /\ opened.next_position = 0 /\ diff = {}
  BY DEF SnapshotContinuity, SnapshotDiff, Recovered, LostFor, Intact, Lost
<1>8. ~base => opened = continuity /\ IsIntact(continuity)
  BY <1>6 DEF SnapshotContinuity, SnapshotIsRecoveryBase
<1>9. ~base /\ provenance =>
        \/ diff = {} /\ EconomicallyEqual(levels, next)
        \/ diff = {c \in Complementable : levels[c] # next[c]}
  BY <1>8 DEF SnapshotDiff, SnapshotIsRecoveryBase, Diverges, Changed
<1>10. Len(s) = Cardinality(diff) /\ \A c \in diff : \E i \in DOMAIN s : s[i] = c
  BY <1>1, <1>4, ListingFacts
<1> HIDE DEF next, opened, base, diff, ds
<1>11. /\ ds \in Seq(Deliveries) /\ Len(ds) = Len(s) /\ Len(s) \in Nat
       /\ \A i \in 1..Len(s) :
            /\ s[i] \in diff
            /\ ds[i].kind = "Mutation" /\ ds[i].revision = revision + 1
            /\ ds[i].cursor = Cursor(opened.epoch, opened.next_position + i - 1)
            /\ ds[i].coord = s[i] /\ ds[i].replacement = next[s[i]]
  <2>1. ds = DeliveriesOf(BookCommit(revision + 1, opened.epoch, base, Diverges(next),
                           MutationRecords(s, next, opened.epoch, opened.next_position)))
    BY ZenonT(30), <1>1 DEF ds
  <2>2. revision + 1 \in Nat
    BY <1>6
  <2> QED
    BY <1>1, <1>4, <1>5, <2>1, <2>2, CommitDeliveries
<1>12. /\ continuity'.kind = "Intact" /\ continuity'.epoch = opened.epoch
       /\ continuity'.next_position = opened.next_position + Len(s)
  BY <1>1 DEF Advanced, Intact
<1>13. base => Len(s) = 0 /\ ds = <<>>
  BY <1>7, <1>10, <1>11, FS_EmptySet
<1>14. DOMAIN s = 1..Len(s)
  BY <1>1, <1>4, ListingFacts
<1>15. ASSUME provenance, ~base, NEW c \in Complementable
       PROVE  /\ (\A i \in 1..Len(ds) : ~Names(ds[i], c)) => SameRest(levels[c], levels'[c])
              /\ \A i \in 1..Len(ds) : Names(ds[i], c) => SameRest(ds[i].replacement, levels'[c])
  <2>1. c \in diff => \E i \in 1..Len(ds) : Names(ds[i], c)
    BY <1>10, <1>11, <1>14 DEF Names
  <2>2. c \notin diff => SameRest(levels[c], next[c])
    BY <1>4, <1>6, <1>9, <1>15, RestEquality DEF SameRest
  <2>3. \A i \in 1..Len(ds) : Names(ds[i], c) => ds[i].replacement = next[c]
    BY <1>11 DEF Names
  <2> QED
    BY <1>2, <2>1, <2>2, <2>3 DEF SameRest
<1>16. ds \in Seq(Deliveries) /\ revision' \in Nat /\ revision <= revision'
       /\ continuity'.epoch \in Nat /\ continuity.epoch <= continuity'.epoch
  BY <1>2, <1>5, <1>6, <1>7, <1>8, <1>11, <1>12
<1>17. ds # <<>> => IsIntact(continuity) /\ continuity'.epoch = continuity.epoch
  BY <1>8, <1>12, <1>13
<1>18. \A i \in 1..Len(ds) :
         /\ ds[i].cursor = Cursor(continuity.epoch, continuity.next_position + i - 1)
         /\ ds[i].revision <= revision' /\ revision < ds[i].revision
  <2>1. CASE base
    BY <1>11, <1>13, <2>1
  <2>2. CASE ~base
    BY <1>2, <1>6, <1>8, <1>11, <2>2
  <2> QED
    BY <2>1, <2>2
<1>19. continuity'.epoch = continuity.epoch => ~base
  BY <1>5, <1>6, <1>7, <1>12
<1>20. IsIntact(continuity') /\ continuity'.epoch = continuity.epoch =>
         IsIntact(continuity) /\ continuity'.next_position = continuity.next_position + Len(ds)
  BY <1>8, <1>11, <1>12, <1>19
<1> QED
  BY <1>2, <1>15, <1>16, <1>17, <1>18, <1>19, <1>20 DEF Appends, ds

\* An accepted delta delivers what it changes.
LEMMA DeltaAppends ==
  ASSUME TypeOK, NEW cand \in Candidates, ApplySourceDelta(cand), DeltaError(cand) = "None"
  PROVE  Appends(DeliveriesOf(reply'))
<1> DEFINE next == DeltaLevels(cand.levels)
           diff == Changed(next)
           e == continuity.epoch
           p == continuity.next_position
           ds == DeliveriesOf(reply')
<1>1. PICK s \in Listings(diff) :
        /\ continuity' = Advanced(continuity, Len(s))
        /\ reply' = BookCommit(revision + 1, e, FALSE, FALSE, MutationRecords(s, next, e, p))
  BY ZenonT(30) DEF ApplySourceDelta
<1>2. levels' = next /\ revision' = revision + 1 /\ provenance' = TRUE
  BY DEF ApplySourceDelta
<1>3. IsIntact(continuity)
  BY DeltaAccepted DEF IsIntact
<1>4. diff \in SUBSET Complementable /\ next \in PhysicalLevels
  BY DeltaLevelsType DEF Changed, TypeOK
<1>5. e \in Nat /\ p \in Nat /\ revision \in Nat
  BY <1>3, BookTypes
<1>6. \A c \in Complementable : c \notin diff => levels[c] = next[c]
  BY DEF Changed
<1>7. DOMAIN s = 1..Len(s) /\ \A c \in diff : \E i \in DOMAIN s : s[i] = c
  BY <1>1, <1>4, ListingFacts
<1> HIDE DEF next, diff, ds
<1>8. /\ ds \in Seq(Deliveries) /\ Len(ds) = Len(s) /\ Len(s) \in Nat
      /\ \A i \in 1..Len(s) :
           /\ s[i] \in diff
           /\ ds[i].kind = "Mutation" /\ ds[i].revision = revision + 1
           /\ ds[i].cursor = Cursor(e, p + i - 1)
           /\ ds[i].coord = s[i] /\ ds[i].replacement = next[s[i]]
  <2> DEFINE no == FALSE
  <2>1. ds = DeliveriesOf(BookCommit(revision + 1, e, no, no, MutationRecords(s, next, e, p)))
    BY ZenonT(30), <1>1 DEF ds
  <2> HIDE DEF no
  <2>2. revision + 1 \in Nat
    BY <1>5
  <2> QED
    BY <1>1, <1>4, <1>5, <2>1, <2>2, CommitDeliveries
<1>9. /\ continuity'.kind = "Intact" /\ continuity'.epoch = e
      /\ continuity'.next_position = p + Len(s)
  BY <1>1 DEF Advanced, Intact
<1>10. ASSUME NEW c \in Complementable
       PROVE  /\ (\A i \in 1..Len(ds) : ~Names(ds[i], c)) => SameRest(levels[c], levels'[c])
              /\ \A i \in 1..Len(ds) : Names(ds[i], c) => SameRest(ds[i].replacement, levels'[c])
  <2>1. c \in diff => \E i \in 1..Len(ds) : Names(ds[i], c)
    BY <1>7, <1>8 DEF Names
  <2>2. \A i \in 1..Len(ds) : Names(ds[i], c) => ds[i].replacement = next[c]
    BY <1>8 DEF Names
  <2> QED
    BY <1>2, <1>6, <2>1, <2>2 DEF SameRest
<1>11. \A i \in 1..Len(ds) : ds[i].revision <= revision' /\ revision < ds[i].revision
  BY <1>2, <1>5, <1>8
<1> QED
  BY <1>2, <1>3, <1>5, <1>8, <1>9, <1>10, <1>11 DEF Appends, ds

\* A resolution is one delivery that changes nothing else.
LEMMA EventAppends ==
  ASSUME TypeOK, IsIntact(continuity), continuity' = Advanced(continuity, 1),
         reply' = CursorReply(Cursor(continuity.epoch, continuity.next_position)),
         UNCHANGED <<levels, revision, provenance>>
  PROVE  Appends(DeliveriesOf(reply'))
<1> DEFINE e == continuity.epoch
           p == continuity.next_position
           d == [kind |-> "Resolution", revision |-> revision, cursor |-> Cursor(e, p)]
<1>1. e \in Nat /\ p \in Nat /\ revision \in Nat
  BY BookTypes
<1>2. DeliveriesOf(reply') = <<d>>
  BY DEF DeliveriesOf, CursorReply
<1>3. d \in Deliveries
  BY <1>1 DEF Deliveries, Places, Cursor
<1>4. continuity'.kind = "Intact" /\ continuity'.epoch = e /\ continuity'.next_position = p + 1
  BY DEF Advanced, Intact
<1>5. \A c : ~Names(d, c)
  BY DEF Names
<1>6. d.revision = revision /\ d.cursor = Cursor(e, p) /\ d.kind # "Mutation"
  OBVIOUS
<1> HIDE DEF d
<1>7. /\ <<d>> \in Seq(Deliveries) /\ Len(<<d>>) = 1 /\ <<d>>[1] = d
      /\ \A i \in 1..Len(<<d>>) : i = 1 /\ p + i - 1 = p
  BY <1>1, <1>3
<1>8. \A i \in 1..Len(<<d>>) : /\ <<d>>[i].cursor = Cursor(e, p + i - 1)
                               /\ <<d>>[i].revision <= revision' /\ <<d>>[i].kind # "Mutation"
  BY <1>1, <1>6, <1>7
<1> QED
  BY <1>1, <1>2, <1>4, <1>5, <1>7, <1>8 DEF Appends, SameRest, Names

\* A change of authority or continuity delivers nothing.
LEMMA QuietAppends ==
  ASSUME TypeOK, NEW reason, continuity' = continuity \/ continuity' = LostFor(continuity, reason),
         revision' = revision + 1, UNCHANGED <<levels, provenance>>, reply'.kind = "Changed"
  PROVE  Appends(DeliveriesOf(reply'))
<1>1. DeliveriesOf(reply') = <<>> /\ <<>> \in Seq(Deliveries) /\ Len(<<>>) = 0
  BY DEF DeliveriesOf
<1>2. revision \in Nat /\ continuity.epoch \in Nat
  BY BookTypes
<1>3. continuity' = continuity \/ (~IsIntact(continuity') /\ continuity'.epoch = continuity.epoch)
  BY DEF LostFor, Lost, IsIntact
<1>4. \A c \in Complementable : SameRest(levels[c], levels'[c])
  BY DEF SameRest
<1>5. /\ revision' \in Nat /\ revision <= revision'
      /\ continuity'.epoch \in Nat /\ continuity'.epoch = continuity.epoch
      /\ IsIntact(continuity') => /\ IsIntact(continuity)
                                 /\ continuity'.next_position = continuity.next_position + Len(<<>>)
  <2>1. IsIntact(continuity') =>
          IsIntact(continuity) /\ continuity'.next_position = continuity.next_position
    BY ZenonT(30), <1>3
  <2>2. IsIntact(continuity) => continuity.next_position \in Nat
    BY BookTypes
  <2> QED
    BY <1>1, <1>2, <1>3, <2>1, <2>2
<1>6. \A i : i \notin 1..Len(<<>>)
  BY <1>1
<1>7. continuity.epoch <= continuity'.epoch
  BY <1>2, <1>5
<1>8. Appends(<<>>)
  BY ZenonT(30), <1>1, <1>4, <1>5, <1>6, <1>7 DEF Appends
<1> QED
  BY ZenonT(30), <1>1, <1>8

\* Each call that publishes.
LEMMA CallAppends ==
  ASSUME TypeOK, Next, Publishes(reply')
  PROVE  Appends(DeliveriesOf(reply'))
<1>1. \A e : ~Publishes(ErrorReply(e))
  BY DEF Publishes, ErrorReply
<1>2. ~Publishes(ChangedReply(FALSE))
  BY DEF Publishes, ChangedReply
<1>3. \A b : ChangedReply(b).kind = "Changed"
  BY DEF ChangedReply
<1>4. ASSUME NEW cand \in Candidates, ApplySnapshot(cand)
      PROVE  Appends(DeliveriesOf(reply'))
  <2>1. SnapshotError(cand) = "None"
    BY ZenonT(30), <1>1, <1>4 DEF ApplySnapshot
  <2> QED
    BY ZenonT(30), <1>4, <2>1, SnapshotAppends
<1>5. ASSUME NEW cand \in Candidates, ApplySourceDelta(cand)
      PROVE  Appends(DeliveriesOf(reply'))
  <2>1. DeltaError(cand) = "None"
    BY ZenonT(30), <1>1, <1>5 DEF ApplySourceDelta
  <2> QED
    BY ZenonT(30), <1>5, <2>1, DeltaAppends
<1>6. CASE Unsubscribe
  <2>1. /\ revision' = revision + 1 /\ UNCHANGED <<levels, provenance>> /\ continuity' = continuity
        /\ reply' = ChangedReply(TRUE)
    BY ZenonT(30), <1>1, <1>2, <1>6 DEF Unsubscribe
  <2> QED
    BY ZenonT(30), <1>3, <2>1, QuietAppends
<1>7. ASSUME NEW reason, NEW why, ReportContinuityLoss(reason, why)
      PROVE  Appends(DeliveriesOf(reply'))
  <2>1. /\ revision' = revision + 1 /\ UNCHANGED <<levels, provenance>>
        /\ continuity' = LostFor(continuity, reason) /\ reply' = ChangedReply(TRUE)
    BY ZenonT(30), <1>1, <1>2, <1>7 DEF ReportContinuityLoss
  <2> QED
    BY ZenonT(30), <1>3, <2>1, QuietAppends
<1>8. CASE NoteStreamEvent
  <2>1. /\ IsIntact(continuity) /\ continuity' = Advanced(continuity, 1)
        /\ reply' = CursorReply(Cursor(continuity.epoch, continuity.next_position))
        /\ UNCHANGED <<levels, revision, provenance>>
    BY ZenonT(30), <1>1, <1>8 DEF NoteStreamEvent
  <2> QED
    BY ZenonT(30), <2>1, EventAppends
<1> QED
  BY ZenonT(30), <1>4, <1>5, <1>6, <1>7, <1>8 DEF Next

-----------------------------------------------------------------------------
(* What a step leaves of the observer                                      *)

\* Sending moves a delivery from the outbox to the ring.
LEMMA SendFacts ==
  ASSUME SurfaceTyped, outbox # <<>>, sent' = Append(sent, Head(outbox)), outbox' = Tail(outbox)
  PROVE  /\ Stream' = Stream /\ Len(sent') = Len(sent) + 1
         /\ sent' \in Seq(Deliveries) /\ outbox' \in Seq(Deliveries)
<1>1. sent \in Seq(Deliveries) /\ outbox \in Seq(Deliveries)
  BY DEF SurfaceTyped
<1>2. Len(outbox) \in Nat \ {0} /\ Head(outbox) = outbox[1] /\ outbox[1] \in Deliveries
  BY <1>1
<1>3. /\ sent' \in Seq(Deliveries) /\ outbox' \in Seq(Deliveries)
      /\ Len(sent') = Len(sent) + 1 /\ Len(outbox') = Len(outbox) - 1
  BY <1>1, <1>2
<1>4. /\ Stream' \in Seq(Deliveries) /\ Stream \in Seq(Deliveries) /\ Len(Stream') = Len(Stream)
  BY <1>1, <1>2, <1>3 DEF Stream
<1>5. ASSUME NEW i \in 1..Len(Stream)
      PROVE  Stream'[i] = Stream[i]
  <2>1. CASE i <= Len(sent)
    BY <1>1, <1>3, <2>1 DEF Stream
  <2>2. CASE i = Len(sent) + 1
    BY <1>1, <1>2, <1>3, <2>2 DEF Stream
  <2>3. CASE i > Len(sent) + 1
    BY <1>1, <1>2, <1>3, <2>3 DEF Stream
  <2> QED
    BY <1>1, <2>1, <2>2, <2>3
<1> QED
  BY <1>3, <1>4, <1>5

\* All that a step keeps of the attachment when it leaves the receiver where it is.
Kept == /\ obs'.resume_after = obs.resume_after /\ obs'.boundary = obs.boundary
        /\ obs'.from = obs.from /\ obs'.whole = obs.whole /\ obs'.based = obs.based
KeptCount == obs'.cursor = obs.cursor /\ obs'.taken = obs.taken /\ obs'.held = obs.held

\* The next delivery is handed over.
LEMMA HandOnly ==
  ASSUME obs \in Observers, NEW n \in Nat, NEW c \in Places, NEW t \in Nat, NEW h \in PhysicalLevels,
         obs' = [obs EXCEPT !.next = n, !.pending = 0, !.cursor = c, !.taken = t, !.held = h]
  PROVE  /\ obs' \in Observers /\ obs'.next = n /\ obs'.pending = 0 /\ obs'.cursor = c
         /\ obs'.taken = t /\ obs'.held = h /\ obs'.lost = obs.lost
         /\ Kept /\ obs'.pc = obs.pc /\ obs'.closed = obs.closed
         /\ obs'.fresh = obs.fresh /\ obs'.state_open = obs.state_open
<1>1. 0 \in Nat
  OBVIOUS
<1> QED
  BY ZenonT(30), <1>1 DEF Observers, Kept

\* A new attachment.
LEMMA AttachOnly ==
  ASSUME obs \in Observers, NEW n \in Nat \ {0}, obs' = AttachedAt(obs, n), published.revision \in Nat,
         AttachmentCursor(published) \in Places, published.levels \in PhysicalLevels,
         IsIntact(published.continuity) \in BOOLEAN, published.provenance \in BOOLEAN
  PROVE  /\ obs' \in Observers /\ obs'.pc = "Attached" /\ obs'.next = n /\ obs'.fresh = FALSE
         /\ obs'.resume_after = published.revision /\ obs'.boundary = AttachmentCursor(published)
         /\ obs'.pending = 0 /\ obs'.lost = "None" /\ obs'.held = published.levels
         /\ obs'.from = n /\ obs'.taken = 0 /\ obs'.whole = IsIntact(published.continuity)
         /\ obs'.based = published.provenance
         /\ obs'.closed = obs.closed /\ obs'.state_open = obs.state_open
<1> DEFINE r == published.revision
           b == AttachmentCursor(published)
           w == IsIntact(published.continuity)
           l == published.levels
           v == published.provenance
<1>1. obs' = [obs EXCEPT !.pc = "Attached", !.next = n, !.fresh = FALSE, !.resume_after = r,
                         !.boundary = b, !.cursor = b, !.pending = 0, !.lost = "None",
                         !.held = l, !.from = n, !.taken = 0, !.whole = w, !.based = v]
  BY ZenonT(30) DEF AttachedAt
<1>2. 0 \in Nat /\ n \in Nat /\ r \in Nat /\ b \in Places /\ w \in BOOLEAN /\ l \in PhysicalLevels /\ v \in BOOLEAN
  OBVIOUS
<1> HIDE DEF r, b, w, l, v
<1>3. obs' \in Observers
  <2> DEFINE o == [obs EXCEPT !.pc = "Attached", !.next = n, !.fresh = FALSE, !.resume_after = r,
                              !.boundary = b, !.cursor = b]
  <2>1. o \in Observers
    BY ZenonT(30), <1>2 DEF Observers
  <2>2. obs' = [o EXCEPT !.pending = 0, !.lost = "None", !.held = l, !.from = n, !.taken = 0,
                         !.whole = w, !.based = v]
    BY ZenonT(30), <1>1
  <2> HIDE DEF o
  <2> QED
    BY ZenonT(30), <1>2, <2>1, <2>2 DEF Observers
<1>4. /\ obs'.pc = "Attached" /\ obs'.next = n /\ obs'.fresh = FALSE
      /\ obs'.resume_after = r /\ obs'.boundary = b /\ obs'.pending = 0 /\ obs'.lost = "None"
      /\ obs'.held = l /\ obs'.from = n /\ obs'.taken = 0 /\ obs'.whole = w /\ obs'.based = v
      /\ obs'.closed = obs.closed /\ obs'.state_open = obs.state_open
  BY ZenonT(30), <1>1, <1>2 DEF Observers
<1> QED
  BY ZenonT(30), <1>3, <1>4 DEF r, b, w, l, v

-----------------------------------------------------------------------------
(* The writer's steps                                                      *)

KeptPlace == /\ obs'.pc = obs.pc /\ obs'.next = obs.next /\ obs'.pending = obs.pending
             /\ obs'.lost = obs.lost /\ obs'.closed = obs.closed

\* Redundancy is a matter of the attachment.
LEMMA SameRedundant ==
  ASSUME Kept, NEW d
  PROVE  Redundant(obs', d) <=> Redundant(obs, d)
BY DEF Kept, Redundant

\* A call of the writer appends to the stream.
LEMMA CallExtends ==
  ASSUME SurfaceTyped, NEW ds \in Seq(Deliveries), outbox = <<>>, outbox' = ds, sent' = sent
  PROVE  /\ Len(Stream') = Len(Stream) + Len(ds) /\ Len(ds) \in Nat
         /\ \A i \in 1..Len(Stream) : Stream'[i] = Stream[i]
         /\ \A i \in 1..Len(ds) : Stream'[Len(Stream) + i] = ds[i]
         /\ \A i \in 1..Len(Stream') :
              i \in 1..Len(Stream) \/ \E j \in 1..Len(ds) : i = Len(Stream) + j
<1>1. sent \in Seq(Deliveries) /\ Stream' = sent \o ds /\ Stream = sent
  BY DEF SurfaceTyped, Stream
<1>2. /\ Len(Stream') = Len(Stream) + Len(ds) /\ Len(ds) \in Nat /\ Len(Stream) \in Nat
      /\ \A i \in 1..Len(Stream) : Stream'[i] = Stream[i]
      /\ \A i \in 1..Len(ds) : Stream'[Len(Stream) + i] = ds[i]
  BY <1>1
<1>3. ASSUME NEW i \in 1..Len(Stream'), i \notin 1..Len(Stream)
      PROVE  \E j \in 1..Len(ds) : i = Len(Stream) + j
  <2>1. i - Len(Stream) \in 1..Len(ds) /\ i = Len(Stream) + (i - Len(Stream))
    BY <1>2, <1>3
  <2> QED
    BY ZenonT(30), <2>1
<1> QED
  BY ZenonT(30), <1>2, <1>3

\* After a call the deliveries of its epoch still end where the next position is.
LEMMA CallStreamOK ==
  ASSUME SurfaceTyped, TypeOK, StreamOK, NEW ds, Appends(ds),
         outbox = <<>>, outbox' = ds, sent' = sent
  PROVE  StreamOK'
<1> DEFINE n == Len(Stream)
<1>1. ds \in Seq(Deliveries)
  BY DEF Appends
<1>2. /\ Len(Stream') = n + Len(ds) /\ Len(ds) \in Nat
      /\ \A i \in 1..n : Stream'[i] = Stream[i]
      /\ \A i \in 1..Len(ds) : Stream'[n + i] = ds[i]
      /\ \A i \in 1..Len(Stream') : i \in 1..n \/ \E j \in 1..Len(ds) : i = n + j
  BY <1>1, CallExtends
<1>3. /\ n \in Nat /\ \A i \in 1..n : /\ Stream[i].revision \in Nat /\ Stream[i].cursor.epoch \in Nat
                                      /\ Stream[i].cursor.position \in Nat
  BY StreamFacts
<1>4. /\ revision \in Nat /\ continuity.epoch \in Nat
      /\ IsIntact(continuity) => continuity.next_position \in Nat
  BY BookTypes
<1>5. /\ revision' \in Nat /\ revision <= revision'
      /\ continuity'.epoch \in Nat /\ continuity.epoch <= continuity'.epoch
  BY DEF Appends
<1> HIDE DEF n
<1>6. ASSUME NEW i \in 1..n
      PROVE  /\ Stream'[i].revision <= revision'
             /\ Stream'[i].cursor.epoch <= continuity'.epoch
             /\ IsIntact(continuity') /\ Stream'[i].cursor.epoch = continuity'.epoch =>
                  Stream'[i].cursor.position + (Len(Stream') - i) + 1 = continuity'.next_position
  <2>1. /\ Stream[i].revision <= revision
        /\ Stream[i].cursor.epoch <= continuity.epoch
        /\ IsIntact(continuity) /\ Stream[i].cursor.epoch = continuity.epoch =>
             Stream[i].cursor.position + (n - i) + 1 = continuity.next_position
    BY DEF StreamOK, n
  <2>2. Stream'[i] = Stream[i]
    BY <1>2
  <2>3. ASSUME IsIntact(continuity'), Stream[i].cursor.epoch = continuity'.epoch
        PROVE  Stream[i].cursor.position + (Len(Stream') - i) + 1 = continuity'.next_position
    <3>1. continuity'.epoch = continuity.epoch /\ Stream[i].cursor.epoch = continuity.epoch
      BY <1>3, <1>4, <1>5, <2>1, <2>3
    <3>2. IsIntact(continuity) /\ continuity'.next_position = continuity.next_position + Len(ds)
      BY <2>3, <3>1 DEF Appends
    <3>3. Stream[i].cursor.position + (n - i) + 1 = continuity.next_position
      BY <2>1, <3>1, <3>2
    <3> QED
      BY <1>2, <1>3, <1>4, <3>2, <3>3
  <2>4. Stream[i].revision <= revision' /\ Stream[i].cursor.epoch <= continuity'.epoch
    BY <1>3, <1>4, <1>5, <2>1
  <2> QED
    BY <2>2, <2>3, <2>4
<1>7. ASSUME NEW j \in 1..Len(ds)
      PROVE  /\ ds[j].revision <= revision'
             /\ ds[j].cursor.epoch <= continuity'.epoch
             /\ IsIntact(continuity') /\ ds[j].cursor.epoch = continuity'.epoch =>
                  ds[j].cursor.position + (Len(Stream') - (n + j)) + 1 = continuity'.next_position
  <2>1. ds # <<>>
    BY <1>1
  <2>2. /\ IsIntact(continuity) /\ continuity'.epoch = continuity.epoch
        /\ ds[j].revision <= revision'
        /\ ds[j].cursor = Cursor(continuity.epoch, continuity.next_position + j - 1)
    BY <2>1 DEF Appends
  <2>3. IsIntact(continuity') => continuity'.next_position = continuity.next_position + Len(ds)
    BY <2>2 DEF Appends
  <2>4. ds[j].cursor.epoch = continuity.epoch /\ ds[j].cursor.position = continuity.next_position + j - 1
    BY <2>2 DEF Cursor
  <2> QED
    BY <1>2, <1>3, <1>4, <2>2, <2>3, <2>4
<1>8. ASSUME NEW i \in 1..Len(Stream')
      PROVE  /\ Stream'[i].revision <= revision'
             /\ Stream'[i].cursor.epoch <= continuity'.epoch
             /\ IsIntact(continuity') /\ Stream'[i].cursor.epoch = continuity'.epoch =>
                  Stream'[i].cursor.position + (Len(Stream') - i) + 1 = continuity'.next_position
  BY <1>2, <1>6, <1>7
<1> QED
  BY <1>8 DEF StreamOK

\* A call later than the attachment: its deliveries stand after everything the attachment contains.
LEMMA CallDivides ==
  ASSUME SurfaceTyped, TypeOK, AttachmentOK, obs.pc = "Attached", NEW ds, Appends(ds), Kept,
         outbox = <<>>, outbox' = ds, sent' = sent, NEW b \in Nat, Divides(b)
  PROVE  Divides(b)'
<1> DEFINE n == Len(Stream)
<1>1. ds \in Seq(Deliveries)
  BY DEF Appends
<1>2. /\ Len(Stream') = n + Len(ds) /\ Len(ds) \in Nat
      /\ \A i \in 1..n : Stream'[i] = Stream[i]
      /\ \A i \in 1..Len(ds) : Stream'[n + i] = ds[i]
      /\ \A i \in 1..Len(Stream') : i \in 1..n \/ \E j \in 1..Len(ds) : i = n + j
  BY <1>1, CallExtends
<1>3. n \in Nat /\ b <= n /\ obs.from <= b + 1
  BY StreamFacts DEF Divides
<1>4. /\ revision \in Nat /\ continuity.epoch \in Nat
      /\ IsIntact(continuity) => continuity.next_position \in Nat
  BY BookTypes
<1>5. /\ obs.resume_after \in Nat /\ obs.boundary.epoch \in Nat /\ obs.boundary.position \in Nat
      /\ obs.resume_after <= revision /\ obs.boundary.epoch <= continuity.epoch
  BY Fields DEF SurfaceTyped, AttachmentOK
<1>6. obs'.boundary = obs.boundary /\ obs'.resume_after = obs.resume_after /\ obs'.from = obs.from
  BY DEF Kept
<1>7. /\ continuity'.epoch \in Nat /\ continuity.epoch <= continuity'.epoch
      /\ IsIntact(continuity') /\ continuity'.epoch = continuity.epoch =>
           IsIntact(continuity) /\ continuity'.next_position = continuity.next_position + Len(ds)
  BY DEF Appends
<1>8. IsIntact(continuity) /\ continuity.epoch = obs.boundary.epoch =>
        continuity.next_position = obs.boundary.position + (n - b)
  BY DEF Divides, n
<1>9. /\ \A i \in 1..b : Stream[i].revision <= obs.resume_after /\ Before(Stream[i].cursor, obs.boundary)
      /\ \A i \in (b + 1)..n :
           /\ ~Redundant(obs, Stream[i])
           /\ Stream[i].cursor.epoch = obs.boundary.epoch =>
                Stream[i].cursor.position = obs.boundary.position + (i - b - 1)
  BY DEF Divides, n
<1> HIDE DEF n
<1>10. \A i \in 1..b : Stream'[i].revision <= obs'.resume_after /\ Before(Stream'[i].cursor, obs'.boundary)
  <2>1. \A i \in 1..b : i \in 1..n
    BY <1>3
  <2> QED
    BY ZenonT(30), <1>2, <1>6, <1>9, <2>1
<1>11. ASSUME NEW j \in 1..Len(ds)
       PROVE  /\ ~Redundant(obs, ds[j])
              /\ ds[j].cursor.epoch = obs.boundary.epoch =>
                   ds[j].cursor.position = obs.boundary.position + (n + j - b - 1)
  <2>1. ds # <<>>
    BY <1>1
  <2>0. /\ IsIntact(continuity) /\ (ds[j].kind = "Mutation" => revision < ds[j].revision)
        /\ ds[j].cursor = Cursor(continuity.epoch, continuity.next_position + j - 1)
    BY <2>1 DEF Appends
  <2>2. /\ IsIntact(continuity) /\ (ds[j].kind = "Mutation" => revision < ds[j].revision)
        /\ ds[j].cursor.epoch = continuity.epoch
        /\ ds[j].cursor.position = continuity.next_position + j - 1
    BY <2>0 DEF Cursor
  <2>3. ds[j].cursor.epoch = obs.boundary.epoch =>
          ds[j].cursor.position = obs.boundary.position + (n + j - b - 1)
    BY <1>3, <1>4, <1>5, <1>8, <2>2
  <2>4. ~Before(ds[j].cursor, obs.boundary)
    BY <1>3, <1>4, <1>5, <2>2, <2>3 DEF Before
  <2>5. ds[j] \in Deliveries
    BY <1>1
  <2>6. ds[j].kind = "Mutation" => ds[j].revision \in Nat
    BY <2>5 DEF Deliveries
  <2>7. ds[j].kind = "Mutation" => ~(ds[j].revision <= obs.resume_after)
    BY <1>4, <1>5, <2>2, <2>6
  <2> QED
    BY <2>3, <2>4, <2>7 DEF Redundant
<1>12. ASSUME NEW i \in (b + 1)..Len(Stream')
       PROVE  /\ ~Redundant(obs', Stream'[i])
              /\ Stream'[i].cursor.epoch = obs'.boundary.epoch =>
                   Stream'[i].cursor.position = obs'.boundary.position + (i - b - 1)
  <2>1. i \in 1..Len(Stream')
    BY <1>2, <1>3
  <2>2. CASE i \in 1..n
    <3>1. i \in (b + 1)..n /\ Stream'[i] = Stream[i]
      BY <1>2, <1>3, <2>2
    <3> QED
      BY <1>6, <1>9, <3>1, SameRedundant
  <2>3. ASSUME NEW j \in 1..Len(ds), i = n + j
        PROVE  /\ ~Redundant(obs', Stream'[i])
               /\ Stream'[i].cursor.epoch = obs'.boundary.epoch =>
                    Stream'[i].cursor.position = obs'.boundary.position + (i - b - 1)
    <3>1. Stream'[i] = ds[j]
      BY <1>2, <2>3
    <3>2. ~Redundant(obs', ds[j])
      BY <1>11, SameRedundant
    <3>3. i - b - 1 = n + j - b - 1
      BY <1>2, <1>3, <2>3
    <3> QED
      BY ZenonT(30), <1>6, <1>11, <3>1, <3>2, <3>3
  <2> QED
    BY <1>2, <2>1, <2>2, <2>3
<1>13. IsIntact(continuity') /\ continuity'.epoch = obs'.boundary.epoch =>
         continuity'.next_position = obs'.boundary.position + (Len(Stream') - b)
  BY <1>2, <1>3, <1>4, <1>5, <1>6, <1>7, <1>8
<1>14. b <= Len(Stream') /\ obs'.from <= b + 1
  BY <1>2, <1>3, <1>6
<1> QED
  BY <1>10, <1>12, <1>13, <1>14 DEF Divides

\* What the call changes is what its deliveries say.
LEMMA CallHolding ==
  ASSUME SurfaceTyped, TypeOK, AttachmentOK, obs.pc = "Attached", NEW ds, Appends(ds), Kept, KeptCount,
         KeptPlace, outbox = <<>>, outbox' = ds, sent' = sent, NEW b \in Nat, b <= Len(Stream), Holding(b),
         obs.taken + b <= Len(Stream) \/ obs.taken = 0
  PROVE  Holding(b)'
<1> DEFINE n == Len(Stream)
           t == obs.taken
<1>1. ds \in Seq(Deliveries)
  BY DEF Appends
<1>2. /\ Len(Stream') = n + Len(ds) /\ Len(ds) \in Nat
      /\ \A i \in 1..n : Stream'[i] = Stream[i]
      /\ \A i \in 1..Len(ds) : Stream'[n + i] = ds[i]
      /\ \A i \in 1..Len(Stream') : i \in 1..n \/ \E j \in 1..Len(ds) : i = n + j
  BY <1>1, CallExtends
<1>3. n \in Nat /\ t \in Nat /\ b + t <= n
  BY StreamFacts, Fields DEF SurfaceTyped
<1>4. /\ obs'.boundary = obs.boundary /\ obs'.based = obs.based /\ obs'.taken = t
      /\ obs'.held = obs.held /\ obs'.lost = obs.lost
  BY DEF Kept, KeptCount, KeptPlace
<1>5. SUFFICES ASSUME obs.lost = "None", obs.based, IsIntact(continuity'), continuity'.epoch = obs.boundary.epoch,
                      NEW c \in Complementable
               PROVE  /\ (\A i \in (b + 1 + t)..Len(Stream') : ~Names(Stream'[i], c)) =>
                            SameRest(obs.held[c], levels'[c])
                      /\ \A i \in (b + 1)..Len(Stream') :
                           Names(Stream'[i], c) /\ (\A j \in (i + 1)..Len(Stream') : ~Names(Stream'[j], c)) =>
                             SameRest(Stream'[i].replacement, levels'[c])
  BY ZenonT(30), <1>4 DEF Holding
<1>6. continuity'.epoch = continuity.epoch /\ provenance
  <2>1. obs.boundary.epoch <= continuity.epoch /\ provenance
    BY <1>5 DEF AttachmentOK
  <2>2. continuity.epoch <= continuity'.epoch /\ continuity.epoch \in Nat /\ continuity'.epoch \in Nat
    BY BookTypes DEF Appends
  <2> QED
    BY <1>5, <2>1, <2>2
<1>7. IsIntact(continuity) /\ continuity.epoch = obs.boundary.epoch
  BY <1>5, <1>6 DEF Appends
<1>8. /\ (\A i \in 1..Len(ds) : ~Names(ds[i], c)) => SameRest(levels[c], levels'[c])
      /\ \A i \in 1..Len(ds) : Names(ds[i], c) => SameRest(ds[i].replacement, levels'[c])
  BY <1>5, <1>6 DEF Appends
<1>9. /\ (\A i \in (b + 1 + t)..n : ~Names(Stream[i], c)) => SameRest(obs.held[c], levels[c])
      /\ \A i \in (b + 1)..n :
           Names(Stream[i], c) /\ (\A j \in (i + 1)..n : ~Names(Stream[j], c)) =>
             SameRest(Stream[i].replacement, levels[c])
  BY <1>5, <1>7 DEF Holding
<1>10. \A x, y, z : SameRest(x, y) /\ SameRest(y, z) => SameRest(x, z)
  BY DEF SameRest
<1> HIDE DEF n, t
<1>11. ASSUME NEW k \in 1..(n + 1), \A i \in k..Len(Stream') : ~Names(Stream'[i], c)
       PROVE  /\ \A i \in k..n : ~Names(Stream[i], c)
              /\ SameRest(levels[c], levels'[c])
  <2>1. \A i \in k..n : i \in k..Len(Stream') /\ Stream'[i] = Stream[i]
    BY <1>2, <1>3
  <2>2. \A i \in 1..Len(ds) : n + i \in k..Len(Stream') /\ Stream'[n + i] = ds[i]
    BY <1>2, <1>3
  <2>3. \A i \in 1..Len(ds) : ~Names(ds[i], c)
    BY ZenonT(30), <1>11, <2>2
  <2> QED
    BY ZenonT(30), <1>8, <1>11, <2>1, <2>3
<1>12. (\A i \in (b + 1 + t)..Len(Stream') : ~Names(Stream'[i], c)) => SameRest(obs.held[c], levels'[c])
  <2>1. b + 1 + t \in 1..(n + 1)
    BY <1>3
  <2> QED
    BY ZenonT(30), <1>9, <1>10, <1>11, <2>1
<1>13. ASSUME NEW i \in (b + 1)..Len(Stream'), Names(Stream'[i], c),
              \A j \in (i + 1)..Len(Stream') : ~Names(Stream'[j], c)
       PROVE  SameRest(Stream'[i].replacement, levels'[c])
  <2>1. i \in 1..Len(Stream')
    BY <1>2, <1>3
  <2>2. CASE i \in 1..n
    <3>1. i \in (b + 1)..n /\ i + 1 \in 1..(n + 1) /\ Stream'[i] = Stream[i]
      BY <1>2, <1>3, <2>2
    <3>2. (\A j \in (i + 1)..n : ~Names(Stream[j], c)) /\ SameRest(levels[c], levels'[c])
      BY ZenonT(30), <1>11, <1>13, <3>1
    <3>3. SameRest(Stream[i].replacement, levels[c])
      BY ZenonT(30), <1>9, <1>13, <3>1, <3>2
    <3> QED
      BY ZenonT(30), <1>10, <3>1, <3>2, <3>3
  <2>3. ASSUME NEW j \in 1..Len(ds), i = n + j
        PROVE  SameRest(Stream'[i].replacement, levels'[c])
    <3>1. Stream'[i] = ds[j]
      BY ZenonT(30), <1>2, <2>3
    <3> QED
      BY ZenonT(30), <1>8, <1>13, <3>1
  <2> QED
    BY ZenonT(30), <1>2, <2>1, <2>2, <2>3
<1> QED
  BY ZenonT(30), <1>12, <1>13

\* A call of the writer that publishes.
LEMMA OwnedCall ==
  ASSUME SInv, TypeOK, owned, alive, outbox = <<>>, NEW ds, Appends(ds), outbox' = ds, sent' = sent,
         obs' \in Observers, Kept, KeptCount, KeptPlace, obs'.state_open = obs.state_open,
         published' = PublishedBook', UNCHANGED <<owned, alive>>
  PROVE  SInv'
<1>1. SurfaceTyped /\ StreamOK /\ AttachmentOK /\ EndOK /\ HandedGapFree /\ WholeOK
  BY DEF SInv
<1>2. ds \in Seq(Deliveries)
  BY DEF Appends
<1>3. SurfaceTyped'
  BY <1>1, <1>2 DEF SurfaceTyped, Kept, KeptCount, KeptPlace
<1>4. StreamOK'
  BY <1>1, CallStreamOK
<1>5. AttachmentOK'
  <2>1. SUFFICES ASSUME obs.pc # "None" PROVE AttachmentOK'
    BY DEF AttachmentOK, KeptPlace
  <2>2. /\ obs.resume_after <= revision /\ obs.boundary.epoch <= continuity.epoch
        /\ (obs.based => provenance) /\ (obs.lost = "RecoveryBase" => obs.boundary.epoch < continuity.epoch)
        /\ obs.resume_after \in Nat /\ obs.boundary.epoch \in Nat
        /\ revision \in Nat /\ continuity.epoch \in Nat
    BY <1>1, <2>1, Fields, BookTypes DEF AttachmentOK, SurfaceTyped
  <2>3. /\ revision' \in Nat /\ revision <= revision' /\ continuity'.epoch \in Nat
        /\ continuity.epoch <= continuity'.epoch /\ (provenance => provenance')
    BY DEF Appends
  <2>4. ASSUME NEW i \in 1..Len(Stream'), Stream'[i].kind = "Mutation", Stream'[i].revision > obs.resume_after
        PROVE  obs.boundary.epoch <= Stream'[i].cursor.epoch
    <3>1. CASE i \in 1..Len(Stream)
      <4>1. Stream'[i] = Stream[i]
        BY <1>1, <1>2, <3>1, CallExtends
      <4> QED
        BY <1>1, <2>1, <2>4, <3>1, <4>1 DEF AttachmentOK
    <3>2. ASSUME NEW j \in 1..Len(ds), i = Len(Stream) + j
          PROVE  obs.boundary.epoch <= Stream'[i].cursor.epoch
      <4>1. Stream'[i] = ds[j]
        BY <1>1, <1>2, <3>2, CallExtends
      <4>2. ds[j].cursor = Cursor(continuity.epoch, continuity.next_position + j - 1)
        BY DEF Appends
      <4> QED
        BY <2>2, <4>1, <4>2 DEF Cursor
    <3> QED
      BY <1>1, <1>2, <3>1, <3>2, CallExtends
  <2>5. /\ obs'.resume_after = obs.resume_after /\ obs'.boundary = obs.boundary
        /\ obs'.based = obs.based /\ obs'.lost = obs.lost
    BY DEF Kept, KeptPlace
  <2>6. obs.resume_after <= revision' /\ obs.boundary.epoch <= continuity'.epoch
        /\ (obs.lost = "RecoveryBase" => obs.boundary.epoch < continuity'.epoch)
    BY <2>2, <2>3
  <2>7. obs.based => provenance'
    BY ZenonT(30), <2>2, <2>3
  <2> QED
    BY ZenonT(30), <2>4, <2>5, <2>6, <2>7 DEF AttachmentOK
<1>6. EndOK'
  BY <1>1 DEF EndOK, KeptPlace
<1>7. HandedGapFree'
  BY <1>1 DEF HandedGapFree, Kept, KeptCount
<1>8. WholeOK'
  <2>1. SUFFICES ASSUME obs.pc = "Attached", obs.whole
                 PROVE  \E b \in Nat : Divides(b)' /\ Reading(b)' /\ Holding(b)'
    BY ZenonT(30) DEF WholeOK, Kept, KeptPlace
  <2>2. PICK b \in Nat : Divides(b) /\ Reading(b) /\ Holding(b)
    BY ZenonT(30), <1>1, <2>1 DEF WholeOK
  <2>3. Divides(b)'
    BY <1>1, <2>1, <2>2, CallDivides
  <2>4. Reading(b)'
    BY <2>2 DEF Reading, KeptCount, KeptPlace
  <2>5. b <= Len(Stream)
    BY <2>2 DEF Divides
  <2>6. CASE obs.lost = "None"
    <3>1. obs.taken + b <= Len(Stream) \/ obs.taken = 0
      <4>1. /\ obs.taken = 0 \/ obs.next - obs.pending = b + 1 + obs.taken
            /\ obs.next \in 1..(Len(sent) + 1) /\ obs.pending \in Nat /\ obs.taken \in Nat
        BY <1>1, <2>2, <2>6, Fields DEF Reading, SurfaceTyped
      <4>2. Len(sent) \in Nat /\ Len(Stream) \in Nat /\ Len(sent) <= Len(Stream)
        BY <1>1, StreamFacts
      <4> QED
        BY <4>1, <4>2
    <3> QED
      BY <1>1, <2>1, <2>2, <2>3, <2>4, <2>5, <3>1, CallHolding
  <2>7. CASE obs.lost # "None"
    BY <2>2, <2>3, <2>4, <2>7 DEF Holding, KeptPlace
  <2> QED
    BY <2>6, <2>7
<1> QED
  BY <1>3, <1>4, <1>5, <1>6, <1>7, <1>8 DEF SInv

\* A book no writer owns has no surface to change.
LEMMA UnownedStep ==
  ASSUME SInv, ~owned, outbox' = <<>>, sent' = sent, obs' \in Observers, Kept, KeptCount, KeptPlace,
         obs'.state_open = obs.state_open, obs'.fresh = obs.fresh, UNCHANGED <<owned, alive>>
  PROVE  SInv'
<1>1. /\ sent = <<>> /\ obs.pc = "None" /\ ~alive /\ outbox = <<>> /\ SurfaceTyped /\ EndOK /\ HandedGapFree
      /\ owned \in BOOLEAN
  BY ZenonT(30) DEF SInv, SurfaceTyped
<1>2. SurfaceTyped'
  BY <1>1 DEF SurfaceTyped, Kept, KeptCount, KeptPlace
<1>3. StreamOK'
  <2>1. Stream' = <<>> /\ Len(<<>>) = 0
    BY <1>1 DEF Stream
  <2>2. \A i : i \notin 1..Len(Stream')
    BY <2>1
  <2> QED
    BY ZenonT(30), <2>2 DEF StreamOK
<1>4. AttachmentOK' /\ WholeOK'
  BY <1>1 DEF AttachmentOK, WholeOK, KeptPlace
<1>5. EndOK'
  BY <1>1 DEF EndOK, KeptPlace
<1>6. HandedGapFree'
  BY <1>1 DEF HandedGapFree, Kept, KeptCount
<1> QED
  BY <1>2, <1>3, <1>4, <1>5, <1>6 DEF SInv

\* The book's part of the state the surface depends on.
SameBook == UNCHANGED <<levels, continuity, revision, provenance>>

\* The parts of the invariant that a step keeping the stream, the book and the attachment keeps.
LEMMA SameParts ==
  ASSUME SameBook, Stream' = Stream
  PROVE  /\ StreamOK => StreamOK'
         /\ PublishedBook' = PublishedBook
         /\ Kept => \A b : Divides(b) => Divides(b)'
         /\ Kept /\ KeptCount /\ obs'.lost = obs.lost => \A b : Holding(b) => Holding(b)'
<1>1. levels' = levels /\ continuity' = continuity /\ revision' = revision /\ provenance' = provenance
  BY DEF SameBook
<1>2. StreamOK => StreamOK'
  BY ZenonT(30), <1>1 DEF StreamOK
<1>3. PublishedBook' = PublishedBook
  BY ZenonT(30), <1>1 DEF PublishedBook
<1>4. ASSUME Kept, NEW b, Divides(b)
      PROVE  Divides(b)'
  <2>1. \A d : Redundant(obs', d) <=> Redundant(obs, d)
    BY <1>4, SameRedundant
  <2>2. obs'.boundary = obs.boundary /\ obs'.resume_after = obs.resume_after /\ obs'.from = obs.from
    BY <1>4 DEF Kept
  <2> QED
    BY ZenonT(30), <1>1, <1>4, <2>1, <2>2 DEF Divides
<1>5. ASSUME Kept, KeptCount, obs'.lost = obs.lost, NEW b, Holding(b)
      PROVE  Holding(b)'
  <2>1. /\ obs'.boundary = obs.boundary /\ obs'.based = obs.based
        /\ obs'.taken = obs.taken /\ obs'.held = obs.held
    BY <1>5 DEF Kept, KeptCount
  <2> QED
    BY ZenonT(30), <1>1, <1>5, <2>1 DEF Holding
<1> QED
  BY ZenonT(30), <1>2, <1>3, <1>4, <1>5

\* A send and the writer's end leave the observer alone.
LEMMA WriterStep ==
  ASSUME SInv, owned, SameBook, Stream' = Stream, obs' = obs, published' = published, owned' = owned,
         sent' \in Seq(Deliveries), outbox' \in Seq(Deliveries), Len(sent) <= Len(sent'),
         alive' \in BOOLEAN, ~alive => Len(sent') = Len(sent) /\ ~alive', ~alive' => outbox' = <<>>
  PROVE  SInv'
<1>1. SurfaceTyped /\ StreamOK /\ AttachmentOK /\ EndOK /\ HandedGapFree /\ WholeOK
  BY DEF SInv
<1>2. Len(sent) \in Nat /\ Len(sent') \in Nat /\ obs.next \in 1..(Len(sent) + 1)
  BY <1>1, StreamFacts DEF SurfaceTyped
<1>3. StreamOK' /\ PublishedBook' = PublishedBook
  BY <1>1, SameParts
<1>4. obs'.next \in 1..(Len(sent') + 1)
  BY <1>2
<1>5. SurfaceTyped'
  BY ZenonT(30), <1>1, <1>3, <1>4 DEF SurfaceTyped
<1>6. AttachmentOK'
  BY ZenonT(30), <1>1 DEF AttachmentOK, SameBook
<1>7. EndOK'
  <2>1. obs.pc = "Attached" /\ obs.pending > 0 => obs.next <= Len(sent')
    BY <1>1, <1>2 DEF EndOK
  <2> QED
    BY ZenonT(30), <1>1, <2>1 DEF EndOK
<1>8. HandedGapFree'
  BY ZenonT(30), <1>1 DEF HandedGapFree
<1>9. WholeOK'
  <2>1. SUFFICES ASSUME obs.pc = "Attached", obs.whole
                 PROVE  \E b \in Nat : Divides(b)' /\ Reading(b)' /\ Holding(b)'
    BY ZenonT(30) DEF WholeOK
  <2>2. PICK b \in Nat : Divides(b) /\ Reading(b) /\ Holding(b)
    BY ZenonT(30), <1>1, <2>1 DEF WholeOK
  <2>3. Kept /\ KeptCount /\ obs'.lost = obs.lost
    BY ZenonT(30) DEF Kept, KeptCount
  <2>4. Divides(b)' /\ Holding(b)'
    BY ZenonT(30), <2>2, <2>3, SameParts
  <2>5. Reading(b)'
    BY ZenonT(30), <2>2 DEF Reading
  <2> QED
    BY ZenonT(30), <2>4, <2>5
<1> QED
  BY ZenonT(30), <1>3, <1>5, <1>6, <1>7, <1>8, <1>9 DEF SInv

\* A send leaves the stream as it is.
LEMMA SendKeeps ==
  ASSUME SInv, Send
  PROVE  SInv'
<1>1. SurfaceTyped /\ owned /\ alive
  <2>1. SurfaceTyped /\ outbox # <<>>
    BY DEF SInv, Send
  <2> QED
    BY ZenonT(30), <2>1 DEF SurfaceTyped
<1>2. /\ Stream' = Stream /\ Len(sent') = Len(sent) + 1
      /\ sent' \in Seq(Deliveries) /\ outbox' \in Seq(Deliveries)
  BY <1>1, SendFacts DEF Send
<1>3. Len(sent) <= Len(sent')
  BY <1>1, <1>2, StreamFacts
<1>4. SameBook /\ obs' = obs /\ published' = published /\ owned' = owned /\ alive' = alive
  BY DEF Send, SameBook, hvars, vars, book
<1> QED
  BY ZenonT(30), <1>1, <1>2, <1>3, <1>4, WriterStep

\* Dropping the writer leaves the stream as it is.
LEMMA DropKeeps ==
  ASSUME SInv, DropWriter
  PROVE  SInv'
<1>1. SurfaceTyped /\ owned /\ alive /\ outbox = <<>>
  BY DEF SInv, DropWriter
<1>2. /\ SameBook /\ obs' = obs /\ published' = published /\ owned' = owned /\ alive' = FALSE
      /\ sent' = sent /\ outbox' = outbox
  BY DEF DropWriter, SameBook, hvars, vars, book
<1>3. Stream' = Stream
  BY <1>2 DEF Stream
<1>4. sent' \in Seq(Deliveries) /\ outbox' \in Seq(Deliveries) /\ Len(sent) <= Len(sent')
  BY <1>1, <1>2, StreamFacts DEF SurfaceTyped
<1> QED
  BY ZenonT(30), <1>1, <1>2, <1>3, <1>4, WriterStep

-----------------------------------------------------------------------------
(* The observer's steps                                                    *)

\* An attachment divides the stream where it stands: all that was numbered is in the state it read.
LEMMA AttachKeeps ==
  ASSUME SInv, TypeOK, owned, NEW n \in 1..(Len(sent) + 1), obs' = AttachedAt(obs, n), SameBook,
         UNCHANGED <<owned, alive, published, outbox, sent>>, obs.closed => n = Len(sent) + 1
  PROVE  SInv'
<1>1. SurfaceTyped /\ StreamOK /\ AttachmentOK /\ EndOK /\ HandedGapFree /\ WholeOK
  BY DEF SInv
<1>2. /\ revision \in Nat /\ continuity.epoch \in Nat /\ levels \in PhysicalLevels
      /\ (IsIntact(continuity) => continuity.next_position \in Nat) /\ provenance \in BOOLEAN
  BY BookTypes
<1>3. /\ published.revision = revision /\ published.continuity = continuity
      /\ published.levels = levels /\ published.provenance = provenance
  <2>1. published = PublishedBook
    BY <1>1 DEF SurfaceTyped
  <2> QED
    BY ZenonT(30), <2>1 DEF PublishedBook
<1>4. /\ AttachmentCursor(published) \in Places
      /\ AttachmentCursor(published).epoch = continuity.epoch
      /\ IsIntact(continuity) => AttachmentCursor(published).position = continuity.next_position
  BY <1>2, <1>3 DEF AttachmentCursor, Cursor, Places
<1>5. /\ n \in Nat \ {0} /\ Len(sent) \in Nat /\ Len(Stream) \in Nat /\ Len(sent) <= Len(Stream)
      /\ \A i \in 1..Len(Stream) : /\ Stream[i].revision \in Nat /\ Stream[i].cursor.epoch \in Nat
                                   /\ Stream[i].cursor.position \in Nat
  BY <1>1, StreamFacts
<1>6. obs \in Observers /\ IsIntact(published.continuity) \in BOOLEAN
  BY ZenonT(30), <1>1 DEF SurfaceTyped, IsIntact
<1>7. /\ obs' \in Observers /\ obs'.pc = "Attached" /\ obs'.next = n /\ obs'.fresh = FALSE
      /\ obs'.resume_after = revision /\ obs'.boundary = AttachmentCursor(published)
      /\ obs'.pending = 0 /\ obs'.lost = "None" /\ obs'.held = levels
      /\ obs'.from = n /\ obs'.taken = 0 /\ obs'.whole = IsIntact(continuity)
      /\ obs'.based = provenance /\ obs'.closed = obs.closed /\ obs'.state_open = obs.state_open
  BY ZenonT(30), <1>2, <1>3, <1>4, <1>5, <1>6, AttachOnly
<1>8. Stream' = Stream
  BY DEF Stream
<1>9. StreamOK' /\ PublishedBook' = PublishedBook
  BY <1>1, <1>8, SameParts
<1>10. levels' = levels /\ continuity' = continuity /\ revision' = revision /\ provenance' = provenance
  BY DEF SameBook
<1>11. SurfaceTyped'
  <2>1. obs'.next \in 1..(Len(sent') + 1) /\ obs'.pc # "None"
    BY <1>7
  <2> QED
    BY ZenonT(30), <1>1, <1>7, <1>9, <2>1 DEF SurfaceTyped
<1>12. AttachmentOK'
  <2>1. \A i \in 1..Len(Stream) : ~(Stream[i].revision > revision)
    BY <1>1, <1>2, <1>5 DEF StreamOK
  <2>2. obs'.resume_after <= revision' /\ obs'.boundary.epoch <= continuity'.epoch /\ obs'.lost # "RecoveryBase"
    BY <1>2, <1>4, <1>7, <1>10
  <2> QED
    BY ZenonT(30), <1>7, <1>8, <1>10, <2>1, <2>2 DEF AttachmentOK
<1>13. EndOK'
  <2>1. ~(obs'.pending > 0)
    BY <1>7
  <2> QED
    BY ZenonT(30), <1>1, <1>7, <2>1 DEF EndOK
<1>14. HandedGapFree'
  <2>1. ~(obs'.taken > 0)
    BY <1>7
  <2> QED
    BY ZenonT(30), <2>1 DEF HandedGapFree
<1>15. WholeOK'
  <2> DEFINE b == Len(Stream)
  <2>1. SUFFICES ASSUME IsIntact(continuity) PROVE Divides(b)' /\ Reading(b)' /\ Holding(b)'
    BY ZenonT(30), <1>5, <1>7, <1>8 DEF WholeOK
  <2>2. \A i \in (b + 1)..b : FALSE
    BY <1>5
  <2>3. \A i \in 1..b : Stream[i].revision <= revision /\ Before(Stream[i].cursor, AttachmentCursor(published))
    <3>1. TAKE i \in 1..b
    <3> DEFINE c == Stream[i].cursor
               a == AttachmentCursor(published)
    <3>2. /\ Stream[i].revision <= revision /\ c.epoch <= continuity.epoch
          /\ c.epoch = continuity.epoch => c.position + (b - i) + 1 = continuity.next_position
      BY ZenonT(30), <1>1, <2>1, <3>1 DEF StreamOK
    <3>3. /\ c.epoch \in Nat /\ c.position \in Nat /\ b \in Nat /\ a.epoch = continuity.epoch
          /\ a.position = continuity.next_position /\ continuity.epoch \in Nat
      BY ZenonT(30), <1>2, <1>4, <1>5, <2>1, <3>1
    <3> HIDE DEF a, b, c
    <3>4. Before(c, a)
      BY <3>1, <3>2, <3>3 DEF Before
    <3> QED
      BY ZenonT(30), <3>2, <3>4 DEF a, c
  <2>4. continuity.next_position = AttachmentCursor(published).position + (b - b)
    BY <1>2, <1>4, <1>5, <2>1
  <2>5. b <= b /\ n <= b + 1 /\ 0 < n /\ n - 0 <= b + 1 /\ b + 1 + 0 = b + 1
    <3>1. n \in 1..(Len(sent) + 1) /\ Len(sent) \in Nat /\ b \in Nat /\ Len(sent) <= b
      BY ZenonT(30), <1>5
    <3> HIDE DEF b
    <3> QED
      BY <3>1
  <2>6. Divides(b)'
    BY ZenonT(30), <1>7, <1>8, <1>10, <2>2, <2>3, <2>4, <2>5 DEF Divides
  <2>7. Reading(b)'
    BY <1>5, <1>7, <1>8, <2>5 DEF Reading
  <2>8. Holding(b)'
    <3>1. \A c \in Complementable : SameRest(obs'.held[c], levels'[c])
      BY ZenonT(30), <1>7, <1>10 DEF SameRest
    <3> QED
      BY ZenonT(30), <1>8, <2>2, <3>1 DEF Holding
  <2> QED
    BY ZenonT(30), <2>6, <2>7, <2>8
<1> QED
  BY ZenonT(30), <1>9, <1>11, <1>12, <1>13, <1>14, <1>15 DEF SInv

\* The first half of a reattach only moves the receiver.
LEMMA ResubscribeKeeps ==
  ASSUME SInv, Resubscribe
  PROVE  SInv'
<1>1. /\ SurfaceTyped /\ StreamOK /\ AttachmentOK /\ EndOK /\ HandedGapFree /\ obs \in Observers
      /\ obs.pc = "Attached"
  BY DEF SInv, SurfaceTyped, Resubscribe
<1>2. SameBook /\ UNCHANGED <<owned, alive, published, outbox, sent>>
  BY DEF Resubscribe, SameBook, hvars, vars, book
<1>3. Len(sent) \in Nat /\ Len(sent) + 1 \in Nat /\ Len(sent) + 1 \in 1..(Len(sent) + 1)
  BY <1>1, StreamFacts
<1>4. obs' = [obs EXCEPT !.pc = "Resubscribed", !.next = Len(sent) + 1]
  BY DEF Resubscribe
<1>5. /\ obs' \in Observers /\ obs'.pc = "Resubscribed" /\ obs'.next = Len(sent) + 1 /\ Kept /\ KeptCount
      /\ obs'.pending = obs.pending /\ obs'.lost = obs.lost /\ obs'.closed = obs.closed
      /\ obs'.fresh = obs.fresh /\ obs'.state_open = obs.state_open
  BY ZenonT(30), <1>1, <1>3, <1>4 DEF Observers, Kept, KeptCount
<1>6. Stream' = Stream
  BY <1>2 DEF Stream
<1>7. StreamOK' /\ PublishedBook' = PublishedBook
  BY <1>1, <1>2, <1>6, SameParts
<1>8. obs'.pc # "None" /\ obs'.pc # "Attached"
  BY <1>5
<1>9. owned
  BY ZenonT(30), <1>1, <1>8 DEF SurfaceTyped
<1>10. SurfaceTyped'
  BY ZenonT(30), <1>1, <1>2, <1>3, <1>5, <1>7, <1>8, <1>9 DEF SurfaceTyped
<1>11. AttachmentOK'
  <2>1. obs.pc # "None"
    BY <1>1
  <2> QED
    BY ZenonT(30), <1>1, <1>2, <1>5, <1>6, <2>1 DEF AttachmentOK, SameBook, Kept
<1>12. EndOK'
  BY ZenonT(30), <1>1, <1>2, <1>5, <1>8 DEF EndOK
<1>13. HandedGapFree'
  BY ZenonT(30), <1>1, <1>5 DEF HandedGapFree, Kept, KeptCount
<1>14. WholeOK'
  BY ZenonT(30), <1>8 DEF WholeOK
<1> QED
  BY ZenonT(30), <1>7, <1>10, <1>11, <1>12, <1>13, <1>14 DEF SInv

\* A step that keeps the attachment, what was handed over, and where the receiver is.
LEMMA WatchKeeps ==
  ASSUME SInv, SameBook, UNCHANGED <<owned, alive, published, outbox, sent>>,
         obs' \in Observers, Kept, KeptCount, KeptPlace,
         ~obs'.state_open => ~alive /\ ~obs'.fresh
  PROVE  SInv'
<1>1. SurfaceTyped /\ StreamOK /\ AttachmentOK /\ EndOK /\ HandedGapFree /\ WholeOK
  BY DEF SInv
<1>2. Stream' = Stream
  BY DEF Stream
<1>3. StreamOK' /\ PublishedBook' = PublishedBook
  BY <1>1, <1>2, SameParts
<1>4. SurfaceTyped'
  BY ZenonT(30), <1>1, <1>3 DEF SurfaceTyped, Kept, KeptCount, KeptPlace
<1>5. AttachmentOK'
  BY ZenonT(30), <1>1, <1>2 DEF AttachmentOK, SameBook, Kept, KeptPlace
<1>6. EndOK'
  BY ZenonT(30), <1>1 DEF EndOK, KeptPlace
<1>7. HandedGapFree'
  BY ZenonT(30), <1>1 DEF HandedGapFree, Kept, KeptCount
<1>8. WholeOK'
  <2>1. SUFFICES ASSUME obs.pc = "Attached", obs.whole
                 PROVE  \E b \in Nat : Divides(b)' /\ Reading(b)' /\ Holding(b)'
    BY ZenonT(30) DEF WholeOK, Kept, KeptPlace
  <2>2. PICK b \in Nat : Divides(b) /\ Reading(b) /\ Holding(b)
    BY ZenonT(30), <1>1, <2>1 DEF WholeOK
  <2>3. obs'.lost = obs.lost
    BY DEF KeptPlace
  <2>4. Divides(b)' /\ Holding(b)'
    BY ZenonT(30), <1>2, <2>2, <2>3, SameParts
  <2>5. Reading(b)'
    BY ZenonT(30), <2>2 DEF Reading, KeptCount, KeptPlace
  <2> QED
    BY ZenonT(30), <2>4, <2>5
<1> QED
  BY ZenonT(30), <1>3, <1>4, <1>5, <1>6, <1>7, <1>8 DEF SInv

\* A turn of the watch leaves the stream and the attachment alone.
LEMMA StateChangedKeeps ==
  ASSUME SInv, StateChanged
  PROVE  SInv'
<1>1. obs \in Observers /\ EndOK /\ obs' = WatchTurn(obs) /\ alive \in BOOLEAN
  BY ZenonT(30) DEF SInv, SurfaceTyped, StateChanged
<1>2. SameBook /\ UNCHANGED <<owned, alive, published, outbox, sent>>
  BY ZenonT(30) DEF StateChanged, SameBook, hvars, vars, book
<1>3. CASE obs.fresh
  <2>1. obs' = [obs EXCEPT !.fresh = FALSE]
    BY ZenonT(30), <1>1, <1>3 DEF WatchTurn
  <2>2. /\ obs' \in Observers /\ Kept /\ KeptCount /\ KeptPlace
        /\ obs'.state_open = obs.state_open /\ obs'.fresh = FALSE
    BY ZenonT(30), <1>1, <2>1 DEF Observers, Kept, KeptCount, KeptPlace
  <2> QED
    BY ZenonT(30), <1>1, <1>2, <2>2, WatchKeeps DEF EndOK
<1>4. CASE ~obs.fresh /\ alive
  <2>1. obs' = obs
    BY ZenonT(30), <1>1, <1>4 DEF WatchTurn
  <2>2. obs' \in Observers /\ Kept /\ KeptCount /\ KeptPlace
    BY ZenonT(30), <1>1, <2>1 DEF Kept, KeptCount, KeptPlace
  <2> QED
    BY ZenonT(30), <1>1, <1>2, <2>1, <2>2, WatchKeeps DEF EndOK
<1>5. CASE ~obs.fresh /\ ~alive
  <2>1. obs' = [obs EXCEPT !.state_open = FALSE]
    BY ZenonT(30), <1>1, <1>5 DEF WatchTurn
  <2>2. obs' \in Observers /\ Kept /\ KeptCount /\ KeptPlace /\ obs'.fresh = obs.fresh
    BY ZenonT(30), <1>1, <2>1 DEF Observers, Kept, KeptCount, KeptPlace
  <2> QED
    BY ZenonT(30), <1>2, <1>5, <2>2, WatchKeeps
<1> QED
  BY ZenonT(30), <1>1, <1>3, <1>4, <1>5

\* A step of the receiver that hands nothing over.
LEMMA MoveKeeps ==
  ASSUME SInv, SameBook, UNCHANGED <<owned, alive, published, outbox, sent>>,
         obs.pc = "Attached", obs.lost = "None", ~obs.closed,
         obs' \in Observers, Kept, KeptCount, obs'.pc = obs.pc, ~obs'.closed,
         obs'.fresh = obs.fresh, obs'.state_open = obs.state_open,
         obs'.next \in 1..(Len(sent) + 1), obs'.pending > 0 => obs'.next <= Len(sent),
         obs'.lost = "RecoveryBase" => obs.boundary.epoch < continuity.epoch,
         \A b \in Nat : obs.whole /\ Divides(b) /\ Reading(b) => Reading(b)'
  PROVE  SInv'
<1>1. SurfaceTyped /\ StreamOK /\ AttachmentOK /\ EndOK /\ HandedGapFree /\ WholeOK
  BY DEF SInv
<1>2. Stream' = Stream
  BY DEF Stream
<1>3. StreamOK' /\ PublishedBook' = PublishedBook
  BY <1>1, <1>2, SameParts
<1>4. obs'.pc # "None" /\ obs.pc # "None"
  OBVIOUS
<1>5. SurfaceTyped'
  BY ZenonT(30), <1>1, <1>3, <1>4 DEF SurfaceTyped
<1>6. AttachmentOK'
  BY ZenonT(30), <1>1, <1>2, <1>4 DEF AttachmentOK, SameBook, Kept
<1>7. EndOK'
  BY ZenonT(30), <1>1 DEF EndOK
<1>8. HandedGapFree'
  BY ZenonT(30), <1>1 DEF HandedGapFree, Kept, KeptCount
<1>9. WholeOK'
  <2>1. SUFFICES ASSUME obs.whole
                 PROVE  \E b \in Nat : Divides(b)' /\ Reading(b)' /\ Holding(b)'
    BY ZenonT(30) DEF WholeOK, Kept
  <2>2. PICK b \in Nat : Divides(b) /\ Reading(b) /\ Holding(b)
    BY ZenonT(30), <1>1, <2>1 DEF WholeOK
  <2>3. Divides(b)' /\ Reading(b)'
    BY ZenonT(30), <1>2, <2>1, <2>2, SameParts
  <2>4. CASE obs'.lost = "None"
    BY ZenonT(30), <1>2, <2>2, <2>3, <2>4, SameParts
  <2>5. CASE obs'.lost # "None"
    BY ZenonT(30), <2>3, <2>5 DEF Holding
  <2> QED
    BY ZenonT(30), <2>4, <2>5
<1> QED
  BY ZenonT(30), <1>3, <1>5, <1>6, <1>7, <1>8, <1>9 DEF SInv

\* The oldest retained delivery of a ring that has overtaken a receiver is one that was sent.
LEMMA RetainedFacts ==
  ASSUME Len(sent) \in Nat, NEW n \in Nat, n < Retained, n >= 1, n <= Len(sent)
  PROVE  Retained \in 1..Len(sent) /\ Retained \in Nat
BY CapacityAssumption DEF Retained

\* The ring has overtaken the receiver: what it skipped is counted, not judged.
LEMMA OverranKeeps ==
  ASSUME SInv, SameBook, UNCHANGED <<owned, alive, published, outbox, sent>>,
         Receiving, obs.next <= Len(sent), obs.next < Retained, obs' = Overran(obs)
  PROVE  SInv'
<1> DEFINE p == obs.pending + (Retained - obs.next)
<1>1. /\ SurfaceTyped /\ obs \in Observers /\ obs.next \in 1..(Len(sent) + 1) /\ Len(sent) \in Nat
      /\ obs.pending \in Nat /\ obs.next \in Nat
  BY StreamFacts, Fields DEF SInv, SurfaceTyped
<1>2. Retained \in 1..Len(sent) /\ Retained \in Nat
  BY <1>1, RetainedFacts
<1>3. p \in Nat
  BY <1>1, <1>2
<1>4. obs' = [obs EXCEPT !.pending = p, !.next = Retained]
  BY ZenonT(30) DEF Overran
<1>5. obs.pc = "Attached" /\ obs.lost = "None" /\ ~obs.closed
  BY DEF Receiving
<1> HIDE DEF p
<1>6. /\ obs' \in Observers /\ obs'.next = Retained /\ obs'.pending = p /\ obs'.lost = obs.lost
      /\ Kept /\ KeptCount /\ obs'.pc = obs.pc /\ obs'.closed = obs.closed
      /\ obs'.fresh = obs.fresh /\ obs'.state_open = obs.state_open
  BY ZenonT(30), <1>1, <1>2, <1>3, <1>4 DEF Observers, Kept, KeptCount
<1>7. obs'.next \in 1..(Len(sent) + 1) /\ obs'.next <= Len(sent)
  BY <1>1, <1>2, <1>6
<1>8. ASSUME NEW b \in Nat, Reading(b)
      PROVE  Reading(b)'
  <2>1. obs.pending < obs.next /\ (\/ obs.taken = 0 /\ obs.next - obs.pending <= b + 1
                                   \/ obs.taken > 0 /\ obs.next - obs.pending = b + 1 + obs.taken)
    BY <1>5, <1>8 DEF Reading
  <2>2. p < Retained /\ Retained - p = obs.next - obs.pending
    BY <1>1, <1>2, <2>1 DEF p
  <2> QED
    BY <1>5, <1>6, <2>1, <2>2 DEF Reading, KeptCount
<1>9. obs'.lost # "RecoveryBase"
  BY <1>5, <1>6
<1> QED
  BY ZenonT(30), <1>5, <1>6, <1>7, <1>8, <1>9, MoveKeeps

\* What the receiver stands at, and the fields of the delivery it takes up.
LEMMA ReceivingFacts ==
  ASSUME SInv, Receiving, obs.next <= Len(sent)
  PROVE  /\ SurfaceTyped /\ obs \in Observers /\ obs.next \in 1..Len(sent) /\ Len(sent) \in Nat
         /\ obs.next \in Nat /\ obs.next + 1 \in Nat /\ obs.next + 1 \in 1..(Len(sent) + 1)
         /\ obs.pending \in Nat /\ obs.taken \in Nat /\ obs.taken + 1 \in Nat
         /\ obs.pc = "Attached" /\ obs.lost = "None" /\ ~obs.closed
         /\ sent[obs.next] \in Deliveries /\ sent[obs.next].cursor \in Places
         /\ obs.boundary.epoch \in Nat /\ obs.boundary.position \in Nat
<1>1. SurfaceTyped /\ obs \in Observers /\ obs.next \in 1..(Len(sent) + 1) /\ sent \in Seq(Deliveries)
  BY DEF SInv, SurfaceTyped
<1>2. obs.pc = "Attached" /\ obs.lost = "None" /\ ~obs.closed
  BY DEF Receiving
<1>3. /\ Len(sent) \in Nat /\ obs.pending \in Nat /\ obs.taken \in Nat /\ obs.next \in Nat
      /\ obs.boundary.epoch \in Nat /\ obs.boundary.position \in Nat
  BY <1>1, StreamFacts, Fields
<1>4. obs.next \in 1..Len(sent)
  BY <1>1, <1>3
<1>5. sent[obs.next] \in Deliveries
  BY <1>1, <1>4
<1>6. sent[obs.next].cursor \in Places
  BY <1>5 DEF Deliveries
<1> QED
  BY <1>1, <1>2, <1>3, <1>4, <1>5, <1>6

\* A delivery the attachment's state contains is passed over.
LEMMA PassKeeps ==
  ASSUME SInv, SameBook, UNCHANGED <<owned, alive, published, outbox, sent>>,
         Receiving, obs.next <= Len(sent), Redundant(obs, sent[obs.next]),
         obs' = [obs EXCEPT !.next = obs.next + 1, !.pending = 0]
  PROVE  SInv'
<1>1. /\ SurfaceTyped /\ obs \in Observers /\ obs.next \in 1..Len(sent) /\ Len(sent) \in Nat
      /\ obs.next \in Nat /\ obs.next + 1 \in Nat /\ obs.next + 1 \in 1..(Len(sent) + 1)
      /\ obs.pending \in Nat /\ obs.taken \in Nat
      /\ obs.pc = "Attached" /\ obs.lost = "None" /\ ~obs.closed /\ 0 \in Nat
  BY ReceivingFacts
<1>2. /\ obs' \in Observers /\ obs'.next = obs.next + 1 /\ obs'.pending = 0 /\ obs'.lost = obs.lost
      /\ Kept /\ KeptCount /\ obs'.pc = obs.pc /\ obs'.closed = obs.closed
      /\ obs'.fresh = obs.fresh /\ obs'.state_open = obs.state_open
  BY ZenonT(30), <1>1 DEF Observers, Kept, KeptCount
<1>3. ASSUME NEW b \in Nat, Divides(b), Reading(b)
      PROVE  Reading(b)'
  <2>1. obs.next <= b
    BY <1>1, <1>3, AtIndex
  <2>2. \/ obs.taken = 0 /\ obs.next - obs.pending <= b + 1
        \/ obs.taken > 0 /\ obs.next - obs.pending = b + 1 + obs.taken
    BY <1>1, <1>3 DEF Reading
  <2>3. obs.taken = 0 /\ (obs.next + 1) - 0 <= b + 1 /\ 0 < obs.next + 1
    BY <1>1, <2>1, <2>2
  <2> QED
    BY <1>1, <1>2, <2>3 DEF Reading, KeptCount
<1>4. obs'.lost # "RecoveryBase" /\ ~(obs'.pending > 0)
  BY <1>1, <1>2
<1> QED
  BY ZenonT(30), <1>1, <1>2, <1>3, <1>4, MoveKeeps

\* The two verdicts of a received delivery.
LEMMA FailKeeps ==
  ASSUME SInv, TypeOK, SameBook, UNCHANGED <<owned, alive, published, outbox, sent>>,
         Receiving, obs.next <= Len(sent), ~Redundant(obs, sent[obs.next]),
         NEW l \in {"Overrun", "RecoveryBase"},
         obs' = [obs EXCEPT !.next = obs.next + 1, !.lost = l, !.pending = 0],
         l = "RecoveryBase" => sent[obs.next].cursor.epoch # obs.boundary.epoch,
         l = "Overrun" => /\ sent[obs.next].cursor.epoch = obs.boundary.epoch /\ obs.pending > 0
                          /\ ~(sent[obs.next].cursor.position <= obs.boundary.position)
  PROVE  SInv'
<1> DEFINE d == sent[obs.next]
<1>1. /\ SurfaceTyped /\ obs \in Observers /\ obs.next \in 1..Len(sent) /\ Len(sent) \in Nat
      /\ obs.next \in Nat /\ obs.next + 1 \in Nat /\ obs.next + 1 \in 1..(Len(sent) + 1)
      /\ obs.pending \in Nat /\ obs.taken \in Nat /\ d \in Deliveries
      /\ obs.pc = "Attached" /\ obs.lost = "None" /\ ~obs.closed /\ 0 \in Nat
      /\ obs.boundary.epoch \in Nat /\ obs.boundary.position \in Nat
  BY ReceivingFacts
<1>2. l \in {"None", "Overrun", "RecoveryBase"}
  OBVIOUS
<1>3. /\ obs' \in Observers /\ obs'.next = obs.next + 1 /\ obs'.pending = 0 /\ obs'.lost = l
      /\ Kept /\ KeptCount /\ obs'.pc = obs.pc /\ obs'.closed = obs.closed
      /\ obs'.fresh = obs.fresh /\ obs'.state_open = obs.state_open
  BY ZenonT(30), <1>1, <1>2 DEF Observers, Kept, KeptCount
<1>4. ASSUME NEW b \in Nat, Divides(b), Reading(b)
      PROVE  Reading(b)'
  <2>0. /\ Redundant(obs, d) <=> obs.next <= b
        /\ obs.next > b /\ d.cursor.epoch = obs.boundary.epoch =>
             d.cursor.position = obs.boundary.position + (obs.next - b - 1)
    BY ZenonT(30), <1>1, <1>4, AtIndex
  <2>1. /\ obs.next > b
        /\ d.cursor.epoch = obs.boundary.epoch =>
             d.cursor.position = obs.boundary.position + (obs.next - b - 1)
    BY <1>1, <2>0
  <2>2. \/ obs.taken = 0 /\ obs.next - obs.pending <= b + 1
        \/ obs.taken > 0 /\ obs.next - obs.pending = b + 1 + obs.taken
    BY <1>1, <1>4 DEF Reading
  <2>3. l = "Overrun" => obs.taken < (obs.next + 1) - 2 - b
    <3>1. SUFFICES ASSUME l = "Overrun" PROVE obs.taken < (obs.next + 1) - 2 - b
      OBVIOUS
    <3>2. /\ d.cursor.position = obs.boundary.position + (obs.next - b - 1)
          /\ ~(d.cursor.position <= obs.boundary.position) /\ obs.pending > 0
      BY <2>1, <3>1
    <3>3. obs.next > b + 1
      BY <1>1, <3>2
    <3>4. \A p, q, m, n \in Nat :
            /\ (m = 0 /\ q - p <= n + 1) \/ (m > 0 /\ q - p = n + 1 + m)
            /\ p > 0 /\ q > n + 1
            => m < (q + 1) - 2 - n
      OBVIOUS
    <3> QED
      BY ZenonT(30), <1>1, <2>2, <3>2, <3>3, <3>4
  <2>4. 0 < obs.next + 1 /\ l # "None"
    BY <1>1
  <2> QED
    BY <1>3, <2>3, <2>4 DEF Reading, KeptCount
<1>5. l = "RecoveryBase" => obs.boundary.epoch < continuity.epoch
  <2>1. SUFFICES ASSUME d.cursor.epoch # obs.boundary.epoch PROVE obs.boundary.epoch < continuity.epoch
    BY ZenonT(30)
  <2>2. /\ obs.next \in 1..Len(Stream) /\ Stream[obs.next] = d
        /\ d.revision \in Nat /\ d.cursor.epoch \in Nat
    BY <1>1, StreamFacts
  <2>3. d.cursor.epoch <= continuity.epoch
    BY <2>2 DEF SInv, StreamOK
  <2>4. obs.boundary.epoch <= d.cursor.epoch
    <3>1. CASE d.kind = "Mutation"
      <4>1. obs.resume_after \in Nat /\ ~(d.revision <= obs.resume_after)
        BY <1>1, <3>1, Fields DEF Redundant
      <4>2. d.revision > obs.resume_after
        BY <2>2, <4>1
      <4> QED
        BY <1>1, <2>2, <3>1, <4>2 DEF SInv, AttachmentOK
    <3>2. CASE d.kind # "Mutation"
      <4>1. ~Before(d.cursor, obs.boundary)
        BY ZenonT(30), <3>2 DEF Redundant
      <4> QED
        BY <1>1, <2>2, <4>1 DEF Before
    <3> QED
      BY <3>1, <3>2
  <2>5. continuity.epoch \in Nat
    BY BookTypes
  <2> QED
    BY <1>1, <2>1, <2>2, <2>3, <2>4, <2>5
<1>6. obs'.next \in 1..(Len(sent) + 1) /\ ~(obs'.pending > 0)
  BY <1>1, <1>3
<1> QED
  BY ZenonT(30), <1>1, <1>3, <1>4, <1>5, <1>6, MoveKeeps

\* The levels of a consumer that applies a delivery.
Applied(h, d) == IF d.kind = "Mutation" THEN [h EXCEPT ![d.coord] = d.replacement] ELSE h

\* Applying a delivery sets the coordinate it names, and no other.
LEMMA AppliedFacts ==
  ASSUME NEW h \in PhysicalLevels, NEW d \in Deliveries
  PROVE  /\ Applied(h, d) \in PhysicalLevels
         /\ \A c \in Complementable :
              /\ Names(d, c) => Applied(h, d)[c] = d.replacement
              /\ ~Names(d, c) => Applied(h, d)[c] = h[c]
<1>1. CASE d.kind = "Mutation"
  <2>1. d.coord \in Complementable /\ d.replacement \in Held
    BY <1>1 DEF Deliveries
  <2>2. Applied(h, d) = [h EXCEPT ![d.coord] = d.replacement]
    BY <1>1 DEF Applied
  <2> QED
    BY <1>1, <2>1, <2>2 DEF PhysicalLevels, Names
<1>2. CASE d.kind # "Mutation"
  BY <1>2 DEF Applied, Names
<1> QED
  BY <1>1, <1>2

\* A delivery is handed over: it is the one after the last, from the boundary on.
LEMMA HandKeeps ==
  ASSUME SInv, SameBook, UNCHANGED <<owned, alive, published, outbox, sent>>,
         Receiving, obs.next <= Len(sent), ~Redundant(obs, sent[obs.next]),
         sent[obs.next].cursor.epoch = obs.boundary.epoch,
         obs.pending > 0 => sent[obs.next].cursor.position <= obs.boundary.position,
         obs' = [obs EXCEPT !.next = obs.next + 1, !.pending = 0, !.cursor = sent[obs.next].cursor,
                            !.taken = obs.taken + 1, !.held = Applied(obs.held, sent[obs.next])]
  PROVE  SInv'
<1> DEFINE d == sent[obs.next]
           t == obs.taken
           k == obs.next
<1>1. /\ SurfaceTyped /\ obs \in Observers /\ k \in 1..Len(sent) /\ Len(sent) \in Nat
      /\ k \in Nat /\ k + 1 \in Nat /\ k + 1 \in 1..(Len(sent) + 1)
      /\ obs.pending \in Nat /\ t \in Nat /\ t + 1 \in Nat /\ d \in Deliveries /\ d.cursor \in Places
      /\ obs.pc = "Attached" /\ obs.lost = "None" /\ ~obs.closed
      /\ obs.boundary.epoch \in Nat /\ obs.boundary.position \in Nat
  BY ReceivingFacts
<1>2. obs.held \in PhysicalLevels
  BY <1>1, Fields
<1>3. /\ obs' \in Observers /\ obs'.next = k + 1 /\ obs'.pending = 0 /\ obs'.cursor = d.cursor
      /\ obs'.taken = t + 1 /\ obs'.held = Applied(obs.held, d) /\ obs'.lost = obs.lost
      /\ Kept /\ obs'.pc = obs.pc /\ obs'.closed = obs.closed
      /\ obs'.fresh = obs.fresh /\ obs'.state_open = obs.state_open
  BY ZenonT(30), <1>1, <1>2, AppliedFacts, HandOnly
<1>4. StreamOK /\ AttachmentOK /\ EndOK /\ WholeOK
  BY DEF SInv
<1>5. Stream' = Stream
  BY DEF Stream
<1>6. StreamOK' /\ PublishedBook' = PublishedBook
  BY <1>4, <1>5, SameParts
<1>7. obs'.pc # "None" /\ obs.pc # "None" /\ ~(obs'.pending > 0)
  BY <1>1, <1>3
<1>8. obs'.next \in 1..(Len(sent') + 1)
  BY <1>1, <1>3
<1>9. SurfaceTyped'
  BY ZenonT(30), <1>1, <1>3, <1>6, <1>7, <1>8 DEF SurfaceTyped
<1>10. AttachmentOK'
  BY ZenonT(30), <1>3, <1>4, <1>5, <1>7 DEF AttachmentOK, SameBook, Kept
<1>11. EndOK'
  BY ZenonT(30), <1>1, <1>3, <1>4, <1>7 DEF EndOK
<1>12. ASSUME NEW b \in Nat, Divides(b), Reading(b)
       PROVE  k = b + 1 + t /\ d.cursor.position = obs.boundary.position + t
  <2>1. /\ Redundant(obs, d) <=> k <= b
        /\ k > b /\ d.cursor.epoch = obs.boundary.epoch =>
             d.cursor.position = obs.boundary.position + (k - b - 1)
    BY ZenonT(30), <1>1, <1>12, AtIndex
  <2>2. k > b /\ d.cursor.position = obs.boundary.position + (k - b - 1)
    BY <1>1, <2>1
  <2>3. \/ t = 0 /\ k - obs.pending <= b + 1
        \/ t > 0 /\ k - obs.pending = b + 1 + t
    BY <1>1, <1>12 DEF Reading
  <2>4. obs.pending > 0 => k <= b + 1
    <3>1. \A x, q, n \in Nat : x + (q - n - 1) <= x => q <= n + 1
      OBVIOUS
    <3> QED
      BY ZenonT(30), <1>1, <2>2, <3>1
  <2>5. k = b + 1 + t
    <3> DEFINE p == obs.pending
    <3>1. k \in Nat /\ t \in Nat /\ p \in Nat /\ k > b
      BY ZenonT(30), <1>1, <2>2
    <3>2. \/ t = 0 /\ k - p <= b + 1
          \/ t > 0 /\ k - p = b + 1 + t
      BY ZenonT(30), <2>3
    <3>3. p > 0 => k <= b + 1
      BY ZenonT(30), <2>4
    <3> HIDE DEF k, t, d, p
    <3> QED
      BY <3>1, <3>2, <3>3
  <2>6. k - b - 1 = t
    BY <1>1, <2>5
  <2> QED
    BY ZenonT(30), <2>2, <2>5, <2>6
<1>13. HandedGapFree'
  <2>1. SUFFICES ASSUME obs.whole
                 PROVE  d.cursor = Cursor(obs.boundary.epoch, obs.boundary.position + (t + 1) - 1)
    BY ZenonT(30), <1>3 DEF HandedGapFree, Kept
  <2>2. PICK b \in Nat : Divides(b) /\ Reading(b)
    BY ZenonT(30), <1>1, <1>4, <2>1 DEF WholeOK
  <2>3. d.cursor.position = obs.boundary.position + t
    BY <1>12, <2>2
  <2>4. obs.boundary.position + (t + 1) - 1 = obs.boundary.position + t
    BY <1>1
  <2>5. d.cursor = [epoch |-> d.cursor.epoch, position |-> d.cursor.position]
    BY <1>1 DEF Places
  <2> QED
    BY ZenonT(30), <2>3, <2>4, <2>5 DEF Cursor
<1>14. WholeOK'
  <2>1. SUFFICES ASSUME obs.whole
                 PROVE  \E b \in Nat : Divides(b)' /\ Reading(b)' /\ Holding(b)'
    BY ZenonT(30), <1>3 DEF WholeOK, Kept
  <2>2. PICK b \in Nat : Divides(b) /\ Reading(b) /\ Holding(b)
    BY ZenonT(30), <1>1, <1>4, <2>1 DEF WholeOK
  <2>3. k = b + 1 + t
    BY <1>12, <2>2
  <2>4. Divides(b)'
    BY ZenonT(30), <1>3, <1>5, <2>2, SameParts
  <2>5. Reading(b)'
    <3>1. 0 < k + 1 /\ t + 1 > 0 /\ (k + 1) - 0 = b + 1 + (t + 1)
      BY <1>1, <2>3
    <3> QED
      BY ZenonT(30), <1>1, <1>3, <3>1 DEF Reading
  <2>6. Holding(b)'
    <3>1. SUFFICES ASSUME obs.based, IsIntact(continuity), continuity.epoch = obs.boundary.epoch,
                          NEW c \in Complementable
                   PROVE  /\ (\A i \in (b + 1 + (t + 1))..Len(Stream) : ~Names(Stream[i], c)) =>
                                SameRest(Applied(obs.held, d)[c], levels[c])
                          /\ \A i \in (b + 1)..Len(Stream) :
                               Names(Stream[i], c) /\ (\A j \in (i + 1)..Len(Stream) : ~Names(Stream[j], c)) =>
                                 SameRest(Stream[i].replacement, levels[c])
      BY ZenonT(30), <1>3, <1>5 DEF Holding, SameBook, Kept
    <3>2. /\ (\A i \in (b + 1 + t)..Len(Stream) : ~Names(Stream[i], c)) => SameRest(obs.held[c], levels[c])
          /\ \A i \in (b + 1)..Len(Stream) :
               Names(Stream[i], c) /\ (\A j \in (i + 1)..Len(Stream) : ~Names(Stream[j], c)) =>
                 SameRest(Stream[i].replacement, levels[c])
      BY ZenonT(30), <1>1, <2>2, <3>1 DEF Holding
    <3>3. ASSUME \A i \in (b + 1 + (t + 1))..Len(Stream) : ~Names(Stream[i], c)
          PROVE  SameRest(Applied(obs.held, d)[c], levels[c])
      <4>1. Stream[k] = d /\ Len(Stream) \in Nat /\ k \in 1..Len(Stream)
        BY <1>1, StreamFacts
      <4>2. /\ Names(d, c) => Applied(obs.held, d)[c] = d.replacement
            /\ ~Names(d, c) => Applied(obs.held, d)[c] = obs.held[c]
        BY <1>1, <1>2, AppliedFacts
      <4>3. CASE Names(d, c)
        <5> DEFINE n == Len(Stream)
        <5> HIDE DEF n
        <5>1. \A q, m \in Nat : q = b + 1 + m /\ q \in 1..n /\ n \in Nat =>
                q \in (b + 1)..n /\ q + 1 = b + 1 + (m + 1)
          OBVIOUS
        <5>2. k \in (b + 1)..Len(Stream) /\ k + 1 = b + 1 + (t + 1)
          BY ZenonT(30), <1>1, <2>3, <4>1, <5>1 DEF n
        <5> QED
          BY ZenonT(30), <3>2, <3>3, <4>1, <4>2, <4>3, <5>2
      <4>4. CASE ~Names(d, c)
        <5>1. \A i \in (b + 1 + t)..Len(Stream) : i = k \/ i \in (b + 1 + (t + 1))..Len(Stream)
          BY <1>1, <2>3, <4>1
        <5> QED
          BY ZenonT(30), <3>2, <3>3, <4>1, <4>2, <4>4, <5>1
      <4> QED
        BY <4>3, <4>4
    <3> QED
      BY ZenonT(30), <3>2, <3>3
  <2> QED
    BY ZenonT(30), <2>4, <2>5, <2>6
<1> QED
  BY ZenonT(30), <1>6, <1>9, <1>10, <1>11, <1>13, <1>14 DEF SInv

\* A step outside the calls leaves the book alone.
LEMMA SameBookSteps ==
  ASSUME UNCHANGED hvars
  PROVE  SameBook
BY ZenonT(30) DEF SameBook, hvars, vars, book

\* What a received delivery makes of the observer: one of four.
LEMMA AdmitCases ==
  ASSUME obs \in Observers, obs.next \in Nat, NEW d, obs' = Admit([obs EXCEPT !.next = @ + 1], d)
  PROVE  \/ Redundant(obs, d) /\ obs' = [obs EXCEPT !.next = obs.next + 1, !.pending = 0]
         \/ /\ ~Redundant(obs, d) /\ d.cursor.epoch # obs.boundary.epoch
            /\ obs' = [obs EXCEPT !.next = obs.next + 1, !.lost = "RecoveryBase", !.pending = 0]
         \/ /\ ~Redundant(obs, d) /\ d.cursor.epoch = obs.boundary.epoch
            /\ obs.pending > 0 /\ ~(d.cursor.position <= obs.boundary.position)
            /\ obs' = [obs EXCEPT !.next = obs.next + 1, !.lost = "Overrun", !.pending = 0]
         \/ /\ ~Redundant(obs, d) /\ d.cursor.epoch = obs.boundary.epoch
            /\ obs.pending > 0 => d.cursor.position <= obs.boundary.position
            /\ obs' = [obs EXCEPT !.next = obs.next + 1, !.pending = 0, !.cursor = d.cursor,
                                  !.taken = obs.taken + 1, !.held = Applied(obs.held, d)]
<1> DEFINE o == [obs EXCEPT !.next = obs.next + 1]
<1>1. obs' = Admit(o, d)
  BY ZenonT(30) DEF Observers
<1>2. /\ o.resume_after = obs.resume_after /\ o.boundary = obs.boundary /\ o.pending = obs.pending
      /\ o.taken = obs.taken /\ o.held = obs.held
  BY ZenonT(30) DEF Observers
<1>3. Redundant(o, d) <=> Redundant(obs, d)
  BY ZenonT(30), <1>2 DEF Redundant
<1>4. [o EXCEPT !.pending = 0] = [obs EXCEPT !.next = obs.next + 1, !.pending = 0]
  BY ZenonT(30)
<1>5. \A r : Fail(o, r) = [obs EXCEPT !.next = obs.next + 1, !.lost = r, !.pending = 0]
  BY ZenonT(30) DEF Fail
<1>6. Handed(o, d) = [obs EXCEPT !.next = obs.next + 1, !.pending = 0, !.cursor = d.cursor,
                                 !.taken = obs.taken + 1, !.held = Applied(obs.held, d)]
  BY <1>2 DEF Handed, Applied, Observers
<1>7. /\ ClassifyOverrun(o.boundary, d.cursor) = "Lost" /\ d.cursor.epoch = obs.boundary.epoch =>
           ~(d.cursor.position <= obs.boundary.position)
      /\ ClassifyOverrun(o.boundary, d.cursor) # "Lost" => d.cursor.position <= obs.boundary.position
  BY <1>2 DEF ClassifyOverrun
<1> HIDE DEF o
<1> QED
  BY ZenonT(30), <1>1, <1>2, <1>3, <1>4, <1>5, <1>6, <1>7 DEF Admit

\* One turn of the receiving loop.
LEMMA RecvKeeps ==
  ASSUME SInv, TypeOK, Recv
  PROVE  SInv'
<1> DEFINE d == sent[obs.next]
<1>1. /\ Receiving /\ obs.next <= Len(sent) /\ SameBook
      /\ UNCHANGED <<owned, alive, published, outbox, sent>>
  BY ZenonT(30), SameBookSteps DEF Recv
<1>2. obs \in Observers /\ obs.next \in Nat
  BY <1>1, ReceivingFacts
<1>3. CASE obs.next < Retained
  BY ZenonT(30), <1>1, <1>3, OverranKeeps DEF Recv
<1>4. CASE ~(obs.next < Retained)
  <2>1. obs' = Admit([obs EXCEPT !.next = @ + 1], d)
    BY ZenonT(30), <1>4 DEF Recv
  <2> HIDE DEF d
  <2>2. \/ Redundant(obs, d) /\ obs' = [obs EXCEPT !.next = obs.next + 1, !.pending = 0]
        \/ /\ ~Redundant(obs, d) /\ d.cursor.epoch # obs.boundary.epoch
           /\ obs' = [obs EXCEPT !.next = obs.next + 1, !.lost = "RecoveryBase", !.pending = 0]
        \/ /\ ~Redundant(obs, d) /\ d.cursor.epoch = obs.boundary.epoch
           /\ obs.pending > 0 /\ ~(d.cursor.position <= obs.boundary.position)
           /\ obs' = [obs EXCEPT !.next = obs.next + 1, !.lost = "Overrun", !.pending = 0]
        \/ /\ ~Redundant(obs, d) /\ d.cursor.epoch = obs.boundary.epoch
           /\ obs.pending > 0 => d.cursor.position <= obs.boundary.position
           /\ obs' = [obs EXCEPT !.next = obs.next + 1, !.pending = 0, !.cursor = d.cursor,
                                 !.taken = obs.taken + 1, !.held = Applied(obs.held, d)]
    BY ZenonT(30), <1>2, <2>1, AdmitCases
  <2>3. CASE Redundant(obs, d) /\ obs' = [obs EXCEPT !.next = obs.next + 1, !.pending = 0]
    BY ZenonT(30), <1>1, <2>3, PassKeeps DEF d
  <2>4. CASE /\ ~Redundant(obs, d) /\ d.cursor.epoch # obs.boundary.epoch
             /\ obs' = [obs EXCEPT !.next = obs.next + 1, !.lost = "RecoveryBase", !.pending = 0]
    BY ZenonT(30), <1>1, <2>4, FailKeeps DEF d
  <2>5. CASE /\ ~Redundant(obs, d) /\ d.cursor.epoch = obs.boundary.epoch
             /\ obs.pending > 0 /\ ~(d.cursor.position <= obs.boundary.position)
             /\ obs' = [obs EXCEPT !.next = obs.next + 1, !.lost = "Overrun", !.pending = 0]
    BY ZenonT(30), <1>1, <2>5, FailKeeps DEF d
  <2>6. CASE /\ ~Redundant(obs, d) /\ d.cursor.epoch = obs.boundary.epoch
             /\ obs.pending > 0 => d.cursor.position <= obs.boundary.position
             /\ obs' = [obs EXCEPT !.next = obs.next + 1, !.pending = 0, !.cursor = d.cursor,
                                   !.taken = obs.taken + 1, !.held = Applied(obs.held, d)]
    BY ZenonT(30), <1>1, <2>6, HandKeeps DEF d
  <2> QED
    BY ZenonT(30), <2>2, <2>3, <2>4, <2>5, <2>6
<1> QED
  BY ZenonT(30), <1>3, <1>4

\* Only the end is noted: an overrun still to judge would have left something to receive.
LEMMA RecvClosedKeeps ==
  ASSUME SInv, RecvClosed
  PROVE  SInv'
<1>1. /\ Receiving /\ obs.next > Len(sent) /\ ~alive /\ SameBook
      /\ UNCHANGED <<owned, alive, published, outbox, sent>>
  BY ZenonT(30), SameBookSteps DEF RecvClosed
<1>2. SurfaceTyped /\ StreamOK /\ AttachmentOK /\ EndOK /\ HandedGapFree /\ WholeOK
  BY DEF SInv
<1>3. /\ obs \in Observers /\ Len(sent) \in Nat /\ obs.next \in 1..(Len(sent) + 1)
      /\ obs.pc = "Attached" /\ obs.lost = "None" /\ ~obs.closed
  BY <1>1, <1>2 DEF SurfaceTyped, Receiving
<1>4. obs.next \in Nat /\ obs.pending \in Nat /\ obs.taken \in Nat
  BY <1>3, Fields
<1>5. obs.next = Len(sent) + 1
  BY <1>1, <1>3
<1>6. obs.pending = 0
  <2>1. obs.pending > 0 => obs.next <= Len(sent)
    BY <1>2, <1>3 DEF EndOK
  <2> QED
    BY <1>1, <1>3, <1>4, <2>1
<1>7. ~(obs.pending > 0)
  BY <1>6
<1>8. obs' = [obs EXCEPT !.closed = TRUE]
  BY ZenonT(30), <1>7 DEF RecvClosed
<1> DEFINE yes == TRUE
<1>9. yes \in BOOLEAN /\ obs' = [obs EXCEPT !.closed = yes]
  BY <1>8
<1> HIDE DEF yes
<1>10. /\ obs' \in Observers /\ Kept /\ KeptCount /\ obs'.pc = obs.pc /\ obs'.next = obs.next
       /\ obs'.pending = obs.pending /\ obs'.lost = obs.lost /\ obs'.closed = yes
       /\ obs'.fresh = obs.fresh /\ obs'.state_open = obs.state_open
  BY ZenonT(30), <1>3, <1>9 DEF Observers, Kept, KeptCount
<1>11. Stream' = Stream
  BY ZenonT(30), <1>1 DEF Stream
<1>12. /\ StreamOK' /\ PublishedBook' = PublishedBook
       /\ \A b : Divides(b) => Divides(b)'
       /\ \A b : Holding(b) => Holding(b)'
  BY ZenonT(30), <1>1, <1>2, <1>10, <1>11, SameParts
<1>13. obs'.pc # "None" /\ obs.pc # "None"
  BY <1>3, <1>10
<1>14. SurfaceTyped'
  BY ZenonT(30), <1>1, <1>2, <1>10, <1>12, <1>13 DEF SurfaceTyped
<1>15. AttachmentOK'
  BY ZenonT(30), <1>1, <1>2, <1>10, <1>11 DEF AttachmentOK, SameBook, Kept
<1>16. EndOK'
  BY ZenonT(30), <1>1, <1>2, <1>3, <1>5, <1>6, <1>10 DEF EndOK
<1>17. HandedGapFree'
  BY ZenonT(30), <1>2, <1>10 DEF HandedGapFree, Kept, KeptCount
<1>18. \A b : Reading(b) => Reading(b)'
  BY ZenonT(30), <1>10 DEF Reading, KeptCount
<1>19. WholeOK'
  BY ZenonT(30), <1>2, <1>10, <1>12, <1>18 DEF WholeOK, Kept
<1> QED
  BY ZenonT(30), <1>12, <1>14, <1>15, <1>16, <1>17, <1>19 DEF SInv

\* The two attachments.
LEMMA AttachStep ==
  ASSUME SInv, TypeOK, Attach \/ Reattach
  PROVE  SInv'
<1>1. SurfaceTyped /\ EndOK
  BY DEF SInv
<1>2. obs \in Observers /\ Len(sent) \in Nat /\ obs.next \in 1..(Len(sent) + 1)
  BY <1>1 DEF SurfaceTyped
<1>3. CASE Attach
  <2>1. Len(sent) + 1 \in 1..(Len(sent) + 1)
    BY <1>2
  <2>2. owned /\ ~obs.closed
    BY ZenonT(30), <1>1, <1>3 DEF Attach, SurfaceTyped, EndOK
  <2>3. SameBook /\ obs' = AttachedAt(obs, Len(sent) + 1)
        /\ UNCHANGED <<owned, alive, published, outbox, sent>>
    BY ZenonT(30), <1>3, SameBookSteps DEF Attach
  <2> QED
    BY ZenonT(30), <2>1, <2>2, <2>3, AttachKeeps
<1>4. CASE Reattach
  <2>1. obs.pc = "Resubscribed" /\ SameBook /\ obs' = AttachedAt(obs, obs.next)
        /\ UNCHANGED <<owned, alive, published, outbox, sent>>
    BY ZenonT(30), <1>4, SameBookSteps DEF Reattach
  <2>2. owned
    BY <1>1, <2>1 DEF SurfaceTyped
  <2>3. obs.closed => obs.next = Len(sent) + 1
    BY ZenonT(30), <1>1 DEF EndOK
  <2> QED
    BY ZenonT(30), <1>2, <2>1, <2>2, <2>3, AttachKeeps
<1> QED
  BY <1>3, <1>4

\* A call on the book, owned or not.
LEMMA CallKeeps ==
  ASSUME SInv, TypeOK, Next, Called
  PROVE  SInv'
<1>1. SurfaceTyped
  BY DEF SInv
<1>2. obs \in Observers /\ owned \in BOOLEAN
  BY ZenonT(30), <1>1 DEF SurfaceTyped
<1>3. /\ alive = owned /\ outbox = <<>> /\ UNCHANGED <<owned, alive>> /\ sent' = sent
      /\ owned => Publishes(reply')
      /\ outbox' = IF owned THEN DeliveriesOf(reply') ELSE <<>>
      /\ published' = IF owned /\ Publishes(reply') THEN PublishedBook' ELSE published
      /\ obs' = [obs EXCEPT !.fresh = @ \/ (owned /\ Publishes(reply'))]
  BY ZenonT(30) DEF Called, PublishThenSend
<1>4. PICK f \in BOOLEAN : f = (obs.fresh \/ (owned /\ Publishes(reply')))
  BY ZenonT(30)
<1>5. obs' = [obs EXCEPT !.fresh = f]
  BY ZenonT(30), <1>3, <1>4
<1>6. /\ obs' \in Observers /\ Kept /\ KeptCount /\ KeptPlace /\ obs'.fresh = f
      /\ obs'.state_open = obs.state_open
  BY ZenonT(30), <1>2, <1>5 DEF Observers, Kept, KeptCount, KeptPlace
<1>7. CASE owned
  <2>1. Appends(DeliveriesOf(reply'))
    BY ZenonT(30), <1>3, <1>7, CallAppends
  <2>2. outbox' = DeliveriesOf(reply') /\ published' = PublishedBook' /\ alive
    BY ZenonT(30), <1>3, <1>7
  <2> QED
    BY ZenonT(30), <1>3, <1>6, <1>7, <2>1, <2>2, OwnedCall
<1>8. CASE ~owned
  <2>1. obs.fresh \in BOOLEAN
    BY ZenonT(30), <1>2 DEF Observers
  <2>2. obs'.fresh = obs.fresh
    BY ZenonT(30), <1>4, <1>6, <1>8, <2>1
  <2> QED
    BY ZenonT(30), <1>3, <1>6, <1>8, <2>2, UnownedStep
<1> QED
  BY <1>7, <1>8

-----------------------------------------------------------------------------
(* The invariant                                                           *)

\* The steps between two calls.
Between == \/ Send \/ DropWriter \/ Attach \/ Resubscribe \/ Reattach
           \/ Recv \/ RecvClosed \/ StateChanged \/ UNCHANGED ovars

\* A step of the surface is a call of the book, or leaves the book alone.
LEMMA BookSteps ==
  ASSUME [ONext]_ovars
  PROVE  (HNext /\ Called) \/ (Between /\ UNCHANGED hvars)
<1>1. ASSUME NEW cand \in Offered
      PROVE  cand \in Candidates
  BY ZenonT(30), <1>1, ObservedAssumption DEF Offered
<1>2. Next /\ Called => HNext
  BY ZenonT(30) DEF HNext, Called
<1>3. CASE WriterApplySnapshot
  <2>1. PICK cand \in Offered : ApplySnapshot(cand) /\ Called
    BY ZenonT(30), <1>3 DEF WriterApplySnapshot
  <2>2. Next
    BY ZenonT(30), <1>1, <2>1 DEF Next
  <2> QED
    BY ZenonT(30), <1>2, <2>1, <2>2
<1>4. CASE WriterApplySourceDelta
  <2>1. PICK cand \in Offered : ApplySourceDelta(cand) /\ Called
    BY ZenonT(30), <1>4 DEF WriterApplySourceDelta
  <2>2. Next
    BY ZenonT(30), <1>1, <2>1 DEF Next
  <2> QED
    BY ZenonT(30), <1>2, <2>1, <2>2
<1>5. CASE PublishResolution \/ WriterUnsubscribe \/ WriterReportContinuityLoss
  <2>1. Next /\ Called
    BY ZenonT(30), <1>5 DEF Next, PublishResolution, WriterUnsubscribe, WriterReportContinuityLoss
  <2> QED
    BY ZenonT(30), <1>2, <2>1
<1>6. CASE Send \/ DropWriter \/ Attach \/ Resubscribe \/ Reattach
  BY ZenonT(30), <1>6 DEF Between, Send, DropWriter, Attach, Resubscribe, Reattach
<1>7. CASE Recv \/ RecvClosed \/ StateChanged
  BY ZenonT(30), <1>7 DEF Between, Recv, RecvClosed, StateChanged
<1>8. CASE Done \/ UNCHANGED ovars
  BY ZenonT(30), <1>8 DEF Between, Done, ovars
<1> QED
  BY ZenonT(30), <1>3, <1>4, <1>5, <1>6, <1>7, <1>8 DEF ONext

\* Nothing happens.
LEMMA StutterKeeps ==
  ASSUME SInv, UNCHANGED ovars
  PROVE  SInv'
<1>1. SameBook /\ UNCHANGED <<owned, alive, published, outbox, sent, obs>>
  BY ZenonT(30), SameBookSteps DEF ovars, surface
<1>2. /\ SurfaceTyped /\ StreamOK /\ AttachmentOK /\ EndOK /\ HandedGapFree /\ WholeOK
      /\ Stream' = Stream /\ Kept /\ KeptCount
  BY ZenonT(30), <1>1 DEF SInv, Stream, Kept, KeptCount
<1>3. /\ StreamOK' /\ PublishedBook' = PublishedBook
      /\ \A b : Divides(b) => Divides(b)'
      /\ \A b : Holding(b) => Holding(b)'
  BY ZenonT(30), <1>1, <1>2, SameParts
<1>4. SurfaceTyped'
  BY ZenonT(30), <1>1, <1>2, <1>3 DEF SurfaceTyped
<1>5. AttachmentOK' /\ EndOK' /\ HandedGapFree'
  BY ZenonT(30), <1>1, <1>2 DEF AttachmentOK, EndOK, HandedGapFree, SameBook
<1>6. \A b : Reading(b) => Reading(b)'
  BY ZenonT(30), <1>1 DEF Reading
<1>7. WholeOK'
  BY ZenonT(30), <1>1, <1>2, <1>3, <1>6 DEF WholeOK
<1> QED
  BY ZenonT(30), <1>3, <1>4, <1>5, <1>7 DEF SInv

\* The invariant holds of a new book without an observer.
LEMMA InitSInv ==
  ASSUME OInit
  PROVE  SInv
<1>1. /\ levels \in PhysicalLevels /\ continuity = Intact(0, 0) /\ revision = 0 /\ provenance = FALSE
  BY DEF OInit, HInit, Init, PhysicalLevels, Held
<1>2. /\ owned \in BOOLEAN /\ alive = owned /\ published = PublishedBook /\ outbox = <<>>
      /\ sent = <<>> /\ obs = NoObserver
  BY ZenonT(30) DEF OInit
<1> DEFINE yes == TRUE
           no == FALSE
<1>3. yes \in BOOLEAN /\ no \in BOOLEAN
  OBVIOUS
<1>4. obs = [pc |-> "None", next |-> 1, fresh |-> no, resume_after |-> 0, boundary |-> Cursor(0, 0),
             cursor |-> Cursor(0, 0), pending |-> 0, lost |-> "None", state_open |-> yes,
             closed |-> no, held |-> levels, from |-> 1, taken |-> 0, whole |-> yes, based |-> no]
  BY ZenonT(30), <1>2 DEF NoObserver
<1>5. ~no /\ yes
  OBVIOUS
<1> HIDE DEF yes, no
<1>6. Cursor(0, 0) \in Places
  BY DEF Cursor, Places
<1>7. obs \in Observers
  BY <1>1, <1>3, <1>4, <1>6 DEF Observers
<1>8. /\ obs.pc = "None" /\ obs.next = 1 /\ obs.pending = 0 /\ obs.taken = 0 /\ obs.from = 1
      /\ obs.lost = "None" /\ obs.closed = no /\ obs.state_open = yes
  BY ZenonT(30), <1>4
<1>9. Len(sent) = 0 /\ Len(Stream) = 0 /\ outbox \in Seq(Deliveries) /\ sent \in Seq(Deliveries)
  BY <1>2 DEF Stream
<1>10. obs.next \in 1..(Len(sent) + 1)
  BY <1>8, <1>9
<1>11. SurfaceTyped
  BY ZenonT(30), <1>2, <1>5, <1>7, <1>8, <1>9, <1>10 DEF SurfaceTyped
<1>12. StreamOK
  BY <1>9 DEF StreamOK
<1>13. AttachmentOK /\ WholeOK
  BY <1>8 DEF AttachmentOK, WholeOK
<1>14. EndOK
  BY <1>5, <1>8 DEF EndOK
<1>15. HandedGapFree
  BY <1>8 DEF HandedGapFree
<1> QED
  BY ZenonT(30), <1>11, <1>12, <1>13, <1>14, <1>15 DEF SInv

\* Every step of the writer and of the observer preserves the invariant.
LEMMA NextSInv ==
  ASSUME SInv, TypeOK, [ONext]_ovars
  PROVE  SInv'
<1>1. CASE HNext /\ Called
  BY ZenonT(30), <1>1, CallKeeps DEF HNext
<1>2. CASE Between
  <2>1. CASE Send \/ DropWriter \/ Resubscribe \/ StateChanged
    BY ZenonT(30), <2>1, SendKeeps, DropKeeps, ResubscribeKeeps, StateChangedKeeps
  <2>2. CASE Attach \/ Reattach \/ Recv \/ RecvClosed
    BY ZenonT(30), <2>2, AttachStep, RecvKeeps, RecvClosedKeeps
  <2> QED
    BY ZenonT(30), <1>2, <2>1, <2>2, StutterKeeps DEF Between
<1> QED
  BY ZenonT(30), <1>1, <1>2, BookSteps

-----------------------------------------------------------------------------
(* The theorems                                                            *)

\* Under a writer and its observer the book is still the book: every step of the surface is a
\* call of OrderBook with what it returned, or leaves the book alone.
THEOREM SurfaceKeepsBook == OSpec => HSpec
<1>1. OInit => HInit
  BY DEF OInit
<1>2. [ONext]_ovars => [HNext]_hvars
  BY BookSteps
<1>. QED  BY <1>1, <1>2, PTL DEF OSpec, HSpec

\* The inductive invariant of the surface.
THEOREM SurfaceInvariance == OSpec => [](TypeOK /\ SInv)
<1>1. OInit => SInv
  BY InitSInv
<1>2. TypeOK /\ SInv /\ [ONext]_ovars => SInv'
  BY NextSInv
<1>. QED  BY <1>1, <1>2, SurfaceKeepsBook, TypeCorrect, PTL DEF OSpec

\* What a consumer is given is the book, for every ring capacity and every interleaving of the
\* writer's sends with attachments and receives.
THEOREM DeliveryExact == OSpec => []DeliveryIsExact
<1>1. SInv => HandedGapFree /\ ClosedAfterLastState
  BY ZenonT(30) DEF SInv, EndOK, ClosedAfterLastState
<1>2. TypeOK /\ SInv => DeliveryIsExact
  BY ZenonT(30), <1>1, StateLeads, DrainedHolds DEF DeliveryIsExact
<1>. QED  BY <1>2, SurfaceInvariance, PTL

\* A consumer is told of a loss if, and only if, it has one.
THEOREM LossExact == OSpec => []LossIsExact
<1>1. SInv => LossIsExact
  BY ZenonT(30), NoneSkipped, VerdictsHold DEF LossIsExact
<1>. QED  BY <1>1, SurfaceInvariance, PTL

=============================================================================

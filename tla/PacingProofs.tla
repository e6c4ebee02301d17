---------------------------- MODULE PacingProofs -----------------------------
(***************************************************************************)
(* Proofs about Pacing for every set of rails, every endpoint and floor of *)
(* theirs, and every bound: the rolling attempt budget holds, every place  *)
(* in an endpoint's command queue stands its caller's floor behind the one *)
(* before, and a re-emit is never escalated while it stands in the queue.  *)
(*                                                                         *)
(* The ledger forgets only what has left the day, so an attempt that       *)
(* stands Budget places back is forgotten when one more is admitted.  An   *)
(* endpoint never changes its pacer slot: its own is kept once taken, and  *)
(* the table that sent it to the overflow slot never has room again.       *)
(***************************************************************************)
EXTENDS Pacing, FiniteSetTheorems, WellFoundedInduction, TLAPS

(* The provers are given more than their default time: the contexts of the  *)
(* leaves below are long.                                                   *)
USE SMTT(20), SMTT(40)

Grant == [endpoint : Endpoints, at : Nat, floor : Nat]

HistoryOK ==
  /\ clock \in Nat
  /\ attempts \in Seq(Nat) /\ spent \in SUBSET (1..Len(attempts))
  /\ grants \in Seq(Grant)

\* Attempts in the order of the clock; what the ledger forgot is a day old.
LedgerInv ==
  /\ \A i \in 1..Len(attempts) : attempts[i] <= clock
  /\ \A i, j \in 1..Len(attempts) : i <= j => attempts[i] <= attempts[j]
  /\ \A i \in 1..Len(attempts) : i \notin spent => attempts[i] + Day <= clock
  /\ \A i \in 1..Len(attempts) :
       i + Budget <= Len(attempts) => attempts[i + Budget] >= attempts[i] + Day

PacersOK ==
  /\ IsFiniteSet(DOMAIN pacers)
  /\ pacers = [s \in DOMAIN pacers |-> pacers[s]]
  /\ \A s \in DOMAIN pacers : pacers[s] \in Nat

\* The slot an endpoint would use now is the one its grants came from.
SlotsHold ==
  \A i \in 1..Len(grants) :
    /\ pacer_slot(grants[i].endpoint) \in DOMAIN pacers
    /\ grants[i].at <= pacers[pacer_slot(grants[i].endpoint)]

Spaced ==
  \A i, j \in 1..Len(grants) :
    i < j /\ grants[i].endpoint = grants[j].endpoint
      => grants[j].at >= grants[i].at + grants[j].floor

Phases == {"idle", "dialling", "queued", "up", "requested", "awaiting", "unreachable"}

Resting == [at : Phases \ {"requested"}, until : Nat, grant : Nat]

RailsOK ==
  /\ rail \in [Rails -> [at : Phases, until : Nat, grant : Nat]]
  /\ \A r \in Rails : rail[r].at = "requested" =>
       /\ rail[r].grant \in 1..Len(grants)
       /\ rail[r].until = grants[rail[r].grant].at + Window

\* Places already handed out are not taken back.
GrantsStay ==
  /\ Len(grants) \in Nat /\ Len(grants)' \in Nat /\ Len(grants) <= Len(grants)'
  /\ \A i \in 1..Len(grants) : grants'[i] = grants[i]

PacingInv == HistoryOK /\ LedgerInv /\ PacersOK /\ SlotsHold /\ Spaced /\ RailsOK

-----------------------------------------------------------------------------

\* Every non-empty set of naturals has a least element.
LEMMA LeastNatural ==
  ASSUME NEW T \in SUBSET Nat, T # {}
  PROVE  \E x \in T : \A y \in T : x <= y
<1> DEFINE R == OpToRel(<, Nat)
<1>1. IsWellFoundedOn(R, Nat)
  BY Zenon, NatLessThanWellFounded
<1>2. \A a, b \in Nat : a < b => <<a, b>> \in R
  BY DEF OpToRel
<1> HIDE DEF R
<1>3. PICK x \in T : \A y \in T : ~(<<y, x>> \in R)
  BY Zenon, <1>1, WFMin
<1>4. ASSUME NEW y \in T PROVE x <= y
  <2>1. x \in Nat /\ y \in Nat
    OBVIOUS
  <2>2. ~(y < x)
    BY Zenon, <1>2, <1>3, <2>1
  <2> QED
    BY <2>1, <2>2
<1> QED
  BY <1>4

LEMMA InitPacing == PacingInit => PacingInv
<1> SUFFICES ASSUME PacingInit PROVE PacingInv
  OBVIOUS
<1> USE PacingAssumption DEF PacingInit, Idle, NoGrant, Phases
<1>1. HistoryOK
  BY DEF HistoryOK
<1>2. LedgerInv
  BY DEF LedgerInv
<1>3. PacersOK
  BY FS_EmptySet DEF PacersOK
<1>4. SlotsHold /\ Spaced
  BY DEF SlotsHold, Spaced
<1>5. RailsOK
  <2>1. \A r \in Rails : rail[r] = [at |-> "idle", until |-> 0, grant |-> 0]
    OBVIOUS
  <2>2. rail \in [Rails -> [at : Phases, until : Nat, grant : Nat]]
    <3>1. [at |-> "idle", until |-> 0, grant |-> 0] \in [at : Phases, until : Nat, grant : Nat]
      OBVIOUS
    <3> QED
      BY <3>1
  <2> QED
    BY <2>1, <2>2 DEF RailsOK
<1> QED
  BY <1>1, <1>2, <1>3, <1>4, <1>5 DEF PacingInv

\* A step that leaves the ledger alone, and does not turn the clock back, keeps what it says.
LEMMA LedgerKept ==
  ASSUME HistoryOK, LedgerInv, clock' \in Nat, clock <= clock', UNCHANGED <<spent, attempts>>
  PROVE  LedgerInv'
BY PacingAssumption DEF HistoryOK, LedgerInv

\* A step that leaves the command queue alone.
LEMMA QueueKept ==
  ASSUME PacersOK, SlotsHold, Spaced, UNCHANGED <<pacers, grants>>
  PROVE  PacersOK' /\ SlotsHold' /\ Spaced'
BY DEF PacersOK, SlotsHold, Spaced, pacer_slot

\* The ledger's decision: entries leave only when they are a day old, and when there is room for
\* one more the attempt Budget places back has left.
LEMMA AdmitKeeps ==
  ASSUME HistoryOK, LedgerInv, NEW r \in Rails, admit(r), UNCHANGED <<clock, grants>>
  PROVE  HistoryOK' /\ LedgerInv'
<1> USE PacingAssumption
<1> DEFINE n == Len(attempts)
<1>1. Recent(clock) \in SUBSET (1..n)
  BY Zenon DEF Recent, HistoryOK
<1>0. IsFiniteSet(Recent(clock)) /\ Cardinality(Recent(clock)) \in Nat
  <2>1. n \in Nat
    BY DEF HistoryOK
  <2>2. IsFiniteSet(1..n)
    BY <2>1, FS_Interval
  <2> HIDE DEF n
  <2>3. IsFiniteSet(Recent(clock))
    BY Zenon, <1>1, <2>2, FS_Subset
  <2> QED
    BY <2>3, FS_CardinalityType
<1>a. clock \in Nat /\ clock' = clock /\ \A i \in 1..n : attempts[i] \in Nat
  BY DEF HistoryOK
<1>2. \A i \in 1..n : i \notin Recent(clock) => attempts[i] + Day <= clock
  BY DEF Recent, HistoryOK, LedgerInv
<1>3. CASE UNCHANGED attempts /\ spent' = Recent(clock)
  BY <1>1, <1>2, <1>3 DEF HistoryOK, LedgerInv
<1>4. CASE /\ Cardinality(Recent(clock)) < Budget
           /\ spent' = Recent(clock) \cup {n + 1} /\ attempts' = Append(attempts, clock)
  <2>1. n \in Nat /\ Len(attempts') = n + 1 /\ attempts' \in Seq(Nat)
    BY <1>4 DEF HistoryOK
  <2>2. attempts'[n + 1] = clock /\ \A i \in 1..n : attempts'[i] = attempts[i]
    BY <1>4 DEF HistoryOK
  <2>3. HistoryOK'
    BY <1>1, <1>4, <2>1 DEF HistoryOK
  <2>4. ASSUME NEW i \in 1..n, i + Budget = n + 1
        PROVE  clock >= attempts[i] + Day
    <3>1. SUFFICES ASSUME attempts[i] + Day > clock
                   PROVE  FALSE
      BY DEF HistoryOK
    <3>2. \A j \in i..n : attempts[i] <= attempts[j]
      BY <2>1 DEF LedgerInv
    <3>3. ASSUME NEW j \in i..n PROVE j \in Recent(clock)
      <4>1. j \in 1..n /\ attempts[i] <= attempts[j] /\ attempts[i] \in Nat /\ attempts[j] \in Nat
        BY <1>a, <2>1, <3>2
      <4> QED
        BY <1>2, <1>a, <3>1, <4>1
    <3>5. i..n \in SUBSET Recent(clock)
      BY <3>3
    <3>6. Cardinality(i..n) <= Cardinality(Recent(clock))
      BY <1>0, <3>5, FS_Subset
    <3>7. Cardinality(i..n) = Budget
      BY <2>1, <2>4, FS_Interval
    <3> QED
      BY <1>0, <1>4, <3>6, <3>7
  <2>5. LedgerInv'
    <3>1. \A i \in 1..Len(attempts') : attempts'[i] <= clock'
      BY <1>a, <2>1, <2>2 DEF LedgerInv
    <3>2. ASSUME NEW i \in 1..(n + 1), NEW j \in 1..(n + 1), i <= j
          PROVE  attempts'[i] <= attempts'[j]
      <4>1. CASE j \in 1..n
        <5>1. i \in 1..n
          BY <2>1, <3>2, <4>1
        <5> QED
          BY <2>2, <3>2, <4>1, <5>1 DEF LedgerInv
      <4>2. CASE j = n + 1
        BY <1>a, <2>1, <2>2, <4>2 DEF LedgerInv
      <4> QED
        BY <2>1, <4>1, <4>2
    <3>3. \A i \in 1..Len(attempts') : i \notin spent' => attempts'[i] + Day <= clock'
      BY <1>2, <1>4, <2>1, <2>2
    <3>4. ASSUME NEW i \in 1..Len(attempts'), i + Budget <= Len(attempts')
          PROVE  attempts'[i + Budget] >= attempts'[i] + Day
      <4>1. CASE i + Budget <= n
        BY <2>1, <2>2, <4>1 DEF LedgerInv
      <4>2. CASE i + Budget = n + 1 /\ i \in 1..n
        BY <2>2, <2>4, <4>2
      <4>3. CASE i = n + 1
        <5>1. Budget = 0
          BY <2>1, <3>4, <4>3
        <5> QED
          BY <1>0, <1>4, <5>1
      <4> QED
        BY <2>1, <3>4, <4>1, <4>2, <4>3
    <3> QED
      BY <2>1, <3>1, <3>2, <3>3, <3>4 DEF LedgerInv
  <2> QED
    BY <2>3, <2>5
<1> QED
  BY <1>3, <1>4 DEF admit

\* A reservation: the caller's slot stays every endpoint's slot, and the place handed out is the
\* furthest in it.
LEMMA ReserveKeeps ==
  ASSUME HistoryOK, PacersOK, SlotsHold, Spaced, NEW r \in Rails, reserve_command_grant(r)
  PROVE  /\ grants' \in Seq(Grant) /\ Len(grants') = Len(grants) + 1
         /\ \A i \in 1..Len(grants) : grants'[i] = grants[i]
         /\ grants'[Ticket].at = GrantFor(r) /\ GrantFor(r) \in Nat
         /\ PacersOK' /\ SlotsHold' /\ Spaced'
<1> USE PacingAssumption
<1> DEFINE n == Len(grants)
           e == Endpoint[r]
           slot == pacer_slot(e)
           D == DOMAIN pacers
           new == [endpoint |-> e, at |-> GrantFor(r), floor |-> Floor[r]]
<1>1. e \in Endpoints /\ Floor[r] \in Nat
  BY DEF Endpoints
<1>2. GrantFor(r) \in Nat /\ (slot \in D => GrantFor(r) >= pacers[slot] + Floor[r])
  BY <1>1 DEF GrantFor, command_grant_at, PacersOK, HistoryOK
<1>3. new \in Grant
  BY <1>1, <1>2 DEF Grant
<1>4. /\ grants' = Append(grants, new) /\ grants' \in Seq(Grant) /\ n \in Nat
      /\ Len(grants') = n + 1 /\ grants'[n + 1] = new
      /\ \A i \in 1..n : grants'[i] = grants[i]
  BY <1>3 DEF reserve_command_grant, HistoryOK
<1>5. /\ DOMAIN pacers' = D \cup {slot}
      /\ pacers' = [s \in D \cup {slot} |-> IF s = slot THEN GrantFor(r) ELSE pacers[s]]
  BY DEF reserve_command_grant
<1>6. IsFiniteSet(D \cup {slot}) /\ Cardinality(D) \in Nat
      /\ Cardinality(D \cup {slot}) >= Cardinality(D)
  <2>1. IsFiniteSet(D)
    BY DEF PacersOK
  <2>2. Cardinality(D) \in Nat
    BY <2>1, FS_CardinalityType
  <2> HIDE DEF D, slot
  <2>3. /\ IsFiniteSet(D \cup {slot})
        /\ Cardinality(D \cup {slot}) = IF slot \in D THEN Cardinality(D) ELSE Cardinality(D) + 1
    BY <2>1, FS_AddElement
  <2> QED
    BY <2>2, <2>3
<1>7. PacersOK'
  BY <1>2, <1>5, <1>6 DEF PacersOK
<1>8. \A i \in 1..n : grants[i].endpoint \in Endpoints /\ grants[i].at \in Nat
  <2>1. \A i \in 1..n : grants[i] \in Grant
    BY <1>4 DEF HistoryOK
  <2> QED
    BY <2>1 DEF Grant
<1>9. \A s \in D : pacers'[s] >= pacers[s]
  BY <1>1, <1>2, <1>5 DEF PacersOK
<1>10. ASSUME NEW x \in Endpoints, pacer_slot(x) \in D
       PROVE  pacer_slot(x)' = pacer_slot(x)
  <2>1. CASE x \in D
    BY <1>5, <2>1 DEF pacer_slot
  <2>2. CASE x \notin D
    <3>1. ~(Cardinality(D) < MaxPaced)
      BY <1>10, <2>2 DEF pacer_slot
    <3>2. slot # x
      BY <2>2, <3>1 DEF pacer_slot
    <3>3. x \notin DOMAIN pacers'
      BY <1>5, <2>2, <3>2
    <3>4. ~(Cardinality(DOMAIN pacers') < MaxPaced)
      <4> HIDE DEF D, slot
      <4>1. Cardinality(D \cup {slot}) \in Nat
        BY <1>6, FS_CardinalityType
      <4> QED
        BY <1>5, <1>6, <3>1, <4>1
    <3> QED
      BY <2>2, <3>1, <3>3, <3>4 DEF pacer_slot
  <2> QED
    BY <2>1, <2>2
<1>11. slot = e \/ (e \notin D /\ ~(Cardinality(D) < MaxPaced) /\ slot = Overflow)
  BY DEF pacer_slot
<1>12. pacer_slot(e)' = slot
  <2>1. CASE slot = e
    BY <1>5, <2>1 DEF pacer_slot
  <2>2. CASE e \notin D /\ ~(Cardinality(D) < MaxPaced) /\ slot = Overflow
    <3>1. e # slot
      BY <1>1, <2>2
    <3>2. e \notin DOMAIN pacers'
      BY <1>5, <2>2, <3>1
    <3>3. ~(Cardinality(DOMAIN pacers') < MaxPaced)
      <4> HIDE DEF D, slot
      <4>1. Cardinality(D \cup {slot}) \in Nat
        BY <1>6, FS_CardinalityType
      <4> QED
        BY <1>5, <1>6, <2>2, <4>1
    <3> QED
      BY <2>2, <3>2, <3>3 DEF pacer_slot
  <2> QED
    BY <1>11, <2>1, <2>2
<1>13. SlotsHold'
  <2>1. ASSUME NEW i \in 1..n
        PROVE  /\ pacer_slot(grants[i].endpoint)' = pacer_slot(grants[i].endpoint)
               /\ pacer_slot(grants[i].endpoint) \in DOMAIN pacers'
               /\ grants[i].at <= pacers'[pacer_slot(grants[i].endpoint)]
    <3> DEFINE s == pacer_slot(grants[i].endpoint)
    <3>1. s \in D /\ grants[i].at <= pacers[s]
      BY DEF SlotsHold
    <3>2. pacer_slot(grants[i].endpoint)' = s
      BY <1>8, <1>10, <3>1, <1>4
    <3>3. pacers[s] \in Nat /\ pacers'[s] \in Nat /\ s \in DOMAIN pacers'
      BY Zenon, <1>5, <1>7, <3>1 DEF PacersOK
    <3> QED
      BY <1>8, <1>9, <3>1, <3>2, <3>3
  <2>2. ASSUME NEW i \in 1..Len(grants')
        PROVE  /\ pacer_slot(grants[i].endpoint)' \in DOMAIN pacers'
               /\ grants'[i].at <= pacers'[pacer_slot(grants[i].endpoint)']
    <3>1. CASE i \in 1..n
      BY <1>4, <2>1, <3>1
    <3>2. CASE i = n + 1
      <4>1. grants'[i].endpoint = e /\ grants'[i].at = GrantFor(r)
        BY <1>4, <3>2
      <4>2. slot \in DOMAIN pacers' /\ pacers'[slot] = GrantFor(r)
        BY <1>5
      <4>3. pacer_slot(grants[i].endpoint)' = pacer_slot(e)'
        BY <4>1 DEF pacer_slot
      <4> QED
        BY <1>2, <1>12, <4>1, <4>2, <4>3
    <3> QED
      BY <1>4, <3>1, <3>2
  <2> QED
    BY <2>2 DEF SlotsHold
<1>14. Spaced'
  <2>1. ASSUME NEW i \in 1..n, grants[i].endpoint = e
        PROVE  GrantFor(r) >= grants[i].at + Floor[r]
    BY <1>1, <1>2, <1>8, <2>1 DEF SlotsHold, PacersOK
  <2> QED
    BY <1>4, <2>1 DEF Spaced
<1> QED
  BY <1>2, <1>4, <1>7, <1>13, <1>14 DEF Ticket

-----------------------------------------------------------------------------

\* What a rail is doing before and after a step of its own.
LEMMA RailMoves ==
  ASSUME RailsOK, GrantsStay, NEW r \in Rails, NEW v \in Resting, rail' = [rail EXCEPT ![r] = v]
  PROVE  RailsOK'
<1>1. \A q \in Rails : rail'[q] = IF q = r THEN v ELSE rail[q]
  BY DEF RailsOK
<1>2. rail' \in [Rails -> [at : Phases, until : Nat, grant : Nat]] /\ v.at # "requested"
  BY DEF RailsOK, Resting, Phases
<1> QED
  BY <1>1, <1>2 DEF RailsOK, GrantsStay

LEMMA NextPacing == PacingInv /\ [PacingNext]_pacingVars => PacingInv'
<1> SUFFICES ASSUME PacingInv, [PacingNext]_pacingVars PROVE PacingInv'
  OBVIOUS
<1> USE PacingAssumption
<1>0. Len(grants) \in Nat /\ clock \in Nat
  BY DEF PacingInv, HistoryOK
<1>a. UNCHANGED grants => GrantsStay
  BY <1>0 DEF GrantsStay
<1>1. CASE UNCHANGED pacingVars
  BY <1>1 DEF PacingInv, HistoryOK, LedgerInv, PacersOK, SlotsHold, Spaced, RailsOK, pacer_slot,
     pacingVars
<1>2. CASE Tick
  <2>1. HistoryOK' /\ RailsOK'
    BY <1>2 DEF Tick, PacingInv, HistoryOK, RailsOK
  <2>2. LedgerInv'
    BY <1>0, <1>2, LedgerKept DEF Tick, PacingInv
  <2>3. PacersOK' /\ SlotsHold' /\ Spaced'
    BY <1>2, QueueKept DEF Tick, PacingInv
  <2> QED
    BY <2>1, <2>2, <2>3 DEF PacingInv
<1>3. ASSUME NEW r \in Rails, spawn_due(r)
      PROVE  PacingInv'
  <2>1. admit(r) /\ UNCHANGED <<clock, pacers, draining, grants, written>>
    BY <1>3 DEF spawn_due
  <2>2. HistoryOK' /\ LedgerInv'
    BY <2>1, AdmitKeeps DEF PacingInv
  <2>3. PacersOK' /\ SlotsHold' /\ Spaced'
    BY <2>1, QueueKept DEF PacingInv
  <2>5. FreeAt(Recent(clock), clock) \in Nat
    <3>1. Recent(clock) \in SUBSET (1..Len(attempts)) /\ Len(attempts) \in Nat
      <4>1. Recent(clock) \subseteq spent
        BY DEF Recent
      <4>2. spent \in SUBSET (1..Len(attempts)) /\ Len(attempts) \in Nat
        BY DEF PacingInv, HistoryOK
      <4> QED
        BY Zenon, <4>1, <4>2
    <3>2. ASSUME Recent(clock) # {}
          PROVE  \E x \in Recent(clock) : \A y \in Recent(clock) : x <= y
      <4>1. Recent(clock) \in SUBSET Nat
        BY <3>1
      <4> QED
        BY <3>2, <4>1, LeastNatural
    <3>3. \A i \in Recent(clock) : attempts[i] \in Nat
      BY <3>1 DEF PacingInv, HistoryOK
    <3> QED
      BY <1>0, <3>2, <3>3 DEF FreeAt
  <2>6. RailsOK'
    <3>1. CASE rail' = [rail EXCEPT ![r] = Idle(FreeAt(Recent(clock), clock))]
      <4>1. Idle(FreeAt(Recent(clock), clock)) \in Resting
        BY <2>5 DEF Idle, NoGrant, Resting, Phases
      <4> QED
        BY Zenon, <1>a, <2>1, <3>1, <4>1, RailMoves DEF PacingInv
    <3>2. CASE rail' = [rail EXCEPT ![r] = [Idle(0) EXCEPT !.at = "dialling"]]
      <4>1. [Idle(0) EXCEPT !.at = "dialling"] \in Resting
        BY DEF Idle, NoGrant, Resting, Phases
      <4> QED
        BY Zenon, <1>a, <2>1, <3>2, <4>1, RailMoves DEF PacingInv
    <3> QED
      BY <2>1, <3>1, <3>2 DEF admit
  <2> QED
    BY <2>2, <2>3, <2>6 DEF PacingInv
<1>4. ASSUME NEW r \in Rails, establish(r)
      PROVE  PacingInv'
  <2>1. /\ reserve_command_grant(r) /\ UNCHANGED <<clock, spent, draining, attempts, written>>
        /\ rail' = [rail EXCEPT ![r].at = "queued", ![r].grant = Ticket]
    BY <1>4 DEF establish
  <2>2. /\ grants' \in Seq(Grant) /\ Len(grants') = Len(grants) + 1
        /\ \A i \in 1..Len(grants) : grants'[i] = grants[i]
        /\ PacersOK' /\ SlotsHold' /\ Spaced'
    BY <2>1, ReserveKeeps DEF PacingInv
  <2>3. HistoryOK'
    BY <2>1, <2>2 DEF PacingInv, HistoryOK
  <2>4. LedgerInv'
    BY <1>0, <2>1, LedgerKept DEF PacingInv
  <2>5. RailsOK'
    <3>a. rail[r] \in [at : Phases, until : Nat, grant : Nat] /\ Ticket \in Nat
      BY <1>0 DEF PacingInv, RailsOK, Ticket
    <3>1. [rail[r] EXCEPT !.at = "queued", !.grant = Ticket] \in Resting
      BY Zenon, <3>a DEF Resting, Phases
    <3>2. rail' = [rail EXCEPT ![r] = [rail[r] EXCEPT !.at = "queued", !.grant = Ticket]]
      BY Zenon, <2>1
    <3>3. GrantsStay
      BY <1>0, <2>2 DEF GrantsStay
    <3> QED
      BY Zenon, <3>1, <3>2, <3>3, RailMoves DEF PacingInv
  <2> QED
    BY <2>2, <2>3, <2>4, <2>5 DEF PacingInv
<1>5. ASSUME NEW r \in Rails, emit_resubscribe(r)
      PROVE  PacingInv'
  <2>1. /\ reserve_command_grant(r) /\ UNCHANGED <<clock, spent, draining, attempts, written>>
        /\ \/ rail' = [rail EXCEPT ![r] =
                         [at |-> "requested", until |-> Deadline(r), grant |-> Ticket]]
           \/ rail' = [rail EXCEPT ![r].at = "unreachable"]
    BY <1>5 DEF emit_resubscribe
  <2>2. /\ grants' \in Seq(Grant) /\ Len(grants') = Len(grants) + 1
        /\ \A i \in 1..Len(grants) : grants'[i] = grants[i]
        /\ grants'[Ticket].at = GrantFor(r) /\ GrantFor(r) \in Nat
        /\ PacersOK' /\ SlotsHold' /\ Spaced'
    BY <2>1, ReserveKeeps DEF PacingInv
  <2>3. HistoryOK'
    BY <2>1, <2>2 DEF PacingInv, HistoryOK
  <2>4. LedgerInv'
    BY <1>0, <2>1, LedgerKept DEF PacingInv
  <2>5. CASE rail' = [rail EXCEPT ![r] =
                        [at |-> "requested", until |-> Deadline(r), grant |-> Ticket]]
    <3>1. [at |-> "requested", until |-> Deadline(r), grant |-> Ticket] \in
            [at : Phases, until : Nat, grant : Nat]
      BY <1>0, <2>2 DEF Phases, Deadline, Ticket
    <3>2. Ticket \in 1..Len(grants') /\ Deadline(r) = grants'[Ticket].at + Window
      BY <1>0, <2>2 DEF Ticket, Deadline
    <3>3. \A q \in Rails : rail'[q] = IF q = r
            THEN [at |-> "requested", until |-> Deadline(r), grant |-> Ticket] ELSE rail[q]
      BY <2>5 DEF PacingInv, RailsOK
    <3>4. rail' \in [Rails -> [at : Phases, until : Nat, grant : Nat]]
      BY <2>5, <3>1 DEF PacingInv, RailsOK
    <3>5. ASSUME NEW q \in Rails, rail'[q].at = "requested"
          PROVE  /\ rail'[q].grant \in 1..Len(grants')
                 /\ rail'[q].until = grants'[rail'[q].grant].at + Window
      <4>1. CASE q = r
        BY <3>2, <3>3, <4>1
      <4>2. CASE q # r
        <5>1. rail'[q] = rail[q] /\ rail[q].at = "requested"
          BY <3>3, <3>5, <4>2
        <5>2. rail[q].grant \in 1..Len(grants) /\ rail[q].until = grants[rail[q].grant].at + Window
          BY <5>1 DEF PacingInv, RailsOK
        <5> QED
          BY <1>0, <2>2, <5>1, <5>2
      <4> QED
        BY <4>1, <4>2
    <3>6. RailsOK'
      BY <3>4, <3>5 DEF RailsOK
    <3> QED
      BY <2>2, <2>3, <2>4, <3>6 DEF PacingInv
  <2>6. CASE rail' = [rail EXCEPT ![r].at = "unreachable"]
    <3>1. [rail[r] EXCEPT !.at = "unreachable"] \in Resting
      BY DEF PacingInv, RailsOK, Resting, Phases
    <3>2. rail' = [rail EXCEPT ![r] = [rail[r] EXCEPT !.at = "unreachable"]]
      BY <2>6
    <3>3. GrantsStay
      BY <1>0, <2>2 DEF GrantsStay
    <3>4. RailsOK'
      BY Zenon, <3>1, <3>2, <3>3, RailMoves DEF PacingInv
    <3> QED
      BY <2>2, <2>3, <2>4, <3>4 DEF PacingInv
  <2> QED
    BY <2>1, <2>5, <2>6
<1>6. ASSUME UNCHANGED <<clock, spent, attempts, pacers, grants>>, RailsOK'
      PROVE  PacingInv'
  <2>1. HistoryOK'
    BY <1>6 DEF PacingInv, HistoryOK
  <2>2. LedgerInv'
    BY <1>0, <1>6, LedgerKept DEF PacingInv
  <2>3. PacersOK' /\ SlotsHold' /\ Spaced'
    BY <1>6, QueueKept DEF PacingInv
  <2> QED
    BY <1>6, <2>1, <2>2, <2>3 DEF PacingInv
<1>7. ASSUME NEW r \in Rails, UNCHANGED grants, Ended(r)
      PROVE  RailsOK'
  <2>1. Idle(clock + Backoff) \in Resting
    BY <1>0 DEF Idle, NoGrant, Resting, Phases
  <2> QED
    BY Zenon, <1>a, <1>7, <2>1, RailMoves DEF PacingInv, Ended
<1>8. ASSUME NEW r \in Rails, resubscribe(r)
      PROVE  PacingInv'
  <2>1. [Idle(0) EXCEPT !.at = "up"] \in Resting
    BY DEF Idle, NoGrant, Resting, Phases
  <2>2. [Idle(clock + Window) EXCEPT !.at = "awaiting"] \in Resting
    BY <1>0 DEF Idle, NoGrant, Resting, Phases
  <2>3. RailsOK'
    <3>1. PICK v \in Resting : rail' = [rail EXCEPT ![r] = v]
      BY Zenon, <1>8, <2>1, <2>2 DEF resubscribe
    <3> QED
      BY Zenon, <1>a, <1>8, <3>1, RailMoves DEF PacingInv, resubscribe
  <2> QED
    BY <1>6, <1>8, <2>3 DEF resubscribe
<1>9. ASSUME NEW r \in Rails, Answered(r)
      PROVE  PacingInv'
  <2>1. [Idle(0) EXCEPT !.at = "up"] \in Resting
    BY DEF Idle, NoGrant, Resting, Phases
  <2>2. RailsOK'
    BY Zenon, <1>a, <1>9, <2>1, RailMoves DEF PacingInv, Answered
  <2> QED
    BY <1>6, <1>9, <2>2 DEF Answered
<1>10. ASSUME NEW r \in Rails, TaskEnds(r)
       PROVE  PacingInv'
  BY <1>6, <1>7, <1>10 DEF TaskEnds
<1>11. ASSUME NEW r \in Rails, fence(r)
       PROVE  PacingInv'
  BY <1>6, <1>7, <1>11 DEF fence
<1>12. ASSUME NEW r \in Rails, Drained(r)
       PROVE  PacingInv'
  <2>1. RailsOK'
    BY <1>12 DEF Drained, PacingInv, RailsOK
  <2> QED
    BY <1>6, <1>12, <2>1 DEF Drained
<1> QED
  BY <1>1, <1>2, <1>3, <1>4, <1>5, <1>8, <1>9, <1>10, <1>11, <1>12
  DEF PacingNext, RailStep, escalate_recovery, fence_if_expired

LEMMA PacingInvariant == PacingSpec => []PacingInv
BY InitPacing, NextPacing, PTL DEF PacingSpec

-----------------------------------------------------------------------------

\* The budget of AttemptLedger::admit holds in every rolling day, for every number of rails.
THEOREM BudgetAlways == PacingSpec => []BudgetHolds
<1>1. ASSUME PacingInv PROVE BudgetHolds
  <2>1. DOMAIN attempts = 1..Len(attempts) /\ Len(attempts) \in Nat /\ Budget \in Nat
    BY <1>1, PacingAssumption DEF PacingInv, HistoryOK
  <2>2. \A i \in 1..Len(attempts) :
          i + Budget <= Len(attempts) => attempts[i + Budget] >= attempts[i] + Day
    BY <1>1 DEF PacingInv, LedgerInv
  <2> QED
    BY <2>1, <2>2 DEF BudgetHolds
<1> QED
  BY <1>1, PacingInvariant, PTL

\* Every place reserve_command_grant hands out keeps its caller's floor, for every number of
\* endpoints and whichever of them share the overflow slot.
THEOREM FloorsAlways == PacingSpec => []FloorsKept
<1>1. PacingInv => FloorsKept
  BY DEF PacingInv, HistoryOK, Spaced, FloorsKept
<1> QED
  BY <1>1, PacingInvariant, PTL

\* emit_resubscribe's deadline runs from the granted instant, so no escalation blames the queue.
THEOREM QueueNeverBlamed == PacingSpec => QueueIsNotBlamed
<1>1. ASSUME PacingInv, NEW r \in Rails, In(r, {"requested"}), escalate_recovery(r)
      PROVE  clock >= grants[rail[r].grant].at + Window
  <2>1. rail[r].at = "requested" /\ rail[r].until <= clock
    BY <1>1 DEF In, escalate_recovery
  <2>2. grants[rail[r].grant] \in Grant /\ rail[r].until = grants[rail[r].grant].at + Window
    BY <1>1, <2>1 DEF PacingInv, RailsOK, HistoryOK
  <2>3. grants[rail[r].grant].at \in Nat /\ clock \in Nat
    BY <1>1, <2>2 DEF Grant, PacingInv, HistoryOK
  <2> QED
    BY <2>1, <2>2, <2>3, PacingAssumption
<1>2. PacingInv /\ [PacingNext]_pacingVars =>
        [\A r \in Rails : (In(r, {"requested"}) /\ escalate_recovery(r)) =>
           clock >= grants[rail[r].grant].at + Window]_pacingVars
  BY <1>1
<1> QED
  BY <1>2, PacingInvariant, PTL DEF PacingSpec, QueueIsNotBlamed

-----------------------------------------------------------------------------
(* The refusal                                                             *)

\* The ledger never holds more than the budget: admit adds one only where there is room.
Within == Cardinality(spent) <= Budget

LEMMA RecentFinite ==
  ASSUME HistoryOK
  PROVE  /\ Recent(clock) \in SUBSET spent /\ IsFiniteSet(spent) /\ IsFiniteSet(Recent(clock))
         /\ Cardinality(spent) \in Nat /\ Cardinality(Recent(clock)) \in Nat
         /\ Cardinality(Recent(clock)) <= Cardinality(spent)
<1>1. Recent(clock) \in SUBSET spent
  BY Zenon DEF Recent
<1>2. IsFiniteSet(1..Len(attempts)) /\ spent \in SUBSET (1..Len(attempts))
  BY FS_Interval DEF HistoryOK
<1>3. IsFiniteSet(spent)
  BY Zenon, <1>2, FS_Subset
<1>4. IsFiniteSet(Recent(clock)) /\ Cardinality(Recent(clock)) <= Cardinality(spent)
  BY Zenon, <1>1, <1>3, FS_Subset
<1> QED
  BY <1>1, <1>3, <1>4, FS_CardinalityType

LEMMA InitWithin == PacingInit => Within
BY PacingAssumption, FS_EmptySet DEF PacingInit, Within

LEMMA NextWithin == PacingInv /\ Within /\ [PacingNext]_pacingVars => Within'
<1> SUFFICES ASSUME PacingInv, Within, [PacingNext]_pacingVars
             PROVE  Within'
  OBVIOUS
<1>1. CASE UNCHANGED spent
  BY <1>1 DEF Within
<1>2. ASSUME NEW r \in Rails, admit(r)
      PROVE  Within'
  <2>1. /\ IsFiniteSet(Recent(clock)) /\ Cardinality(Recent(clock)) \in Nat
        /\ Cardinality(spent) \in Nat /\ Cardinality(Recent(clock)) <= Cardinality(spent)
    BY RecentFinite DEF PacingInv
  <2>2. CASE spent' = Recent(clock)
    BY <2>1, <2>2, PacingAssumption DEF Within
  <2>3. CASE /\ Cardinality(Recent(clock)) < Budget
             /\ spent' = Recent(clock) \cup {Len(attempts) + 1}
    <3> DEFINE S == Recent(clock)
               x == Len(attempts) + 1
    <3>1. IsFiniteSet(S) /\ Cardinality(S) \in Nat /\ Cardinality(S) < Budget /\ spent' = S \cup {x}
      BY <2>1, <2>3
    <3> HIDE DEF S, x
    <3>2. Cardinality(S \cup {x}) = IF x \in S THEN Cardinality(S) ELSE Cardinality(S) + 1
      BY Zenon, <3>1, FS_AddElement
    <3>3. Cardinality(S \cup {x}) <= Budget
      BY <3>1, <3>2, PacingAssumption
    <3> QED
      BY Zenon, <3>1, <3>3 DEF Within
  <2> QED
    BY <1>2, <2>2, <2>3 DEF admit
<1>3. ASSUME NEW r \in Rails, RailStep(r), ~UNCHANGED spent
      PROVE  admit(r)
  BY <1>3 DEF RailStep, spawn_due, establish, resubscribe, emit_resubscribe, Answered, TaskEnds,
              escalate_recovery, fence_if_expired, fence, Drained
<1> QED
  BY <1>1, <1>2, <1>3 DEF PacingNext, Tick, pacingVars

\* A rail that is idle moves only in its own spawn_due.
LEMMA IdleMoves ==
  ASSUME PacingInv, [PacingNext]_pacingVars, NEW r \in Rails, In(r, {"idle"}), rail'[r] # rail[r]
  PROVE  spawn_due(r)
<1>1. rail = [q \in Rails |-> rail[q]]
  BY DEF PacingInv, RailsOK
<1>2. PICK q \in Rails : RailStep(q)
  BY DEF PacingNext, Tick, pacingVars
<1>3. rail' # rail
  OBVIOUS
<1>4. CASE q = r
  BY <1>2, <1>3, <1>4 DEF RailStep, establish, resubscribe, emit_resubscribe, Answered,
       TaskEnds, escalate_recovery, fence_if_expired, fence, Drained, In
<1>5. CASE q # r
  <2>1. \E x : rail' = [rail EXCEPT ![q] = x]
    <3>1. CASE spawn_due(q)
      BY Zenon, <3>1 DEF spawn_due, admit
    <3>2. CASE establish(q)
      BY Zenon, <3>2 DEF establish
    <3>3. CASE resubscribe(q)
      BY Zenon, <3>3 DEF resubscribe
    <3>4. CASE emit_resubscribe(q)
      BY <3>4 DEF emit_resubscribe
    <3>5. CASE Answered(q)
      BY Zenon, <3>5 DEF Answered
    <3>6. CASE TaskEnds(q)
      BY Zenon, <3>6 DEF TaskEnds, Ended
    <3>7. CASE escalate_recovery(q) \/ fence_if_expired(q)
      BY Zenon, <3>7 DEF escalate_recovery, fence_if_expired, fence, Ended
    <3>8. CASE Drained(q)
      BY <1>3, <3>8 DEF Drained
    <3> QED
      BY <1>2, <3>1, <3>2, <3>3, <3>4, <3>5, <3>6, <3>7, <3>8 DEF RailStep
  <2> QED
    BY <1>1, <1>5, <2>1
<1> QED
  BY <1>4, <1>5

\* The instant a refusal names: the attempts inside the day then are those after the oldest one
\* now inside, and an instant sooner they are all of those still inside.
LEMMA Refused ==
  ASSUME PacingInv, Within, Budget > 0, NEW r \in Rails, spawn_due(r), rail'[r].at = "idle"
  PROVE  /\ Cardinality({i \in DOMAIN attempts : attempts[i] + Day > rail'[r].until}) < Budget
         /\ Cardinality({i \in DOMAIN attempts : attempts[i] + Day > rail'[r].until - 1}) >= Budget
<1> DEFINE recent == Recent(clock)
           left == {i \in DOMAIN attempts : attempts[i] + Day > rail'[r].until}
           sooner == {i \in DOMAIN attempts : attempts[i] + Day > rail'[r].until - 1}
<1>0. /\ Budget \in Nat /\ Day \in Nat /\ clock \in Nat /\ Len(attempts) \in Nat
      /\ DOMAIN attempts = 1..Len(attempts) /\ \A i \in 1..Len(attempts) : attempts[i] \in Nat
  BY PacingAssumption DEF PacingInv, HistoryOK
<1>1. /\ recent \in SUBSET spent /\ IsFiniteSet(recent) /\ Cardinality(recent) \in Nat
      /\ Cardinality(recent) <= Cardinality(spent) /\ Cardinality(spent) \in Nat
  BY RecentFinite DEF PacingInv
<1>2. recent \in SUBSET (1..Len(attempts))
  <2>1. spent \in SUBSET (1..Len(attempts))
    BY DEF PacingInv, HistoryOK
  <2> QED
    BY Zenon, <1>1, <2>1
<1>3. rail'[r] = Idle(FreeAt(recent, clock)) /\ Cardinality(recent) >= Budget
  <2>1. admit(r) /\ r \in DOMAIN rail
    BY DEF spawn_due, PacingInv, RailsOK
  <2>2. CASE rail' = [rail EXCEPT ![r] = [Idle(0) EXCEPT !.at = "dialling"]]
    BY <2>1, <2>2 DEF Idle
  <2> QED
    BY <2>1, <2>2 DEF admit
<1>4. recent # {}
  <2> HIDE DEF recent
  <2>1. Cardinality(recent) # 0
    BY <1>0, <1>1, <1>3
  <2> QED
    BY Zenon, <2>1, FS_EmptySet
<1>5. PICK m \in recent : (\A j \in recent : m <= j) /\ FreeAt(recent, clock) = attempts[m] + Day
  <2>1. \E x \in recent : \A y \in recent : x <= y
    <3>1. recent \in SUBSET Nat
      BY <1>0, <1>2
    <3> HIDE DEF recent
    <3> QED
      BY <1>4, <3>1, LeastNatural
  <2> HIDE DEF recent
  <2> DEFINE m == CHOOSE i \in recent : \A j \in recent : i <= j
  <2>2. m \in recent /\ \A j \in recent : m <= j
    BY Zenon, <2>1
  <2>3. FreeAt(recent, clock) = attempts[m] + Day
    BY Zenon, <1>4 DEF FreeAt
  <2> HIDE DEF m
  <2> QED
    BY Zenon, <2>2, <2>3
<1>6. rail'[r].until = attempts[m] + Day
  BY <1>3, <1>5 DEF Idle
<1>7. m \in 1..Len(attempts) /\ attempts[m] \in Nat
  BY <1>0, <1>2, <1>5
<1>8. attempts[m] + Day > clock
  BY <1>0, <1>5, <1>7 DEF Recent
<1>9. left \in SUBSET (recent \ {m})
  <2> SUFFICES ASSUME NEW i \in left PROVE i \in recent \ {m}
    BY Zenon
  <2>1. i \in 1..Len(attempts) /\ attempts[i] \in Nat /\ attempts[i] > attempts[m]
    BY <1>0, <1>6, <1>7
  <2>2. i \in spent
    <3>1. i \notin spent => attempts[i] + Day <= clock
      BY <2>1 DEF PacingInv, LedgerInv
    <3> QED
      BY <1>0, <1>7, <1>8, <2>1, <3>1
  <2>3. i \in recent
    BY <1>0, <1>7, <1>8, <2>1, <2>2 DEF Recent
  <2> QED
    BY <1>7, <2>1, <2>3
<1>10. recent \in SUBSET sooner
  <2> SUFFICES ASSUME NEW i \in recent PROVE i \in sooner
    BY Zenon
  <2>1. i \in 1..Len(attempts) /\ m <= i /\ attempts[i] \in Nat
    BY <1>0, <1>2, <1>5
  <2>2. attempts[m] <= attempts[i]
    BY <1>7, <2>1 DEF PacingInv, LedgerInv
  <2> QED
    BY <1>0, <1>6, <1>7, <2>1, <2>2
<1>11. IsFiniteSet(sooner)
  <2>1. IsFiniteSet(1..Len(attempts)) /\ sooner \in SUBSET (1..Len(attempts))
    BY <1>0, FS_Interval
  <2> HIDE DEF sooner
  <2> QED
    BY Zenon, <2>1, FS_Subset
<1> HIDE DEF recent, left, sooner
<1>12. IsFiniteSet(recent \ {m}) /\ Cardinality(recent \ {m}) = Cardinality(recent) - 1
  BY <1>1, <1>5, FS_RemoveElement
<1>13. Cardinality(left) <= Cardinality(recent) - 1 /\ Cardinality(left) \in Nat
  <2>1. IsFiniteSet(left) /\ Cardinality(left) <= Cardinality(recent \ {m})
    BY Zenon, <1>9, <1>12, FS_Subset
  <2> QED
    BY <1>12, <2>1, FS_CardinalityType
<1>14. Cardinality(sooner) >= Cardinality(recent) /\ Cardinality(sooner) \in Nat
  <2>1. Cardinality(recent) <= Cardinality(sooner)
    BY Zenon, <1>10, <1>11, FS_Subset
  <2> QED
    BY <1>1, <1>11, <2>1, FS_CardinalityType
<1>15. Cardinality(recent) <= Budget
  BY <1>0, <1>1 DEF Within
<1>16. Cardinality(left) < Budget /\ Cardinality(sooner) >= Budget
  BY <1>0, <1>1, <1>3, <1>13, <1>14, <1>15
<1> QED
  BY <1>16 DEF left, sooner

\* AttemptLedger::admit spends the budget to the last attempt and no further: no rolling day is
\* overspent, and a refusal names the first instant at which the day has room.
THEOREM BudgetExact == PacingSpec => BudgetIsExact
<1> DEFINE Tight ==
      \A r \in Rails :
        /\ Budget > 0
        /\ In(r, {"idle"}) /\ rail[r].until <= clock /\ rail'[r].at = "idle" /\ rail'[r] # rail[r]
        =>
          LET left == {i \in DOMAIN attempts : attempts[i] + Day > rail'[r].until}
              soonerLeft == {i \in DOMAIN attempts : attempts[i] + Day > rail'[r].until - 1}
          IN  Cardinality(left) < Budget /\ Cardinality(soonerLeft) >= Budget
<1>1. PacingInv /\ Within /\ [PacingNext]_pacingVars => [Tight]_pacingVars
  BY IdleMoves, Refused
<1>2. PacingSpec => []Within
  BY InitWithin, NextWithin, PacingInvariant, PTL DEF PacingSpec
<1>3. PacingSpec => RefusalIsTight
  BY <1>1, <1>2, PacingInvariant, PTL DEF PacingSpec, RefusalIsTight
<1> QED
  BY <1>3, BudgetAlways, PTL DEF BudgetIsExact

-----------------------------------------------------------------------------
(* The wire                                                                *)

\* What is written was granted and due, under the floor of a rail of that endpoint, and every
\* task that holds a command holds one that was granted.
WrittenOK == written \in SUBSET (1..Len(grants)) /\ \A i \in written : grants[i].at <= clock

FloorsNamed ==
  \A i \in 1..Len(grants) :
    \E r \in Rails : grants[i].endpoint = Endpoint[r] /\ grants[i].floor = Floor[r]

HeldOK ==
  \A r \in Rails : /\ rail[r].grant \in 0..Len(grants)
                   /\ rail[r].at \in {"queued", "requested"} => rail[r].grant # 0

DrainingOK == draining \in [Rails -> 0..Len(grants)]

WireInv == WrittenOK /\ FloorsNamed /\ HeldOK /\ DrainingOK

LEMMA InitWire == PacingInit => WireInv
BY DEF PacingInit, WireInv, WrittenOK, FloorsNamed, HeldOK, DrainingOK, Idle, NoGrant

\* A step that hands out no place, with what it writes and what its rail and its fenced task hold.
LEMMA WireMoves ==
  ASSUME PacingInv, WireInv, UNCHANGED <<clock, grants>>, NEW r \in Rails,
         written' \in SUBSET (1..Len(grants)), \A i \in written' : grants[i].at <= clock,
         rail' = [rail EXCEPT ![r] = rail'[r]], rail'[r].grant = 0,
         ~(rail'[r].at \in {"queued", "requested"}),
         draining' = [draining EXCEPT ![r] = draining'[r]], draining'[r] \in 0..Len(grants)
  PROVE  WireInv'
<1>1. \A q \in Rails : q # r => rail'[q] = rail[q]
  BY DEF PacingInv, RailsOK
<1>2. ASSUME NEW q \in Rails
      PROVE  /\ rail'[q].grant \in 0..Len(grants')
             /\ rail'[q].at \in {"queued", "requested"} => rail'[q].grant # 0
  <2>1. Len(grants) \in Nat
    BY DEF PacingInv, HistoryOK
  <2>2. CASE q = r
    BY <2>1, <2>2
  <2>3. CASE q # r
    BY <1>1, <2>3 DEF WireInv, HeldOK
  <2> QED
    BY <2>2, <2>3
<1>3. DrainingOK'
  BY DEF WireInv, DrainingOK
<1>4. WrittenOK' /\ FloorsNamed'
  BY DEF WireInv, WrittenOK, FloorsNamed
<1> QED
  BY <1>2, <1>3, <1>4 DEF WireInv, HeldOK

\* A step that hands out one place, to a rail that now holds it or holds none.
LEMMA WireReserved ==
  ASSUME PacingInv, WireInv, UNCHANGED <<clock, written, draining>>, NEW r \in Rails,
         reserve_command_grant(r), rail' = [rail EXCEPT ![r] = rail'[r]],
         \/ rail'[r].grant = Ticket
         \/ rail'[r].grant = rail[r].grant /\ ~(rail'[r].at \in {"queued", "requested"})
  PROVE  WireInv'
<1> DEFINE n == Len(grants)
<1>1. /\ grants' \in Seq(Grant) /\ Len(grants') = n + 1 /\ n \in Nat
      /\ \A i \in 1..n : grants'[i] = grants[i]
  BY ReserveKeeps DEF PacingInv, HistoryOK
<1>2. grants'[n + 1].endpoint = Endpoint[r] /\ grants'[n + 1].floor = Floor[r]
  BY <1>1 DEF reserve_command_grant, PacingInv, HistoryOK
<1>3. \A i \in 1..Len(grants') :
        \E q \in Rails : grants'[i].endpoint = Endpoint[q] /\ grants'[i].floor = Floor[q]
  <2> TAKE i \in 1..Len(grants')
  <2>1. CASE i \in 1..n
    BY <1>1, <2>1 DEF WireInv, FloorsNamed
  <2>2. CASE i = n + 1
    BY <1>2, <2>2
  <2> QED
    BY <1>1, <2>1, <2>2
<1>4. WrittenOK'
  BY <1>1 DEF WireInv, WrittenOK
<1>5. DrainingOK'
  BY <1>1 DEF WireInv, DrainingOK
<1>6. ASSUME NEW q \in Rails
      PROVE  /\ rail'[q].grant \in 0..Len(grants')
             /\ rail'[q].at \in {"queued", "requested"} => rail'[q].grant # 0
  <2>1. rail[q].grant \in 0..n /\ (rail[q].at \in {"queued", "requested"} => rail[q].grant # 0)
    BY DEF WireInv, HeldOK
  <2>2. CASE q # r
    <3>1. rail'[q] = rail[q]
      BY <2>2 DEF PacingInv, RailsOK
    <3> QED
      BY <1>1, <2>1, <3>1
  <2>3. CASE q = r /\ rail'[r].grant = Ticket
    BY <1>1, <2>3 DEF Ticket
  <2>4. CASE q = r /\ rail'[r].grant = rail[r].grant /\ ~(rail'[r].at \in {"queued", "requested"})
    BY <1>1, <2>1, <2>4
  <2> QED
    BY <2>2, <2>3, <2>4
<1> QED
  BY <1>3, <1>4, <1>5, <1>6 DEF WireInv, FloorsNamed, HeldOK

LEMMA NextWire == PacingInv /\ WireInv /\ [PacingNext]_pacingVars => WireInv'
<1> SUFFICES ASSUME PacingInv, WireInv, [PacingNext]_pacingVars PROVE WireInv'
  OBVIOUS
<1>0. /\ Len(grants) \in Nat /\ clock \in Nat /\ \A i \in 1..Len(grants) : grants[i].at \in Nat
      /\ rail \in [Rails -> [at : Phases, until : Nat, grant : Nat]]
      /\ draining \in [Rails -> 0..Len(grants)]
      /\ written \in SUBSET (1..Len(grants)) /\ \A i \in written : grants[i].at <= clock
  <2>1. \A i \in 1..Len(grants) : grants[i] \in Grant
    BY DEF PacingInv, HistoryOK
  <2>2. \A i \in 1..Len(grants) : grants[i].at \in Nat
    BY <2>1 DEF Grant
  <2>3. Len(grants) \in Nat /\ clock \in Nat
    BY DEF PacingInv, HistoryOK
  <2> QED
    BY <2>2, <2>3 DEF PacingInv, RailsOK, WireInv, WrittenOK, DrainingOK
<1>1. CASE UNCHANGED pacingVars
  BY <1>1 DEF WireInv, WrittenOK, FloorsNamed, HeldOK, DrainingOK, pacingVars
<1>2. CASE Tick
  <2>1. \A i \in written' : grants'[i].at <= clock'
    BY <1>0, <1>2 DEF Tick
  <2> QED
    BY <1>2, <2>1 DEF Tick, WireInv, WrittenOK, FloorsNamed, HeldOK, DrainingOK
<1>3. ASSUME NEW r \in Rails, spawn_due(r)
      PROVE  WireInv'
  <2>1. UNCHANGED <<clock, grants, written, draining>> /\ admit(r)
    BY <1>3 DEF spawn_due
  <2>2. /\ rail' = [rail EXCEPT ![r] = rail'[r]] /\ rail'[r].grant = 0
        /\ rail'[r].at \in {"idle", "dialling"}
    <3>1. CASE rail' = [rail EXCEPT ![r] = Idle(FreeAt(Recent(clock), clock))]
      <4>1. rail'[r] = Idle(FreeAt(Recent(clock), clock))
        BY <1>0, <3>1
      <4>2. rail' = [rail EXCEPT ![r] = rail'[r]]
        BY Zenon, <3>1, <4>1
      <4> QED
        BY <4>1, <4>2 DEF Idle, NoGrant
    <3>2. CASE rail' = [rail EXCEPT ![r] = [Idle(0) EXCEPT !.at = "dialling"]]
      <4>1. rail'[r] = [Idle(0) EXCEPT !.at = "dialling"]
        BY <1>0, <3>2
      <4> QED
        BY Zenon, <3>2, <4>1 DEF Idle, NoGrant
    <3> QED
      BY <2>1, <3>1, <3>2 DEF admit
  <2> QED
    BY Zenon, <1>0, <2>1, <2>2, WireMoves
<1>4. ASSUME NEW r \in Rails, establish(r)
      PROVE  WireInv'
  <2>1. /\ UNCHANGED <<clock, written, draining>> /\ reserve_command_grant(r)
        /\ rail' = [rail EXCEPT ![r] = [rail[r] EXCEPT !.at = "queued", !.grant = Ticket]]
    BY Zenon, <1>4 DEF establish
  <2>2. rail'[r] = [rail[r] EXCEPT !.at = "queued", !.grant = Ticket] /\ rail'[r].grant = Ticket
    BY <1>0, <2>1
  <2> QED
    BY Zenon, <2>1, <2>2, WireReserved
<1>5. ASSUME NEW r \in Rails, emit_resubscribe(r)
      PROVE  WireInv'
  <2>1. UNCHANGED <<clock, written, draining>> /\ reserve_command_grant(r)
    BY <1>5 DEF emit_resubscribe
  <2>2. CASE rail' = [rail EXCEPT ![r] =
                        [at |-> "requested", until |-> Deadline(r), grant |-> Ticket]]
    <3>1. rail'[r] = [at |-> "requested", until |-> Deadline(r), grant |-> Ticket]
      BY <1>0, <2>2
    <3>2. rail'[r].grant = Ticket
      BY <3>1
    <3>3. rail' = [rail EXCEPT ![r] = rail'[r]]
      BY Zenon, <2>2, <3>1
    <3> QED
      BY <2>1, <3>2, <3>3, WireReserved
  <2>3. CASE rail' = [rail EXCEPT ![r].at = "unreachable"]
    <3>1. rail'[r] = [rail[r] EXCEPT !.at = "unreachable"] /\ rail' = [rail EXCEPT ![r] = rail'[r]]
      BY <1>0, <2>3
    <3>2. rail'[r].grant = rail[r].grant /\ rail'[r].at = "unreachable"
      BY <1>0, <3>1
    <3> QED
      BY Zenon, <2>1, <3>1, <3>2, WireReserved
  <2> QED
    BY <1>5, <2>2, <2>3 DEF emit_resubscribe
<1>6. ASSUME NEW r \in Rails, Ended(r)
      PROVE  rail' = [rail EXCEPT ![r] = rail'[r]] /\ rail'[r].grant = 0 /\ rail'[r].at = "idle"
  BY <1>0, <1>6 DEF Ended, Idle, NoGrant
<1>7. ASSUME NEW r \in Rails, resubscribe(r)
      PROVE  WireInv'
  <2>1. /\ rail[r].grant \in 1..Len(grants) /\ grants[rail[r].grant].at <= clock
        /\ written' = written \cup {rail[r].grant} /\ UNCHANGED <<clock, grants, draining>>
    <3>1. In(r, {"queued", "requested"}) /\ Due(rail[r].grant)
      BY <1>7 DEF resubscribe
    <3>2. rail[r].grant \in 0..Len(grants) /\ rail[r].grant # 0
      BY <3>1 DEF In, WireInv, HeldOK
    <3> QED
      BY <1>0, <1>7, <3>1, <3>2 DEF resubscribe, Due
  <2>2. \/ rail' = [rail EXCEPT ![r] = [Idle(0) EXCEPT !.at = "up"]]
        \/ rail' = [rail EXCEPT ![r] = [Idle(clock + Window) EXCEPT !.at = "awaiting"]]
    BY Zenon, <1>7 DEF resubscribe
  <2>3. /\ rail' = [rail EXCEPT ![r] = rail'[r]] /\ rail'[r].grant = 0
        /\ rail'[r].at \in {"up", "awaiting"}
    BY <1>0, <2>2 DEF Idle, NoGrant
  <2>4. written' \in SUBSET (1..Len(grants)) /\ \A i \in written' : grants[i].at <= clock
    BY Zenon, <1>0, <2>1
  <2> QED
    BY Zenon, <1>0, <2>1, <2>2, <2>3, <2>4, WireMoves
<1>8. ASSUME NEW r \in Rails, Answered(r)
      PROVE  WireInv'
  <2>1. /\ UNCHANGED <<clock, grants, written, draining>>
        /\ rail' = [rail EXCEPT ![r] = rail'[r]] /\ rail'[r].grant = 0 /\ rail'[r].at = "up"
    BY <1>0, <1>8 DEF Answered, Idle, NoGrant
  <2> QED
    BY <1>0, <2>1, WireMoves
<1>9. ASSUME NEW r \in Rails, TaskEnds(r)
      PROVE  WireInv'
  BY Zenon, <1>0, <1>6, <1>9, WireMoves DEF TaskEnds
<1>10. ASSUME NEW r \in Rails, fence(r)
       PROVE  WireInv'
  <2>1. draining' = [draining EXCEPT ![r] = draining'[r]] /\ draining'[r] \in 0..Len(grants)
    <3>1. rail[r].grant \in 0..Len(grants)
      BY DEF WireInv, HeldOK
    <3> QED
      BY <1>0, <1>10, <3>1 DEF fence
  <2> QED
    BY Zenon, <1>0, <1>6, <1>10, <2>1, WireMoves DEF fence
<1>11. ASSUME NEW r \in Rails, Drained(r)
       PROVE  WireInv'
  <2>1. draining[r] \in 1..Len(grants) /\ UNCHANGED <<clock, grants, rail>>
    BY <1>0, <1>11 DEF Drained, NoGrant
  <2>2. written' \in SUBSET (1..Len(grants)) /\ \A i \in written' : grants[i].at <= clock
    <3>1. CASE written' = written
      BY <1>0, <3>1
    <3>2. CASE Due(draining[r]) /\ written' = written \cup {draining[r]}
      BY Zenon, <1>0, <2>1, <3>2 DEF Due
    <3> QED
      BY <1>11, <3>1, <3>2 DEF Drained
  <2>3. draining' \in [Rails -> 0..Len(grants)]
    BY <1>0, <1>11 DEF Drained, NoGrant
  <2> QED
    BY <2>1, <2>2, <2>3 DEF WireInv, WrittenOK, FloorsNamed, HeldOK, DrainingOK
<1> QED
  BY <1>1, <1>2, <1>3, <1>4, <1>5, <1>7, <1>8, <1>9, <1>10, <1>11
  DEF PacingNext, RailStep, escalate_recovery, fence_if_expired

\* The argument behind WireKeepsPace, by the number of commands written after one: the next of
\* them was granted a floor later and has one fewer after it.
LEMMA Outrun ==
  ASSUME PacingInv, WireInv, NEW e, NEW f \in Nat,
         \A r \in Rails : Endpoint[r] = e => Floor[r] >= f
  PROVE  \A i \in WrittenTo(e) :
           grants[i].at + f * Cardinality({j \in WrittenTo(e) : j > i}) <= clock
<1> DEFINE W == WrittenTo(e)
           After(i) == {j \in W : j > i}
           Holds(k) == \A i \in W : Cardinality(After(i)) = k => grants[i].at + f * k <= clock
<1>1. /\ W \in SUBSET (1..Len(grants)) /\ Len(grants) \in Nat /\ clock \in Nat
      /\ \A i \in W : /\ grants[i].endpoint = e /\ grants[i].at <= clock
                      /\ grants[i].at \in Nat /\ grants[i].floor \in Nat /\ grants[i].floor >= f
  <2>1. \A i \in 1..Len(grants) : grants[i] \in Grant
    BY DEF PacingInv, HistoryOK
  <2>2. W \in SUBSET (1..Len(grants)) /\ Len(grants) \in Nat /\ clock \in Nat
    <3>1. W \subseteq written
      BY DEF WrittenTo
    <3> HIDE DEF W
    <3>2. Len(grants) \in Nat /\ clock \in Nat
      BY DEF PacingInv, HistoryOK
    <3>3. written \in SUBSET (1..Len(grants))
      BY DEF WireInv, WrittenOK
    <3> QED
      BY <3>1, <3>2, <3>3
  <2>3. ASSUME NEW i \in W
        PROVE  /\ grants[i].endpoint = e /\ grants[i].at <= clock
               /\ grants[i].at \in Nat /\ grants[i].floor \in Nat /\ grants[i].floor >= f
    <3>1. i \in 1..Len(grants) /\ grants[i].endpoint = e /\ grants[i].at <= clock
      BY <2>2 DEF WireInv, WrittenOK, WrittenTo
    <3>2. PICK r \in Rails : grants[i].endpoint = Endpoint[r] /\ grants[i].floor = Floor[r]
      BY <3>1 DEF WireInv, FloorsNamed
    <3> QED
      BY <2>1, <3>1, <3>2 DEF Grant
  <2> QED
    BY <2>2, <2>3
<1> HIDE DEF W
<1>2. ASSUME NEW i \in W
      PROVE  IsFiniteSet(After(i)) /\ Cardinality(After(i)) \in Nat
  <2>1. IsFiniteSet(1..Len(grants))
    BY <1>1, FS_Interval
  <2>2. After(i) \in SUBSET (1..Len(grants))
    BY Zenon, <1>1
  <2> HIDE DEF After
  <2>3. IsFiniteSet(After(i))
    BY <2>1, <2>2, FS_Subset
  <2> QED
    BY <2>3, FS_CardinalityType
<1>3. Holds(0)
  BY <1>1
<1>4. ASSUME NEW k \in Nat, Holds(k)
      PROVE  Holds(k + 1)
  <2> SUFFICES ASSUME NEW i \in W, Cardinality(After(i)) = k + 1
               PROVE  grants[i].at + f * (k + 1) <= clock
    OBVIOUS
  <2>1. After(i) # {}
    BY FS_EmptySet
  <2>2. After(i) \in SUBSET Nat
    <3>1. After(i) \subseteq W
      OBVIOUS
    <3>2. W \subseteq 1..Len(grants) /\ 1..Len(grants) \subseteq Nat
      BY <1>1
    <3> HIDE DEF After
    <3> QED
      BY Zenon, <3>1, <3>2
  <2>3. PICK j \in After(i) : \A m \in After(i) : j <= m
    <3> HIDE DEF After
    <3> QED
      BY <2>1, <2>2, LeastNatural
  <2>4. j \in W /\ j > i /\ i \in 1..Len(grants) /\ j \in 1..Len(grants)
    BY <1>1
  <2>5. After(j) = After(i) \ {j}
    <3>1. ASSUME NEW m \in W
          PROVE  m > j <=> (m > i /\ m # j)
      <4>1. m \in 1..Len(grants)
        BY <1>1
      <4>2. m > i => j <= m
        BY <2>3
      <4> QED
        BY <2>4, <4>1, <4>2
    <3> QED
      BY <3>1
  <2>6. Cardinality(After(j)) = k
    <3>1. IsFiniteSet(After(i))
      BY <1>2
    <3> HIDE DEF After
    <3>2. Cardinality(After(i) \ {j}) = Cardinality(After(i)) - 1
      BY <2>3, <3>1, FS_RemoveElement
    <3> QED
      BY <2>5, <3>2
  <2>7. grants[j].at + f * k <= clock
    BY <1>4, <2>4, <2>6
  <2>8. grants[j].at >= grants[i].at + grants[j].floor
    BY <1>1, <2>4 DEF PacingInv, Spaced
  <2>9. f * (k + 1) = f * k + f /\ f * k \in Nat
    OBVIOUS
  <2> HIDE DEF After
  <2>10. grants[j].floor >= f /\ grants[j].floor \in Nat /\ grants[i].at \in Nat /\ grants[j].at \in Nat
    BY <1>1, <2>4
  <2> QED
    BY <1>1, <2>7, <2>8, <2>9, <2>10
<1> HIDE DEF After
<1>5. \A k \in Nat : Holds(k)
  <2> HIDE DEF Holds
  <2> SUFFICES ASSUME NEW k \in Nat, ~Holds(k) PROVE FALSE
    OBVIOUS
  <2> DEFINE Bad == {m \in Nat : ~Holds(m)}
  <2>1. PICK m \in Bad : \A y \in Bad : m <= y
    <3>1. Bad \in SUBSET Nat /\ Bad # {}
      OBVIOUS
    <3> HIDE DEF Bad
    <3> QED
      BY <3>1, LeastNatural
  <2>2. m # 0 /\ m \in Nat /\ ~Holds(m)
    BY <1>3
  <2>3. m - 1 \in Nat /\ Holds(m - 1)
    BY <2>1, <2>2
  <2> QED
    BY <1>4, <2>2, <2>3
<1>6. ASSUME NEW i \in W
      PROVE  grants[i].at + f * Cardinality(After(i)) <= clock
  BY <1>2, <1>5
<1> QED
  BY <1>6 DEF After, W

\* Commands written to an endpoint never outrun its floor, whatever the number of rails, the
\* places left unused and the tasks that write after their connection was replaced.
THEOREM WirePaceAlways == PacingSpec => []WireKeepsPace
<1>1. ASSUME PacingInv, WireInv
      PROVE  WireKeepsPace
  <2> SUFFICES ASSUME NEW e \in Endpoints, NEW f \in {Floor[r] : r \in Rails},
                      \A r \in Rails : Endpoint[r] = e => Floor[r] >= f
               PROVE  \A i \in WrittenTo(e) :
                        grants[i].at + f * Cardinality({j \in WrittenTo(e) : j > i}) <= clock
    BY DEF WireKeepsPace
  <2>1. f \in Nat
    BY PacingAssumption
  <2> QED
    BY <1>1, <2>1, Outrun
<1> QED
  BY <1>1, InitWire, NextWire, PacingInvariant, PTL DEF PacingSpec
=============================================================================

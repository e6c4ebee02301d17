--------------------------- MODULE PoolFeedProofs ----------------------------
(***************************************************************************)
(* What holds of a pooled market for every number of sockets, every key    *)
(* set and every window: the published key never rewinds, a socket's       *)
(* recorded history is its own connection's, the counters partition the    *)
(* arrivals.  The content of the evidence window plays no part in any of   *)
(* these arguments, so the invariant leaves it untyped.                    *)
(***************************************************************************)
EXTENDS PoolFeed, TLAPS

(* The provers are given more than their default time: the contexts of the  *)
(* leaves below are long.                                                   *)
USE SMTT(20), SMTT(40)

\* A gate of the declared fields, the window left open.
Shape(g) ==
  /\ g = [last_key |-> g.last_key, replaced |-> g.replaced, last_published |-> g.last_published,
          evidence |-> g.evidence, degraded |-> g.degraded]
  /\ g.last_key \in [Sockets -> MaybeKey]
  /\ g.replaced \in [Sockets -> BOOLEAN]
  /\ g.last_published \in MaybeKey

Conns == [Sockets -> [top : MaybeKey] \cup {Vacant}]

\* The inductive invariant: types, and the three facts that carry each other.
IInv ==
  /\ Shape(gate) /\ tally \in Tallies /\ conn \in Conns
  /\ book \in [key : MaybeKey, content : Contents \cup {Blank}, live : BOOLEAN]
  /\ judged \in Nat /\ failed \in Nat
  /\ CountsPartition
  /\ HistoryFollowsConnection
  /\ FloorIsBook

\* Keys are ordered integers, and the absent key is none of them.
LEMMA KeyTypes == Keys \subseteq Int /\ NoKey \notin Keys /\ 0 \in Sockets
BY PoolAssumption DEF PoolAssumption

\* What PoolGate::admit does to an armed gate, as far as its caller depends on it: a withdrawal
\* keeps every record; any other verdict keeps the floor and raises only the delivering socket's
\* own key; and only a key above the floor is published.
LEMMA AdmitFacts ==
  ASSUME NEW g, Shape(g), IsArmed(g),
         NEW s \in Sockets, NEW key \in MaybeKey, NEW content \in Contents
  PROVE  LET r == Admit(g, s, key, content) IN
         /\ r.verdict = "Degrade" =>
              /\ Shape(r.gate) /\ ~IsArmed(r.gate)
         /\ r.verdict # "Degrade" =>
              /\ key \in Keys
              /\ Shape(r.gate) /\ IsArmed(r.gate)
              /\ r.gate.last_published = g.last_published
              /\ r.gate.last_key = [g.last_key EXCEPT ![s] = Higher(@, key)]
         /\ r.verdict = "Publish" => g.last_published = NoKey \/ key > g.last_published
<1> DEFINE v == Violation(g, s, key, content)
           ledger == IF Holds(g.evidence, key) THEN g.evidence
                     ELSE Record(g.evidence, key, content)
           own == IF ClassifyKey(g.last_key[s], key) \in {"First", "Advance"} THEN key
                  ELSE g.last_key[s]
           W == [gate |-> [g EXCEPT !.degraded = v], verdict |-> "Degrade"]
           A == [gate |-> [g EXCEPT !.evidence = ledger, !.last_key[s] = own],
                 verdict |-> Verdict(g, s, key)]
<1>1. Admit(g, s, key, content) = IF v # "None" THEN W ELSE A
  BY Zenon DEF Admit
<1>2. v \in {"None", "KeyUnavailable", "EqualKeyContentMismatch", "ConnectionInversion",
             "ReconnectRewind"}
  BY Zenon DEF Violation
<1>3. Verdict(g, s, key) \in {"Publish", "Duplicate", "Stale"}
  BY DEF Verdict
<1>4. ASSUME v = "None" PROVE key \in Keys /\ ClassifyKey(g.last_key[s], key) # "Inversion"
  BY <1>4 DEF Violation, MaybeKey
<1>5. ASSUME v = "None" PROVE own = Higher(g.last_key[s], key)
  <2>1. g.last_key[s] \in MaybeKey
    BY DEF Shape
  <2> QED BY <1>4, <1>5, <2>1, KeyTypes DEF ClassifyKey, Higher, MaybeKey
<1>6. Verdict(g, s, key) = "Publish" /\ key \in Keys =>
        g.last_published = NoKey \/ key > g.last_published
  BY KeyTypes DEF Verdict, ClassifyKey
<1>7. CASE v # "None"
  <2>1. Admit(g, s, key, content) = W
    BY <1>1, <1>7
  <2> HIDE DEF v
  <2>2. Shape([g EXCEPT !.degraded = v]) /\ [g EXCEPT !.degraded = v].degraded = v
    BY DEF Shape
  <2>3. v # Armed
    BY <1>2, <1>7 DEF Armed
  <2> DEFINE h == [g EXCEPT !.degraded = v]
  <2>4. Shape(h) /\ ~IsArmed(h)
    BY <2>2, <2>3 DEF IsArmed
  <2>5. W = [gate |-> h, verdict |-> "Degrade"]
    OBVIOUS
  <2> HIDE DEF h, W
  <2>6. Admit(g, s, key, content).gate = h /\ Admit(g, s, key, content).verdict = "Degrade"
    BY <2>1, <2>5
  <2> QED BY <2>4, <2>6, Zenon
<1>8. CASE v = "None"
  <2>1. Admit(g, s, key, content) = A
    BY <1>1, <1>8
  <2>2. key \in Keys /\ own = Higher(g.last_key[s], key) /\ own \in MaybeKey
    BY <1>4, <1>5, <1>8 DEF Shape, MaybeKey
  <2> HIDE DEF v, ledger, own
  <2> DEFINE h == [g EXCEPT !.evidence = ledger, !.last_key[s] = own]
  <2>3. h = [last_key |-> [g.last_key EXCEPT ![s] = own], replaced |-> g.replaced,
             last_published |-> g.last_published, evidence |-> ledger, degraded |-> g.degraded]
    <3> DEFINE lk == g.last_key  rp == g.replaced  lp == g.last_published  dg == g.degraded
               ev == g.evidence
    <3>1. g = [last_key |-> lk, replaced |-> rp, last_published |-> lp, evidence |-> ev,
               degraded |-> dg]
      BY DEF Shape
    <3> HIDE DEF lk, rp, lp, dg, ev
    <3> DEFINE g1 == [g EXCEPT !.evidence = ledger]
    <3>2. g1 = [last_key |-> lk, replaced |-> rp, last_published |-> lp, evidence |-> ledger,
                degraded |-> dg]
      BY <3>1
    <3>3. h = [g1 EXCEPT !.last_key[s] = own]
      BY <3>1
    <3> HIDE DEF g1, h
    <3>4. h = [last_key |-> [lk EXCEPT ![s] = own], replaced |-> rp, last_published |-> lp,
               evidence |-> ledger, degraded |-> dg]
      BY <3>2, <3>3
    <3> QED BY <3>4 DEF lk, rp, lp, dg
  <2>4. [g.last_key EXCEPT ![s] = own] \in [Sockets -> MaybeKey]
    BY <2>2 DEF Shape
  <2>5. Shape(h) /\ IsArmed(h) /\ h.last_published = g.last_published
        /\ h.last_key = [g.last_key EXCEPT ![s] = Higher(@, key)]
    BY <2>2, <2>3, <2>4 DEF Shape, IsArmed
  <2> HIDE DEF h
  <2>6. A = [gate |-> h, verdict |-> Verdict(g, s, key)]
    BY DEF h
  <2> HIDE DEF A
  <2>7. /\ Admit(g, s, key, content).gate = h
        /\ Admit(g, s, key, content).verdict = Verdict(g, s, key)
    BY <2>1, <2>6
  <2>8. Verdict(g, s, key) # "Degrade"
    BY <1>3
  <2> QED BY <1>6, <2>2, <2>5, <2>7, <2>8, ZenonT(30)
<1> QED BY <1>7, <1>8

\* The gate g with its socket records rewritten.
Rerecorded(g, lk, rp) == [[g EXCEPT !.last_key = lk] EXCEPT !.replaced = rp]

\* Any rewrite of the socket records leaves the floor and the licence alone.
LEMMA SocketRecords ==
  ASSUME NEW g, Shape(g), NEW lk \in [Sockets -> MaybeKey], NEW rp \in [Sockets -> BOOLEAN]
  PROVE  /\ Shape(Rerecorded(g, lk, rp)) /\ Rerecorded(g, lk, rp).last_key = lk
         /\ Rerecorded(g, lk, rp).last_published = g.last_published
         /\ Rerecorded(g, lk, rp).degraded = g.degraded
<1> DEFINE ev == g.evidence  lp == g.last_published  dg == g.degraded
           g1 == [g EXCEPT !.last_key = lk]
           h == [g1 EXCEPT !.replaced = rp]
<1>1. lp \in MaybeKey
  BY DEF Shape
<1>2. g1 = [last_key |-> lk, replaced |-> g.replaced, last_published |-> lp, evidence |-> ev,
            degraded |-> dg]
  BY DEF Shape
<1> HIDE DEF g1
<1>3. h = [last_key |-> lk, replaced |-> rp, last_published |-> lp, evidence |-> ev,
           degraded |-> dg]
  BY <1>2
<1> HIDE DEF h
<1>4. Shape(h) /\ h.last_key = lk /\ h.last_published = lp /\ h.degraded = dg
  BY <1>1, <1>3 DEF Shape
<1> QED BY <1>4 DEF h, g1, Rerecorded

\* reset_socket and retire_socket clear exactly one socket's key.
LEMMA ClearFacts ==
  ASSUME NEW g, Shape(g), NEW s \in Sockets
  PROVE  \A h \in {ResetSocket(g, s), RetireSocket(g, s)} :
           /\ Shape(h) /\ h.last_key = [g.last_key EXCEPT ![s] = NoKey]
           /\ h.last_published = g.last_published /\ h.degraded = g.degraded
<1> DEFINE lk == [g.last_key EXCEPT ![s] = NoKey]
           rp == [g.replaced EXCEPT ![s] = TRUE]
<1>1. /\ lk \in [Sockets -> MaybeKey] /\ rp \in [Sockets -> BOOLEAN]
      /\ g.replaced \in [Sockets -> BOOLEAN]
  BY DEF Shape, MaybeKey
<1>2. RetireSocket(g, s) = Rerecorded(g, lk, rp)
  BY DEF Rerecorded, RetireSocket, Shape
<1>3. ResetSocket(g, s) = Rerecorded(g, lk, g.replaced)
  <2> DEFINE ev == g.evidence  lp == g.last_published  dg == g.degraded  r0 == g.replaced
             l0 == g.last_key
  <2>1. g = [last_key |-> l0, replaced |-> r0, last_published |-> lp, evidence |-> ev,
             degraded |-> dg]
    BY DEF Shape
  <2> HIDE DEF ev, lp, dg, r0, l0
  <2>2. [g EXCEPT !.last_key = lk] = [last_key |-> lk, replaced |-> r0, last_published |-> lp,
                                      evidence |-> ev, degraded |-> dg]
    BY <2>1
  <2>3. [[g EXCEPT !.last_key = lk] EXCEPT !.replaced = r0] = [g EXCEPT !.last_key = lk]
    BY ZenonT(30), <2>2
  <2> QED BY <2>3 DEF ResetSocket, Rerecorded, r0
<1> HIDE DEF lk, rp
<1>4. /\ Shape(RetireSocket(g, s)) /\ RetireSocket(g, s).last_key = lk
      /\ RetireSocket(g, s).last_published = g.last_published
      /\ RetireSocket(g, s).degraded = g.degraded
  BY <1>1, <1>2, SocketRecords
<1>5. /\ Shape(ResetSocket(g, s)) /\ ResetSocket(g, s).last_key = lk
      /\ ResetSocket(g, s).last_published = g.last_published
      /\ ResetSocket(g, s).degraded = g.degraded
  BY <1>1, <1>3, SocketRecords
<1> QED BY <1>4, <1>5, SMT DEF lk

\* reassign_socket moves a connection's key with it and leaves none behind.
LEMMA ReassignFacts ==
  ASSUME NEW g, Shape(g), NEW from \in Sockets, NEW to \in Sockets, from # to
  PROVE  /\ Shape(ReassignSocket(g, from, to))
         /\ ReassignSocket(g, from, to).last_key
              = [g.last_key EXCEPT ![to] = g.last_key[from], ![from] = NoKey]
         /\ ReassignSocket(g, from, to).last_published = g.last_published
         /\ ReassignSocket(g, from, to).degraded = g.degraded
<1> DEFINE lk == [g.last_key EXCEPT ![to] = g.last_key[from], ![from] = NoKey]
           rp == [g.replaced EXCEPT ![to] = g.replaced[from], ![from] = TRUE]
<1>1. lk \in [Sockets -> MaybeKey] /\ rp \in [Sockets -> BOOLEAN]
  BY DEF Shape, MaybeKey
<1>2. ReassignSocket(g, from, to) = Rerecorded(g, lk, rp)
  BY Zenon DEF Rerecorded, ReassignSocket, Shape
<1> HIDE DEF lk, rp
<1>3. /\ Shape(ReassignSocket(g, from, to)) /\ ReassignSocket(g, from, to).last_key = lk
      /\ ReassignSocket(g, from, to).last_published = g.last_published
      /\ ReassignSocket(g, from, to).degraded = g.degraded
  BY <1>1, <1>2, SocketRecords
<1> QED BY <1>3, SMT DEF lk

\* exchange_sockets never rearms a gate.
LEMMA ExchangeFacts ==
  ASSUME NEW g, Shape(g), NEW a \in Sockets, NEW b \in Sockets
  PROVE  Shape(ExchangeSockets(g, a, b)) /\ ExchangeSockets(g, a, b).degraded = g.degraded
<1> DEFINE lk == [g.last_key EXCEPT ![a] = g.last_key[b], ![b] = g.last_key[a]]
           rp == [g.replaced EXCEPT ![a] = g.replaced[b], ![b] = g.replaced[a]]
<1>1. lk \in [Sockets -> MaybeKey] /\ rp \in [Sockets -> BOOLEAN]
  BY DEF Shape, MaybeKey
<1>2. ExchangeSockets(g, a, b) = Rerecorded(g, lk, rp)
  BY Zenon DEF Rerecorded, ExchangeSockets, Shape
<1> HIDE DEF lk, rp
<1> QED BY <1>1, <1>2, SocketRecords

\* committed moves the floor and nothing else the arguments read.
LEMMA CommittedFacts ==
  ASSUME NEW g, Shape(g), NEW key \in Keys
  PROVE  LET h == Committed(g, key) IN
         /\ Shape(h) /\ h.last_key = g.last_key /\ h.last_published = key
         /\ h.degraded = g.degraded
BY DEF Shape, Committed, MaybeKey

-----------------------------------------------------------------------------

Books == [key : MaybeKey, content : Contents \cup {Blank}, live : BOOLEAN]

\* What each tally operation does to the counts.
LEMMA TallyFacts ==
  ASSUME NEW t \in Tallies, NEW s \in Sockets
  PROVE  /\ TallyCommitted(t, s) \in Tallies
         /\ TallyCommitted(t, s).published = t.published + 1
         /\ TallyCommitted(t, s).duplicate_drops = t.duplicate_drops
         /\ TallyCommitted(t, s).stale_drops = t.stale_drops
         /\ TallyAdmitted(t, "Duplicate") = [t EXCEPT !.duplicate_drops = @ + 1]
         /\ TallyAdmitted(t, "Stale") = [t EXCEPT !.stale_drops = @ + 1]
         /\ t.duplicate_drops > 0 =>
              /\ TallyRecovered(t, s) \in Tallies
              /\ TallyRecovered(t, s).published = t.published + 1
              /\ TallyRecovered(t, s).duplicate_drops = t.duplicate_drops - 1
              /\ TallyRecovered(t, s).stale_drops = t.stale_drops
<1> DEFINE p == t.published  bs == t.by_socket  dd == t.duplicate_drops  sd == t.stale_drops
           lp == t.last_publisher  bs1 == [bs EXCEPT ![s] = @ + 1]
<1>1. t = [published |-> p, by_socket |-> bs, duplicate_drops |-> dd, stale_drops |-> sd,
           last_publisher |-> lp]
      /\ p \in Nat /\ bs \in [Sockets -> Nat] /\ dd \in Nat /\ sd \in Nat
      /\ lp \in Sockets \cup {-1}
  BY DEF Tallies
<1>2. bs1 \in [Sockets -> Nat]
  BY <1>1
<1> DEFINE t1 == [t EXCEPT !.published = p + 1]
           t2 == [t1 EXCEPT !.by_socket = bs1]
<1>3. TallyCommitted(t, s) = [t2 EXCEPT !.last_publisher = s]
  BY <1>1 DEF TallyCommitted
<1>4. dd > 0 => TallyRecovered(t, s) = [t2 EXCEPT !.duplicate_drops = dd - 1]
  <2> DEFINE less == IF dd = 0 THEN 0 ELSE dd - 1
  <2>1. TallyRecovered(t, s) = [t2 EXCEPT !.duplicate_drops = less]
    BY <1>1 DEF TallyRecovered
  <2>2. dd > 0 => less = dd - 1
    BY <1>1
  <2> HIDE DEF less, t2
  <2> QED BY <2>1, <2>2, Zenon
<1> HIDE DEF p, bs, dd, sd, lp, bs1
<1>5. t1 = [published |-> p + 1, by_socket |-> bs, duplicate_drops |-> dd, stale_drops |-> sd,
            last_publisher |-> lp]
  BY <1>1
<1> HIDE DEF t1
<1>6. t2 = [published |-> p + 1, by_socket |-> bs1, duplicate_drops |-> dd, stale_drops |-> sd,
            last_publisher |-> lp]
  BY <1>5
<1> HIDE DEF t2
<1>7. TallyCommitted(t, s) =
        [published |-> p + 1, by_socket |-> bs1, duplicate_drops |-> dd, stale_drops |-> sd,
         last_publisher |-> s]
  BY <1>3, <1>6
<1>8. dd > 0 => TallyRecovered(t, s) =
        [published |-> p + 1, by_socket |-> bs1, duplicate_drops |-> dd - 1, stale_drops |-> sd,
         last_publisher |-> lp]
  BY <1>4, <1>6
<1>9. /\ TallyCommitted(t, s) \in Tallies /\ TallyCommitted(t, s).published = p + 1
      /\ TallyCommitted(t, s).duplicate_drops = dd /\ TallyCommitted(t, s).stale_drops = sd
  BY <1>1, <1>2, <1>7 DEF Tallies
<1>10. dd > 0 =>
         /\ TallyRecovered(t, s) \in Tallies /\ TallyRecovered(t, s).published = p + 1
         /\ TallyRecovered(t, s).duplicate_drops = dd - 1
         /\ TallyRecovered(t, s).stale_drops = sd
  BY <1>1, <1>2, <1>8 DEF Tallies
<1>11. /\ TallyAdmitted(t, "Duplicate") = [t EXCEPT !.duplicate_drops = @ + 1]
       /\ TallyAdmitted(t, "Stale") = [t EXCEPT !.stale_drops = @ + 1]
  BY DEF TallyAdmitted
<1> QED BY <1>9, <1>10, <1>11 DEF p, dd, sd

\* A fresh pool has no connection, no key and no count.
LEMMA InitIInv == Init => IInv
<1> SUFFICES ASSUME Init PROVE IInv
  OBVIOUS
<1>1. Shape(gate) /\ gate.last_key = [s \in Sockets |-> NoKey] /\ gate.last_published = NoKey
      /\ IsArmed(gate)
  BY DEF Init, NewGate, Shape, MaybeKey, IsArmed
<1>2. tally \in Tallies /\ tally.published = 0 /\ tally.duplicate_drops = 0
      /\ tally.stale_drops = 0
  BY DEF Init, NewTally, Tallies
<1>3. CountsPartition
  <2>1. judged = 0 /\ failed = 0
    BY DEF Init
  <2>2. gate.degraded = Armed
    BY <1>1 DEF IsArmed
  <2> QED BY <1>2, <2>1, <2>2 DEF CountsPartition, IsArmed
<1>4. HistoryFollowsConnection
  BY <1>1 DEF Init, HistoryFollowsConnection
<1> QED BY <1>1, <1>2, <1>3, <1>4 DEF Init, IInv, Conns, FloorIsBook, MaybeKey

\* Dialling fills an empty socket with a connection that has delivered nothing.
LEMMA DialIInv == ASSUME IInv, NEW s \in Sockets, Dial(s) PROVE IInv'
<1>1. /\ Shape(gate') /\ gate'.last_key = [gate.last_key EXCEPT ![s] = NoKey]
      /\ gate'.last_published = gate.last_published /\ gate'.degraded = gate.degraded
  BY ClearFacts DEF IInv, Dial
<1>2. conn' \in Conns /\ UNCHANGED <<tally, book, judged, failed>>
  BY DEF IInv, Dial, Conns, MaybeKey
<1>3. HistoryFollowsConnection'
  <2> SUFFICES ASSUME IsArmed(gate'), NEW t \in Sockets
               PROVE gate'.last_key[t] = IF conn'[t] = Vacant THEN NoKey ELSE conn'[t].top
    BY DEF HistoryFollowsConnection
  <2>1. gate.last_key[t] = IF conn[t] = Vacant THEN NoKey ELSE conn[t].top
    BY <1>1 DEF IInv, HistoryFollowsConnection, IsArmed
  <2> QED BY <1>1, <2>1 DEF IInv, Dial, Conns, Shape
<1> QED BY <1>1, <1>2, <1>3 DEF IInv, CountsPartition, FloorIsBook, IsArmed

\* A standby's end empties its socket and the gate's record of it together.
LEMMA EndStandbyIInv == ASSUME IInv, NEW s \in Sockets, EndStandby(s) PROVE IInv'
<1>1. /\ Shape(gate') /\ gate'.last_key = [gate.last_key EXCEPT ![s] = NoKey]
      /\ gate'.last_published = gate.last_published /\ gate'.degraded = gate.degraded
  BY ClearFacts DEF IInv, EndStandby
<1>2. conn' \in Conns /\ UNCHANGED <<tally, book, judged, failed>>
  BY DEF IInv, EndStandby, Conns
<1>3. HistoryFollowsConnection'
  <2> SUFFICES ASSUME IsArmed(gate'), NEW t \in Sockets
               PROVE gate'.last_key[t] = IF conn'[t] = Vacant THEN NoKey ELSE conn'[t].top
    BY DEF HistoryFollowsConnection
  <2>1. gate.last_key[t] = IF conn[t] = Vacant THEN NoKey ELSE conn[t].top
    BY <1>1 DEF IInv, HistoryFollowsConnection, IsArmed
  <2> QED BY <1>1, <2>1 DEF IInv, EndStandby, Conns, Shape
<1> QED BY <1>1, <1>2, <1>3 DEF IInv, CountsPartition, FloorIsBook, IsArmed

\* A loss touches nothing but the book's authority.
LEMMA LoseIInv == ASSUME IInv, Lose PROVE IInv'
<1>1. book' \in Books /\ book'.key = book.key
  BY Zenon DEF IInv, Lose, Books
<1> QED BY <1>1 DEF IInv, Lose, Books, CountsPartition, HistoryFollowsConnection, FloorIsBook

\* The primary's end: its successor brings its own history with it, whichever standby it was.
LEMMA EndPrimaryIInv == ASSUME IInv, EndPrimary PROVE IInv'
<1> DEFINE retired == RetireSocket(gate, 0)
<1>0. 0 \in Sockets /\ UNCHANGED <<judged, failed>>
  BY KeyTypes DEF EndPrimary
<1>1. /\ Shape(retired) /\ retired.last_key = [gate.last_key EXCEPT ![0] = NoKey]
      /\ retired.last_published = gate.last_published /\ retired.degraded = gate.degraded
  BY <1>0, ClearFacts DEF IInv
<1> HIDE DEF retired
<1>2. ASSUME NEW from \in Standbys,
             gate' = ReassignSocket(retired, from, 0),
             tally' = TallyReassigned(tally, from, 0),
             conn' = [conn EXCEPT ![0] = conn[from], ![from] = Vacant],
             UNCHANGED book
      PROVE  IInv'
  <2>0. from \in Sockets /\ from # 0 /\ conn[from] # Vacant
    BY <1>2 DEF Standbys, Occupied
  <2>1. /\ Shape(gate')
        /\ gate'.last_key = [retired.last_key EXCEPT ![0] = retired.last_key[from],
                                                     ![from] = NoKey]
        /\ gate'.last_published = gate.last_published /\ gate'.degraded = gate.degraded
    <3> DEFINE h == ReassignSocket(retired, from, 0)
    <3>1. /\ Shape(h) /\ h.last_published = retired.last_published
          /\ h.last_key = [retired.last_key EXCEPT ![0] = retired.last_key[from], ![from] = NoKey]
          /\ h.degraded = retired.degraded
      <4>1. Shape(retired) /\ 0 \in Sockets /\ from \in Sockets /\ from # 0
        BY <1>0, <1>1, <2>0
      <4> QED BY <4>1, ReassignFacts
    <3> HIDE DEF h
    <3>2. gate' = h
      BY <1>2 DEF h
    <3> QED BY <1>1, <3>1, <3>2
  <2>2. conn' \in Conns
    BY <1>0, <1>2, <2>0 DEF IInv, Conns
  <2>3. /\ tally' \in Tallies /\ tally'.published = tally.published
        /\ tally'.duplicate_drops = tally.duplicate_drops /\ tally'.stale_drops = tally.stale_drops
    <3> DEFINE moved == [tally EXCEPT !.last_publisher = 0]
    <3>1. tally' = tally \/ tally' = moved
      BY <1>2 DEF TallyReassigned
    <3>2. /\ moved \in Tallies /\ moved.published = tally.published
          /\ moved.duplicate_drops = tally.duplicate_drops
          /\ moved.stale_drops = tally.stale_drops
      BY <1>0 DEF IInv, Tallies
    <3> QED BY ZenonT(30), <3>1, <3>2 DEF IInv
  <2>4. HistoryFollowsConnection'
    <3> SUFFICES ASSUME IsArmed(gate'), NEW t \in Sockets
                 PROVE gate'.last_key[t] = IF conn'[t] = Vacant THEN NoKey ELSE conn'[t].top
      BY DEF HistoryFollowsConnection
    <3>1. \A u \in Sockets : gate.last_key[u] = IF conn[u] = Vacant THEN NoKey ELSE conn[u].top
      BY <2>1 DEF IInv, HistoryFollowsConnection, IsArmed
    <3> QED BY <1>0, <1>1, <1>2, <2>0, <2>1, <3>1 DEF IInv, Conns, Shape
  <2> QED BY <1>0, <1>2, <2>1, <2>2, <2>3, <2>4
          DEF IInv, CountsPartition, FloorIsBook, IsArmed
<1>3. ASSUME gate' = retired, conn' = [conn EXCEPT ![0] = Vacant],
             book' = [book EXCEPT !.live = FALSE], UNCHANGED tally
      PROVE  IInv'
  <2>1. book' \in Books /\ book'.key = book.key
    BY Zenon, <1>3 DEF IInv, Books
  <2>2. conn' \in Conns
    BY Zenon, <1>3 DEF IInv, Conns
  <2>3. HistoryFollowsConnection'
    <3> SUFFICES ASSUME IsArmed(gate'), NEW t \in Sockets
                 PROVE gate'.last_key[t] = IF conn'[t] = Vacant THEN NoKey ELSE conn'[t].top
      BY DEF HistoryFollowsConnection
    <3>1. gate.last_key[t] = IF conn[t] = Vacant THEN NoKey ELSE conn[t].top
      BY <1>1, <1>3 DEF IInv, HistoryFollowsConnection, IsArmed
    <3> QED BY <1>0, <1>1, <1>3, <3>1 DEF IInv, Conns, Shape
  <2> QED BY <1>0, <1>1, <1>3, <2>1, <2>2, <2>3
          DEF IInv, Books, CountsPartition, FloorIsBook, IsArmed
<1> QED BY <1>2, <1>3, Zenon DEF EndPrimary, retired

\* One arrival, whatever its verdict: at most one count moves, only the delivering socket's key
\* moves, and the floor moves only with the book and only up.
LEMMA ArriveIInv ==
  ASSUME IInv, NEW s \in Sockets, NEW key \in MaybeKey, NEW content \in Contents,
         NEW ok \in BOOLEAN, Arrive(s, key, content, ok)
  PROVE  /\ IInv'
         /\ book.key # NoKey => book'.key # NoKey /\ book'.key >= book.key
<1> DEFINE r == Admit(gate, s, key, content)
           heard == [conn EXCEPT ![s].top = Higher(@, key)]
<1>1. IsArmed(gate) /\ s \in Occupied /\ judged' = judged + 1
  BY DEF Arrive
<1>2. /\ r.verdict = "Degrade" => Shape(r.gate) /\ ~IsArmed(r.gate)
      /\ r.verdict # "Degrade" =>
           /\ key \in Keys /\ Shape(r.gate) /\ IsArmed(r.gate)
           /\ r.gate.last_published = gate.last_published
           /\ r.gate.last_key = [gate.last_key EXCEPT ![s] = Higher(@, key)]
      /\ r.verdict = "Publish" => gate.last_published = NoKey \/ key > gate.last_published
  BY <1>1, AdmitFacts DEF IInv
<1> HIDE DEF r
<1>3. /\ book \in Books /\ tally \in Tallies /\ conn \in Conns
      /\ judged \in Nat /\ failed \in Nat /\ Shape(gate)
      /\ gate.last_published = book.key
      /\ tally.published + tally.duplicate_drops + tally.stale_drops + failed = judged
      /\ \A u \in Sockets : gate.last_key[u] = IF conn[u] = Vacant THEN NoKey ELSE conn[u].top
  BY <1>1 DEF IInv, Books, FloorIsBook, CountsPartition, HistoryFollowsConnection
<1>9. book.key # NoKey => book.key >= book.key
  <2>1. book.key \in MaybeKey
    BY <1>3 DEF Books
  <2>2. book.key # NoKey => book.key \in Int
    BY Zenon, <2>1, KeyTypes DEF MaybeKey
  <2> QED BY <2>2
<1>4. ASSUME r.verdict # "Degrade"
      PROVE  /\ heard \in Conns
             /\ \A u \in Sockets :
                  r.gate.last_key[u] = IF heard[u] = Vacant THEN NoKey ELSE heard[u].top
  <2>1. conn[s] \in [top : MaybeKey] /\ conn[s] # Vacant
    BY <1>1, <1>3 DEF Occupied, Conns
  <2>2. Higher(conn[s].top, key) \in MaybeKey
    BY <2>1 DEF Higher, MaybeKey
  <2> DEFINE c == [top |-> Higher(conn[s].top, key)]
  <2>3. c \in [top : MaybeKey] /\ c # Vacant
    BY <2>2, FeedAssumption DEF FeedAssumption, MaybeKey
  <2>4. heard = [conn EXCEPT ![s] = c]
    <3>1. [conn[s] EXCEPT !.top = Higher(conn[s].top, key)] = c
      BY <2>1
    <3>2. heard = [conn EXCEPT ![s] = [conn[s] EXCEPT !.top = Higher(conn[s].top, key)]]
      OBVIOUS
    <3> QED BY Zenon, <3>1, <3>2
  <2>5. gate.last_key[s] = conn[s].top
    BY <1>3, <2>1
  <2>6. c.top = Higher(conn[s].top, key)
    OBVIOUS
  <2> HIDE DEF c, heard
  <2>7. heard \in Conns
    BY <1>3, <2>3, <2>4 DEF Conns
  <2>8. ASSUME NEW u \in Sockets
        PROVE r.gate.last_key[u] = IF heard[u] = Vacant THEN NoKey ELSE heard[u].top
    <3>1. CASE u = s
      BY <1>2, <1>3, <1>4, <2>3, <2>4, <2>5, <2>6, <3>1 DEF Conns, Shape
    <3>2. CASE u # s
      BY <1>2, <1>3, <1>4, <2>4, <3>2 DEF Conns, Shape
    <3> QED BY <3>1, <3>2
  <2> QED BY <2>7, <2>8
<1> HIDE DEF heard
<1>5. CASE r.verdict = "Publish" /\ Publish(s, key, content, ok, r.gate) /\ conn' = heard
  <2>0. r.verdict # "Degrade"
    BY <1>5
  <2>1. CASE ok
    <3>1. /\ gate' = Committed(r.gate, key) /\ tally' = TallyCommitted(tally, s)
          /\ book' = [key |-> key, content |-> content, live |-> TRUE] /\ failed' = failed
      BY <1>5, <2>1 DEF Publish
    <3>2. /\ Shape(gate') /\ gate'.last_key = r.gate.last_key /\ gate'.last_published = key
          /\ gate'.degraded = r.gate.degraded
      BY <1>2, <2>0, <3>1, CommittedFacts
    <3>3. /\ tally' \in Tallies /\ tally'.published = tally.published + 1
          /\ tally'.duplicate_drops = tally.duplicate_drops
          /\ tally'.stale_drops = tally.stale_drops
      BY <1>3, <3>1, TallyFacts
    <3>4. book' \in Books /\ book'.key = key
      BY <1>2, <2>0, <3>1 DEF Books, MaybeKey
    <3>5. CountsPartition'
      BY <1>1, <1>2, <1>3, <2>0, <3>1, <3>2, <3>3 DEF CountsPartition, IsArmed, Tallies
    <3>6. HistoryFollowsConnection'
      BY <1>4, <1>5, <2>0, <3>2 DEF HistoryFollowsConnection
    <3>7. FloorIsBook'
      BY <3>2, <3>4 DEF FloorIsBook
    <3>8. book.key # NoKey => book'.key # NoKey /\ book'.key >= book.key
      <4>1. key \in Int /\ key # NoKey
        BY Zenon, <1>2, <2>0, KeyTypes
      <4>2. book.key # NoKey => book.key \in Int /\ key > book.key
        BY ZenonT(30), <1>2, <1>3, <1>5, KeyTypes DEF Books, MaybeKey
      <4> QED BY <3>4, <4>1, <4>2
    <3> QED BY <1>1, <1>3, <1>4, <1>5, <2>0, <3>1, <3>2, <3>3, <3>4, <3>5, <3>6, <3>7, <3>8
            DEF IInv, Books
  <2>2. CASE ~ok
    <3>1. /\ gate' = r.gate /\ tally' = tally /\ failed' = failed + 1
          /\ book' = [book EXCEPT !.live = FALSE]
      BY <1>5, <2>2 DEF Publish
    <3>2. book' \in Books /\ book'.key = book.key
      BY ZenonT(30), <1>3, <3>1 DEF Books
    <3>3. CountsPartition'
      BY <1>1, <1>2, <1>3, <2>0, <3>1 DEF CountsPartition, IsArmed, Tallies
    <3>4. HistoryFollowsConnection' /\ FloorIsBook'
      BY <1>2, <1>3, <1>4, <1>5, <2>0, <3>1, <3>2 DEF HistoryFollowsConnection, FloorIsBook
    <3> QED BY <1>1, <1>2, <1>3, <1>4, <1>5, <2>0, <1>9, <3>1, <3>2, <3>3, <3>4
            DEF IInv, Books
  <2> QED BY <2>1, <2>2
<1>6. CASE r.verdict \in {"Duplicate", "Stale"} /\ Drop(r.verdict, r.gate) /\ conn' = heard
  <2>1. /\ gate' = r.gate /\ tally' = TallyAdmitted(tally, r.verdict)
        /\ book' = book /\ failed' = failed
    BY <1>6 DEF Drop
  <2>2. /\ tally' \in Tallies /\ tally'.published = tally.published
        /\ tally'.duplicate_drops + tally'.stale_drops
             = tally.duplicate_drops + tally.stale_drops + 1
    BY <1>3, <1>6, <2>1 DEF TallyAdmitted, Tallies
  <2>3. CountsPartition'
    BY <1>1, <1>2, <1>3, <1>6, <2>1, <2>2 DEF CountsPartition, IsArmed, Tallies
  <2>4. HistoryFollowsConnection' /\ FloorIsBook'
    BY <1>2, <1>3, <1>4, <1>6, <2>1 DEF HistoryFollowsConnection, FloorIsBook
  <2> QED BY <1>1, <1>2, <1>3, <1>4, <1>6, <1>9, <2>1, <2>2, <2>3, <2>4
          DEF IInv, Books
<1>7. CASE r.verdict = "Duplicate" /\ Recover(s, content, ok, r.gate) /\ conn' = heard
  <2> DEFINE noted == TallyAdmitted(tally, "Duplicate")
  <2>1. /\ gate' = r.gate /\ failed' = failed
        /\ tally' = IF ok THEN TallyRecovered(noted, s) ELSE noted
        /\ book' = IF ok THEN [book EXCEPT !.content = content, !.live = TRUE] ELSE book
    BY <1>7 DEF Recover
  <2>2. /\ noted \in Tallies /\ noted.published = tally.published
        /\ noted.duplicate_drops = tally.duplicate_drops + 1
        /\ noted.stale_drops = tally.stale_drops
    BY <1>3 DEF TallyAdmitted, Tallies
  <2> HIDE DEF noted
  <2>3. noted.duplicate_drops > 0
    BY <1>3, <2>2 DEF Tallies
  <2>4. /\ TallyRecovered(noted, s) \in Tallies
        /\ TallyRecovered(noted, s).published = tally.published + 1
        /\ TallyRecovered(noted, s).duplicate_drops = noted.duplicate_drops - 1
        /\ TallyRecovered(noted, s).stale_drops = tally.stale_drops
    BY <2>2, <2>3, TallyFacts
  <2>5. /\ tally' \in Tallies /\ tally'.stale_drops = tally.stale_drops
        /\ tally'.published + tally'.duplicate_drops
             = tally.published + tally.duplicate_drops + 1
    BY <1>3, <2>1, <2>2, <2>4 DEF Tallies
  <2>6. book' \in Books /\ book'.key = book.key
    BY ZenonT(30), <1>3, <2>1 DEF Books
  <2>7. CountsPartition'
    BY <1>1, <1>2, <1>3, <1>7, <2>1, <2>5 DEF CountsPartition, IsArmed, Tallies
  <2>8. HistoryFollowsConnection' /\ FloorIsBook'
    BY <1>2, <1>3, <1>4, <1>7, <2>1, <2>6 DEF HistoryFollowsConnection, FloorIsBook
  <2> QED BY <1>1, <1>2, <1>3, <1>4, <1>7, <1>9, <2>1, <2>5, <2>6, <2>7, <2>8
          DEF IInv, Books
<1>8. CASE /\ r.verdict = "Degrade" /\ Withdraw(r.gate)
           /\ conn' = IF tally.last_publisher \in Standbys THEN Exchanged(tally.last_publisher)
                      ELSE conn
  <2> DEFINE to == tally.last_publisher
  <2>0. 0 \in Sockets
    BY KeyTypes
  <2>1. book' = book /\ failed' = failed
    BY <1>8 DEF Withdraw
  <2>2. CASE to \in Standbys
    <3>1. to \in Sockets /\ gate' = ExchangeSockets(r.gate, 0, to)
          /\ tally' = TallyExchanged(tally, 0, to) /\ conn' = Exchanged(to)
      BY <1>8, <2>2 DEF Withdraw, Standbys, Occupied
    <3>2. Shape(gate') /\ ~IsArmed(gate')
      BY Zenon, <1>2, <1>8, <2>0, <3>1, ExchangeFacts DEF IsArmed
    <3>3. tally' = tally \/ tally' = [tally EXCEPT !.last_publisher = 0]
          \/ tally' = [tally EXCEPT !.last_publisher = to]
      BY <3>1 DEF TallyExchanged
    <3> HIDE DEF to
    <3>4. /\ tally' \in Tallies /\ tally'.published = tally.published
          /\ tally'.duplicate_drops = tally.duplicate_drops
          /\ tally'.stale_drops = tally.stale_drops
      BY <1>3, <2>0, <3>1, <3>3 DEF Tallies
    <3>5. conn' \in Conns
      BY <1>3, <2>0, <3>1 DEF Conns, Exchanged
    <3>6. CountsPartition'
      BY <1>1, <1>3, <2>1, <3>2, <3>4 DEF CountsPartition, Tallies
    <3> QED BY <1>1, <1>3, <1>9, <2>1, <3>2, <3>4, <3>5, <3>6
            DEF IInv, Books, HistoryFollowsConnection, FloorIsBook
  <2>3. CASE to \notin Standbys
    <3>1. gate' = r.gate /\ tally' = tally /\ conn' = conn
      BY <1>8, <2>3 DEF Withdraw
    <3>2. Shape(gate') /\ ~IsArmed(gate')
      BY <1>2, <1>8, <3>1
    <3>3. CountsPartition'
      BY <1>1, <1>3, <2>1, <3>1, <3>2 DEF CountsPartition, Tallies
    <3> QED BY <1>1, <1>3, <1>9, <2>1, <3>1, <3>2, <3>3
            DEF IInv, Books, HistoryFollowsConnection, FloorIsBook
  <2> QED BY <2>2, <2>3
<1> QED BY <1>5, <1>6, <1>7, <1>8, ZenonT(30) DEF Arrive, r, heard

\* Every step keeps the invariant.
LEMMA NextIInv == IInv /\ [Next]_vars => IInv'
<1> SUFFICES ASSUME IInv, [Next]_vars PROVE IInv'
  OBVIOUS
<1>1. ASSUME NEW s \in Sockets, Dial(s) PROVE IInv'
  BY <1>1, DialIInv
<1>2. ASSUME NEW s \in Sockets, NEW key \in MaybeKey, NEW content \in Contents,
             NEW ok \in BOOLEAN, Arrive(s, key, content, ok)
      PROVE IInv'
  BY <1>2, ArriveIInv
<1>3. ASSUME NEW s \in Sockets, EndStandby(s) PROVE IInv'
  BY <1>3, EndStandbyIInv
<1>4. CASE UNCHANGED vars
  BY <1>4 DEF vars, IInv, CountsPartition, HistoryFollowsConnection, FloorIsBook
<1> QED BY <1>1, <1>2, <1>3, <1>4, LoseIInv, EndPrimaryIInv DEF Next, MaybeKey

\* For every set of sockets and keys, whatever the venue delivers: the counters partition the
\* arrivals, a socket's history is its own connection's, and the floor is the book's key.
THEOREM Invariance == Spec => [](CountsPartition /\ HistoryFollowsConnection /\ FloorIsBook)
<1>1. IInv => CountsPartition /\ HistoryFollowsConnection /\ FloorIsBook
  BY DEF IInv
<1> QED BY InitIInv, NextIInv, <1>1, PTL DEF Spec

\* No step of any socket, dial, end or loss moves the published key back.
THEOREM NoRewind == Spec => KeyNeverRewinds
<1> DEFINE Up == book.key # NoKey => book'.key # NoKey /\ book'.key >= book.key
<1>1. IInv /\ [Next]_vars => [Up]_vars
  <2> SUFFICES ASSUME IInv, Next PROVE Up
    BY Zenon
  <2>0. book.key # NoKey => book.key \in Int
    BY Zenon, KeyTypes DEF IInv, MaybeKey
  <2>1. ASSUME NEW s \in Sockets, NEW key \in MaybeKey, NEW content \in Contents,
               NEW ok \in BOOLEAN, Arrive(s, key, content, ok)
        PROVE Up
    BY <2>1, ArriveIInv, Zenon
  <2>2. ASSUME NEW s \in Sockets, Dial(s) \/ EndStandby(s) PROVE Up
    BY <2>0, <2>2 DEF Dial, EndStandby
  <2>3. CASE Lose \/ EndPrimary
    <3>1. book' = book \/ book' = [book EXCEPT !.live = FALSE]
      BY <2>3, Zenon DEF Lose, EndPrimary
    <3>2. book'.key = book.key
      BY <3>1 DEF IInv
    <3> QED BY <2>0, <3>2
  <2> QED BY <2>1, <2>2, <2>3 DEF Next, MaybeKey
<1> QED BY <1>1, InitIInv, NextIInv, PTL DEF Spec, KeyNeverRewinds
=============================================================================

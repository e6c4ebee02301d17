------------------------------ MODULE PoolFeed -------------------------------
(***************************************************************************)
(* One market published over a socket pool while the licence stands: the   *)
(* gate, and the way its caller drives it (Supervisor::apply_update,       *)
(* publish_pooled, recover_pooled, spawn_due, on_pool_slot_ended).  The    *)
(* venue is unconstrained: any socket may deliver any key with any         *)
(* content.  What happens once the licence is withdrawn is Supervisor's.   *)
(*                                                                         *)
(* conn[s] is the connection in socket s, reduced to the highest key it    *)
(* has delivered; it is carried with the connection, never with the        *)
(* socket, which is what the gate's own bookkeeping is compared against.   *)
(***************************************************************************)
EXTENDS PoolGate

CONSTANTS
  MaxJudged,        \* bound on the arrivals judged
  Vacant,           \* no connection in this socket
  Blank             \* the content of a book never based

ASSUME FeedAssumption ==
  /\ MaxJudged \in Nat
  /\ Vacant \notin [top : Keys \cup {NoKey}]

VARIABLES gate, tally, conn, book, judged, failed

vars == <<gate, tally, conn, book, judged, failed>>

Occupied == {s \in Sockets : conn[s] # Vacant}
Standbys == Occupied \ {0}

Init ==
  /\ gate = NewGate /\ tally = NewTally
  /\ conn = [s \in Sockets |-> Vacant]
  /\ book = [key |-> NoKey, content |-> Blank, live |-> FALSE]
  /\ judged = 0 /\ failed = 0

\* spawn_due fills an empty socket with a fresh connection.
Dial(s) ==
  /\ conn[s] = Vacant
  /\ conn' = [conn EXCEPT ![s] = [top |-> NoKey]]
  /\ gate' = ResetSocket(gate, s)
  /\ UNCHANGED <<tally, book, judged, failed>>

\* publish_pooled: the gate learns of the arrival only after the book took it.
Publish(s, key, content, ok, admitted) ==
  \/ /\ ok
     /\ gate' = Committed(admitted, key)
     /\ tally' = TallyCommitted(tally, s)
     /\ book' = [key |-> key, content |-> content, live |-> TRUE]
     /\ UNCHANGED failed
  \/ /\ ~ok
     /\ gate' = admitted
     /\ book' = [book EXCEPT !.live = FALSE]
     /\ failed' = failed + 1
     /\ UNCHANGED tally

\* recover_pooled: a redelivery of the published key rebases a book that lost its authority.
Recover(s, content, ok, admitted) ==
  /\ gate' = admitted
  /\ tally' = IF ok THEN TallyRecovered(TallyAdmitted(tally, "Duplicate"), s)
              ELSE TallyAdmitted(tally, "Duplicate")
  /\ book' = IF ok THEN [book EXCEPT !.content = content, !.live = TRUE] ELSE book
  /\ UNCHANGED failed

Drop(verdict, admitted) ==
  /\ gate' = admitted
  /\ tally' = TallyAdmitted(tally, verdict)
  /\ UNCHANGED <<book, failed>>

\* degrade_pool: the last publisher's connection, if it still has one, becomes the primary.
Withdraw(admitted) ==
  LET to == tally.last_publisher
      moves == to \in Standbys
  IN  /\ gate' = IF moves THEN ExchangeSockets(admitted, 0, to) ELSE admitted
      /\ tally' = IF moves THEN TallyExchanged(tally, 0, to) ELSE tally
      /\ UNCHANGED <<book, failed>>

Exchanged(to) == [conn EXCEPT ![0] = conn[to], ![to] = conn[0]]

Higher(a, b) == IF a = NoKey \/ (b # NoKey /\ b > a) THEN b ELSE a

\* Supervisor::apply_update under an armed pool, for one arrival.
Arrive(s, key, content, ok) ==
  LET r == Admit(gate, s, key, content)
      redelivered == key # NoKey /\ EvidenceMatches(gate, key, content)
      heard == [conn EXCEPT ![s].top = Higher(@, key)]
  IN  /\ IsArmed(gate) /\ s \in Occupied /\ judged < MaxJudged
      /\ judged' = judged + 1
      /\ \/ r.verdict = "Publish" /\ Publish(s, key, content, ok, r.gate) /\ conn' = heard
         \/ /\ r.verdict = "Duplicate" /\ redelivered /\ ~book.live
            /\ Recover(s, content, ok, r.gate) /\ conn' = heard
         \/ /\ r.verdict = "Duplicate" /\ ~(redelivered /\ ~book.live)
            /\ Drop("Duplicate", r.gate) /\ conn' = heard
         \/ r.verdict = "Stale" /\ Drop("Stale", r.gate) /\ conn' = heard
         \/ /\ r.verdict = "Degrade" /\ Withdraw(r.gate)
            /\ conn' = IF tally.last_publisher \in Standbys THEN Exchanged(tally.last_publisher)
                       ELSE conn

\* report_loss: a frame received and lost on any socket of an armed pool.
Lose ==
  /\ book.live
  /\ book' = [book EXCEPT !.live = FALSE]
  /\ UNCHANGED <<gate, tally, conn, judged, failed>>

\* on_standby_ended: the socket's session is over and its next one is a replacement.
EndStandby(s) ==
  /\ s \in Standbys
  /\ conn' = [conn EXCEPT ![s] = Vacant]
  /\ gate' = RetireSocket(gate, s)
  /\ UNCHANGED <<tally, book, judged, failed>>

\* on_pool_slot_ended and take_over: the first standby's connection moves to socket 0, and only
\* with no survivor does the book lose its authority.
EndPrimary ==
  LET retired == RetireSocket(gate, 0)
  IN  /\ conn[0] # Vacant
      /\ \/ \E from \in Standbys :
              /\ \A other \in Standbys : from <= other
              /\ gate' = ReassignSocket(retired, from, 0)
              /\ tally' = TallyReassigned(tally, from, 0)
              /\ conn' = [conn EXCEPT ![0] = conn[from], ![from] = Vacant]
              /\ UNCHANGED book
         \/ /\ Standbys = {}
            /\ gate' = retired
            /\ conn' = [conn EXCEPT ![0] = Vacant]
            /\ book' = [book EXCEPT !.live = FALSE]
            /\ UNCHANGED tally
      /\ UNCHANGED <<judged, failed>>

Next ==
  \/ \E s \in Sockets : Dial(s)
  \/ \E s \in Sockets, key \in Keys \cup {NoKey}, content \in Contents, ok \in BOOLEAN :
       Arrive(s, key, content, ok)
  \/ Lose
  \/ \E s \in Sockets : EndStandby(s)
  \/ EndPrimary

Spec == Init /\ [][Next]_vars

-----------------------------------------------------------------------------
(* Properties                                                              *)

MaybeKey == Keys \cup {NoKey}
Reasons == {"KeyUnavailable", "EqualKeyContentMismatch", "ConnectionInversion", "ReconnectRewind"}
Gates == [last_key : [Sockets -> MaybeKey], replaced : [Sockets -> BOOLEAN],
          last_published : MaybeKey,
          evidence : [entries : Seq([key : Keys, content : Contents]), bytes : Nat],
          degraded : Reasons \cup {Armed}]
Tallies == [published : Nat, by_socket : [Sockets -> Nat], duplicate_drops : Nat,
            stale_drops : Nat, last_publisher : Sockets \cup {-1}]

\* The gate, its tally and the book keep their types under any arrival.
TypeOK ==
  /\ gate \in Gates /\ tally \in Tallies
  /\ conn \in [Sockets -> [top : MaybeKey] \cup {Vacant}]
  /\ book \in [key : MaybeKey, content : Contents \cup {Blank}, live : BOOLEAN]
  /\ judged \in Nat /\ failed \in Nat

\* The ledger never exceeds either of its bounds, accounts for exactly the bytes it holds, and
\* records one content per key: eviction, oversize arrivals and repeats included.
EvidenceExact ==
  LET l == gate.evidence IN
  /\ Len(l.entries) <= MaxEvidenceEntries
  /\ l.bytes = BytesOf(l.entries)
  /\ l.bytes <= MaxEvidenceBytes
  /\ \A i, j \in DOMAIN l.entries : l.entries[i].key = l.entries[j].key => i = j

\* "The two totals stay a partition of what arrived": every arrival an armed gate judged is in
\* exactly one count, or is one whose application failed, or is the one that withdrew the
\* licence; a recovery base is moved between the counts, never held by both.
CountsPartition ==
  tally.published + tally.duplicate_drops + tally.stale_drops + failed
    = judged - (IF IsArmed(gate) THEN 0 ELSE 1)

\* What the gate holds about a socket is the history of the connection in that socket, through
\* replacement and role moves: a vacant socket holds none, so a fresh connection can never be
\* judged against another connection's stream.
HistoryFollowsConnection ==
  IsArmed(gate) =>
    \A s \in Sockets : gate.last_key[s] = IF conn[s] = Vacant THEN NoKey ELSE conn[s].top

\* While the licence stands the gate's floor is the key the book holds: an application that
\* failed leaves the floor, and so the key, free to publish again.
FloorIsBook == IsArmed(gate) => gate.last_published = book.key

\* No arrival, from any socket in any order, moves the published key back.
KeyNeverRewinds == [][book.key # NoKey => book'.key # NoKey /\ book'.key >= book.key]_vars

\* The gate's books balance: the evidence keeps to its bounds and its byte count, the counts
\* partition the arrivals, and the floor is the key of the book.
BookkeepingIsExact == TypeOK /\ EvidenceExact /\ CountsPartition /\ FloorIsBook
=============================================================================

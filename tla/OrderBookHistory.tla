-------------------------- MODULE OrderBookHistory --------------------------
(***************************************************************************)
(* OrderBook with two history variables computed only from what each call  *)
(* returns: `log`, the delivery cursors handed out so far, and `replayed`, *)
(* the level map held by a consumer that took the state every new base     *)
(* published and then applied each returned mutation, nothing else.        *)
(***************************************************************************)
EXTENDS OrderBook

VARIABLES log, replayed

hvars == <<vars, log, replayed>>

-----------------------------------------------------------------------------

\* The cursors a reply hands out, in order.
ReplyCursors(r) ==
  CASE r.kind = "Commit" -> [i \in DOMAIN r.mutations |-> r.mutations[i].cursor]
    [] r.kind = "Cursor" -> <<r.cursor>>
    [] OTHER -> <<>>

\* Each coordinate occurs at most once in a commit, so the order of application is immaterial.
Replay(held, mutations) ==
  [c \in Complementable |->
     IF \E i \in DOMAIN mutations : mutations[i].coord = c
     THEN mutations[CHOOSE i \in DOMAIN mutations : mutations[i].coord = c].replacement
     ELSE held[c]]

\* A commit a consumer must take the state of: the first one, and every recovery base.
IsBase(r) == r.kind = "Commit" /\ (r.recovery_base \/ ~provenance)

ReplayedAfter(r) ==
  IF IsBase(r) THEN levels'
  ELSE IF r.kind = "Commit" THEN Replay(replayed, r.mutations)
  ELSE replayed

HInit == Init /\ log = <<>> /\ replayed = levels

HNext ==
  /\ Next
  /\ log' = log \o ReplyCursors(reply')
  /\ replayed' = ReplayedAfter(reply')

HSpec == HInit /\ [][HNext]_hvars

-----------------------------------------------------------------------------
(* Properties                                                              *)

Counter == 0..U64Max
Cursors == [epoch : Counter, position : Counter]
Continuities == [kind : {"Intact"}, epoch : Counter, next_position : Counter]
           \cup [kind : {"Lost"}, epoch : Counter, reason : ContinuityReasons \cup {"SyncDivergence"}]
Authorities == {Live, Unsubscribed, Synchronizing} \cup {Stale(r) : r \in AuthorityReasons}

\* The fields of OrderBook keep their types, and no counter leaves the u64 range: every
\* increment of book.rs is checked before anything is assigned.
TypeOK ==
  /\ levels \in PhysicalLevels
  /\ authority \in Authorities
  /\ continuity \in Continuities
  /\ revision \in Counter
  /\ provenance \in BOOLEAN
  /\ delta_rail \in BOOLEAN
  /\ deltas_since_snapshot \in Counter
  /\ sync_divergences \in Counter
  /\ log \in Seq(Cursors)
  /\ replayed \in PhysicalLevels

\* `next` is the cursor after `prev`: the next position, or the first of a later epoch.
Follows(prev, next) ==
  \/ next.epoch = prev.epoch /\ next.position = prev.position + 1
  \/ next.epoch > prev.epoch /\ next.position = 0

ContiguousLog(lg) ==
  /\ \A i \in 1..(Len(lg) - 1) : Follows(lg[i], lg[i + 1])
  /\ lg # <<>> => lg[1].position = 0

Extends(lg, cursor) == IF lg = <<>> THEN cursor.position = 0 ELSE Follows(lg[Len(lg)], cursor)

\* The cursors handed out are gap free and never reused: inside an epoch each is one past the
\* previous, every epoch that delivers anything starts at position 0, epochs only grow, and
\* the book's own next position is the one after the last delivery of its epoch.
StreamContiguous ==
  /\ ContiguousLog(log)
  /\ IsIntact(continuity) => Extends(log, Cursor(continuity.epoch, continuity.next_position))
  /\ IsLost(continuity) /\ log # <<>> => log[Len(log)].epoch <= continuity.epoch

\* A consumer that takes the state of each base and applies every mutation returned since
\* never drifts from the book: missed deltas, restated deltas, removals by zero, checkpoints,
\* losses and zero-resting levels included.  On a snapshot-built book the maps are identical;
\* on a delta rail they rest the same depth, because an agreeing checkpoint adopts the
\* venue's zero-quantity levels without a mutation.
ReplayMatchesBook ==
  /\ EconomicallyEqual(replayed, levels)
  /\ ~delta_rail => replayed = levels

\* What a reader may conclude from authority alone: a live book has an established base and an
\* unbroken mutation stream, a stale one has a broken stream, and a broken stream is never
\* advertised as live or as still synchronizing.
AuthorityMatchesContinuity ==
  /\ authority = Live => IsIntact(continuity) /\ provenance
  /\ (\E r \in AuthorityReasons : authority = Stale(r)) => IsLost(continuity)
  /\ IsLost(continuity) => authority # Live /\ authority # Synchronizing

\* What a call that leaves the revision alone leaves alone: all of the published state but
\* the stream's next position.
SameState ==
  /\ UNCHANGED <<levels, authority, provenance, sync_divergences>>
  /\ continuity'.kind = continuity.kind
  /\ continuity'.epoch = continuity.epoch

RevisionStep ==
  /\ revision' \in {revision, revision + 1}
  /\ ~SameState => revision' = revision + 1

\* A reader that skips a revision it has already seen misses nothing but stream positions:
\* every call that changes levels, authority, provenance, the epoch or the continuity kind
\* advances the revision by one, and no call advances it otherwise by more.
RevisionNamesState == [][RevisionStep]_hvars
=============================================================================

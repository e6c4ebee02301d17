---------------------------- MODULE ShardMarkets -----------------------------
(***************************************************************************)
(* The shard's market set (src/src/limitless/shard.rs): the entries, their *)
(* books, the incarnations a slug goes through as it is removed and added  *)
(* again, the tombstones of removed markets, and the shared segment's      *)
(* directory.  The shard is one record, and its methods are operators from *)
(* such records to such records, called in the order the code calls them.  *)
(*                                                                         *)
(* A book is what the shard and its consumers read of it: the venue state  *)
(* `at' it holds (0: none), its authority, and its stream: epoch, whether  *)
(* continuity is lost, next position.  An operator whose name begins with  *)
(* Segment does nothing in a shard that publishes into no segment.         *)
(***************************************************************************)
EXTENDS PoolGate, FiniteSets, SequencesExt

CONSTANTS
  Slugs,            \* market slugs
  Deployments,      \* the shards and venues considered
  MaxMarkets,       \* max_markets
  MaxRemoving,      \* MAX_REMOVING_MARKETS
  MaxRecoveryAttempts,
  NoBook,           \* no book retired, nothing in a segment slot
  NoGate            \* no gate yet

\* ShardConfig: the slots in use, whether they are a pool, the segment's directory (0: none), and
\* the set it starts with; and the venue: the market each key names, the newest key at the start.
IsDeployment(d) ==
  /\ d.slots \subseteq Sockets /\ 0 \in d.slots
  /\ d.licensed \in BOOLEAN /\ (d.licensed => Cardinality(d.slots) > 1)
  /\ d.dir \in Nat /\ d.set \in Seq(Slugs)
  /\ d.venue \in Seq(Slugs) /\ DOMAIN d.venue \subseteq Keys /\ d.head \in DOMAIN d.venue

ASSUME ShardAssumption ==
  /\ \A d \in Deployments : IsDeployment(d)
  /\ MaxMarkets \in Nat \ {0} /\ MaxRemoving \in Nat /\ MaxRecoveryAttempts \in Nat \ {0}
  /\ Keys \subseteq Nat \ {0}

Primary == 0
StandbySlots == Sockets \ {Primary}

-----------------------------------------------------------------------------
(* Books and entries                                                       *)

NewBook == [at |-> 0, auth |-> "Synchronizing", epoch |-> 0, lost |-> FALSE, next |-> 0]

\* report_continuity_loss.
Lost(book, why) == [book EXCEPT !.auth = why, !.lost = TRUE]

\* apply_snapshot of a sound candidate: a lost stream is rebased onto a fresh epoch; a first base
\* derives no mutation; otherwise the difference is published (one position stands for it).
Based(book, k) ==
  [book EXCEPT !.at = k, !.auth = "Live", !.lost = FALSE,
               !.epoch = IF book.lost THEN @ + 1 ELSE @,
               !.next = IF book.lost THEN 0 ELSE IF book.at \in {0, k} THEN @ ELSE @ + 1]

\* MarketEntry: `from' is subscribed_from (0: none), `based' base_accepted, `here'
\* based_this_generation, `reported' unavailable_reported, `reached' sockets_at_published.
NewEntry(book, version) ==
  [resident |-> TRUE, desired |-> TRUE, from |-> 0, dialled |-> FALSE, based |-> FALSE,
   here |-> FALSE, attempts |-> 0, reported |-> FALSE, installed |-> version,
   gate |-> NoGate, reached |-> {}, book |-> book]

Absent == [NewEntry(NewBook, 0) EXCEPT !.resident = FALSE, !.desired = FALSE]

\* A dial older than the entry subscribed to a book that no longer exists.
ClaimedBy(e, version) == e.installed <= version

IsLive(e) == e.book.auth = "Live"
Carried(e) == e.from # 0 \/ e.dialled
NeedsRecovery(e) == e.desired /\ e.based /\ ~IsLive(e)

DesiredSlugs(st) == {m \in Slugs : st.market[m].desired}
Resident(st) == {m \in Slugs : st.market[m].resident}
Undesired(st) == Resident(st) \ DesiredSlugs(st)

RecountRecovering(st) ==
  [st EXCEPT !.recovering = Cardinality({m \in Slugs : NeedsRecovery(st.market[m])})]

\* mutate_market: the count of markets owed a base follows the one entry that changed.
MutateMarket(st, m, e) ==
  LET debt(x) == IF NeedsRecovery(x) THEN 1 ELSE 0
  IN  [st EXCEPT !.market[m] = e, !.recovering = @ + debt(e) - debt(st.market[m])]

-----------------------------------------------------------------------------
(* The segment                                                             *)

\* ShardSegment: per slug its directory entry, the epoch it was retired at, and its state slot.
\* `broken' is the writer refusing every further publication; `failure' the latched refusal.
NewSegment ==
  [entry |-> [m \in Slugs |-> "none"], epoch |-> [m \in Slugs |-> 0],
   slot |-> [m \in Slugs |-> NoBook], live |-> 0, broken |-> FALSE, failure |-> FALSE]

HasSegment(st) == st.dep.dir > 0

SegmentPublish(st, m, book) ==
  IF ~HasSegment(st) \/ st.seg.failure THEN st
  ELSE IF st.seg.broken \/ st.seg.entry[m] = "none" THEN [st EXCEPT !.seg.failure = TRUE]
  ELSE [st EXCEPT !.seg.slot[m] = book]

\* What one pass over the markets published, for the markets whose book it changed.
SegmentPublishChanged(st, old) ==
  LET changed == {m \in Resident(st) : st.market[m].book # old.market[m].book}
  IN  IF ~HasSegment(st) \/ st.seg.failure \/ changed = {} THEN st
      ELSE IF st.seg.broken THEN [st EXCEPT !.seg.failure = TRUE]
      ELSE [st EXCEPT !.seg.slot = [m \in Slugs |->
                                      IF m \in changed THEN st.market[m].book ELSE @[m]]]

\* rebased_past: the next record a resumed book writes opens an epoch after the retired one.
RebasedPast(book, retired) == IF book.lost THEN book.epoch >= retired ELSE book.epoch > retired

SegmentInstallable(st, m) ==
  /\ st.seg.entry[m] # "live" /\ ~st.seg.failure
  /\ st.seg.entry[m] = "none" => Cardinality({n \in Slugs : st.seg.entry[n] # "none"}) < st.dep.dir

Installable(st, m) == HasSegment(st) => SegmentInstallable(st, m)

SegmentAccepts(st, m, book) ==
  /\ Installable(st, m)
  /\ HasSegment(st) /\ st.seg.entry[m] = "retired" => RebasedPast(book, st.seg.epoch[m])

SegmentInstall(st, m, book) ==
  IF ~HasSegment(st) THEN st
  ELSE SegmentPublish([st EXCEPT !.seg.entry[m] = "live", !.seg.epoch[m] = 0, !.seg.live = @ + 1],
                      m, book)

SegmentRetire(st, m, book) ==
  LET told == SegmentPublish(st, m, book)
  IN  IF ~HasSegment(st) \/ st.seg.entry[m] # "live" THEN told
      ELSE [told EXCEPT !.seg.entry[m] = "retired", !.seg.epoch[m] = book.epoch, !.seg.live = @ - 1]

-----------------------------------------------------------------------------
(* Adding and removing markets                                             *)

\* resume: a retired book continues its stream, through a loss.
Resume(book) == Lost(book, "SubscriptionLost")

\* Mutant: every incarnation starts a stream of its own.
InstallAfresh(st, m) ==
  LET written == SegmentInstall(st, m, NewBook)
  IN  IF ~Installable(st, m) THEN st
      ELSE IF written.seg.failure THEN written
      ELSE [written EXCEPT !.desired_count = @ + 1, !.desired_version = @ + 1,
                           !.market[m] = NewEntry(NewBook, st.desired_version + 1)]

\* install; a refusal by the segment has already taken the retired book.
Install(st, m) ==
  LET book == IF st.retired[m] = NoBook THEN NewBook ELSE Resume(st.retired[m])
      taken == [st EXCEPT !.retired[m] = NoBook]
      written == SegmentInstall(taken, m, book)
  IN  IF ~SegmentAccepts(taken, m, book) THEN taken
      ELSE IF written.seg.failure THEN written
      ELSE [written EXCEPT !.desired_count = @ + 1, !.desired_version = @ + 1,
                           !.market[m] = NewEntry(book, st.desired_version + 1)]

RetireAgreement(st, S) == [st EXCEPT !.agreeing = [s \in StandbySlots |-> @[s] \ S]]

\* close: the incarnation ends, its book unsubscribed and, with a segment, kept for a resume.
Close(st, m) ==
  LET e == st.market[m]
      closed == [e.book EXCEPT !.auth = "Unsubscribed"]
  IN  IF ~e.resident THEN st
      ELSE [RetireAgreement(SegmentRetire(st, m, closed), {m}) EXCEPT
              !.market[m] = Absent,
              !.retired[m] = IF HasSegment(st) THEN closed ELSE @,
              !.desired_count = IF e.desired THEN @ - 1 ELSE @,
              !.removing = SelectSeq(@, LAMBDA x : x # m),
              !.shadow = [s \in StandbySlots |-> [@[s] EXCEPT ![m] = 0]]]

CloseUndesired(st) == FoldLeft(Close, st, SetToSeq(Undesired(st)))

\* enqueue_removal: the oldest tombstones are closed past the bound.
EnqueueRemoval(st, m) ==
  LET waiting == Append(SelectSeq(st.removing, LAMBDA x : x # m), m)
      over == IF Len(waiting) > MaxRemoving THEN Len(waiting) - MaxRemoving ELSE 0
  IN  FoldLeft(Close, [st EXCEPT !.removing = SubSeq(waiting, over + 1, Len(waiting))],
               SubSeq(waiting, 1, over))

\* add_markets, one slug: wanted already, refused, re-added over its tombstone, or installed.
AddMarket(st, m) ==
  LET e == st.market[m]
      full == st.desired_count >= MaxMarkets
  IN  CASE e.desired -> st
        [] e.resident /\ ~e.desired ->
             IF full \/ ~Installable(st, m) THEN st ELSE Install(Close(st, m), m)
        [] OTHER ->
             IF full \/ Cardinality(Resident(st)) >= MaxMarkets + MaxRemoving THEN st
             ELSE Install(st, m)

AddMarkets(st, slugs) == RecountRecovering(FoldLeft(AddMarket, st, slugs))

\* remove_markets, one slug: a market the venue may still speak about keeps a tombstone.
RemoveMarket(st, m) ==
  LET unwanted == [RetireAgreement(st, {m}) EXCEPT !.market[m].desired = FALSE,
                                                   !.desired_count = @ - 1]
  IN  IF ~st.market[m].desired THEN st
      ELSE IF Carried(st.market[m]) THEN EnqueueRemoval(unwanted, m) ELSE Close(unwanted, m)

RemoveMarkets(st, slugs) ==
  LET wanted == {m \in ToSet(slugs) : st.market[m].desired}
  IN  RecountRecovering([FoldLeft(RemoveMarket, st, slugs) EXCEPT
                           !.desired_version = @ + Cardinality(wanted)])
=============================================================================

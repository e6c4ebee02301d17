------------------------------- MODULE Router --------------------------------
(***************************************************************************)
(* The daemon's routing table (src/src/bin/pmwsd.rs, Router): which shard  *)
(* holds which market, how much room each has left, and who wants what, as *)
(* operators on one record, called in the order the code calls them.       *)
(*                                                                         *)
(* The record also holds what the shards hold, since every command is      *)
(* answered by them before the next is taken: `held' is a shard's desired  *)
(* set, `leaving' its removed markets the venue has not let go of, `used'  *)
(* the markets its segment's directory has ever named.  `full' is the set  *)
(* of shards whose control queue is full while a command runs, and `torn'  *)
(* (history) the markets whose shard was changed by a command that failed. *)
(***************************************************************************)
EXTENDS Integers, Sequences, FiniteSets, SequencesExt, TLC

CONSTANTS
  Shards,           \* 0..n: shard indices
  Slugs,            \* market slugs, ordered
  Valid,            \* the ones is_market_slug accepts
  Sessions,         \* session identities
  Capacity,         \* markets_per_shard
  Entries,          \* entries of a segment's directory
  NoShard           \* no shard

ASSUME RouterAssumption ==
  /\ Shards = 0..(Cardinality(Shards) - 1) /\ NoShard \notin Shards
  /\ Slugs \subseteq Nat /\ Valid \subseteq Slugs
  /\ Capacity \in Nat \ {0} /\ Entries \in Nat

\* Router::new and install: configured markets are pinned.
NewRouter(configured) ==
  LET all == UNION {configured[i] : i \in Shards}
  IN  [assign |-> [m \in Slugs |-> IF m \in all THEN CHOOSE i \in Shards : m \in configured[i]
                                   ELSE NoShard],
       counts |-> [i \in Shards |-> Cardinality(configured[i])],
       demand |-> all, pinned |-> all, lessees |-> [m \in Slugs |-> {}],
       held |-> configured, leaving |-> [i \in Shards |-> {}], used |-> configured,
       torn |-> {}]

\* Demand::wanted.
Wanted(r, m) == m \in r.pinned \/ r.lessees[m] # {}
Assigned(r) == {m \in Slugs : r.assign[m] # NoShard}
\* Mutant: a record of demand is taken for demand.
UndesiredUnrecorded(r) == {m \in Assigned(r) : m \notin r.demand}

Undesired(r) == {m \in Assigned(r) : ~Wanted(r, m)}

-----------------------------------------------------------------------------
(* The shards' answers                                                     *)

\* What shard i takes of an add batch: markets it can give a directory entry, up to its capacity,
\* in slug order.
Takes(r, i, batch) ==
  LET free == (batch \cap Valid) \ (r.held[i] \cup r.leaving[i])
      named == {m \in free : m \in r.used[i]}
      fresh == free \ named
      entry == {m \in fresh : Cardinality({n \in fresh : n <= m}) + Cardinality(r.used[i]) <= Entries}
      able == named \cup entry
  IN  {m \in able : Cardinality({n \in able : n <= m}) + Cardinality(r.held[i]) <= Capacity}

\* dispatch: one batch per shard, in shard order, up to the first whose queue is full.
Dispatch(r, targets, adding, full) ==
  LET batch(i) == {m \in DOMAIN targets : targets[m] = i}
      asked == {i \in Shards : batch(i) # {}}
      refusing == asked \cap full
      served == {i \in asked : \A j \in refusing : i < j}
      took(i) == IF adding /\ i \in served THEN Takes(r, i, batch(i)) ELSE {}
      left(i) == IF ~adding /\ i \in served THEN r.held[i] \cap batch(i) ELSE {}
      status(m) == IF targets[m] = NoShard \/ m \notin Valid THEN "Rejected"
                   ELSE IF ~adding THEN "Removed"
                   ELSE IF m \in r.held[targets[m]] THEN "Present"
                   ELSE IF m \in took(targets[m]) THEN "Accepted" ELSE "Rejected"
  IN  [ok |-> refusing = {},
       status |-> [m \in DOMAIN targets |-> status(m)],
       r |-> [r EXCEPT !.held = [i \in Shards |-> (@[i] \cup took(i)) \ left(i)],
                       !.used = [i \in Shards |-> @[i] \cup took(i)],
                       !.leaving = [i \in Shards |-> @[i] \cup left(i)],
                       !.torn = IF refusing = {} THEN @
                                ELSE @ \cup UNION {took(i) \cup left(i) : i \in Shards}]]

-----------------------------------------------------------------------------
(* Adding and releasing                                                    *)

\* plan_add: one shard per unique valid market; a new one goes to the first with room.
PlanAdd(r, slugs) ==
  LET step(plan, m) ==
        LET room == {i \in Shards : plan.counts[i] < Capacity}
            free == IF room = {} THEN NoShard ELSE CHOOSE i \in room : \A j \in room : i <= j
        IN  IF m \in DOMAIN plan.target THEN plan
            ELSE IF m \notin Valid THEN [plan EXCEPT !.target = (m :> NoShard) @@ @]
            ELSE IF r.assign[m] # NoShard
            THEN [plan EXCEPT !.target = (m :> r.assign[m]) @@ @]
            ELSE [target |-> (m :> free) @@ plan.target,
                  counts |-> IF free = NoShard THEN plan.counts ELSE [plan.counts EXCEPT ![free] = @ + 1]]
  IN  FoldLeft(step, [target |-> <<>>, counts |-> r.counts], slugs).target

\* Mutant: an answer other than a fresh acceptance is recorded as an assignment, too.
AddRecordingAll(r, slugs, pinned, full) ==
  LET recorded(targets, d) ==
        LET good == {m \in DOMAIN targets : d.status[m] # "Rejected"}
            now == [d.r EXCEPT
                     !.pinned = IF pinned THEN @ \cup good ELSE @,
                     !.demand = IF pinned THEN @ \cup good ELSE @,
                     !.assign = [m \in Slugs |-> IF m \in good THEN targets[m] ELSE @[m]],
                     !.counts = [i \in Shards |-> @[i] + Cardinality({m \in good : targets[m] = i})]]
        IN  [ok |-> d.ok, status |-> d.status, r |-> IF d.ok THEN now ELSE d.r]
      planned(targets) == recorded(targets, Dispatch(r, targets, TRUE, full))
  IN  planned(PlanAdd(r, slugs))

\* add: pins what was not rejected, and records only what a shard newly accepted; an error of one
\* shard leaves the table as it was.
Add(r, slugs, pinned, full) ==
  LET recorded(targets, d) ==
        LET good == {m \in DOMAIN targets : d.status[m] # "Rejected"}
            new == {m \in good : d.status[m] = "Accepted"}
            now == [d.r EXCEPT
                     !.pinned = IF pinned THEN @ \cup good ELSE @,
                     !.demand = IF pinned THEN @ \cup good ELSE @,
                     !.assign = [m \in Slugs |-> IF m \in new THEN targets[m] ELSE @[m]],
                     !.counts = [i \in Shards |-> @[i] + Cardinality({m \in new : targets[m] = i})]]
        IN  [ok |-> d.ok, status |-> d.status, r |-> IF d.ok THEN now ELSE d.r]
      planned(targets) == recorded(targets, Dispatch(r, targets, TRUE, full))
  IN  planned(PlanAdd(r, slugs))

\* release_markets: an unheld market goes to the first shard; what was removed leaves the table.
ReleaseMarkets(r, slugs, full) ==
  LET targets == [m \in slugs |-> IF r.assign[m] = NoShard THEN 0 ELSE r.assign[m]]
      removed(d) ==
        LET gone == {m \in slugs : d.status[m] = "Removed"}
            freed(i) == {m \in gone : r.assign[m] = i}
            now == [d.r EXCEPT !.assign = [m \in Slugs |-> IF m \in gone THEN NoShard ELSE @[m]],
                               !.counts = [i \in Shards |-> @[i] - Cardinality(freed(i))],
                               !.demand = @ \ {m \in gone : ~Wanted(r, m)}]
        IN  [ok |-> d.ok, r |-> IF d.ok THEN now ELSE d.r]
  IN  IF slugs = {} THEN [ok |-> TRUE, r |-> r]
      ELSE removed(Dispatch(r, targets, FALSE, full))

\* reconcile: whatever made a held market unwanted, and however many attempts ago.
Reconcile(r, full) == ReleaseMarkets(r, Undesired(r), full).r

ForgetUnheld(r) == [r EXCEPT !.demand = {m \in @ : Wanted(r, m) \/ r.assign[m] # NoShard}]

Release(r, s, m, full) ==
  Reconcile(ForgetUnheld([r EXCEPT !.lessees[m] = @ \ {s}]), full)

ReleaseSession(r, s, full) ==
  Reconcile(ForgetUnheld([r EXCEPT !.lessees = [m \in Slugs |-> @[m] \ {s}]]), full)

\* lease: recorded first, and taken back when the market cannot be had; `later' are the queues
\* still full by then.
Lease(r, s, m, full, later) ==
  LET asked == [r EXCEPT !.lessees[m] = @ \cup {s}, !.demand = @ \cup {m}]
      settled(added) ==
        IF added.ok /\ added.status[m] # "Rejected"
        THEN [ok |-> TRUE, answer |-> "Held", r |-> added.r]
        ELSE [ok |-> FALSE, answer |-> IF added.ok THEN "Refused" ELSE "Busy",
              r |-> Release(added.r, s, m, later)]
  IN  IF r.assign[m] # NoShard THEN [ok |-> TRUE, answer |-> "Held", r |-> asked]
      ELSE settled(Add(asked, <<m>>, FALSE, full))

AttachPlan(r, m) == r.assign[m]

\* attach, once the peer is one this daemon serves: the lease, then the segment's plan.
Attach(r, s, m, full, later) ==
  LET planned(leased) ==
        IF ~leased.ok THEN [answer |-> leased.answer, r |-> leased.r]
        ELSE IF AttachPlan(leased.r, m) = NoShard
        THEN [answer |-> "Refused", r |-> Release(leased.r, s, m, later)]
        ELSE [answer |-> "Attached", r |-> leased.r]
  IN  IF m \notin Valid THEN [answer |-> "Refused", r |-> r]
      ELSE planned(Lease(r, s, m, full, later))

\* report: the shards asked for what they say of the markets.
Reporting(r, slugs) == {r.assign[m] : m \in slugs} \cap Shards

\* unpin: the pins go first; what is still leased is reported, the rest released.
Unpin(r, slugs, full) ==
  LET named == ToSet(slugs)
      bare == [r EXCEPT !.pinned = @ \ named]
      retained == {m \in named : Wanted(bare, m)}
      answered(done) == [answer |-> IF done.ok THEN "Markets" ELSE "Busy", r |-> done.r]
  IN  IF Reporting(r, retained) \cap full # {} THEN [answer |-> "Busy", r |-> bare]
      ELSE answered(ReleaseMarkets(bare, named \ retained, full))

\* apply, for the commands that change something.
Apply(r, request, full) ==
  LET answered(added) == [answer |-> IF added.ok THEN "Markets" ELSE "Busy", r |-> added.r]
  IN  IF request.op = "Add" THEN answered(Add(r, request.slugs, TRUE, full))
      ELSE Unpin(r, request.slugs, full)
=============================================================================

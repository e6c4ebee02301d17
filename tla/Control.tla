------------------------------- MODULE Control -------------------------------
(***************************************************************************)
(* The daemon's control task (src/src/bin/pmwsd.rs, Sessions and the loop  *)
(* of run): it accepts sessions, takes turns over the ones with something  *)
(* to say, answers up to CONTROL_REQUESTS_PER_DISPATCH requests a turn,    *)
(* drops sessions whose time is up and retries what a shard could not      *)
(* take.  The routing table and what the shards hold are Router's record.  *)
(*                                                                         *)
(* A request is one record; a session's backlog holds what its peer sent   *)
(* and the daemon has not taken, buffered or still in the socket: both are *)
(* taken in order.  A command waits for a shard that does not answer, so a *)
(* shard matters here only once its queue is full and it answers Busy.     *)
(***************************************************************************)
EXTENDS Router

CONSTANTS
  Loads,                 \* workloads: how many sessions come, what they may send and how often
  RequestsPerDispatch,   \* CONTROL_REQUESTS_PER_DISPATCH
  MaxSessions,           \* max_control_sessions
  PageMarkets,           \* STATUS_PAGE_MARKETS
  LeaseTtl,              \* whether a lease TTL is configured
  Configured,            \* each shard's configured markets
  Wedgeable,             \* shards that may stop servicing their queue
  MaxWedges              \* bound: shards wedged

\* ControlRequest, and what is no request: a line past the cap, and bytes with no line in them.
Ops == {"Add", "Remove", "Attach", "Release", "Renew", "Status"}
Unreadable == {"Overlong", "Unframed"}

ASSUME ControlAssumption ==
  /\ RequestsPerDispatch \in Nat \ {0} /\ MaxSessions \in Nat \ {0}
  /\ PageMarkets \in Nat \ {0} /\ LeaseTtl \in BOOLEAN
  /\ Configured \in [Shards -> SUBSET Valid] /\ Wedgeable \subseteq Shards
  /\ \A l \in Loads : \A q \in l.requests : q.op \in Ops \cup Unreadable

VARIABLES
  r,            \* the Router
  open,         \* Sessions.open, each [id, backlog, opening, eof]
  scan_start,   \* Sessions.scan_start
  next_id,      \* Sessions.next_id
  turn,         \* the turn being served: [at, left], left = 0 between turns
  full,         \* shards whose control queue is full
  walk,         \* one client's walk of status pages
  overtaken,    \* turns each session had since each waiting one became ready
  load,         \* the workload of this run
  sent, wedges  \* bounds

vars == <<r, open, scan_start, next_id, turn, full, walk, overtaken, load, sent, wedges>>

NoTurn == [at |-> 0, left |-> 0]
Between == turn.left = 0
NoCursor == -1
NewWalk == [after |-> NoCursor, seen |-> {}, through |-> Slugs, asked |-> FALSE, done |-> FALSE]

NewSession(id) == [id |-> id, backlog |-> <<>>, opening |-> TRUE, eof |-> FALSE]
Ready(s) == s.backlog # <<>> \/ s.eof
Ids == {open[k].id : k \in DOMAIN open}
Live(ids, o) == [a \in Sessions |-> [b \in Sessions |-> IF a \in ids /\ b \in ids THEN o[a][b] ELSE 0]]

Init ==
  /\ r = NewRouter(Configured)
  /\ open = <<>> /\ scan_start = 0 /\ next_id = 0 /\ turn = NoTurn
  /\ full = {} /\ walk = NewWalk
  /\ overtaken = [a \in Sessions |-> [b \in Sessions |-> 0]]
  /\ load \in Loads /\ sent = 0 /\ wedges = 0

-----------------------------------------------------------------------------
(* Peers                                                                   *)

\* Sessions::accept; past max_sessions the connection is answered Busy and dropped.
Accept ==
  /\ Between /\ Len(open) < MaxSessions /\ next_id < load.sessions
  /\ next_id' = next_id + 1
  /\ open' = Append(open, NewSession(next_id'))
  /\ UNCHANGED <<r, scan_start, turn, full, walk, overtaken, sent, wedges, load>>

\* A status walk has one page outstanding at a time, asked from the last slug seen.
Send(k, q) ==
  /\ sent < load.sent /\ ~open[k].eof /\ Len(open[k].backlog) < load.pipelined
  /\ q.op = "Status" => ~walk.asked /\ ~walk.done
  /\ open' = [open EXCEPT ![k].backlog = Append(@, q)]
  /\ walk' = [walk EXCEPT !.asked = @ \/ q.op = "Status"]
  /\ sent' = sent + 1
  /\ UNCHANGED <<r, scan_start, next_id, turn, full, overtaken, wedges, load>>

\* The peer closes; one that died may take with it what the daemon has not read.
PeerClose(k, kept) ==
  /\ ~open[k].eof /\ (Between \/ turn.at # k \/ kept > 0)
  /\ open' = [open EXCEPT ![k].eof = TRUE, ![k].backlog = SubSeq(@, 1, kept)]
  /\ UNCHANGED <<r, scan_start, next_id, turn, full, walk, overtaken, sent, wedges, load>>

-----------------------------------------------------------------------------
(* Turns                                                                   *)

\* next_readable: the first session with work at or after the cursor, wrapping.
NextReadable ==
  LET n == Len(open)
      at(off) == ((scan_start + off) % n) + 1
      ready == {off \in 0..(n - 1) : Ready(open[at(off)])}
  IN  at(CHOOSE off \in ready : \A o \in ready : off <= o)

\* Mutant: the cursor stays where it was when a session before it goes.
CloseAtUnshifted(k) ==
  /\ open' = RemoveAt(open, k) /\ scan_start' = scan_start
  /\ overtaken' = Live(Ids \ {open[k].id}, overtaken)

\* Sessions::close, the vector and its cursor (positions count from 0).
CloseAt(k) ==
  /\ open' = RemoveAt(open, k)
  /\ scan_start' = IF scan_start > k - 1 THEN scan_start - 1 ELSE scan_start
  /\ overtaken' = Live(Ids \ {open[k].id}, overtaken)

\* serve, its first half: the cursor moves past the session, and a peer that closed with nothing
\* left to say is closed.
Serve ==
  /\ Between /\ \E k \in DOMAIN open : Ready(open[k])
  /\ LET k == NextReadable
         waiting == {open[j].id : j \in {j \in DOMAIN open : Ready(open[j])}} \ {open[k].id}
         counted == [a \in Sessions |-> [b \in Sessions |->
                       IF a \in waiting /\ b = open[k].id THEN overtaken[a][b] + 1
                       ELSE IF a = open[k].id THEN 0 ELSE overtaken[a][b]]]
     IN  /\ scan_start' = k
         /\ open[k].backlog # <<>>
         /\ turn' = [at |-> k, left |-> RequestsPerDispatch]
         /\ overtaken' = counted
  /\ UNCHANGED <<r, open, next_id, full, walk, sent, wedges, load>>

\* serve of a session whose peer is gone and whose backlog is empty.
ServeClosed ==
  /\ Between /\ \E k \in DOMAIN open : Ready(open[k])
  /\ LET k == NextReadable
     IN  /\ open[k].backlog = <<>>
         /\ open' = RemoveAt(open, k) /\ scan_start' = k - 1
         /\ overtaken' = Live(Ids \ {open[k].id}, overtaken)
         /\ r' = ReleaseSession(r, open[k].id, full)
  /\ UNCHANGED <<next_id, turn, full, walk, sent, wedges, load>>

\* Rows of every shard in slug order; a slug two shards report has a row of each.
Page(after) ==
  LET rows == {<<m, i>> \in Slugs \X Shards : m \in r.held[i] \cup r.leaving[i] /\ m > after}
      before(a) == {b \in rows : b[1] < a[1] \/ (b[1] = a[1] /\ b[2] < a[2])}
      page == {a \in rows : Cardinality(before(a)) < PageMarkets}
  IN  [slugs |-> {a[1] : a \in page}, more |-> page # rows]

\* status: one page after the cursor, which names a slug.
NextPage(w) ==
  LET page == Page(w.after)
      last == CHOOSE m \in page.slugs \cup {w.after} : \A n \in page.slugs : n <= m
  IN  [w EXCEPT !.asked = FALSE, !.seen = @ \cup page.slugs, !.done = ~page.more, !.after = last,
                !.through = @ \cap UNION {r.held[i] \cup r.leaving[i] : i \in Shards}]

\* next_request: a line completes a request; anything else is answered as no request.
IsLine(q) == q.op \notin Unreadable

ReleaseRequest(id, m) ==
  [answer |-> "Released", r |-> IF m \in Valid THEN Release(r, id, m, full) ELSE r]

\* What one request does to the table, and its answer; a later command of one request may find a
\* shard that answers again.
Outcome(id, q) ==
  CASE q.op \in {"Add", "Remove"} -> {Apply(r, q, full)}
    [] q.op = "Attach" -> {Attach(r, id, q.slugs[1], full, later) : later \in SUBSET full}
    [] q.op = "Release" -> {ReleaseRequest(id, q.slugs[1])}
    [] q.op = "Status" -> {[answer |-> IF full = {} THEN "Status" ELSE "Busy", r |-> r]}
    [] OTHER -> {[answer |-> "Line", r |-> r]}

\* One request of the turn, answered: the session stays.
Answer ==
  /\ ~Between
  /\ LET k == turn.at
         q == open[k].backlog[1]
     IN  /\ q.op # "Unframed"
         /\ \E out \in Outcome(open[k].id, q) :
              /\ r' = out.r
              /\ walk' = IF q.op # "Status" THEN walk
                         ELSE IF out.answer = "Status" THEN NextPage(walk)
                         ELSE [walk EXCEPT !.asked = FALSE]
         /\ open' = [open EXCEPT ![k].backlog = Tail(@), ![k].opening = @ /\ ~IsLine(q)]
         /\ \/ turn' = NoTurn        \* budget spent, or nothing more is buffered
            \/ /\ turn.left > 1 /\ Len(open[k].backlog) > 1
               /\ turn' = [turn EXCEPT !.left = @ - 1]
  /\ UNCHANGED <<scan_start, next_id, full, overtaken, sent, wedges, load>>

\* The same, and the answer cannot be written, or the peer is not framing requests: the session
\* is closed and what it held released.
AnswerAbandoned ==
  /\ ~Between
  /\ LET k == turn.at
         q == open[k].backlog[1]
     IN  /\ \E out \in Outcome(open[k].id, q), later \in SUBSET full :
              r' = ReleaseSession(out.r, open[k].id, later)
         /\ walk' = IF q.op = "Status" THEN [walk EXCEPT !.asked = FALSE] ELSE walk
         /\ CloseAt(k)
  /\ turn' = NoTurn
  /\ UNCHANGED <<next_id, full, sent, wedges, load>>

-----------------------------------------------------------------------------
(* Deadlines and shards                                                    *)

\* sweep: every session whose time is up is closed, last first, and what is unwanted is asked for
\* again.  Nothing runs between the closes, so they are one change.
SweepOf(expired) ==
  LET gone == {open[k].id : k \in expired}
      freed == [r EXCEPT !.lessees = [m \in Slugs |-> @[m] \ gone]]
  IN  /\ open' = SelectSeq(open, LAMBDA s : s.id \notin gone)
      /\ scan_start' = scan_start - Cardinality({k \in expired : scan_start > k - 1})
      /\ overtaken' = Live(Ids \ gone, overtaken)
      /\ r' = Reconcile(ForgetUnheld(freed), full)

\* A session that never completed a request is dropped at its opening deadline, one that did
\* under a TTL only; the retry alone is due whenever something is unwanted.
Sweep(expired) ==
  /\ Between
  /\ \A k \in expired : open[k].opening \/ LeaseTtl
  /\ expired # {} \/ Undesired(r) # {}
  /\ SweepOf(expired)
  /\ UNCHANGED <<next_id, turn, full, walk, sent, wedges, load>>

\* A shard stops servicing its queue and collections that time out fill it.
Wedge(i) ==
  /\ wedges < MaxWedges /\ i \notin full
  /\ full' = full \cup {i} /\ wedges' = wedges + 1
  /\ UNCHANGED <<r, open, scan_start, next_id, turn, walk, overtaken, sent, load>>

Resume(i) ==
  /\ i \in full /\ full' = full \ {i}
  /\ UNCHANGED <<r, open, scan_start, next_id, turn, walk, overtaken, sent, wedges, load>>

\* The venue let go of a removed market (or never had it).
LetGo(i, m) ==
  /\ m \in r.leaving[i] /\ i \notin full
  /\ r' = [r EXCEPT !.leaving[i] = @ \ {m}]
  /\ UNCHANGED <<open, scan_start, next_id, turn, full, walk, overtaken, sent, wedges, load>>

Next ==
  \/ Accept \/ Serve \/ ServeClosed \/ Answer \/ AnswerAbandoned
  \/ \E k \in DOMAIN open : \/ \E q \in load.requests : Send(k, q)
                            \/ \E kept \in 0..Len(open[k].backlog) : PeerClose(k, kept)
  \/ \E expired \in SUBSET DOMAIN open : Sweep(expired)
  \/ \E i \in Shards : \/ i \in Wedgeable /\ Wedge(i)
                       \/ Resume(i)
                       \/ \E m \in Slugs : LetGo(i, m)

Spec == Init /\ [][Next]_vars

Due == ~Between \/ (\E k \in DOMAIN open : Ready(open[k])) \/ Reconcile(r, full) # r

(* Weak fairness of the control task and of the shards, enabledness written out: a loop with a    *)
(* turn or a retry due takes a step (sessions and requests are bounded, so it reaches the retry), *)
(* and a shard comes back to its queue.                                                           *)
FairSpec ==
  /\ Spec
  /\ []<>(~Due) \/ []<><<turn' # turn \/ open' # open \/ r' # r>>_vars
  /\ []<>(full = {}) \/ []<><<full' # full>>_vars

-----------------------------------------------------------------------------
(* Properties                                                              *)

TypeOK ==
  /\ r.assign \in [Slugs -> Shards \cup {NoShard}] /\ r.counts \in [Shards -> Int]
  /\ r.demand \subseteq Slugs /\ r.pinned \subseteq r.demand
  /\ r.lessees \in [Slugs -> SUBSET Sessions]
  /\ \A i \in Shards : r.held[i] \subseteq r.used[i] /\ Cardinality(r.used[i]) <= Entries
  /\ \A k \in DOMAIN open : open[k].id \in Sessions /\ open[k].opening \in BOOLEAN
  /\ scan_start \in 0..Len(open) /\ (Between \/ open[turn.at].backlog # <<>>)

(* The routing table and the shards agree on every market no failed command has touched: a market *)
(* is assigned to the one shard that holds it (add and release_markets record from the answers),  *)
(* the counts are exact and nothing is held past a shard's capacity.                              *)
TableMatchesShards ==
  /\ \A m \in Slugs \ r.torn : \A i \in Shards : r.assign[m] = i <=> m \in r.held[i]
  /\ r.torn = {} => \A i \in Shards : r.counts[i] = Cardinality({m \in Slugs : r.assign[m] = i})
  /\ \A i \in Shards : Cardinality(r.held[i]) <= Capacity

(* Demand is recorded only for what the daemon holds, and a lease belongs to an open session: a   *)
(* refused attach and a closed session leave nothing behind (lease, release, forget_unheld).      *)
DemandIsHeld ==
  /\ \A m \in Slugs \ r.torn : m \in r.demand => r.assign[m] # NoShard
  /\ \A m \in Slugs : r.lessees[m] \subseteq Ids /\ (r.lessees[m] # {} => m \in Assigned(r))

(* An add is rejected for want of room only when no shard has any: the room a batch plans for is  *)
(* spent on markets a shard can take (plan_add).                                                  *)
RoomIsUsed ==
  \A q \in load.requests :
    LET targets == PlanAdd(r, q.slugs)
    IN  q.op = "Add" => \A m \in DOMAIN targets \cap Valid : targets[m] = NoShard =>
          \A i \in Shards : r.counts[i] + Cardinality({n \in DOMAIN targets \cap Valid :
                                targets[n] = i /\ r.assign[n] = NoShard}) >= Capacity

(* No session has two turns while another that was ready before the first of them waits: the scan *)
(* wraps, and close moves its cursor with the sessions a removal shifts.                          *)
FairRotation == \A a, b \in Sessions : overtaken[a][b] <= 1

(* A market some shard reports on every page of a status walk is shown by the walk, whatever is   *)
(* added and removed between its pages: the cursor is a slug and no offset.                       *)
StatusWalkComplete == walk.done => walk.through \subseteq walk.seen

(* A market nothing wants is let go of, or wanted again, whichever queue was full when its last   *)
(* lease or pin went: reconcile acts on what is unwanted now and not on the event.                *)
UnwantedLeaves ==
  \A m \in Slugs : (m \in Assigned(r) /\ ~Wanted(r, m)) ~> (m \notin Assigned(r) \/ Wanted(r, m))

(* The router's three ledgers agree: the table with the shards, the demand with the table and the *)
(* sessions, and what is refused with the room there is.                                          *)
RoutingIsExact == TypeOK /\ TableMatchesShards /\ DemandIsHeld /\ RoomIsUsed

(* Every session gets its due: its turn in the rotation, and a status walk that misses nothing.   *)
SessionsAreServed == FairRotation /\ StatusWalkComplete
=============================================================================

----------------------------- MODULE Supervisor ------------------------------
(***************************************************************************)
(* The single-market supervisor (src/src/limitless/supervisor.rs): one     *)
(* event loop that owns the authoritative book, a publishing connection in *)
(* socket 0, standby connections with shadow books in the others, the      *)
(* pool's gate, fencing, promotion, and resubscribe-then-reconnect         *)
(* recovery.  Its environment is the connection tasks it spawned, the      *)
(* bounded queue they share, the passing of time, and a venue that numbers *)
(* the states of the market 1, 2, ... and serves each session a            *)
(* nondecreasing run of them starting at the newest.                       *)
(*                                                                         *)
(* The supervisor is one record, sv, and its methods are operators from    *)
(* such records to such records, called in the order the code calls them.  *)
(* `fin' is the set of generations whose task has ended.  Durations are    *)
(* abstracted: a connection's heartbeat evidence is fresh or expired, and  *)
(* a deadline elapses when its action is taken.                            *)
(***************************************************************************)
EXTENDS PoolGate, FiniteSets, SequencesExt

CONSTANTS
  Licences,             \* whether the market may be published through a pool, or not, or either
  MaxRecoveryAttempts,  \* max_recovery_attempts
  Capacity,             \* ingest_capacity
  Generations,          \* 1..n: the attempt budget
  ContentOf,            \* the content of the market's n-th state
  Blank,                \* no content
  MaxTroubles           \* a bound on faults, lapses, pings and ends

ASSUME SupervisorAssumption ==
  /\ Licences \subseteq BOOLEAN /\ Licences # {}
  /\ MaxRecoveryAttempts \in Nat \ {0} /\ Capacity \in Nat \ {0}
  /\ Generations = 1..Cardinality(Generations) /\ Cardinality(Generations) >= Cardinality(Sockets)
  /\ ContentOf \in [Keys -> Contents] /\ MaxTroubles \in Nat

VARIABLES
  sv,       \* Supervisor
  task,     \* run_connection of each generation
  queue,    \* the notices on their way to the supervisor
  env       \* the venue's newest state, and the troubles so far

vars == <<sv, task, queue, env>>

Primary == 0
StandbySlots == Sockets \ {Primary}
StandbyOrder == SetToSortSeq(StandbySlots, LAMBDA a, b : a < b)
First(S) == CHOOSE s \in S : \A t \in S : s <= t

Vacancy == [gen |-> 0, up |-> FALSE, fresh |-> TRUE, base |-> FALSE, recovery |-> "None"]
FreshShadow == [content |-> Blank, live |-> FALSE]

Occupied(st, s) == st.act[s].gen # 0
Live(st) == st.book.authority = "Live"
Stale(st) == st.book.authority \notin {"Live", "Synchronizing"}
PoolArmed(st) == st.pooled /\ IsArmed(st.gate)

\* `if let Some(gate) = self.pool': the gate exists only in a pool.
OnGate(st, g) == IF st.pooled THEN [st EXCEPT !.gate = g] ELSE st

Expired(conn) == conn.up /\ ~conn.fresh
Viable(st, fin, s) == Occupied(st, s) /\ st.act[s].gen \notin fin /\ ~Expired(st.act[s])
ViableStandbys(st, fin) == {s \in StandbySlots : Viable(st, fin, s)}
SlotOf(st, g) == {s \in Sockets : st.act[s].gen = g}

-----------------------------------------------------------------------------
(* Loss and acceptance                                                     *)

\* report_loss: the publishing connection no longer holds a base.
ReportLoss(st, why) == [st EXCEPT !.act[Primary].base = FALSE, !.book.authority = why]

ReportShadowLoss(st, s) == [st EXCEPT !.act[s].base = FALSE, !.shadow[s].live = FALSE]

\* report_slot_loss: on an armed pool any socket's loss is the book's.
ReportSlotLoss(st, s, why) ==
  LET lost == IF PoolArmed(st) \/ s = Primary THEN ReportLoss(st, why) ELSE st
  IN  IF s = Primary THEN lost ELSE ReportShadowLoss(lost, s)

OnBaseAccepted(st, s, authoritative) ==
  LET own == [st EXCEPT !.act[s].base = TRUE, !.act[s].recovery = "None"]
  IN  IF authoritative THEN [own EXCEPT !.based = TRUE, !.attempts = 0, !.reported = FALSE] ELSE own

\* What the book refuses (Unsound) is a loss.  `rewound' records a live book set back.
ApplyAuthoritative(st, note) ==
  IF note.kind = "Unsound" THEN ReportLoss(st, "LocalLoss")
  ELSE [st EXCEPT !.book = [at |-> note.at, content |-> ContentOf[note.at], authority |-> "Live"],
                  !.rewound = @ \/ (Live(st) /\ note.at < st.book.at)]

ApplyShadow(st, s, note) ==
  IF note.kind = "Unsound" THEN ReportShadowLoss(st, s)
  ELSE [st EXCEPT !.shadow[s] = [content |-> ContentOf[note.at], live |-> TRUE]]

RecoveryExhausted(st) == st.attempts >= MaxRecoveryAttempts

TerminalAuthority(st, why) == IF RecoveryExhausted(st) THEN "RecoveryBaseUnavailable" ELSE why

ReportExhaustion(st) ==
  IF ~RecoveryExhausted(st) \/ st.reported THEN st
  ELSE [ReportLoss(st, "RecoveryBaseUnavailable") EXCEPT !.reported = TRUE]

\* A generation that ended without a base is a spent attempt; the count matters up to the maximum.
SpendAttempt(st, base) ==
  [st EXCEPT !.attempts = IF base THEN 0 ELSE IF RecoveryExhausted(st) THEN @ ELSE @ + 1]

\* end_reason_mapping, the authority half.
EndAuthority(why) ==
  CASE why \in {"ResubscribeTimedOut", "Terminal"} -> "SubscriptionLost"
    [] why = "TaskFailed" -> "LocalLoss"
    [] why = "NoticeUndeliverable" -> "Overload"
    [] OTHER -> "Disconnect"

-----------------------------------------------------------------------------
(* Roles                                                                   *)

\* take_over: standby s's connection becomes the publishing one, if it is still viable.
TakeOver(st, fin, s, promoted) ==
  IF ~Viable(st, fin, s) THEN st
  ELSE OnGate([st EXCEPT !.act[Primary] = [st.act[s] EXCEPT !.base = promoted],
                         !.act[s] = Vacancy, !.shadow[s] = FreshShadow,
                         !.last = TallyReassigned([last_publisher |-> @], s, Primary).last_publisher],
              ReassignSocket(st.gate, s, Primary))

ExchangeWithPrimary(st, s) ==
  OnGate([st EXCEPT !.act[Primary] = [st.act[s] EXCEPT !.base = Live(st)],
                    !.act[s] = st.act[Primary], !.shadow[s] = FreshShadow,
                    !.last = TallyExchanged([last_publisher |-> @], Primary, s).last_publisher],
         ExchangeSockets(st.gate, Primary, s))

\* degrade_pool: the last publisher's socket, else the publishing slot, else the first that can
\* deliver.
DegradePool(st, fin) ==
  LET chosen == IF st.last \in Sockets /\ Viable(st, fin, st.last) THEN st.last
                ELSE IF Viable(st, fin, Primary) \/ ViableStandbys(st, fin) = {} THEN Primary
                ELSE First(ViableStandbys(st, fin))
  IN  IF chosen = Primary THEN st ELSE ExchangeWithPrimary(st, chosen)

OnStandbyEnded(st, s) == OnGate([st EXCEPT !.shadow[s] = FreshShadow], RetireSocket(st.gate, s))

\* agreement: the shadow is live and economically equal to the published book.
Agreeing(st, s) == st.shadow[s].live /\ st.shadow[s].content = st.book.content

Fence(st, s) == [st EXCEPT !.fenced[s] = st.act[s].gen, !.act[s] = Vacancy]

FenceStandbyIfExpired(st, s) == IF Expired(st.act[s]) THEN OnStandbyEnded(Fence(st, s), s) ELSE st

SettleExpiredStandby(st) == FoldLeft(FenceStandbyIfExpired, st, StandbyOrder)

\* Mutant: a refused promotion hands the role over without telling the book.
RefuseSwitchSilently(st, fin, why) ==
  IF ViableStandbys(st, fin) = {} THEN st
  ELSE TakeOver(st, fin, First(ViableStandbys(st, fin)), FALSE)

RefuseSwitch(st, fin, why) ==
  LET lost == IF st.based THEN ReportLoss(st, TerminalAuthority(st, why)) ELSE st
      told == ReportExhaustion(lost)
  IN  IF ViableStandbys(told, fin) = {} THEN told
      ELSE TakeOver(told, fin, First(ViableStandbys(told, fin)), FALSE)


\* decide_switch: the standbys that may be promoted.
DecideSwitch(st, fin) ==
  {s \in StandbySlots : Occupied(st, s) /\ Agreeing(st, s) /\ Live(st) /\ Viable(st, fin, s)}

\* refusal_reason of the first standby there is: divergent contents, or how the primary ended.
RefusalReason(st, why) ==
  LET s == First({t \in StandbySlots : Occupied(st, t)})
  IN  IF st.shadow[s].live /\ ~Agreeing(st, s) THEN "ReplicaDivergence" ELSE EndAuthority(why)

\* on_primary_ended without a licence.  `late' are the tasks that end between the decision and
\* the takeover.
OnPrimaryEnded(before, fin, late, why, base) ==
  LET st == SpendAttempt(SettleExpiredStandby(before), base)
      promotable == DecideSwitch(st, fin)
      present == {s \in StandbySlots : Occupied(st, s)}
      chosen == First(promotable)
  IN  IF promotable # {}
      THEN IF Viable(st, fin \cup late, chosen) THEN TakeOver(st, fin \cup late, chosen, TRUE)
           ELSE RefuseSwitch(st, fin \cup late, EndAuthority(why))
      ELSE IF present # {} THEN RefuseSwitch(st, fin \cup late, RefusalReason(st, why))
      ELSE ReportExhaustion(IF st.based THEN ReportLoss(st, TerminalAuthority(st, EndAuthority(why)))
                            ELSE st)

\* Mutant: a socket that ended without a base is a spent attempt though the pool stayed live.
OnPoolSlotEndedCounting(before, fin, late, why, base) ==
  LET st == SpendAttempt(OnGate(before, RetireSocket(before.gate, Primary)), base)
  IN  IF ViableStandbys(st, fin) # {}
      THEN TakeOver(st, fin \cup late, First(ViableStandbys(st, fin)), Live(st))
      ELSE IF st.based THEN ReportLoss(st, TerminalAuthority(st, EndAuthority(why))) ELSE st

\* Mutant: the pool asks the promotion question.
OnPoolSlotEndedPromoting(before, fin, late, why, base) == OnPrimaryEnded(before, fin, late, why, base)

\* on_pool_slot_ended: losing the publishing slot of an armed pool costs coverage only.
OnPoolSlotEnded(before, fin, late, why, base) ==
  LET needs == ~Live(before)
      spent == IF needs THEN SpendAttempt(before, base) ELSE before
      st == OnGate(spent, RetireSocket(spent.gate, Primary))
      after == IF ViableStandbys(st, fin) # {}
               THEN TakeOver(st, fin \cup late, First(ViableStandbys(st, fin)), Live(st))
               ELSE IF st.based THEN ReportLoss(st, TerminalAuthority(st, EndAuthority(why)))
               ELSE st
  IN  IF needs THEN ReportExhaustion(after) ELSE after

\* on_slot_ended, for the connection that was in slot s.
OnSlotEnded(before, fin, late, s, why, conn) ==
  LET st == IF PoolArmed(before) /\ conn.up /\ why = "NoticeUndeliverable"
            THEN ReportLoss(before, "Overload") ELSE before
  IN  IF s # Primary THEN OnStandbyEnded(st, s)
      ELSE IF PoolArmed(st) THEN OnPoolSlotEnded(st, fin, late, why, conn.base)
      ELSE OnPrimaryEnded(st, fin, late, why, conn.base)

FenceIfExpired(st, fin, late, s) ==
  IF Expired(st.act[s])
  THEN OnSlotEnded(Fence(st, s), fin, late, s, "HeartbeatTimeout", st.act[s])
  ELSE st

-----------------------------------------------------------------------------
(* Notices                                                                 *)

KeyOf(note) == IF note.kind = "Keyless" THEN NoKey ELSE note.at

\* publish_pooled and recover_pooled: a standby's shadow first, then the book, then the gate.
PublishPooled(st, s, note, committing) ==
  LET shadowed == IF s = Primary THEN st ELSE ApplyShadow(st, s, note)
      applied == ApplyAuthoritative(shadowed, note)
      noted == IF committing
               THEN [OnGate(applied, Committed(applied.gate, note.at)) EXCEPT !.last = s]
               ELSE applied
  IN  IF note.kind = "Unsound" THEN applied ELSE OnBaseAccepted(noted, s, TRUE)

\* A standby's shadow follows its own stream.
ShadowOnly(st, s, note) ==
  LET applied == ApplyShadow(st, s, note)
  IN  IF s = Primary THEN st
      ELSE IF note.kind = "Unsound" THEN applied ELSE OnBaseAccepted(applied, s, FALSE)

\* apply_update with a licence: the gate decides.
ApplyPooled(st, fin, s, note) ==
  LET content == ContentOf[note.at]
      redelivered == KeyOf(note) # NoKey /\ EvidenceMatches(st.gate, KeyOf(note), content)
      r == Admit(st.gate, s, KeyOf(note), content)
      admitted == OnGate(st, r.gate)
  IN  CASE r.verdict = "Publish" -> PublishPooled(admitted, s, note, TRUE)
        [] r.verdict = "Duplicate" /\ redelivered /\ ~Live(st) -> PublishPooled(admitted, s, note, FALSE)
        [] r.verdict = "Degrade" -> DegradePool(admitted, fin)
        [] OTHER -> ShadowOnly(admitted, s, note)

\* apply_update without one: the role decides.
ApplySolo(st, s, note) ==
  LET applied == ApplyAuthoritative(st, note)
  IN  IF s # Primary THEN ShadowOnly(st, s, note)
      ELSE IF note.kind = "Unsound" THEN applied ELSE OnBaseAccepted(applied, s, TRUE)

Updates == {"Update", "Unsound", "Keyless"}

\* on_notice: only a generation in some slot is heard.
OnNotice(st, fin, note) ==
  IF SlotOf(st, note.gen) = {} THEN st
  ELSE LET s == First(SlotOf(st, note.gen)) IN
       CASE note.kind = "Ready" -> [st EXCEPT !.act[s].up = TRUE, !.act[s].fresh = TRUE]
         [] note.kind = "Heartbeat" -> [st EXCEPT !.act[s].fresh = TRUE]
         [] note.kind = "Resubscribed" ->
              IF st.act[s].recovery = "Requested" THEN [st EXCEPT !.act[s].recovery = "Awaiting"] ELSE st
         [] note.kind = "DecodeFailure" -> ReportSlotLoss(st, s, "LocalLoss")
         [] note.kind = "Overload" -> ReportSlotLoss(st, s, "Overload")
         [] note.kind \in Updates /\ PoolArmed(st) -> ApplyPooled(st, fin, s, note)
         [] note.kind \in Updates /\ ~PoolArmed(st) -> ApplySolo(st, s, note)

Dispatch(st, fin, notes) == FoldLeft(LAMBDA acc, note : OnNotice(acc, fin, note), st, notes)

\* Mutant: only a local loss is asked about, never a refused promotion.
ArmRecoveryLocally(st) ==
  LET p == st.act[Primary]
  IN  [st EXCEPT !.act[Primary].recovery =
         IF ~Occupied(st, Primary) \/ st.book.authority \notin {"LocalLoss", "Overload"} \/ ~p.up
         THEN "None" ELSE IF p.recovery = "None" THEN "Pending" ELSE p.recovery]

\* arm_recovery, at the top of every turn of the loop.
ArmRecovery(st) ==
  LET p == st.act[Primary]
  IN  [st EXCEPT !.act[Primary].recovery =
         IF ~Occupied(st, Primary) \/ ~Stale(st) \/ ~p.up THEN "None"
         ELSE IF p.recovery = "None" THEN "Pending" ELSE p.recovery]

-----------------------------------------------------------------------------
(* The supervisor's turns                                                  *)

NoTask == [state |-> "none", why |-> "", pos |-> 0, owed |-> FALSE, command |-> FALSE]
Finished == {g \in Generations : task[g].state \in {"ended", "aborted"}}

\* A task is dropped, socket and all, when its generation is in no slot and not lingering.
Abort(st, tasks) ==
  [g \in Generations |->
     IF tasks[g].state = "none" \/ \E s \in Sockets : g \in {st.act[s].gen, st.fenced[s]}
     THEN tasks[g] ELSE [NoTask EXCEPT !.state = "aborted"]]

Turn(st, tasks) == sv' = ArmRecovery(st) /\ task' = Abort(ArmRecovery(st), tasks)

Ended(late, tasks) ==
  [g \in Generations |->
     IF g \in late THEN [NoTask EXCEPT !.state = "ended", !.why = "SocketClosed"] ELSE tasks[g]]

\* The tasks that may end between a decision and the takeover it asked for: at most one.
LateSets ==
  {{}} \cup {{sv.act[s].gen} : s \in {t \in StandbySlots :
                                       Viable(sv, Finished, t) /\ env.troubles < MaxTroubles}}
LateTrouble(late) == env' = [env EXCEPT !.troubles = @ + Cardinality(late)]

HeartbeatDue == \E s \in Sockets : Expired(sv.act[s])
RecoveryPending == sv.act[Primary].recovery = "Pending"

Spawn(s) ==
  LET g == sv.gen + 1
  IN  /\ ~Occupied(sv, s) /\ g \in Generations
      /\ Turn(OnGate([sv EXCEPT !.act[s] = [Vacancy EXCEPT !.gen = g], !.gen = g],
                     ResetSocket(sv.gate, s)),
              [task EXCEPT ![g].state = "dialing"])
      /\ UNCHANGED <<queue, env>>

\* Timers are polled before the queue, the queue before a connection's end.
TakeNotice ==
  /\ ~HeartbeatDue /\ ~RecoveryPending /\ queue # <<>>
  /\ Turn(OnNotice(sv, Finished, Head(queue)), task)
  /\ queue' = Tail(queue)
  /\ UNCHANGED env

\* on_heartbeat_missed: the others' notices, the expired one's pings, the verdict, its other
\* notices.
HeartbeatMissed(s) ==
  LET g == sv.act[s].gen
      others == SelectSeq(queue, LAMBDA n : n.gen # g)
      expiring == SelectSeq(queue, LAMBDA n : n.gen = g)
      dispatched == Dispatch(sv, Finished, others)
      pinged == IF Occupied(dispatched, s) /\ \E i \in DOMAIN expiring : expiring[i].kind = "Heartbeat"
                THEN [dispatched EXCEPT !.act[s].fresh = TRUE] ELSE dispatched
  IN  /\ Expired(sv.act[s]) /\ (s # Primary => ~Expired(sv.act[Primary]))
      /\ \E late \in LateSets :
           Turn(Dispatch(FenceIfExpired(pinged, Finished, late, s), Finished \cup late, expiring),
                Ended(late, task)) /\ LateTrouble(late)
      /\ queue' = <<>>

\* on_recovery_due: what is queued first; then ask, or give the connection up.
RecoveryDue ==
  LET st == ArmRecovery(Dispatch(sv, Finished, queue))
      p == st.act[Primary]
      asked == p.gen \notin Finished
  IN  /\ ~HeartbeatDue /\ sv.act[Primary].recovery \in {"Pending", "Requested", "Awaiting"}
      /\ queue' = <<>>
      /\ \/ /\ p.recovery = "Pending"
            /\ Turn([st EXCEPT !.act[Primary].recovery = IF asked THEN "Requested" ELSE "Unreachable"],
                    IF asked THEN [task EXCEPT ![p.gen].command = TRUE] ELSE task)
            /\ UNCHANGED env
         \/ /\ p.recovery \in {"Requested", "Awaiting"}
            /\ \E late \in LateSets :
                 Turn(OnSlotEnded(Fence(st, Primary), Finished, late, Primary, "ResubscribeTimedOut",
                                  [p EXCEPT !.base = FALSE]),
                      Ended(late, task)) /\ LateTrouble(late)
         \/ p.recovery \in {"None", "Unreachable"} /\ Turn(st, task) /\ UNCHANGED env

\* A connection's own end, joined only once everything it queued has been applied.
Join(s) ==
  LET g == sv.act[s].gen
  IN  /\ ~HeartbeatDue /\ ~RecoveryPending /\ queue = <<>>
      /\ Occupied(sv, s) /\ g \in Finished
      /\ s # Primary => sv.act[Primary].gen \notin Finished
      /\ \E late \in LateSets :
           Turn(OnSlotEnded([sv EXCEPT !.act[s] = Vacancy], Finished, late, s, task[g].why, sv.act[s]),
                Ended(late, task)) /\ LateTrouble(late)
      /\ UNCHANGED queue

ReleaseFenced(s) ==
  /\ ~HeartbeatDue /\ sv.fenced[s] # 0
  /\ Turn([sv EXCEPT !.fenced[s] = 0], task)
  /\ UNCHANGED <<queue, env>>

-----------------------------------------------------------------------------
(* The connection tasks, the venue and time                                *)

SupervisorUnmoved == UNCHANGED sv
Trouble == env.troubles < MaxTroubles /\ env' = [env EXCEPT !.troubles = @ + 1]
Room(q) == Len(q) < Capacity
Note(g, kind, at) == [gen |-> g, kind |-> kind, at |-> at]

\* NoticeSink: an owed loss report goes first, and what does not fit becomes one.
Flush(g) == IF task[g].owed /\ Room(queue) THEN Append(queue, Note(g, "Overload", 0)) ELSE queue
StillOwed(g) == task[g].owed /\ ~Room(queue)

Offer(g, note, pos) ==
  LET fits == ~StillOwed(g) /\ Room(Flush(g))
  IN  /\ queue' = IF fits THEN Append(Flush(g), note) ELSE Flush(g)
      /\ task' = [task EXCEPT ![g].owed = ~fits, ![g].pos = pos]

\* The subscription reaches the wire and Ready the queue; the venue answers with its newest state.
Connect(g) ==
  /\ task[g].state = "dialing" /\ Room(queue)
  /\ task' = [task EXCEPT ![g].state = "open", ![g].pos = env.head - 1]
  /\ queue' = Append(queue, Note(g, "Ready", 0))
  /\ SupervisorUnmoved /\ UNCHANGED env

DialFails(g) ==
  /\ task[g].state = "dialing" /\ Trouble
  /\ task' = [task EXCEPT ![g].state = "ended",
                          ![g].why = IF Room(queue) THEN "ConnectFailed" ELSE "NoticeUndeliverable"]
  /\ SupervisorUnmoved /\ UNCHANGED queue

Frame(g) ==
  /\ task[g].state = "open" /\ task[g].pos < env.head
  /\ Offer(g, Note(g, "Update", task[g].pos + 1), task[g].pos + 1)
  /\ SupervisorUnmoved /\ UNCHANGED env

\* A frame the decoder refuses, the book refuses, or whose key, which only a pool reads, cannot
\* be ordered.
FaultyFrame(g) ==
  /\ task[g].state = "open" /\ task[g].pos < env.head /\ Trouble
  /\ \/ Offer(g, Note(g, "DecodeFailure", 0), task[g].pos + 1)
     \/ Offer(g, Note(g, "Unsound", task[g].pos + 1), task[g].pos + 1)
     \/ sv.pooled /\ Offer(g, Note(g, "Keyless", task[g].pos + 1), task[g].pos + 1)
  /\ SupervisorUnmoved

Ping(g) ==
  /\ task[g].state = "open" /\ Trouble
  /\ Offer(g, Note(g, "Heartbeat", 0), task[g].pos)
  /\ SupervisorUnmoved

DeliverOwed(g) ==
  /\ task[g].state = "open" /\ task[g].owed /\ Room(queue)
  /\ queue' = Flush(g) /\ task' = [task EXCEPT ![g].owed = FALSE]
  /\ SupervisorUnmoved /\ UNCHANGED env

\* The re-emit is written and reported; the venue serves its newest state again.
Resubscribe(g) ==
  /\ task[g].state = "open" /\ task[g].command /\ ~task[g].owed /\ Room(queue)
  /\ task' = [task EXCEPT ![g].command = FALSE, ![g].pos = IF @ = env.head THEN @ - 1 ELSE @]
  /\ queue' = Append(queue, Note(g, "Resubscribed", 0))
  /\ SupervisorUnmoved /\ UNCHANGED env

Close(g) ==
  /\ task[g].state = "open" /\ Trouble
  /\ queue' = Flush(g)
  /\ task' = [task EXCEPT ![g] = [NoTask EXCEPT !.state = "ended",
                !.why = IF StillOwed(g) THEN "NoticeUndeliverable" ELSE "SocketClosed"]]
  /\ SupervisorUnmoved

\* No ping for as long as the venue announced.
Lapse(s) ==
  /\ sv.act[s].up /\ sv.act[s].fresh /\ Trouble
  /\ sv' = [sv EXCEPT !.act[s].fresh = FALSE]
  /\ UNCHANGED <<task, queue>>

MarketMoves ==
  /\ env.head + 1 \in Keys
  /\ env' = [env EXCEPT !.head = @ + 1]
  /\ SupervisorUnmoved /\ UNCHANGED <<task, queue>>

-----------------------------------------------------------------------------

\* Supervisor::new and the first turn, which dials every slot.
Init ==
  /\ \E pooled \in Licences :
       sv = [act |-> [s \in Sockets |-> [Vacancy EXCEPT !.gen = s + 1]],
             fenced |-> [s \in Sockets |-> 0],
             shadow |-> [s \in StandbySlots |-> FreshShadow],
             book |-> [at |-> 0, content |-> Blank, authority |-> "Synchronizing"],
             pooled |-> pooled, gate |-> NewGate, last |-> -1, attempts |-> 0, based |-> FALSE,
             reported |-> FALSE, gen |-> Cardinality(Sockets), rewound |-> FALSE]
  /\ task = [g \in Generations |->
               IF g <= Cardinality(Sockets) THEN [NoTask EXCEPT !.state = "dialing"] ELSE NoTask]
  /\ queue = <<>>
  /\ env = [head |-> 1, troubles |-> 0]

Next ==
  \/ \E s \in Sockets : Spawn(s) \/ HeartbeatMissed(s) \/ Join(s) \/ ReleaseFenced(s) \/ Lapse(s)
  \/ TakeNotice \/ RecoveryDue \/ MarketMoves
  \/ \E g \in Generations :
       \/ Connect(g) \/ DialFails(g) \/ Frame(g) \/ FaultyFrame(g) \/ Ping(g)
       \/ DeliverOwed(g) \/ Resubscribe(g) \/ Close(g)

Spec == Init /\ [][Next]_vars

Loop == TakeNotice \/ RecoveryDue \/ \E s \in Sockets : HeartbeatMissed(s) \/ Join(s)

\* What the loop's select waits on: exactly when Loop is enabled.
Woken ==
  \/ HeartbeatDue \/ queue # <<>>
  \/ sv.act[Primary].recovery \in {"Pending", "Requested", "Awaiting"}
  \/ \E s \in Sockets : Occupied(sv, s) /\ sv.act[s].gen \in Finished

\* Weak fairness of the loop, its enabledness written out: a loop that stays woken turns.
FairSpec == Spec /\ ([]<>(~Woken) \/ []<><<Loop>>_vars)

-----------------------------------------------------------------------------
(* Properties                                                              *)

StaleReasons == {"LocalLoss", "Overload", "Disconnect", "SubscriptionLost", "ReplicaDivergence",
                 "RecoveryBaseUnavailable"}
TransportReasons == StaleReasons \ {"LocalLoss", "Overload"}
Attempts == {"None", "Pending", "Requested", "Awaiting", "Unreachable"}

\* The supervisor's record keeps its type, and no generation is in two slots.
TypeOK ==
  /\ sv.act \in [Sockets -> [gen : {0} \cup Generations, up : BOOLEAN, fresh : BOOLEAN,
                             base : BOOLEAN, recovery : Attempts]]
  /\ sv.book \in [at : {0} \cup Keys, content : Contents \cup {Blank},
                  authority : {"Synchronizing", "Live"} \cup StaleReasons]
  /\ sv.shadow \in [StandbySlots -> [content : Contents \cup {Blank}, live : BOOLEAN]]
  /\ sv.attempts \in 0..MaxRecoveryAttempts
  /\ \A s, t \in Sockets : Occupied(sv, s) /\ sv.act[s].gen = sv.act[t].gen => s = t
  /\ Len(queue) <= Capacity

\* Without a pool, a live book always has its publishing source: no order of ends, expiries and
\* takeovers leaves it live with nothing to follow it.  (A pool's book can be: see the README.)
LiveHasSource == Live(sv) /\ ~sv.pooled => sv.act[Primary].up


\* A publishing connection credited with a base stands behind a live book, so a generation
\* that lost its base is always counted as a spent attempt when it ends.
BaseMeansLive == sv.act[Primary].base => Live(sv)

\* Attempts are spent only on a book that needs one, and exhaustion is only ever announced over
\* a book that is stale.
AttemptsMeanStale ==
  /\ sv.attempts > 0 /\ (sv.pooled => PoolArmed(sv)) => ~Live(sv)
  /\ sv.reported => RecoveryExhausted(sv) /\ Stale(sv)

\* A venue that keeps its key promise is never accused of breaking it within a connection.
NoFalseInversion == sv.gate.degraded \notin {"ConnectionInversion", "EqualKeyContentMismatch"}

\* "One socket going away costs coverage and nothing else": a live pooled book goes stale over a
\* transport only when no established socket is left that could still deliver.
PoolLosesOnlyItsLast ==
  [][PoolArmed(sv) /\ Live(sv) /\ sv'.book.authority \in TransportReasons
       => \A s \in Sockets : sv'.act[s].up => sv'.act[s].gen \in Finished']_vars

\* A stale book never waits on a connection for good: it recovers, or the role is vacated.
StaleIsResolved == (Stale(sv) /\ sv.act[Primary].up) ~> (Live(sv) \/ ~sv.act[Primary].up)

\* After every turn of the loop the slots, the credited bases, the spent attempts and the gate's
\* verdict are those of the connections there are.
SlotsAreSound ==
  TypeOK /\ LiveHasSource /\ BaseMeansLive /\ AttemptsMeanStale /\ NoFalseInversion
=============================================================================

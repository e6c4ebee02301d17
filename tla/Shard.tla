-------------------------------- MODULE Shard --------------------------------
(***************************************************************************)
(* The multi-market shard (src/src/limitless/shard.rs): one event loop     *)
(* that owns the books of a set of markets, a publishing connection in     *)
(* slot 0 and standbys or pool sockets in the others, the desired set and  *)
(* the set on each wire, recovery of all markets by one reissue, promotion *)
(* market by market, and the segment it publishes into.                    *)
(*                                                                         *)
(* A handler runs to its end and then the top of the loop runs (Turn):     *)
(* shedding an idle connection, reconciling the set on every wire, dialing *)
(* what is due, arming the reissue.  The queue of notices is not a         *)
(* variable: a session's notices are taken in its own order, after any     *)
(* delay, in any order between sessions, which the shared queue refines.   *)
(* `fin' is the set of generations whose task has ended; durations are     *)
(* abstracted, a deadline elapses when its action is taken.                *)
(***************************************************************************)
EXTENDS ShardFeed

CONSTANTS
  Generations,      \* 1..n: the attempt budget
  Batches,          \* the slugs of a command
  MaxCommands,      \* bound on commands
  MaxTroubles       \* bound on faults, lapses and ends of connections

ASSUME RunAssumption ==
  /\ Generations = 1..Cardinality(Generations)
  /\ Batches \subseteq Seq(Slugs)
  /\ MaxCommands \in Nat /\ MaxTroubles \in Nat

VARIABLES
  sh,       \* Shard
  task,     \* run_connection of each generation
  env       \* the venue's newest key, the commands and the troubles so far

vars == <<sh, task, env>>

Expired(conn) == conn.up /\ ~conn.fresh
Viable(st, fin, s) == Occupied(st, s) /\ Act(st, s).gen \notin fin /\ ~Expired(Act(st, s))
First(S) == CHOOSE s \in S : \A t \in S : s <= t
SlotOf(st, g) == {s \in Slots(st) : Act(st, s).gen = g}

-----------------------------------------------------------------------------
(* Ends of connections                                                     *)

\* end_reason_mapping, the authority half.
EndAuthority(why) ==
  CASE why \in {"ResubscribeTimedOut", "SubscriptionReplaced", "Terminal"} -> "SubscriptionLost"
    [] why = "TaskFailed" -> "LocalLoss"
    [] why = "NoticeUndeliverable" -> "Overload"
    [] OTHER -> "Disconnect"

Fence(st, s) == [st EXCEPT !.slot[s].fenced = st.slot[s].act.gen, !.slot[s].act = Vacant]
ReleaseFenced(st, s) == [st EXCEPT !.slot[s].fenced = 0]
ScheduleReconnect(st, s) == [st EXCEPT !.slot[s].wait = TRUE]

\* A generation that ended without a base is a spent attempt; the count matters up to the maximum.
Spent(e) ==
  [e EXCEPT !.attempts = IF e.here THEN 0 ELSE IF @ >= MaxRecoveryAttempts THEN @ ELSE @ + 1,
            !.here = FALSE]
Exhausted(e) == e.attempts >= MaxRecoveryAttempts
Owed(e) == e.based \/ Exhausted(e)

\* The loss an ended connection costs an entry, and the terminal verdict once it is exhausted.
TakeLoss(e, why) ==
  IF ~Owed(e) THEN e
  ELSE [e EXCEPT !.book = Lost(@, IF Exhausted(e) \/ e.reported THEN "RecoveryBaseUnavailable" ELSE why),
                 !.reported = @ \/ Exhausted(e)]

Unsubscribed(e) == [e EXCEPT !.from = 0, !.dialled = FALSE]

\* Mutant: the markets removed meanwhile are kept.
OnConnectionEndedKeeping(st, why) ==
  LET ended == [st EXCEPT !.reissue = "Idle", !.slot[Primary].dialling = FALSE, !.latched = FALSE]
      lost == [ended EXCEPT !.market = [m \in Slugs |->
                 IF @[m].resident THEN TakeLoss(Spent(Unsubscribed(@[m])), EndAuthority(why)) ELSE @[m]]]
  IN  ScheduleReconnect(
        RecountRecovering(RetireAllAgreement(SegmentPublishChanged(lost, ended))), Primary)

\* on_connection_ended: the publishing connection ended and nothing took its place.
OnConnectionEnded(st, why) ==
  LET closed == CloseUndesired([st EXCEPT !.reissue = "Idle", !.slot[Primary].dialling = FALSE,
                                          !.latched = FALSE])
      lost == [closed EXCEPT !.market = [m \in Slugs |->
                 IF @[m].resident THEN TakeLoss(Spent(Unsubscribed(@[m])), EndAuthority(why)) ELSE @[m]]]
  IN  ScheduleReconnect(
        RecountRecovering(RetireAllAgreement(SegmentPublishChanged(lost, closed))), Primary)

OnStandbyEnded(st, s) ==
  ScheduleReconnect([ClearShadows(st, s) EXCEPT !.slot[s].dialling = FALSE], s)

\* The standby's connection moves into the publishing slot; its own slot is left to be dialled.
MoveToPrimary(st, s) ==
  ScheduleReconnect(
    [ClearShadows(st, s) EXCEPT
       !.reissue = "Idle",
       !.slot[Primary] = [@ EXCEPT !.act = Act(st, s), !.dialling = FALSE,
                                   !.wire = st.slot[s].wire, !.wait = FALSE],
       !.slot[s] = EmptySlot], s)

\* Mutant: a refused market is left to the connection that is gone.
PromoteEntryStranding(st, s, m, why, lossy) ==
  LET e == st.market[m]
      conn == Act(st, s)
      moved == [e EXCEPT !.dialled = FALSE, !.from = IF m \in conn.carries /\ ClaimedBy(e, conn.version)
                                                     THEN conn.gen ELSE 0]
  IN  IF ~lossy /\ Promotable(st, s, m)
      THEN [moved EXCEPT !.here = TRUE, !.attempts = 0, !.reported = FALSE]
      ELSE IF e.resident THEN TakeLoss(Spent(e), EndAuthority(why)) ELSE e

\* apply_promotions, one market: carried through, or refused with the reason of its own verdict.
PromoteEntry(st, s, m, why, lossy) ==
  LET e == st.market[m]
      conn == Act(st, s)
      moved == [e EXCEPT !.dialled = FALSE, !.from = IF m \in conn.carries /\ ClaimedBy(e, conn.version)
                                                     THEN conn.gen ELSE 0]
      refusal == CASE lossy -> "Overload"
                   [] ~lossy /\ st.shadow[s][m] # 0 /\ ~Agrees(st.shadow[s][m], e.book) ->
                        "ReplicaDivergence"
                   [] OTHER -> EndAuthority(why)
  IN  IF ~e.resident THEN e
      ELSE IF ~lossy /\ Promotable(st, s, m)
      THEN [moved EXCEPT !.here = TRUE, !.attempts = 0, !.reported = FALSE]
      ELSE TakeLoss(Spent(moved), refusal)

\* switch_source: standby s's connection takes over, and each market is judged on its own.
SwitchSource(st, s, why, up) ==
  LET lossy == up /\ why = "NoticeUndeliverable"
      closed == CloseUndesired([st EXCEPT !.latched = FALSE])
      judged == [closed EXCEPT !.market = [m \in Slugs |-> PromoteEntry(closed, s, m, why, lossy)]]
      refused == {m \in Slugs : lossy \/ ~Promotable(closed, s, m)}
  IN  RecountRecovering(
        MoveToPrimary(RetireAgreement(SegmentPublishChanged(judged, closed), refused), s))

\* pool_survivor_sets: what the other established sockets were dialled with.
PoolSurvivors(st, fin, s) ==
  UNION {Act(st, t).carries : t \in {t \in Slots(st) \ {s} : Act(st, t).up /\ Viable(st, fin, t)}}

\* report_lost_pool_coverage: a market another socket still carries keeps its book.
ReportLostPoolCoverage(st, fin, s, why) ==
  LET closed == IF s = Primary THEN CloseUndesired(st) ELSE st
      freed(e) == IF s = Primary THEN Unsubscribed(e) ELSE e
      survives == PoolSurvivors(st, fin, s)
      hit == {m \in Resident(closed) \ survives : Owed(Spent(closed.market[m]))}
      lost == [closed EXCEPT !.market = [m \in Slugs |->
                 IF ~@[m].resident THEN @[m]
                 ELSE IF m \in survives THEN freed(@[m])
                 ELSE TakeLoss(Spent(freed(@[m])), EndAuthority(why))]]
  IN  RetireAgreement(SegmentPublishChanged(lost, closed), hit)

\* retire_pool_socket.
RetirePoolSocket(st, s) ==
  [st EXCEPT !.ended = @ \cup {s},
             !.market = [m \in Slugs |->
                [@[m] EXCEPT !.reached = @ \ {s},
                             !.gate = IF @ = NoGate THEN @ ELSE RetireSocket(@, s)]]]

\* take_publishing_slot: the first established viable standby, else the first viable one.
TakePublishingSlot(st, fin) ==
  LET viable == {t \in Standbys(st) : Viable(st, fin, t)}
      up == {t \in viable : Act(st, t).up}
      s == First(IF up # {} THEN up ELSE viable)
      conn == Act(st, s)
      claimed(m) == st.market[m].resident /\ m \in conn.carries /\ ClaimedBy(st.market[m], conn.version)
      moved == [st EXCEPT
                  !.ended = (IF s \in @ THEN @ \cup {Primary} ELSE @ \ {Primary}) \cup {s},
                  !.market = [m \in Slugs |->
                    [@[m] EXCEPT !.dialled = IF claimed(m) THEN FALSE ELSE @,
                                 !.from = IF claimed(m) THEN conn.gen ELSE @,
                                 !.reached = (@ \ {s, Primary}) \cup (IF s \in @ THEN {Primary} ELSE {}),
                                 !.gate = IF @ = NoGate THEN @ ELSE ReassignSocket(@, s, Primary)]]]
  IN  MoveToPrimary(moved, s)

\* on_pool_slot_ended; `late' are tasks that end between the survivors' count and the handover.
OnPoolSlotEnded(st, fin, late, s, why, up, handover) ==
  LET retired == IF up THEN RetirePoolSocket(st, s) ELSE st
      cleared == [(IF s = Primary THEN retired ELSE ClearShadows(retired, s)) EXCEPT
                    !.slot[s].dialling = FALSE]
      told == ReportLostPoolCoverage(cleared, fin, s, why)
      handed(vacated) ==
        IF handover /\ \E t \in Standbys(st) : Viable(vacated, fin \cup late, t)
        THEN TakePublishingSlot(vacated, fin \cup late)
        ELSE ScheduleReconnect(vacated, Primary)
  IN  RecountRecovering(
        IF s # Primary THEN ScheduleReconnect(told, s)
        ELSE handed([told EXCEPT !.reissue = "Idle", !.latched = FALSE]))

\* on_slot_ended; promote_a_standby tries the standbys in order.
OnSlotEnded(st, fin, late, s, why, up) ==
  LET told == IF up /\ why = "NoticeUndeliverable" THEN ReportShardLoss(st, "Overload") ELSE st
      viable == {t \in Standbys(st) : Viable(st, fin, t)}
  IN  IF PoolArmed(st) THEN OnPoolSlotEnded(told, fin, late, s, why, up, TRUE)
      ELSE IF s # Primary THEN OnStandbyEnded(st, s)
      ELSE IF viable # {} THEN SwitchSource(st, First(viable), why, up)
      ELSE OnConnectionEnded(st, why)

-----------------------------------------------------------------------------
(* The top of the loop                                                     *)

\* shed_idle_connection: no market wanted, no connection kept.
ShedIdleConnection(st) ==
  IF st.desired_count > 0 THEN st
  ELSE RecountRecovering(CloseUndesired(
         [st EXCEPT !.slot = [s \in Sockets |-> [EmptySlot EXCEPT !.wire = st.slot[s].wire]],
                    !.shadow = [s \in StandbySlots |-> NoShadows],
                    !.agreeing = [s \in StandbySlots |-> {}],
                    !.reissue = "Idle", !.latched = FALSE]))

DialCarriesCurrentEntries(st, version) ==
  \A m \in DesiredSlugs(st) : st.market[m].installed <= version

\* reconcile_slot: a wire that no longer carries the desired set is replaced by a fresh dial.
ReconcileSlot(st, fin, s) ==
  LET conn == Act(st, s)
      unchanged == /\ conn.up /\ conn.carries = DesiredSlugs(st)
                   /\ DialCarriesCurrentEntries(st, conn.version)
      fenced == Fence(st, s)
      ended == IF PoolArmed(st)
               THEN OnPoolSlotEnded(fenced, fin, {}, s, "SubscriptionReplaced", TRUE, FALSE)
               ELSE IF s = Primary THEN OnConnectionEnded(fenced, "SubscriptionReplaced")
               ELSE OnStandbyEnded(fenced, s)
  IN  IF st.desired_version = st.slot[s].wire \/ st.slot[s].dialling THEN st
      ELSE IF unchanged THEN [st EXCEPT !.slot[s].wire = st.desired_version]
      ELSE IF ~conn.up THEN st
      ELSE [ended EXCEPT !.slot[s].wait = FALSE]

\* spawn_slot; a spent attempt budget defers the dial.
SpawnSlot(st, s) ==
  IF Occupied(st, s) \/ st.slot[s].wait THEN st
  ELSE IF st.gen + 1 \notin Generations THEN [st EXCEPT !.slot[s].wait = TRUE]
  ELSE [st EXCEPT
          !.gen = @ + 1,
          !.market = IF s # Primary THEN @
                     ELSE [m \in Slugs |-> [@[m] EXCEPT !.dialled = st.market[m].desired]],
          !.slot[s] = [@ EXCEPT !.act = [Vacant EXCEPT !.gen = st.gen + 1,
                                                       !.carries = DesiredSlugs(st),
                                                       !.version = st.desired_version],
                                !.dialling = TRUE]]

SlotOrder(st) == SetToSortSeq(Slots(st), LAMBDA a, b : a < b)
SpawnDue(st) == IF st.desired_count = 0 THEN st ELSE FoldLeft(SpawnSlot, st, SlotOrder(st))
ReconcileSet(st, fin) == FoldLeft(LAMBDA acc, s : ReconcileSlot(acc, fin, s), st, SlotOrder(st))

ArmReissue(st) ==
  LET owed == st.recovering > 0
      established == Act(st, Primary).up /\ ~st.slot[Primary].dialling
  IN  CASE st.reissue = "Idle" /\ owed /\ established -> [st EXCEPT !.reissue = "Pending"]
        [] st.reissue = "Pending" /\ ~(owed /\ established) -> [st EXCEPT !.reissue = "Idle"]
        [] st.reissue = "Awaiting" /\ ~owed -> [st EXCEPT !.reissue = "Idle"]
        [] OTHER -> st

\* finish: every connection is dropped; the books stay as they are.
Finish(st) ==
  [st EXCEPT !.stopped = TRUE,
             !.slot = [s \in Sockets |-> [@[s] EXCEPT !.act = Vacant, !.fenced = 0]]]

\* One pass of run_until's loop down to its select.
LoopTop(st, fin) ==
  IF st.seg.failure THEN Finish(st)
  ELSE ArmReissue(SpawnDue(ReconcileSet(ShedIdleConnection(st), fin)))

-----------------------------------------------------------------------------
(* Notices and the reissue                                                 *)

\* settle_dial: the markets the dial may answer for are subscribed from it.
SettleDial(st, s) ==
  LET conn == Act(st, s)
      claimed(m) == /\ st.market[m].resident /\ m \in conn.carries
                    /\ ClaimedBy(st.market[m], conn.version)
  IN  IF ~st.slot[s].dialling THEN st
      ELSE [st EXCEPT !.slot[s].dialling = FALSE, !.slot[s].wire = conn.version,
                      !.market = [m \in Slugs |->
                         IF s = Primary /\ claimed(m)
                         THEN [@[m] EXCEPT !.dialled = FALSE, !.from = conn.gen] ELSE @[m]]]

AwaitBase(st) == [st EXCEPT !.reissue = IF st.recovering > 0 THEN "Awaiting" ELSE "Idle"]

OnReady(st, s) ==
  LET settled == SettleDial([st EXCEPT !.slot[s].act.up = TRUE, !.slot[s].act.fresh = TRUE], s)
  IN  IF s = Primary THEN AwaitBase(settled) ELSE settled

OnResubscribed(st, s) ==
  IF s = Primary /\ st.reissue = "Requested" THEN AwaitBase(st) ELSE st


\* on_notice: what a generation in no slot says is dropped.
OnNotice(st, g, note) ==
  LET s == First(SlotOf(st, g))
  IN  IF SlotOf(st, g) = {} THEN st
      ELSE CASE note.kind = "Ready" -> OnReady(st, s)
             [] note.kind = "Resubscribed" -> OnResubscribed(st, s)
             [] note.kind = "Resolved" -> OnResolved(st, s, note.market)
             [] note.kind \in {"LocalLoss", "Overload"} -> ReportRailLoss(st, s, note.kind)
             [] OTHER -> OnUpdate(st, s, note.market, note)

\* emit_reissue; a connection that is gone cannot be asked.
EmitReissue(st, fin) ==
  [st EXCEPT !.reissue = IF Act(st, Primary).gen \in fin THEN "Unreachable" ELSE "Requested"]

EscalateReissue(st, fin, late) ==
  OnSlotEnded(Fence(st, Primary), fin, late, Primary, "ResubscribeTimedOut", Act(st, Primary).up)

\* on_reissue_due once the queue is drained; `was' is the phase whose deadline woke the loop.
OnReissueDue(st, fin, late, was) ==
  LET armed == ArmReissue(st)
  IN  CASE armed.reissue = "Pending" -> EmitReissue(armed, fin)
        [] armed.reissue \in {"Requested", "Awaiting"} /\ armed.reissue = was ->
             EscalateReissue(armed, fin, late)
        [] OTHER -> armed

-----------------------------------------------------------------------------
(* Connection tasks, the venue and the loop                                *)

\* run_connection as the shard sees it: `ready' and `resub' are notices on their way, `pos' the
\* newest key of each market the session has delivered, `command' a resubscription asked for.
NoTask == [state |-> "none", why |-> "None", ready |-> "unsent", resub |-> FALSE,
           command |-> FALSE, pos |-> [m \in Slugs |-> 0]]

Finished == {g \in Generations : task[g].state = "ended"}
StatesOf(m, head) == {k \in 1..head : sh.dep.venue[k] = m}
Newest(S) == IF S = {} THEN 0 ELSE CHOOSE k \in S : \A j \in S : j <= k

\* A subscription is answered with the newest state of each market.
Serve(pos, head) ==
  [m \in Slugs |-> LET newest == Newest(StatesOf(m, head))
                   IN  IF newest = 0 THEN pos[m] ELSE newest - 1]

\* Spawned generations start dialing; a generation no slot holds any more is aborted.
Settle(st, tasks) ==
  LET held == UNION {{Act(st, s).gen, st.slot[s].fenced} : s \in Sockets}
  IN  [g \in Generations |->
         IF g \in held THEN IF tasks[g].state = "none" THEN [NoTask EXCEPT !.state = "dialing"] ELSE tasks[g]
         ELSE IF g <= st.gen THEN [NoTask EXCEPT !.state = "aborted"] ELSE tasks[g]]

Turn(st, tasks) ==
  \E top \in {LoopTop(st, {g \in Generations : tasks[g].state = "ended"})} :
    sh' = top /\ task' = Settle(top, tasks)

HeartbeatDue == \E s \in Slots(sh) : Expired(Act(sh, s))
\* The timers come first in the select: commands, notices and ends wait for them.
Listening == ~sh.stopped /\ ~HeartbeatDue /\ sh.reissue # "Pending"

Trouble == /\ env.troubles < MaxTroubles
           /\ env' = [env EXCEPT !.troubles = @ + 1]

\* The shard and the tasks after one notice of generation g is dispatched.  A fenced generation's
\* are dropped, so how far it got is not recorded.
Dispatched(st, tasks, g) ==
  LET t == tasks[g]
      taken(done) == IF SlotOf(st, g) = {} THEN tasks ELSE [tasks EXCEPT ![g] = done]
      due(m) == {k \in StatesOf(m, env.head) : k > t.pos[m]}
      next(m) == CHOOSE k \in due(m) : \A j \in due(m) : k <= j
      carried == IF SlotOf(st, g) = {} THEN Slugs ELSE Act(st, First(SlotOf(st, g))).carries
      ready == IF t.ready # "queued" THEN {}
               ELSE {<<OnNotice(st, g, [kind |-> "Ready"]), taken([t EXCEPT !.ready = "taken"])>>}
      resub == IF ~t.resub THEN {}
               ELSE {<<OnNotice(st, g, [kind |-> "Resubscribed"]), taken([t EXCEPT !.resub = FALSE])>>}
      frames == IF t.ready # "taken" THEN {}
                ELSE {<<OnNotice(st, g, [kind |-> "Update", market |-> m, at |-> next(m)]),
                        taken([t EXCEPT !.pos[m] = next(m)])>> : m \in {m \in carried : due(m) # {}}}
  IN  IF t.state \notin {"open", "ended"} THEN {} ELSE ready \cup resub \cup frames

\* What draining the queue may dispatch before a verdict, one notice of `gens' at most here;
\* a longer drain is that many turns.
Drained(gens) == {<<sh, task>>} \cup UNION {Dispatched(sh, task, g) : g \in gens}

TakeNotice(g) ==
  /\ Listening
  /\ \E p \in Dispatched(sh, task, g) : Turn(p[1], p[2])
  /\ UNCHANGED env

\* A frame that is not an ordinary update, a rail loss, or a resolution.
TakeFault(g) ==
  /\ Listening /\ task[g].state = "open" /\ task[g].ready = "taken" /\ Trouble
  /\ \/ \E kind \in {"LocalLoss", "Overload"} :
          Turn(OnNotice(sh, g, [kind |-> kind]),
               [task EXCEPT ![g].pos = IF kind = "Overload" THEN [m \in Slugs |-> Newest(StatesOf(m, env.head))]
                                       ELSE @])
     \/ \E m \in Slugs, kind \in {"Keyless", "Unsound", "Refused"} :
          /\ StatesOf(m, env.head) # {}
          /\ SlotOf(sh, g) # {} => m \in Act(sh, First(SlotOf(sh, g))).carries
          /\ LET k == Newest(StatesOf(m, env.head))
             IN  Turn(OnNotice(sh, g, [kind |-> kind, market |-> m, at |-> k]), [task EXCEPT ![g].pos[m] = k])
     \/ \E m \in Slugs : Turn(OnNotice(sh, g, [kind |-> "Resolved", market |-> m]), task)

AddCommand ==
  /\ Listening /\ env.commands < MaxCommands
  /\ \E slugs \in Batches : Turn(AddMarkets(sh, slugs), task)
  /\ env' = [env EXCEPT !.commands = @ + 1]

RemoveCommand ==
  /\ Listening /\ env.commands < MaxCommands
  /\ \E slugs \in Batches : Turn(RemoveMarkets(sh, slugs), task)
  /\ env' = [env EXCEPT !.commands = @ + 1]

\* Wake::Ended: the task's last notices were taken before its end is.
Join(s) ==
  /\ Listening /\ s \in Slots(sh) /\ Occupied(sh, s)
  /\ LET conn == Act(sh, s)
     IN  /\ conn.gen \in Finished /\ task[conn.gen].ready # "queued"
         /\ \E late \in SUBSET (Generations \ Finished) :
              /\ late \subseteq {Act(sh, t).gen : t \in Slots(sh) \ {s}}
              /\ LET ended == [g \in Generations |-> IF g \in late THEN [task[g] EXCEPT !.state = "ended", !.why = "SocketClosed"]
                                                     ELSE task[g]]
                 IN  Turn(OnSlotEnded([sh EXCEPT !.slot[s].act = Vacant], Finished, late, s,
                                      task[conn.gen].why, conn.up), ended)
              /\ env.troubles + Cardinality(late) <= MaxTroubles
              /\ env' = [env EXCEPT !.troubles = @ + Cardinality(late)]

\* on_heartbeat_missed; a heartbeat found in the queue still counts.
HeartbeatMissed(s) ==
  /\ ~sh.stopped /\ s \in Slots(sh) /\ Expired(Act(sh, s))
  /\ s # Primary => ~Expired(Act(sh, Primary))
  /\ \E p \in Drained(Generations \ {Act(sh, s).gen}), rescued \in BOOLEAN :
       LET conn == Act(p[1], s)
           fin == {g \in Generations : p[2][g].state = "ended"}
       IN  IF rescued \/ ~Expired(conn)
           THEN Turn([p[1] EXCEPT !.slot[s].act.fresh = TRUE], p[2])
           ELSE Turn(OnSlotEnded(Fence(p[1], s), fin, {}, s, "HeartbeatTimeout", conn.up), p[2])
  /\ UNCHANGED env

ReissueDue ==
  /\ ~sh.stopped /\ ~HeartbeatDue /\ sh.reissue \in {"Pending", "Requested", "Awaiting"}
  /\ \E p \in Drained(Generations) :
       LET fin == {g \in Generations : p[2][g].state = "ended"}
       IN  \E done \in {OnReissueDue(p[1], fin, {}, sh.reissue)} :
             Turn(done, IF done.reissue = "Requested" /\ p[1].reissue # "Requested"
                        THEN [p[2] EXCEPT ![Act(done, Primary).gen].command = TRUE] ELSE p[2])
  /\ UNCHANGED env

FencedExpired(s) ==
  /\ ~sh.stopped /\ ~HeartbeatDue /\ sh.slot[s].fenced # 0
  /\ Turn(ReleaseFenced(sh, s), task)
  /\ UNCHANGED env

Reconnect(s) ==
  /\ ~sh.stopped /\ ~HeartbeatDue /\ s \in Slots(sh) /\ sh.slot[s].wait
  /\ Turn([sh EXCEPT !.slot[s].wait = FALSE], task)
  /\ UNCHANGED env

\* The loop ran past a connection's heartbeat deadline.
Lapse(s) ==
  /\ ~sh.stopped /\ s \in Slots(sh) /\ Act(sh, s).up /\ Act(sh, s).fresh /\ Trouble
  /\ sh' = [sh EXCEPT !.slot[s].act.fresh = FALSE]
  /\ UNCHANGED task

Connect(g) ==
  /\ task[g].state = "dialing"
  /\ task' = [task EXCEPT ![g].state = "open", ![g].ready = "queued", ![g].pos = Serve(@, env.head)]
  /\ UNCHANGED <<sh, env>>

DialFails(g) ==
  /\ task[g].state = "dialing" /\ Trouble
  /\ task' = [task EXCEPT ![g].state = "ended", ![g].why = "DialFailed"]
  /\ UNCHANGED sh

\* A session ends on its own, or because its last notices could not be delivered.
EndSession(g) ==
  /\ task[g].state = "open" /\ Trouble
  /\ \E why \in {"SocketClosed", "Terminal", "TaskFailed", "NoticeUndeliverable"} :
       task' = [task EXCEPT ![g].state = "ended", ![g].why = why]
  /\ UNCHANGED sh

\* The task sends the subscription again, and the venue answers with the newest states.
Resubscribe(g) ==
  /\ task[g].state = "open" /\ task[g].command
  /\ task' = [task EXCEPT ![g].command = FALSE, ![g].resub = TRUE, ![g].pos = Serve(@, env.head)]
  /\ UNCHANGED <<sh, env>>

MarketMoves ==
  /\ env.head < Len(sh.dep.venue)
  /\ env' = [env EXCEPT !.head = @ + 1]
  /\ UNCHANGED <<sh, task>>

\* The writer refuses what the shard publishes next.
SegmentBreaks ==
  /\ ~sh.stopped /\ HasSegment(sh) /\ ~sh.seg.broken /\ Trouble
  /\ sh' = [sh EXCEPT !.seg.broken = TRUE]
  /\ UNCHANGED task

-----------------------------------------------------------------------------

NewShard(dep) ==
  [dep |-> dep, market |-> [m \in Slugs |-> Absent], retired |-> [m \in Slugs |-> NoBook],
   seg |-> NewSegment, slot |-> [s \in Sockets |-> EmptySlot],
   shadow |-> [s \in StandbySlots |-> NoShadows], agreeing |-> [s \in StandbySlots |-> {}],
   degraded |-> "None", ended |-> {}, gen |-> 0, reissue |-> "Idle", desired_version |-> 0,
   recovering |-> 0, desired_count |-> 0, removing |-> <<>>, latched |-> FALSE, stopped |-> FALSE,
   rewound |-> FALSE]

Init ==
  /\ \E dep \in Deployments : sh = LoopTop(AddMarkets(NewShard(dep), dep.set), {})
  /\ task = Settle(sh, [g \in Generations |-> NoTask])
  /\ env = [head |-> sh.dep.head, commands |-> 0, troubles |-> 0]

Next ==
  \/ AddCommand \/ RemoveCommand \/ ReissueDue \/ MarketMoves \/ SegmentBreaks
  \/ \E s \in Sockets : Join(s) \/ HeartbeatMissed(s) \/ FencedExpired(s) \/ Reconnect(s) \/ Lapse(s)
  \/ \E g \in Generations :
       TakeNotice(g) \/ TakeFault(g) \/ Connect(g) \/ DialFails(g) \/ EndSession(g) \/ Resubscribe(g)

Spec == Init /\ [][Next]_vars

\* What the loop's select waits on: when a turn of the loop would change something.
Woken ==
  /\ ~sh.stopped
  /\ \/ HeartbeatDue \/ sh.reissue \in {"Pending", "Requested", "Awaiting"}
     \/ \E s \in Slots(sh) :
          LET g == Act(sh, s).gen
          IN  \/ g \in Finished
              \/ /\ g # 0 /\ task[g].state = "open"
                 /\ \/ task[g].ready = "queued" \/ task[g].resub
                    \/ /\ task[g].ready = "taken"
                       /\ \E m \in Act(sh, s).carries, k \in 1..env.head :
                            sh.dep.venue[k] = m /\ k > task[g].pos[m]
              \/ sh.slot[s].wait /\ (sh.seg.failure \/ sh.gen + 1 \in Generations)

Dialing == \E g \in Generations : task[g].state = "dialing"

\* Weak fairness of the loop and of the dials (setup_timeout ends one), their enabledness written
\* out: a loop that stays woken turns, and a dial does not stay in flight.  Commands and troubles
\* are bounded, so a behaviour that changes sh or task for ever is one whose loop keeps turning.
FairSpec ==
  /\ Spec
  /\ []<>(~Woken /\ ~Dialing) \/ []<><<sh' # sh \/ task' # task>>_vars

-----------------------------------------------------------------------------
(* Properties                                                              *)

Books ==
  [at : {0} \cup Keys, epoch : Nat, lost : BOOLEAN, next : Nat,
   auth : {"Synchronizing", "Live", "Unsubscribed", "LocalLoss", "Overload", "Disconnect",
           "SubscriptionLost", "ReplicaDivergence", "OrderingUnknown", "RecoveryBaseUnavailable"}]

\* The shard's record keeps its type, and no generation is in two slots.
TypeOK ==
  /\ \A m \in Slugs :
       LET e == sh.market[m]
       IN  /\ e.book \in Books /\ e.from \in {0} \cup Generations
           /\ e.attempts \in 0..MaxRecoveryAttempts /\ e.reached \subseteq Sockets
           /\ e.resident \/ e = Absent
  /\ sh.reissue \in {"Idle", "Pending", "Requested", "Awaiting", "Unreachable"}
  /\ \A s, t \in Sockets : Occupied(sh, s) /\ Act(sh, s).gen = Act(sh, t).gen => s = t

\* "The tracked agreement must be what a recomputation over the whole set finds": every path that
\* moves a book, a shadow or the desired set has kept the agreement current.
AgreementTracked ==
  \A s \in StandbySlots : sh.agreeing[s] = {m \in Slugs : Promotable(sh, s, m)}

\* The counts the loop decides on are the counts of the entries, and the tombstones in line are
\* the removed markets still resident, within their bound.
CountsExact ==
  /\ sh.recovering = Cardinality({m \in Slugs : NeedsRecovery(sh.market[m])})
  /\ sh.desired_count = Cardinality(DesiredSlugs(sh))
  /\ ToSet(sh.removing) = Undesired(sh) /\ Len(sh.removing) = Cardinality(Undesired(sh))
  /\ Len(sh.removing) <= MaxRemoving

\* A live book is followed by a connection: the publishing one it is subscribed from, or with a
\* licence any established socket whose dial named this incarnation.
LiveHasSource ==
  \A m \in Slugs : IsLive(sh.market[m]) /\ ~sh.stopped =>
    IF PoolArmed(sh) THEN \E s \in Slots(sh) : PoolCarries(sh, s, m)
    ELSE Act(sh, Primary).up /\ sh.market[m].from = Act(sh, Primary).gen

\* After every turn each established wire carries exactly the desired set, in its current
\* incarnations, and every market of the publishing one is subscribed from it: no order of
\* commands, dials and promotions leaves a session on another set or a market to a session that
\* is gone.
WireCarriesDesired ==
  \A s \in Slots(sh) : Act(sh, s).up /\ ~sh.stopped =>
    /\ Act(sh, s).carries = DesiredSlugs(sh)
    /\ \A m \in DesiredSlugs(sh) : /\ ClaimedBy(sh.market[m], Act(sh, s).version)
                                   /\ s = Primary => sh.market[m].from = Act(sh, s).gen

\* A removed market waits only for a dial that may still name it.
TombstoneAwaitsDial ==
  Undesired(sh) # {} /\ ~sh.stopped => Occupied(sh, Primary) /\ ~Act(sh, Primary).up

\* A terminal verdict stands until a base: no later loss makes an unrecoverable market look
\* merely disconnected.
TerminalSticks ==
  \A m \in Slugs : sh.market[m].reported => sh.market[m].book.auth = "RecoveryBaseUnavailable"

\* While the rail's loss is latched no book is live, so a loss that is not reported again hides
\* nothing.
LatchedMeansLost == sh.latched => \A m \in Slugs : ~IsLive(sh.market[m])

\* A debt is always being worked off: with an established publishing connection and a market owed
\* a base the reissue is under way.
DebtIsWorkedOff ==
  sh.recovering > 0 /\ Act(sh, Primary).up /\ ~sh.stopped => sh.reissue # "Idle"

\* What a segment's reader finds is what the shard holds: each resident book in its slot, each
\* retired one unsubscribed, until a refused publication ends the run.
SegmentMirrorsBooks ==
  HasSegment(sh) /\ ~sh.seg.failure =>
    /\ \A m \in Resident(sh) : sh.seg.entry[m] = "live" /\ sh.seg.slot[m] = sh.market[m].book
    /\ \A m \in Slugs \ Resident(sh) : sh.seg.entry[m] # "none" => sh.seg.slot[m].auth = "Unsubscribed"
    /\ sh.seg.live = Cardinality(Resident(sh))

\* A refused publication ends the run of a shard that still wants markets: its readers are not
\* left with a segment nobody writes.
FailureStops == (sh.seg.failure /\ sh.desired_count > 0) ~> sh.stopped


\* "The figure an operator watches is the figure a loss right now would produce": the promotion
\* coverage is the number of books a loss of the publishing connection would leave live.
CoverageIsHonest ==
  LET viable == {s \in Standbys(sh) : Viable(sh, Finished, s)}
      after == OnSlotEnded([sh EXCEPT !.slot[Primary].act = Vacant], Finished, {}, Primary,
                           "SocketClosed", Act(sh, Primary).up)
  IN  ~PoolArmed(sh) /\ Occupied(sh, Primary) =>
        Cardinality({m \in Slugs : IsLive(after.market[m])})
          = IF viable = {} THEN 0 ELSE Cardinality(sh.agreeing[First(viable)])

\* The stream in a market's slot never goes back over cursors it has used, through losses, rebases
\* and every incarnation of the market.
StreamNeverReused ==
  [][\A m \in Slugs : sh.seg.slot[m] # NoBook =>
       LET old == sh.seg.slot[m]  new == sh'.seg.slot[m]
       IN  new.epoch > old.epoch \/ (new.epoch = old.epoch /\ new.next >= old.next)]_vars

\* A removed market is not kept for good: it is closed, or wanted again, or the shard stops.
RemovedIsClosed ==
  \A m \in Slugs : m \in Undesired(sh) ~> (m \notin Undesired(sh) \/ sh.stopped)


\* The wires and the tombstones follow the desired set, whatever order commands and dials take.
WiresFollowDesired == WireCarriesDesired /\ TombstoneAwaitsDial

\* Everything the shard tracks incrementally is what a recomputation would find, and so is the
\* coverage it reports.
TrackedIsRecomputed == TypeOK /\ AgreementTracked /\ CountsExact /\ CoverageIsHonest

\* What is over is concluded: a removed market is closed, and a shard whose segment failed stops.
OverIsConcluded == RemovedIsClosed /\ FailureStops
=============================================================================

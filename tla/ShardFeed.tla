------------------------------ MODULE ShardFeed ------------------------------
(***************************************************************************)
(* What arrives at the shard (src/src/limitless/shard.rs): book updates on *)
(* the publishing connection, on a standby and on a pool's sockets,        *)
(* resolutions, losses of one market and of the whole rail, the agreement  *)
(* between each standby's shadows and the published books, and the         *)
(* withdrawal of the pool's licence.                                       *)
(*                                                                         *)
(* An update is [at, kind]: the venue's state `at' of its market, sound    *)
(* ("Update"), without an orderable key ("Keyless"), one no candidate can  *)
(* be built from ("Unsound"), or one every book refuses ("Refused").       *)
(***************************************************************************)
EXTENDS ShardMarkets

\* ConnectionSlot: `act' the active connection (gen 0: none) with the set it was dialled with and
\* that set's version, `fenced' the fenced generation, `wait' a reconnect not yet due,
\* `dialling' a dial not yet settled (dialled_version is its set's version), `wire' wire_version.
Vacant == [gen |-> 0, up |-> FALSE, fresh |-> TRUE, carries |-> {}, version |-> 0]
EmptySlot == [act |-> Vacant, fenced |-> 0, wait |-> FALSE, dialling |-> FALSE, wire |-> 0]

Slots(st) == st.dep.slots
Standbys(st) == Slots(st) \ {Primary}
Act(st, s) == st.slot[s].act
Occupied(st, s) == Act(st, s).gen # 0

-----------------------------------------------------------------------------
(* Agreement                                                               *)

\* agreement: a shadow is live from its first base on, so it agrees when it holds the same state.
Agrees(shadow, book) == shadow # 0 /\ shadow = book.at

\* promotable: what a takeover by this standby would carry through.
Promotable(st, s, m) ==
  LET e == st.market[m]
  IN  e.desired /\ e.based /\ IsLive(e) /\ Agrees(st.shadow[s][m], e.book)

RefreshShadowAgreement(st, s, m) ==
  [st EXCEPT !.agreeing[s] = IF Promotable(st, s, m) THEN @ \cup {m} ELSE @ \ {m}]

\* Mutant: an update of the book leaves the agreement as it was.
RefreshAgreementNever(st, m) == st

RefreshAgreement(st, m) ==
  [st EXCEPT !.agreeing = [s \in StandbySlots |-> IF s \in Standbys(st) /\ Promotable(st, s, m)
                                                  THEN @[s] \cup {m} ELSE @[s] \ {m}]]

RetireAllAgreement(st) == RetireAgreement(st, Slugs)

NoShadows == [m \in Slugs |-> 0]
ClearShadows(st, s) == [st EXCEPT !.shadow[s] = NoShadows, !.agreeing[s] = {}]

DropShadow(st, s, m) == [st EXCEPT !.shadow[s][m] = 0, !.agreeing[s] = @ \ {m}]

-----------------------------------------------------------------------------
(* Losses                                                                  *)

PoolArmed(st) == st.dep.licensed /\ st.degraded = "None"

\* report_market_loss: a terminal verdict is kept.
ReportMarketLoss(st, m, why) ==
  LET e == st.market[m]
      lost == MutateMarket(st, m, [e EXCEPT !.here = FALSE,
                                            !.book = IF e.reported THEN @ ELSE Lost(@, why)])
  IN  RefreshAgreement(SegmentPublishChanged(lost, st), m)

\* Mutant: the loss stops at the book; the segment keeps the last live state.
ReportShardLossUnpublished(st, why) ==
  IF st.latched THEN st
  ELSE RecountRecovering(RetireAllAgreement(
         [st EXCEPT !.latched = TRUE,
                    !.market = [m \in Slugs |->
                       IF ~@[m].based THEN @[m]
                       ELSE [@[m] EXCEPT !.here = FALSE,
                                         !.book = IF st.market[m].reported THEN @
                                                  ELSE Lost(@, why)]]]))

\* report_shard_loss: once per rail, every book that held authority loses it.
ReportShardLoss(st, why) ==
  LET lost == [st EXCEPT !.latched = TRUE,
                         !.market = [m \in Slugs |->
                            IF ~@[m].based THEN @[m]
                            ELSE [@[m] EXCEPT !.here = FALSE,
                                              !.book = IF st.market[m].reported THEN @
                                                       ELSE Lost(@, why)]]]
  IN  IF st.latched THEN st
      ELSE RecountRecovering(RetireAllAgreement(SegmentPublishChanged(lost, st)))

\* report_rail_loss: under a licence any socket's loss is the rail's; otherwise a standby's
\* costs only what it mirrored.
ReportRailLoss(st, s, why) ==
  LET rail == IF PoolArmed(st) \/ s = Primary THEN ReportShardLoss(st, why) ELSE st
  IN  IF s = Primary THEN rail ELSE ClearShadows(rail, s)

-----------------------------------------------------------------------------
(* Updates                                                                 *)

\* An accepted base.  `rewound' only records what must not happen: a live book set to an older
\* state.
Accept(st, m, k) ==
  LET e == st.market[m]
  IN  [MutateMarket(st, m, [e EXCEPT !.based = TRUE, !.here = TRUE, !.attempts = 0,
                                     !.reported = FALSE, !.book = Based(@, k)])
         EXCEPT !.latched = FALSE,
                !.rewound = @ \/ (IsLive(e) /\ k < e.book.at)]

\* apply_update: only the generation the market is subscribed from publishes it.
ApplyUpdate(st, m, update) ==
  LET e == st.market[m]
      accepted == Accept(st, m, update.at)
  IN  IF ~e.resident \/ ~Occupied(st, Primary) \/ e.from # Act(st, Primary).gen THEN st
      ELSE IF update.kind \in {"Unsound", "Refused"} THEN ReportMarketLoss(st, m, "LocalLoss")
      ELSE RefreshAgreement(SegmentPublish(accepted, m, accepted.market[m].book), m)

\* apply_shadow_candidate; a refused one takes the shadow with it.
ApplyShadowCandidate(st, s, m, update) ==
  RefreshShadowAgreement(
    [st EXCEPT !.shadow[s][m] = IF update.kind = "Refused" THEN 0 ELSE update.at], s, m)

\* apply_shadow_update: a standby's arrival moves its shadow and nothing else.
ApplyShadowUpdate(st, s, m, update) ==
  IF ~st.market[m].resident \/ m \notin Act(st, s).carries THEN st
  ELSE IF update.kind = "Unsound" THEN DropShadow(st, s, m)
  ELSE ApplyShadowCandidate(st, s, m, update)

\* pool_carries: an established socket whose dial named this incarnation.
PoolCarries(st, s, m) ==
  /\ st.market[m].resident /\ Act(st, s).up
  /\ ClaimedBy(st.market[m], Act(st, s).version) /\ m \in Act(st, s).carries

\* new_pool_gate: a gate made late knows which sockets already ended a session.
NewPoolGate(st) ==
  [NewGate EXCEPT !.replaced = [s \in Sockets |-> s \in st.ended]]

\* hand_back_to_publishing_slot: a book stays only if the publishing connection carries it and
\* stands at its published state.
HandBackToPublishingSlot(st) ==
  LET running == IF Act(st, Primary).up THEN Act(st, Primary).gen ELSE 0
      carried(e) == running # 0 /\ e.from = running
      costs(e) == ~(carried(e) /\ Primary \in e.reached) /\ e.based /\ ~e.reported
      why(e) == IF carried(e) THEN "OrderingUnknown" ELSE "SubscriptionLost"
      handed == [st EXCEPT !.market = [m \in Slugs |->
                   IF costs(@[m])
                   THEN [@[m] EXCEPT !.here = FALSE, !.book = Lost(@, why(st.market[m]))] ELSE @[m]]]
  IN  RecountRecovering(RetireAgreement(SegmentPublishChanged(handed, st),
                                        {m \in Slugs : costs(st.market[m])}))

\* withdraw_licence: once, for the whole shard.
WithdrawLicence(st, why) ==
  HandBackToPublishingSlot(
    [st EXCEPT !.degraded = why, !.market = [m \in Slugs |-> [@[m] EXCEPT !.gate = NoGate]]])

\* shadow_pooled; publish_pooled and recover_pooled mirror the arrival first, too.
ShadowPooled(st, s, m, update) == IF s = Primary THEN st ELSE ApplyShadowCandidate(st, s, m, update)

\* publish_pooled and recover_pooled: the arrival as a base, from which `reached' stand at the
\* published state; what the book refuses is a loss of the market, and moves no key.
CommitPooled(st, s, m, update, gate, reached) ==
  LET mirrored == ShadowPooled(st, s, m, update)
      accepted == [Accept(mirrored, m, update.at) EXCEPT !.market[m].gate = gate,
                                                           !.market[m].reached = reached]
  IN  IF update.kind = "Refused" THEN ReportMarketLoss(mirrored, m, "LocalLoss")
      ELSE RefreshAgreement(SegmentPublish(accepted, m, accepted.market[m].book), m)

PublishPooled(st, s, m, update) ==
  CommitPooled(st, s, m, update, Committed(st.market[m].gate, update.at), {s})

\* The published state again, as a recovery base.
RecoverPooled(st, s, m, update) ==
  LET e == st.market[m] IN CommitPooled(st, s, m, update, e.gate, e.reached \cup {s})

\* apply_pooled.
ApplyPooled(st, s, m, update) ==
  LET k == IF update.kind = "Keyless" THEN NoKey ELSE update.at
      gate == IF st.market[m].gate = NoGate THEN NewPoolGate(st) ELSE st.market[m].gate
      redelivered == k # NoKey /\ EvidenceMatches(gate, k, update.at)
      noted(judged, reached) ==
        ShadowPooled([judged EXCEPT !.market[m].reached = reached], s, m, update)
      acted(verdict, judged) ==
        CASE verdict = "Publish" -> PublishPooled(judged, s, m, update)
          [] verdict = "Duplicate" /\ redelivered /\ ~IsLive(st.market[m]) ->
               RecoverPooled(judged, s, m, update)
          [] verdict = "Duplicate" /\ ~(redelivered /\ ~IsLive(st.market[m])) ->
               noted(judged, st.market[m].reached \cup {s})
          [] verdict = "Stale" -> noted(judged, st.market[m].reached \ {s})
          [] OTHER -> WithdrawLicence(judged, judged.market[m].gate.degraded)
      answered(admitted) == acted(admitted.verdict, [st EXCEPT !.market[m].gate = admitted.gate])
  IN  IF ~PoolCarries(st, s, m) THEN st
      ELSE IF update.kind = "Unsound" THEN ReportMarketLoss(st, m, "LocalLoss")
      ELSE answered(Admit(gate, s, k, update.at))

\* forward_resolution: an intact stream gives it a position of its own.
ForwardResolution(st, m) ==
  LET e == st.market[m]
      told == [st EXCEPT !.market[m].book.next = @ + 1]
  IN  IF ~e.resident \/ e.book.lost THEN st ELSE SegmentPublish(told, m, told.market[m].book)

\* on_event.
OnUpdate(st, s, m, update) ==
  IF PoolArmed(st) THEN ApplyPooled(st, s, m, update)
  ELSE IF s = Primary THEN ApplyUpdate(st, m, update)
  ELSE ApplyShadowUpdate(st, s, m, update)

OnResolved(st, s, m) == IF s = Primary THEN ForwardResolution(st, m) ELSE st
=============================================================================

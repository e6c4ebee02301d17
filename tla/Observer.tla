------------------------------- MODULE Observer -------------------------------
(***************************************************************************)
(* The consumer surface of one book (src/src/observer.rs): a BookWriter    *)
(* that owns the OrderBook, publishes its newest state on a watch and      *)
(* sends deliveries on a bounded broadcast ring, and a BookObserver on     *)
(* another thread.  Publishing and each send are steps the observer can    *)
(* come between, and so are the two halves of a reattach.  A book no       *)
(* writer owns has no surface; it takes every candidate, an owned one the  *)
(* ObservedCandidates.  `sent` keeps every delivery in order, of which the *)
(* ring retains the newest Capacity.  The observer's `held`, `from`,       *)
(* `taken`, `whole` and `based` are for the properties: the levels of a    *)
(* consumer that applies what it is handed, the ring position it attached  *)
(* at, how many deliveries it was handed since, and whether the state it   *)
(* attached to had an intact stream and a base.  A call an owned book      *)
(* refuses publishes nothing; the bare book shows those.                   *)
(***************************************************************************)
EXTENDS OrderBookHistory

CONSTANTS
  Capacity,             \* ring slots: the requested capacity, up to a power of two
  ObservedCandidates,   \* what an owned book is offered
  MaxDeliveries         \* bound on the deliveries an owned book numbers

ASSUME CapacityAssumption == Capacity \in Nat \ {0}
ASSUME ObservedAssumption == ObservedCandidates \subseteq Candidates

VARIABLES
  owned,                \* a BookWriter owns the book
  alive,                \* ... and has not been dropped
  published,            \* the newest published state
  outbox,               \* deliveries of the current call still to be sent
  sent,                 \* every delivery sent
  obs                   \* the observer

surface == <<owned, alive, published, outbox, sent, obs>>
ovars == <<hvars, surface>>

\* OrderBook::publish, of the book as it is and as the step leaves it.
PublishedBook == [revision |-> revision, continuity |-> continuity, levels |-> levels,
                  provenance |-> provenance]

Before(c, d) == c.epoch < d.epoch \/ (c.epoch = d.epoch /\ c.position < d.position)

\* The stream position an attachment to this state starts from.
AttachmentCursor(p) ==
  IF IsIntact(p.continuity) THEN Cursor(p.continuity.epoch, p.continuity.next_position)
  ELSE Cursor(p.continuity.epoch, 0)

NoObserver ==
  [pc |-> "None", next |-> 1, fresh |-> FALSE, resume_after |-> 0, boundary |-> Cursor(0, 0),
   cursor |-> Cursor(0, 0), pending |-> 0, lost |-> "None", state_open |-> TRUE, closed |-> FALSE,
   held |-> levels, from |-> 1, taken |-> 0, whole |-> TRUE, based |-> FALSE]

\* BookWriter::new publishes the state it takes over.
OInit ==
  /\ HInit
  /\ owned \in BOOLEAN /\ alive = owned
  /\ published = PublishedBook /\ outbox = <<>> /\ sent = <<>>
  /\ obs = NoObserver

-----------------------------------------------------------------------------
(* The writer                                                              *)

\* The deliveries a call derived, in the order the book numbered them.
DeliveriesOf(r) ==
  CASE r.kind = "Commit" ->
       [i \in DOMAIN r.mutations |->
          [kind |-> "Mutation", revision |-> r.revision, cursor |-> r.mutations[i].cursor,
           coord |-> r.mutations[i].coord, replacement |-> r.mutations[i].replacement]]
    [] r.kind = "Cursor" -> <<[kind |-> "Resolution", revision |-> revision, cursor |-> r.cursor]>>
    [] OTHER -> <<>>

\* The calls that publish: a commit, a resolution, and a change of authority or continuity.
Publishes(r) == r.kind \in {"Commit", "Cursor"} \/ (r.kind = "Changed" /\ r.value)

\* Mutant: the deliveries are sent before the state that contains them is published.
PublishLast(r) ==
  /\ outbox' = <<>> /\ sent' = IF owned THEN sent \o DeliveriesOf(r) ELSE sent
  /\ published' = IF owned THEN PublishedBook ELSE published
  /\ obs' = [obs EXCEPT !.fresh = @ \/ (owned /\ Publishes(r))]

\* publish_then_send: the state first; the deliveries wait for their sends.
PublishThenSend(r) ==
  /\ published' = IF owned /\ Publishes(r) THEN PublishedBook' ELSE published
  /\ obs' = [obs EXCEPT !.fresh = @ \/ (owned /\ Publishes(r))]
  /\ outbox' = IF owned THEN DeliveriesOf(r) ELSE <<>>
  /\ UNCHANGED sent

\* One call on the book: the writer's, or on a book that has none.
Called ==
  /\ alive = owned /\ outbox = <<>> 
  /\ log' = log \o ReplyCursors(reply')
  /\ replayed' = ReplayedAfter(reply')
  /\ owned => Publishes(reply') /\ Len(log') <= MaxDeliveries
  /\ PublishThenSend(reply')
  /\ UNCHANGED <<owned, alive>>

Offered == IF owned THEN ObservedCandidates ELSE Candidates

WriterApplySnapshot == \E cand \in Offered : ApplySnapshot(cand) /\ Called

WriterApplySourceDelta == \E cand \in Offered : ApplySourceDelta(cand) /\ Called

PublishResolution == NoteStreamEvent /\ Called

WriterUnsubscribe == Unsubscribe /\ Called

WriterReportContinuityLoss ==
  \E reason \in ContinuityReasons, why \in AuthorityReasons :
    ReportContinuityLoss(reason, why) /\ Called

\* One send: the ring drops its oldest delivery when it is full, the writer never waits.
Send ==
  /\ outbox # <<>>
  /\ sent' = Append(sent, Head(outbox)) /\ outbox' = Tail(outbox)
  /\ UNCHANGED <<hvars, owned, alive, published, obs>>

\* The writer is dropped between two calls, and both surfaces close.
DropWriter ==
  /\ owned /\ alive /\ outbox = <<>>
  /\ alive' = FALSE
  /\ UNCHANGED <<hvars, owned, published, outbox, sent, obs>>

-----------------------------------------------------------------------------
(* The observer                                                            *)

Retained == IF Len(sent) > Capacity THEN Len(sent) - Capacity + 1 ELSE 1

\* An attachment to the published state, reading the ring from `next`.
AttachedAt(o, next) ==
  [o EXCEPT !.pc = "Attached", !.next = next, !.fresh = FALSE,
            !.resume_after = published.revision, !.boundary = AttachmentCursor(published),
            !.cursor = AttachmentCursor(published), !.pending = 0, !.lost = "None",
            !.held = published.levels, !.from = next, !.taken = 0,
            !.whole = IsIntact(published.continuity), !.based = published.provenance]

\* BookWriter::attach borrows the writer, so no call of it is under way.
Attach ==
  /\ obs.pc = "None" /\ alive /\ outbox = <<>>
  /\ obs' = AttachedAt(obs, Len(sent) + 1)
  /\ UNCHANGED <<hvars, owned, alive, published, outbox, sent>>

\* reattach: a new receiver at the ring's tail ...
Resubscribe ==
  /\ obs.pc = "Attached"
  /\ obs' = [obs EXCEPT !.pc = "Resubscribed", !.next = Len(sent) + 1]
  /\ UNCHANGED <<hvars, owned, alive, published, outbox, sent>>

\* ... and then the newest state, which becomes this attachment's boundary.
Reattach ==
  /\ obs.pc = "Resubscribed"
  /\ obs' = AttachedAt(obs, obs.next)
  /\ UNCHANGED <<hvars, owned, alive, published, outbox, sent>>

\* Already contained in the state this attachment read: a mutation by its revision, a resolution,
\* which has none of its own, by its position.
Redundant(o, d) ==
  IF d.kind = "Mutation" THEN d.revision <= o.resume_after ELSE Before(d.cursor, o.boundary)

\* Mutant: one position further is forgiven.
ClassifyOverrunLoosely(boundary, resumed) ==
  IF resumed.epoch = boundary.epoch /\ resumed.position <= boundary.position + 1
  THEN "Harmless" ELSE "Lost"

\* Harmless when all that was dropped lies before the boundary.
ClassifyOverrun(boundary, resumed) ==
  IF resumed.epoch = boundary.epoch /\ resumed.position <= boundary.position
  THEN "Harmless" ELSE "Lost"

\* Sticky until the next reattach.
Fail(o, reason) == [o EXCEPT !.lost = reason, !.pending = 0]

\* The consumer's next delivery.
Handed(o, d) ==
  [o EXCEPT !.pending = 0, !.cursor = d.cursor, !.taken = @ + 1,
            !.held = IF d.kind = "Mutation" THEN [@ EXCEPT ![d.coord] = d.replacement] ELSE @]

\* The one decision every received delivery passes through.
Admit(o, d) ==
  IF Redundant(o, d) THEN [o EXCEPT !.pending = 0]
  ELSE IF d.cursor.epoch # o.boundary.epoch THEN Fail(o, "RecoveryBase")
  ELSE IF o.pending > 0 /\ ClassifyOverrun(o.boundary, d.cursor) = "Lost" THEN Fail(o, "Overrun")
  ELSE Handed(o, d)

Receiving == obs.pc = "Attached" /\ obs.lost = "None" /\ ~obs.closed

\* Mutant: the ring's report of dropped deliveries is not kept.
OverranForgotten(o) == [o EXCEPT !.next = Retained]

\* The ring overtook this receiver, which resumes at the oldest retained delivery.
Overran(o) == [o EXCEPT !.pending = @ + (Retained - o.next), !.next = Retained]

\* One turn of the loop of try_recv, recv or next_event that finds the ring not empty.
Recv ==
  /\ Receiving /\ obs.next <= Len(sent)
  /\ obs' = IF obs.next < Retained THEN Overran(obs)
            ELSE Admit([obs EXCEPT !.next = @ + 1], sent[obs.next])
  /\ UNCHANGED <<hvars, owned, alive, published, outbox, sent>>

\* The ring is drained and its writer gone; an overrun left unresolved is a loss.
RecvClosed ==
  /\ Receiving /\ obs.next > Len(sent) /\ ~alive
  /\ obs' = IF obs.pending > 0 THEN Fail(obs, "Overrun") ELSE [obs EXCEPT !.closed = TRUE]
  /\ UNCHANGED <<hvars, owned, alive, published, outbox, sent>>

\* The newest state is handed over, or found closed with nothing left to hand over.
WatchTurn(o) ==
  IF o.fresh THEN [o EXCEPT !.fresh = FALSE]
  ELSE IF alive THEN o ELSE [o EXCEPT !.state_open = FALSE]

\* state_changed, which a lost stream does not stop, and next_event once it finds the ring empty:
\* a delivery sent since is the next call's.
StateChanged ==
  /\ obs.pc = "Attached" /\ (obs.fresh \/ ~alive)
  /\ obs' = WatchTurn(obs)
  /\ UNCHANGED <<hvars, owned, alive, published, outbox, sent>>

ConsumerState(o) ==
  CASE o.closed -> "Detached"
    [] ~o.closed /\ o.lost = "RecoveryBase" -> "Rebased"
    [] ~o.closed /\ o.lost = "Overrun" -> "Overrun"
    [] OTHER -> "Attached"

-----------------------------------------------------------------------------

\* A dropped writer ends the book's life.
Done == owned /\ ~alive /\ UNCHANGED ovars

ONext ==
  \/ WriterApplySnapshot \/ WriterApplySourceDelta \/ PublishResolution
  \/ WriterUnsubscribe \/ WriterReportContinuityLoss
  \/ Send \/ DropWriter
  \/ Attach \/ Resubscribe \/ Reattach
  \/ Recv \/ RecvClosed \/ StateChanged
  \/ Done

\* A call that is under way ends, and the consumer goes on receiving.
Fairness ==
  /\ []<>(outbox = <<>>) \/ []<><<outbox' # outbox>>_ovars
  /\ []<>~(Receiving /\ obs.next <= Len(sent)) \/ []<><<obs'.next # obs.next>>_ovars
  /\ []<>(obs.pc # "Resubscribed") \/ []<><<obs'.pc # obs.pc>>_ovars

OSpec == OInit /\ [][ONext]_ovars /\ Fairness

-----------------------------------------------------------------------------
(* Properties                                                              *)

\* The deliveries since the attachment that its own state does not contain, by ring position.
Needed(o) == {i \in o.from..Len(sent) : ~Redundant(o, sent[i])}
NeededBefore(o, n) == Cardinality({i \in Needed(o) : i < n})

\* The published state contains every delivery the ring has carried: a consumer woken by a
\* mutation for revision R reads at least R, and an attachment never starts before a position
\* that was sent (publish_then_send, publish_resolution).
StateLeadsRing ==
  \A i \in DOMAIN sent :
    /\ sent[i].revision <= published.revision
    /\ IsIntact(published.continuity) => Before(sent[i].cursor, AttachmentCursor(published))

\* What a consumer is handed since it attached to an intact stream is gap free from its boundary
\* on, whatever the ring dropped, the writer rebased or the reattach interleaved with.
HandedGapFree ==
  obs.whole /\ obs.taken > 0 =>
    obs.cursor = Cursor(obs.boundary.epoch, obs.boundary.position + obs.taken - 1)

\* A consumer that attached to an established base and has drained the ring of that epoch holds
\* the book: nothing is missed and nothing applied twice across the attachment's boundary.
DrainedHoldsBook ==
  /\ obs.pc = "Attached" /\ obs.lost = "None" /\ obs.whole /\ obs.based
  /\ obs.next > Len(sent) /\ outbox = <<>>
  /\ IsIntact(continuity) /\ continuity.epoch = obs.boundary.epoch
  => /\ EconomicallyEqual(obs.held, levels)
     /\ obs.boundary.position + obs.taken = continuity.next_position

\* No delivery an attachment to an intact stream needs is passed over without the loss being told or still to judge.
NothingSkipped ==
  obs.pc # "Resubscribed" /\ obs.whole /\ obs.lost = "None" /\ obs.pending = 0 =>
    NeededBefore(obs, obs.next) = obs.taken

\* A reported loss is one: an overrun dropped a delivery the attachment's state lacks, a rebase
\* moved the stream past the attachment's epoch, and a detached consumer has had everything.
VerdictsAreReal ==
  obs.pc # "Resubscribed" =>
    /\ ConsumerState(obs) = "Overrun" /\ obs.whole =>
         NeededBefore(obs, obs.next - 1) > obs.taken
    /\ ConsumerState(obs) = "Rebased" => published.continuity.epoch > obs.boundary.epoch
    /\ ConsumerState(obs) = "Detached" /\ obs.whole => Cardinality(Needed(obs)) = obs.taken

\* The state surface is found closed only with its last value read.
ClosedAfterLastState == obs.pc # "None" /\ ~obs.state_open => ~obs.fresh

\* A consumer the ring has overtaken is told: a delivery it needs and can no longer get ends in a
\* reported loss, or in a reattachment.
Overtaken == /\ obs.pc = "Attached" /\ obs.lost = "None" /\ obs.whole
             /\ NeededBefore(obs, IF obs.next < Retained THEN Retained ELSE obs.next) > obs.taken
OvertakenIsTold == Overtaken ~> ~Overtaken

\* What a consumer is given is the book: no delivery runs ahead of the published state, none is
\* missing or repeated from the attachment on, what they add up to is the writer's depth, and the
\* state surface closes only behind its last value.
DeliveryIsExact == StateLeadsRing /\ HandedGapFree /\ DrainedHoldsBook /\ ClosedAfterLastState

\* A consumer is told of a loss if, and only if, it has one: nothing is passed over in silence,
\* and no verdict is given for nothing.
LossIsExact == NothingSkipped /\ VerdictsAreReal
=============================================================================

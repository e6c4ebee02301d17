----------------------------- MODULE SlotCodec -------------------------------
(***************************************************************************)
(* What the words of a segment's records say: the encodings of             *)
(* src/src/shm/codec.rs, the staging of the writer                         *)
(* (src/src/shm/writer.rs), the decoding of the reader                     *)
(* (src/src/shm/reader.rs) and what the C surface hands out                *)
(* (src/src/ffi/mod.rs).                                                   *)
(*                                                                         *)
(* A word is a number.  A text is its length, the one thing a cell may     *)
(* refuse it for; a byte string is a sequence.  A decimal is a coefficient *)
(* and a scale, and its two halves have base HalfWidth.  An event slot is  *)
(* a function from byte offsets to words: the cells of a mutation and of a *)
(* resolution overlap, and a publication leaves the cells it does not      *)
(* write as they were.  Where a decoder may refuse, X is defined when      *)
(* XDefined holds.                                                         *)
(***************************************************************************)
EXTENDS Integers, Sequences, SequencesExt, EventStream

CONSTANTS
  HalfWidth,        \* 2^64: the base of a coefficient's two words
  MaxStoredScale,   \* MAX_STORED_SCALE
  LevelCapacity,    \* levels a state slot can hold
  IdentityCapacity  \* IDENTITY_CAPACITY

ASSUME CodecAssumption ==
  /\ HalfWidth \in Nat \ {0, 1} /\ MaxStoredScale \in Nat
  /\ LevelCapacity \in Nat \ {0} /\ IdentityCapacity \in Nat

-----------------------------------------------------------------------------
(* Discriminants                                                           *)

WordOf(names, name) == CHOOSE w \in DOMAIN names : names[w] = name

AuthorityStates ==
  <<"Unsubscribed", "Subscribing", "Synchronizing", "Live", "Recovering", "Stale">>
AuthorityReasons == <<"Gap", "Disconnect", "SubscriptionLost", "LocalLoss", "OrderingUnknown",
                      "Overload", "ReplicaDivergence", "RecoveryBaseUnavailable">>
BreakReasons == <<"Overrun", "Gap", "LocalLoss", "Reconnect", "RecoveryBase", "SyncDivergence">>
Origins == <<"SourceReported", "NormalizedFromSource", "LocallyDerived">>
Representations == <<"VenueNative", "Normalized">>
Sides == <<"Bid", "Ask">>
DeliveryPaths == <<"MarketFeed", "LifecycleFeed", "ResolutionFeed">>

NoReason == "None"
authority_words(a) ==
  <<WordOf(AuthorityStates, a.state),
    IF a.state = "Stale" THEN WordOf(AuthorityReasons, a.reason) ELSE 0>>

AuthorityDefined(state, reason) ==
  /\ state \in DOMAIN AuthorityStates
  /\ IF AuthorityStates[state] = "Stale" THEN reason \in DOMAIN AuthorityReasons ELSE reason = 0
authority_state(state, reason) ==
  [state |-> AuthorityStates[state],
   reason |-> IF reason = 0 THEN NoReason ELSE AuthorityReasons[reason]]

\* Kind, reason, epoch and next position: a lost stream has no position.
continuity_words(b) ==
  IF b.lost = Intact THEN <<1, 0, b.epoch, b.next>>
  ELSE <<2, WordOf(BreakReasons, b.lost), b.epoch, 0>>

ContinuityDefined(w) ==
  \/ w[1] = 1 /\ w[2] = 0
  \/ w[1] = 2 /\ w[4] = 0 /\ w[2] \in DOMAIN BreakReasons
continuity(w) == [lost |-> IF w[1] = 1 THEN Intact ELSE BreakReasons[w[2]],
                  epoch |-> w[3], next |-> w[4]]

origin_words(o) == <<WordOf(Origins, o), IF o = "LocallyDerived" THEN 1 ELSE 0>>
OriginDefined(w, derivation) ==
  w \in DOMAIN Origins /\ derivation = IF Origins[w] = "LocallyDerived" THEN 1 ELSE 0

-----------------------------------------------------------------------------
(* Decimals, texts and identities                                          *)

NoDecimal == [low |-> 0, high |-> 0, scale |-> 0]
decimal_words(d) == [low |-> d.coefficient % HalfWidth, high |-> d.coefficient \div HalfWidth,
                     scale |-> d.scale]

\* A coefficient past half the range of both words is a negative one, which
\* no price or quantity is.
DecimalDefined(w) ==
  w.scale <= MaxStoredScale /\ 2 * (w.high * HalfWidth + w.low) < HalfWidth * HalfWidth

\* ExactDecimal::normalize: trailing zeros are taken off while there is scale.
normalize(coefficient, scale) ==
  LET zeros == {z \in 0 .. scale : coefficient % (10 ^ z) = 0}
      z == CHOOSE n \in zeros : \A k \in zeros : k <= n
  IN  [coefficient |-> coefficient \div (10 ^ z), scale |-> scale - z]

from_parts(w) == normalize(w.high * HalfWidth + w.low, w.scale)

Exact(n) == [coefficient |-> n, scale |-> 0]

FamilyCapacity == 64
OutcomeCapacity == 64
TypeCapacity == 32
DateCapacity == 32

\* The three parts of a native identity, each behind its length.
encode_identity(m) ==
  <<Len(m.venue), Len(m.kind), Len(m.value)>> \o m.venue \o m.kind \o m.value
IdentityFits(m) == 8 + Len(m.venue \o m.kind \o m.value) <= IdentityCapacity

decode_identity(bytes) ==
  LET body == SubSeq(bytes, 4, Len(bytes))
      v == bytes[1]
      k == bytes[2]
      x == bytes[3]
  IN  [venue |-> SubSeq(body, 1, v), kind |-> SubSeq(body, v + 1, v + k),
       value |-> SubSeq(body, v + k + 1, v + k + x)]

-----------------------------------------------------------------------------
(* The state slot                                                          *)

\* SegmentWriter::stage.  The provenance of a book with no base yet is absent.
stage(index, b) ==
  [directory_index |-> index, revision |-> b.revision,
   authority |-> authority_words(b.authority), continuity |-> continuity_words(b),
   provenance_present |-> IF b.based THEN 1 ELSE 0,
   origin |-> IF b.based THEN origin_words("SourceReported") ELSE <<0, 0>>,
   representation |-> IF b.based THEN WordOf(Representations, "VenueNative") ELSE 0,
   level_count |-> Len(b.levels),
   levels |-> [i \in DOMAIN b.levels |->
                 [side |-> WordOf(Sides, b.levels[i].side),
                  price |-> decimal_words(b.levels[i].price),
                  quantity |-> decimal_words(b.levels[i].quantity)]]]

\* SegmentReader::read, once the words are those of one publication.
StateDefined(index, w) ==
  /\ w.directory_index = index
  /\ w.level_count <= LevelCapacity
  /\ w.provenance_present \in {0, 1}
  /\ w.provenance_present = 1 =>
       OriginDefined(w.origin[1], w.origin[2]) /\ w.representation \in DOMAIN Representations
  /\ AuthorityDefined(w.authority[1], w.authority[2])
  /\ ContinuityDefined(w.continuity)
  /\ \A i \in DOMAIN w.levels :
       /\ w.levels[i].side \in DOMAIN Sides
       /\ DecimalDefined(w.levels[i].price) /\ DecimalDefined(w.levels[i].quantity)

\* decode: the BookSnapshot.
decode(w) ==
  LET c == continuity(w.continuity)
  IN  [revision |-> w.revision, authority |-> authority_state(w.authority[1], w.authority[2]),
       epoch |-> c.epoch, next |-> c.next, lost |-> c.lost, based |-> w.provenance_present = 1,
       levels |-> [i \in DOMAIN w.levels |->
                     [side |-> Sides[w.levels[i].side], price |-> from_parts(w.levels[i].price),
                      quantity |-> from_parts(w.levels[i].quantity)]]]

\* encode_state: the scalar fields of PmwsState and the levels it takes.
encode_state(snapshot) ==
  [revision |-> snapshot.revision, authority |-> authority_words(snapshot.authority),
   continuity |-> continuity_words(snapshot),
   publication_present |-> IF snapshot.based THEN 1 ELSE 0,
   level_count |-> 0, level_capacity_required |-> Len(snapshot.levels)]

\* respond_snapshot: the status, *out and the caller's levels.
respond_snapshot(snapshot, capacity) ==
  LET state == encode_state(snapshot)
      required == state.level_capacity_required
  IN  IF required > capacity
        THEN [status |-> "BUFFER_TOO_SMALL", state |-> state, levels |-> <<>>]
        ELSE [status |-> "OK", state |-> [state EXCEPT !.level_count = required],
              levels |-> [i \in DOMAIN snapshot.levels |->
                [side |-> WordOf(Sides, snapshot.levels[i].side),
                 price |-> decimal_words(snapshot.levels[i].price),
                 quantity |-> decimal_words(snapshot.levels[i].quantity)]]]

-----------------------------------------------------------------------------
(* The event slot                                                          *)

DELIVERY_LEVEL_MUTATION == 1
DELIVERY_MARKET_RESOLVED == 3

BlankSlot == [offset \in {} |-> 0]

\* The words every delivery stores at the same offsets.
SharedCells(index, e, kind) ==
  LET o == origin_words(e.origin) IN
  (8 :> e.epoch) @@ (16 :> e.position) @@ (24 :> e.revision) @@ (40 :> kind)
  @@ (44 :> o[1]) @@ (48 :> o[2]) @@ (52 :> WordOf(Representations, e.representation))
  @@ (72 :> index)

DecimalCells(base, w) ==
  (base :> w.low) @@ (base + 8 :> w.high) @@ (base + 16 :> w.scale)

\* A text fills every word of its cell.
TextCells(base, capacity, text) == [offset \in {base + 8 * i : i \in 0 .. capacity \div 8 - 1} |-> text]

\* stage_mutation: a half that is absent stores a zero decimal.
MutationStages(e) == (e.old # 0 \/ e.new # 0) /\ e.family <= FamilyCapacity
MutationCells(e) ==
  (56 :> WordOf(Sides, e.side)) @@ (60 :> IF e.old = 0 THEN 0 ELSE 1)
  @@ (64 :> IF e.new = 0 THEN 0 ELSE 1) @@ (68 :> e.family)
  @@ DecimalCells(96, decimal_words(e.price))
  @@ DecimalCells(120, IF e.old = 0 THEN NoDecimal ELSE decimal_words(Exact(e.old)))
  @@ DecimalCells(144, IF e.new = 0 THEN NoDecimal ELSE decimal_words(Exact(e.new)))
  @@ TextCells(168, FamilyCapacity, e.family)

\* stage_resolution
ResolutionStages(e) ==
  /\ e.outcome <= OutcomeCapacity /\ e.type <= TypeCapacity /\ e.date <= DateCapacity
  /\ e.path \in Range(DeliveryPaths)
ResolutionCells(e) ==
  (56 :> e.winning_index) @@ (60 :> WordOf(DeliveryPaths, e.path)) @@ (64 :> e.outcome)
  @@ (68 :> e.type) @@ (96 :> e.date) @@ TextCells(104, OutcomeCapacity, e.outcome)
  @@ TextCells(168, TypeCapacity, e.type) @@ TextCells(200, DateCapacity, e.date)

Stages(e) == IF e.resolution THEN ResolutionStages(e) ELSE MutationStages(e)

\* publish_mutation and publish_resolution: the slot after the publication.
PublishedCells(cells, index, e) ==
  (IF e.resolution THEN ResolutionCells(e) ELSE MutationCells(e))
  @@ SharedCells(index, e, IF e.resolution THEN DELIVERY_MARKET_RESOLVED
                           ELSE DELIVERY_LEVEL_MUTATION) @@ cells

DecimalAt(cells, base) ==
  [low |-> cells[base], high |-> cells[base + 8], scale |-> cells[base + 16]]

\* read_event_words and decode_event.
EventDefined(cells) ==
  /\ OriginDefined(cells[44], cells[48]) /\ cells[52] \in DOMAIN Representations
  /\ \/ /\ cells[40] = DELIVERY_LEVEL_MUTATION
        /\ cells[56] \in DOMAIN Sides
        /\ {cells[60], cells[64]} \in {{1}, {0, 1}}
        /\ cells[68] <= FamilyCapacity
        /\ DecimalDefined(DecimalAt(cells, 96))
        /\ cells[60] = 1 => DecimalDefined(DecimalAt(cells, 120))
        /\ cells[64] = 1 => DecimalDefined(DecimalAt(cells, 144))
     \/ /\ cells[40] = DELIVERY_MARKET_RESOLVED
        /\ cells[60] \in DOMAIN DeliveryPaths
        /\ cells[64] <= OutcomeCapacity /\ cells[68] <= TypeCapacity /\ cells[96] <= DateCapacity

ZEROED_EVENT == [delivery_kind |-> 0, cursor_epoch |-> 0, cursor_position |-> 0,
                 book_revision |-> 0, continuity_reason |-> 0, side |-> 0, old_present |-> 0,
                 new_present |-> 0, old |-> 0, new |-> 0, winning_index |-> 0,
                 delivery_path |-> 0, outcome |-> 0, type |-> 0, date |-> 0]

encode_mutation(cells) ==
  [ZEROED_EVENT EXCEPT !.delivery_kind = DELIVERY_LEVEL_MUTATION,
     !.cursor_epoch = cells[8], !.cursor_position = cells[16], !.book_revision = cells[24],
     !.side = cells[56], !.old_present = cells[60], !.new_present = cells[64],
     !.old = IF cells[60] = 0 THEN 0 ELSE from_parts(DecimalAt(cells, 120)).coefficient,
     !.new = IF cells[64] = 0 THEN 0 ELSE from_parts(DecimalAt(cells, 144)).coefficient]

encode_resolution(cells) ==
  [ZEROED_EVENT EXCEPT !.delivery_kind = DELIVERY_MARKET_RESOLVED,
     !.cursor_epoch = cells[8], !.cursor_position = cells[16], !.book_revision = cells[24],
     !.winning_index = cells[56], !.delivery_path = cells[60],
     !.outcome = cells[104], !.type = cells[168], !.date = cells[200]]

\* encode_retained: what pmws_next_event delivers.
encode_retained(cells) ==
  IF cells[40] = DELIVERY_LEVEL_MUTATION THEN encode_mutation(cells) ELSE encode_resolution(cells)

loss_event(reason, s) ==
  [ZEROED_EVENT EXCEPT !.delivery_kind = 2, !.continuity_reason = WordOf(BreakReasons, reason),
     !.cursor_epoch = s.epoch, !.cursor_position = s.position]
=============================================================================

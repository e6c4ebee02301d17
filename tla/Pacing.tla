------------------------------- MODULE Pacing --------------------------------
(***************************************************************************)
(* What all rails of one process share on their way to a venue: the        *)
(* rolling day of connection attempts (AttemptLedger) and the queue of     *)
(* subscription commands (COMMAND_PACERS) of                               *)
(* src/src/limitless/supervisor.rs, with the path of a rail through them:  *)
(* spawn_due, the setup of run_connection, the establishing subscription,  *)
(* a re-emit handed to a running connection, and its escalation.           *)
(*                                                                         *)
(* A rail is one role of one supervisor or shard.  The clock is the        *)
(* process's monotonic clock, read at every decision; between two ticks    *)
(* any number of rails act.  A timer may fire arbitrarily late, a command  *)
(* is written at most MaxLate after the instant it was granted.            *)
(***************************************************************************)
EXTENDS Integers, Sequences, FiniteSets

CONSTANTS
  Rails,            \* the roles dialling from this process
  Endpoint,         \* the endpoint each dials
  Floor,            \* min_command_interval of each
  Overflow,         \* the shared pacer slot, an endpoint of nobody
  MaxPaced,         \* MAX_PACED_ENDPOINTS
  Budget,           \* daily_attempt_budget
  Day,              \* ONE_DAY
  Window,           \* resubscribe_window
  Backoff,          \* the shortest delay before a replacement
  MaxLate,          \* the longest a due command waits for its task
  MaxClock,         \* bound on the clock
  MaxGrants         \* bound on the reservations

Endpoints == {Endpoint[r] : r \in Rails}

ASSUME PacingAssumption ==
  /\ Floor \in [Rails -> Nat]
  /\ Overflow \notin Endpoints
  /\ MaxPaced \in Nat /\ Budget \in Nat /\ Day \in Nat /\ Window \in Nat /\ Backoff \in Nat
  /\ MaxLate \in Nat /\ MaxClock \in Nat /\ MaxGrants \in Nat

VARIABLES
  clock,            \* Instant::now()
  spent,            \* AttemptLedger, as positions in attempts
  pacers,           \* COMMAND_PACERS: the furthest reservation of each slot
  rail,             \* what each rail's connection is doing, and until when
  draining,         \* the grant a fenced connection's task still holds
  attempts,         \* history: when each attempt was admitted
  grants,           \* history: every reservation
  written           \* history: the reservations whose command reached the wire

pacingVars == <<clock, spent, pacers, rail, draining, attempts, grants, written>>

NoGrant == 0
Idle(until) == [at |-> "idle", until |-> until, grant |-> NoGrant]
In(r, phases) == rail[r].at \in phases

-----------------------------------------------------------------------------
(* The attempt ledger                                                      *)

\* Entries a day old or older leave; they are the oldest ones, as the clock never runs back.
Recent(now) == {i \in spent : now - attempts[i] < Day}

\* Mutant: a refused attempt waits for the newest entry instead of the oldest.
FreeAtNewest(recent, now) ==
  IF recent = {} THEN now + Day
  ELSE attempts[CHOOSE i \in recent : \A j \in recent : i >= j] + Day

\* The instant the oldest attempt inside the day ages out of it.
FreeAt(recent, now) ==
  IF recent = {} THEN now + Day
  ELSE attempts[CHOOSE i \in recent : \A j \in recent : i <= j] + Day

\* AttemptLedger::admit as spawn_due uses it: the rail dials, or waits for the instant named.
admit(r) ==
  LET recent == Recent(clock)
  IN  \/ /\ Cardinality(recent) >= Budget
         /\ spent' = recent /\ rail' = [rail EXCEPT ![r] = Idle(FreeAt(recent, clock))]
         /\ UNCHANGED attempts
      \/ /\ Cardinality(recent) < Budget
         /\ spent' = recent \cup {Len(attempts) + 1} /\ attempts' = Append(attempts, clock)
         /\ rail' = [rail EXCEPT ![r] = [Idle(0) EXCEPT !.at = "dialling"]]

-----------------------------------------------------------------------------
(* The command queue                                                       *)

command_grant_at(slot, interval) ==
  IF slot \in DOMAIN pacers /\ pacers[slot] + interval > clock
  THEN pacers[slot] + interval ELSE clock

pacer_slot(endpoint) ==
  IF endpoint \in DOMAIN pacers \/ Cardinality(DOMAIN pacers) < MaxPaced
  THEN endpoint ELSE Overflow

\* Where the next command of r would stand.
GrantFor(r) == command_grant_at(pacer_slot(Endpoint[r]), Floor[r])

\* reserve_command_grant: the slot moves on to the instant just handed out.
reserve_command_grant(r) ==
  LET slot == pacer_slot(Endpoint[r])
  IN  /\ pacers' = [s \in DOMAIN pacers \cup {slot} |-> IF s = slot THEN GrantFor(r) ELSE pacers[s]]
      /\ grants' = Append(grants, [endpoint |-> Endpoint[r], at |-> GrantFor(r),
                                   floor |-> Floor[r]])

Ticket == Len(grants) + 1

\* Mutant: the permit is spent where the command is decided on and the write does not wait.
DueOnceGranted(ticket) == TRUE

\* sleep_until(granted) has returned.
Due(ticket) == clock >= grants[ticket].at

-----------------------------------------------------------------------------
(* A rail                                                                  *)

PacingInit ==
  /\ clock = 1 /\ spent = {} /\ attempts = <<>>
  /\ pacers = [s \in {} |-> 0] /\ grants = <<>> /\ written = {}
  /\ rail = [r \in Rails |-> Idle(0)]
  /\ draining = [r \in Rails |-> NoGrant]

\* schedule_slot_reconnect: a replacement is due after the backoff.
Ended(r) == rail' = [rail EXCEPT ![r] = Idle(clock + Backoff)]

spawn_due(r) ==
  /\ In(r, {"idle"}) /\ rail[r].until <= clock
  /\ admit(r)
  /\ UNCHANGED <<clock, pacers, draining, grants, written>>

\* establish: the namespace is acknowledged and the command fits, so it takes its own place.
establish(r) ==
  /\ In(r, {"dialling"}) /\ Len(grants) < MaxGrants
  /\ reserve_command_grant(r)
  /\ rail' = [rail EXCEPT ![r].at = "queued", ![r].grant = Ticket]
  /\ UNCHANGED <<clock, spent, draining, attempts, written>>

\* resubscribe, the write: the establishing command, or the re-emit, whose report reopens the
\* venue's window.
resubscribe(r) ==
  /\ In(r, {"queued", "requested"}) /\ Due(rail[r].grant)
  /\ written' = written \cup {rail[r].grant}
  /\ rail' = [rail EXCEPT ![r] =
       IF In(r, {"queued"}) THEN [Idle(0) EXCEPT !.at = "up"]
       ELSE [Idle(clock + Window) EXCEPT !.at = "awaiting"]]
  /\ UNCHANGED <<clock, spent, pacers, draining, attempts, grants>>

\* Mutant: the deadline allows one interval, whatever the position in the queue.
DeadlineOneFloor(r) == clock + Floor[r] + Window

\* The write has until the granted instant plus the window.
Deadline(r) == GrantFor(r) + Window

\* emit_resubscribe and emit_reissue: the command takes its place when it is decided on; a
\* connection whose task is ending leaves the place unused.
emit_resubscribe(r) ==
  /\ In(r, {"up"}) /\ Len(grants) < MaxGrants
  /\ reserve_command_grant(r)
  /\ rail' \in {[rail EXCEPT ![r] = [at |-> "requested", until |-> Deadline(r), grant |-> Ticket]],
                [rail EXCEPT ![r].at = "unreachable"]}
  /\ UNCHANGED <<clock, spent, draining, attempts, written>>

\* The venue serves an accepted base.
Answered(r) ==
  /\ In(r, {"awaiting"})
  /\ rail' = [rail EXCEPT ![r] = [Idle(0) EXCEPT !.at = "up"]]
  /\ UNCHANGED <<clock, spent, pacers, draining, attempts, grants, written>>

\* The task returns: a failed dial, handshake, command or write, an elapsed setup deadline, or
\* the end of the socket.
TaskEnds(r) ==
  /\ ~In(r, {"idle"})
  /\ Ended(r)
  /\ UNCHANGED <<clock, spent, pacers, draining, attempts, grants, written>>

\* fence: the connection is replaced while its task lives on with what it holds; an earlier
\* fenced task of the rail is aborted.
fence(r) ==
  /\ draining' = [draining EXCEPT ![r] = rail[r].grant]
  /\ Ended(r)
  /\ UNCHANGED <<clock, spent, pacers, attempts, grants, written>>

\* escalate_recovery and escalate_reissue.
escalate_recovery(r) ==
  /\ In(r, {"requested", "awaiting"}) /\ rail[r].until <= clock
  /\ fence(r)

\* The heartbeat evidence of an established connection expired.
fence_if_expired(r) ==
  /\ In(r, {"up", "requested", "awaiting", "unreachable"})
  /\ fence(r)

\* The fenced task writes what it holds, or its linger ends and it is aborted.
Drained(r) ==
  /\ draining[r] # NoGrant
  /\ draining' = [draining EXCEPT ![r] = NoGrant]
  /\ written' \in {written} \cup (IF Due(draining[r]) THEN {written \cup {draining[r]}} ELSE {})
  /\ UNCHANGED <<clock, spent, pacers, rail, attempts, grants>>

Tick ==
  /\ clock < MaxClock
  /\ \A r \in Rails : In(r, {"queued", "requested"}) => clock < grants[rail[r].grant].at + MaxLate
  /\ clock' = clock + 1
  /\ UNCHANGED <<spent, pacers, rail, draining, attempts, grants, written>>

RailStep(r) ==
  \/ spawn_due(r) \/ establish(r) \/ resubscribe(r) \/ emit_resubscribe(r) \/ Answered(r)
  \/ TaskEnds(r) \/ escalate_recovery(r) \/ fence_if_expired(r) \/ Drained(r)

PacingNext == Tick \/ \E r \in Rails : RailStep(r)

PacingSpec == PacingInit /\ [][PacingNext]_pacingVars

-----------------------------------------------------------------------------
(* Properties                                                              *)

\* No rolling day holds more attempts than the budget, whichever rails spent them and however
\* often the ledger was pruned: attempt i and attempt i + Budget are a day apart.
BudgetHolds ==
  \A i \in DOMAIN attempts :
    i + Budget \in DOMAIN attempts => attempts[i + Budget] >= attempts[i] + Day

\* "A caller configured at 500 ms never writes within 500 ms of the previous command": of two
\* places in the queue of an endpoint, the later one stands its own caller's floor behind the
\* earlier, also when the endpoint shares the overflow slot.
FloorsKept ==
  \A i, j \in DOMAIN grants :
    i < j /\ grants[i].endpoint = grants[j].endpoint
      => grants[j].at >= grants[i].at + grants[j].floor

WrittenTo(e) == {i \in written : grants[i].endpoint = e}

\* "The k-th command cannot reach the wire before k intervals have passed": commands written to
\* an endpoint so far, establishing, re-emitted or from a fenced task, never outrun its floor.
WireKeepsPace ==
  \A e \in Endpoints : \A f \in {Floor[r] : r \in Rails} :
    (\A r \in Rails : Endpoint[r] = e => Floor[r] >= f) =>
      \A i \in WrittenTo(e) : grants[i].at + f * Cardinality({j \in WrittenTo(e) : j > i}) <= clock

\* A refused rail waits exactly as long as the budget asks: by the instant it was given, enough of
\* the attempts that refused it have aged out to admit one more.  (A budget of 0 admits none ever,
\* and its refusals name an instant at which nothing is free.)
RefusalIsTight ==
  [][\A r \in Rails :
       /\ Budget > 0
       /\ In(r, {"idle"}) /\ rail[r].until <= clock /\ rail'[r].at = "idle" /\ rail'[r] # rail[r]
       =>
         LET left == {i \in DOMAIN attempts : attempts[i] + Day > rail'[r].until}
             soonerLeft == {i \in DOMAIN attempts : attempts[i] + Day > rail'[r].until - 1}
         IN  Cardinality(left) < Budget /\ Cardinality(soonerLeft) >= Budget]_pacingVars

\* Standing in the queue is never held against a connection: a re-emit is escalated only once its
\* command could have been on the wire for the whole window.
QueueIsNotBlamed ==
  [][\A r \in Rails :
       (In(r, {"requested"}) /\ escalate_recovery(r)) => clock >= grants[rail[r].grant].at + Window]_pacingVars

\* The budget is spent to the last attempt and no further: no rolling day is overspent, and a
\* refusal names the first instant at which the day has room.
BudgetIsExact == []BudgetHolds /\ RefusalIsTight
=============================================================================

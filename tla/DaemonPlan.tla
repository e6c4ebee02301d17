------------------------------ MODULE DaemonPlan ------------------------------
(***************************************************************************)
(* The daemon's configuration document and the plan it validates to        *)
(* (src/src/daemon.rs), with the checks the shards make of that plan when  *)
(* the daemon runs it (Shard::new in src/src/limitless/shard.rs).  A       *)
(* configuration is a record of its keys.  Unset is an absent key, texts   *)
(* and the lease TTL are named by what the validation tells apart ("Ok",   *)
(* "Set", "Zero" or the defect), and a market slug is a number that sorts  *)
(* as the slug does.  Counts below 2^31 only: the saturating and narrowing *)
(* steps of the code change nothing there.                                 *)
(***************************************************************************)
EXTENDS SegmentLayout, FiniteSets, Sequences, SequencesExt

CONSTANT InvalidSlugs       \* slugs NativeMarketKey::new refuses

Unset == -1
MaxShardMarkets == 32768
MaxQueueCapacity == 1048576
MaxBookLevels == 4096
MaxReplicas == 4
WorstCaseAttemptCeiling == 1000000
MaxCommandIntervalMs == 60000
MaxControlSocketPathBytes == 100
SegmentChurnDivisor == 4

\* A path by what its checks ask of it: its length, and whether it is absolute and its directory
\* (for a directory, it itself) is there.
Paths == [bytes : Nat, absolute : BOOLEAN, present : BOOLEAN]
NoPath == [bytes |-> 0, absolute |-> FALSE, present |-> FALSE]

Configs ==
  [endpoint : {"Ok", "Bad"}, control_socket : Paths,
   profile : {"Common", "Hot", "Scale"}, markets_per_shard : Int, observer_capacity : Int,
   level_capacity : Int, ingest_capacity : Int, control_capacity : Int,
   max_control_sessions : Int, daily_connection_attempt_budget : Int,
   min_command_interval_ms : Int, lease_ttl : {"Zero", "Set", "LeaseTtl", "LeaseTtlTooShort"},
   metrics_listen : {"Unset", "Ok", "Malformed"}, segment_slots : Int, event_capacity : Int,
   dirty_capacity : Int, directory : Paths,
   markets : Seq(Nat), replicas : Int, max_venue_connections : Int]

OrElse(value, default) == IF value = Unset THEN default ELSE value

-----------------------------------------------------------------------------
(* The delivery section                                                    *)

Profiles ==
  [Common |-> [markets_per_shard |-> 128, level_capacity |-> MaxBookLevels,
               observer_capacity |-> 1024, segment_slots |-> 160, event_capacity |-> 256,
               dirty_capacity |-> 4096],
   Hot    |-> [markets_per_shard |-> 64, level_capacity |-> MaxBookLevels,
               observer_capacity |-> 4096, segment_slots |-> 80, event_capacity |-> 4096,
               dirty_capacity |-> 16384],
   Scale  |-> [markets_per_shard |-> 25000, level_capacity |-> 256,
               observer_capacity |-> 64, segment_slots |-> 32768, event_capacity |-> 32,
               dirty_capacity |-> 65536]]

MarketsPerShard(c) == OrElse(c.markets_per_shard, Profiles[c.profile].markets_per_shard)
ObserverCapacity(c) == OrElse(c.observer_capacity, Profiles[c.profile].observer_capacity)
LevelCapacity(c) == OrElse(c.level_capacity, Profiles[c.profile].level_capacity)

Larger(a, b) == IF a >= b THEN a ELSE b

SegmentSlots(c) ==
  OrElse(c.segment_slots,
         Larger(Profiles[c.profile].segment_slots,
                MarketsPerShard(c) + MarketsPerShard(c) \div SegmentChurnDivisor))

\* The geometry of every shard's segment: as many directory entries as state slots.
PlanLayout(c) ==
  [directory_capacity |-> SegmentSlots(c), state_slot_capacity |-> SegmentSlots(c),
   level_capacity |-> LevelCapacity(c),
   event_capacity |-> OrElse(c.event_capacity, Profiles[c.profile].event_capacity),
   dirty_capacity |-> OrElse(c.dirty_capacity, Profiles[c.profile].dirty_capacity)]

DirectoryRefused(path) == path # NoPath /\ (~path.absolute \/ ~path.present)

\* delivery_plan.
DeliveryVerdict(c) ==
  IF SegmentSlots(c) < MarketsPerShard(c) THEN "SegmentSlots"
  ELSE IF LayoutVerdict(PlanLayout(c)) # "Ok" THEN "SegmentGeometry"
  ELSE IF DirectoryRefused(c.directory) THEN "SegmentDirectory"
  ELSE "Ok"

-----------------------------------------------------------------------------
(* The market set                                                          *)

SortedMarkets(c) == SortSeq(c.markets, LAMBDA a, b : a < b)

HasDuplicate(c) == Cardinality(ToSet(c.markets)) # Len(c.markets)

ShardCount(c) ==
  Larger(1, (Len(c.markets) + MarketsPerShard(c) - 1) \div MarketsPerShard(c))

\* One run of sorted markets per shard; a configuration without markets still has one shard.
Chunks(c) ==
  [s \in 1..ShardCount(c) |->
     SubSeq(SortedMarkets(c), (s - 1) * MarketsPerShard(c) + 1,
            IF s * MarketsPerShard(c) > Len(c.markets)
            THEN Len(c.markets) ELSE s * MarketsPerShard(c))]

PeakSockets(c) == ShardCount(c) * 2 * c.replicas

-----------------------------------------------------------------------------
(* DaemonConfig::validate                                                  *)

OutOfRange(value, limit) == value < 1 \/ value > limit

SocketPathVerdict(path) ==
  IF path.bytes = 0 \/ ~path.absolute THEN "ControlSocket"
  ELSE IF path.bytes > MaxControlSocketPathBytes THEN "ControlSocketTooLong"
  ELSE IF ~path.present THEN "ControlSocket" ELSE "Ok"

\* The first defect in the order the fields are checked, or "Ok".
ConfigVerdict(c) ==
  IF c.endpoint # "Ok" THEN "Endpoint"
  ELSE IF SocketPathVerdict(c.control_socket) # "Ok" THEN SocketPathVerdict(c.control_socket)
  ELSE IF OutOfRange(MarketsPerShard(c), MaxShardMarkets) THEN "MarketsPerShard"
  ELSE IF \/ OutOfRange(ObserverCapacity(c), MaxQueueCapacity)
          \/ OutOfRange(LevelCapacity(c), MaxLevelCapacity)
          \/ OutOfRange(c.ingest_capacity, MaxQueueCapacity)
          \/ OutOfRange(c.control_capacity, MaxQueueCapacity)
          \/ OutOfRange(c.max_control_sessions, MaxQueueCapacity) THEN "Capacity"
  ELSE IF c.daily_connection_attempt_budget > WorstCaseAttemptCeiling THEN "DailyAttemptBudget"
  ELSE IF c.min_command_interval_ms > MaxCommandIntervalMs THEN "CommandInterval"
  ELSE IF c.lease_ttl \in {"LeaseTtl", "LeaseTtlTooShort"} THEN c.lease_ttl
  ELSE IF c.metrics_listen = "Malformed" THEN "MetricsListen"
  ELSE IF DeliveryVerdict(c) # "Ok" THEN DeliveryVerdict(c)
  ELSE IF HasDuplicate(c) THEN "DuplicateMarket"
  ELSE IF ToSet(c.markets) \cap InvalidSlugs # {} THEN "Market"
  ELSE IF OutOfRange(c.replicas, MaxReplicas) THEN "Replicas"
  ELSE IF c.max_venue_connections = 0 THEN "Capacity"
  ELSE IF c.max_venue_connections # Unset /\ PeakSockets(c) > c.max_venue_connections
       THEN "ShardsExceedConnectionCap"
  ELSE "Ok"

\* The plan of a configuration whose verdict is "Ok".
PlanOf(c) ==
  [layout |-> PlanLayout(c), metrics |-> c.metrics_listen = "Ok",
   leases_expire |-> c.lease_ttl = "Set", replicas |-> c.replicas,
   shards |-> [s \in DOMAIN Chunks(c) |->
                 [markets |-> Chunks(c)[s], max_markets |-> MarketsPerShard(c),
                  replicas |-> c.replicas, ingest_capacity |-> c.ingest_capacity,
                  control_capacity |-> c.control_capacity,
                  observer_capacity |-> ObserverCapacity(c), level_capacity |-> LevelCapacity(c),
                  daily_attempt_budget |-> c.daily_connection_attempt_budget,
                  min_command_interval_ms |-> c.min_command_interval_ms]]]

-----------------------------------------------------------------------------
(* What the run asks of a plan before it dials                             *)

\* descriptor_envelope.
Envelope(plan) ==
  Len(plan.shards) * (3 + 2 * plan.replicas) + 5 + 16 + (IF plan.metrics THEN 1 ELSE 0)

Unlimited == -1
Unreadable == -2

\* check_descriptor_envelope against getrlimit's answer.
EnvelopeFits(plan, limit) ==
  limit = Unlimited \/ (limit # Unreadable /\ Envelope(plan) <= limit)

\* Shard::new; max_recovery_attempts keeps its default.
ShardVerdict(shard) ==
  IF shard.daily_attempt_budget > WorstCaseAttemptCeiling THEN "DailyAttemptBudgetTooLarge"
  ELSE IF shard.min_command_interval_ms > MaxCommandIntervalMs THEN "CommandIntervalTooLarge"
  ELSE IF shard.ingest_capacity = 0 THEN "IngestCapacityZero"
  ELSE IF shard.control_capacity = 0 THEN "ControlCapacityZero"
  ELSE IF OutOfRange(shard.replicas, MaxReplicas) THEN "ReplicasOutOfRange"
  ELSE IF shard.level_capacity = 0 THEN "LevelCapacity"
  ELSE IF OutOfRange(shard.observer_capacity, MaxQueueCapacity) THEN "ObserverCapacity"
  ELSE IF \/ Len(shard.markets) > shard.max_markets
          \/ Len(shard.markets) > MaxShardMarkets THEN "MarketCapacityExceeded"
  ELSE IF ToSet(shard.markets) \cap InvalidSlugs # {} THEN "Market"
  ELSE "Ok"
=============================================================================

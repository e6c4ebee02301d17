---------------------------- MODULE MCAttachment -----------------------------
(* Small deployments: contending and restarting daemons, other parties in the directory, a     *)
(* consumer of a daemon with two shards, and one start of each of many configurations.         *)
EXTENDS Attachment

Path == [bytes |-> 20, absolute |-> TRUE, present |-> TRUE]

Base ==
  [endpoint |-> "Ok", control_socket |-> Path, profile |-> "Common", markets_per_shard |-> 2,
   observer_capacity |-> Unset, level_capacity |-> 4, ingest_capacity |-> 8,
   control_capacity |-> 4, max_control_sessions |-> 4, daily_connection_attempt_budget |-> 9,
   min_command_interval_ms |-> 9, lease_ttl |-> "Zero", metrics_listen |-> "Unset",
   segment_slots |-> 3, event_capacity |-> 4, dirty_capacity |-> 4, directory |-> NoPath,
   markets |-> <<3, 1, 2>>, replicas |-> 1, max_venue_connections |-> Unset]

Sizings ==
  {[Base EXCEPT !.markets_per_shard = per, !.markets = markets, !.segment_slots = slots,
                !.max_venue_connections = cap] :
     per \in {0, 1, 2, 3, 32768, 32769},
     markets \in {<<>>, <<1>>, <<2, 1>>, <<3, 1, 2>>, <<4, 3, 2, 1>>, <<1, 2, 1>>, <<9>>},
     slots \in {Unset, 1, 3}, cap \in {Unset, 0, 2, 4}}

Defects ==
  {[Base EXCEPT !.endpoint = "Bad"], [Base EXCEPT !.control_socket = NoPath],
   [Base EXCEPT !.control_socket.absolute = FALSE], [Base EXCEPT !.control_socket.bytes = 101],
   [Base EXCEPT !.control_socket.bytes = 100], [Base EXCEPT !.control_socket.present = FALSE],
   [Base EXCEPT !.observer_capacity = 0], [Base EXCEPT !.level_capacity = 4097],
   [Base EXCEPT !.ingest_capacity = 0], [Base EXCEPT !.control_capacity = 1048577],
   [Base EXCEPT !.max_control_sessions = 0],
   [Base EXCEPT !.daily_connection_attempt_budget = 1000001],
   [Base EXCEPT !.min_command_interval_ms = 60001], [Base EXCEPT !.lease_ttl = "LeaseTtl"],
   [Base EXCEPT !.lease_ttl = "LeaseTtlTooShort"], [Base EXCEPT !.metrics_listen = "Malformed"],
   [Base EXCEPT !.metrics_listen = "Ok"], [Base EXCEPT !.directory = [Path EXCEPT !.absolute = FALSE]],
   [Base EXCEPT !.directory = Path],
   [Base EXCEPT !.directory = [Path EXCEPT !.present = FALSE]], [Base EXCEPT !.event_capacity = 3],
   [Base EXCEPT !.event_capacity = 65536, !.segment_slots = 65],
   [Base EXCEPT !.event_capacity = 65536, !.segment_slots = 63],
   [Base EXCEPT !.dirty_capacity = 0], [Base EXCEPT !.dirty_capacity = 1],
   [Base EXCEPT !.dirty_capacity = 2], [Base EXCEPT !.dirty_capacity = 3],
   [Base EXCEPT !.replicas = 0], [Base EXCEPT !.replicas = 5],
   [Base EXCEPT !.replicas = 4, !.max_venue_connections = 15],
   [Base EXCEPT !.replicas = 4, !.max_venue_connections = 16]}
  \cup {[Base EXCEPT !.profile = p, !.markets_per_shard = Unset, !.level_capacity = Unset,
                     !.segment_slots = Unset, !.event_capacity = Unset, !.dirty_capacity = Unset] :
          p \in {"Common", "Hot", "Scale"}}

Scene(config) ==
  [config |-> config, limit |-> 35, page |-> FALSE, starts |-> 1, crashes |-> 0, meddles |-> 0,
   faults |-> 0, calls |-> 0, markets |-> {}, timeouts |-> FALSE, ends |-> TRUE,
   other_user |-> FALSE, procs |-> {"d1"}, opens |-> FALSE]

TwoShards == [Base EXCEPT !.lease_ttl = "Set"]
OneShard == [Base EXCEPT !.markets = <<1>>]

MCScenes ==
  {Scene(c) : c \in Sizings \cup Defects}
  \cup {[Scene(Base) EXCEPT !.limit = l] : l \in {Unlimited, Unreadable, 30, 31}}
  \* daemons that contend for one control path and may die anywhere
  \cup {[Scene(OneShard) EXCEPT !.procs = Daemons, !.starts = 3, !.crashes = 1]}
  \* other parties and failing calls around one daemon
  \cup {[Scene(Base) EXCEPT !.page = page, !.meddles = 1, !.faults = 1] : page \in BOOLEAN}
  \* a consumer: its calls and timeouts, an expiring lease, a copied segment, a restarted daemon
  \cup {[Scene(TwoShards) EXCEPT !.calls = 3, !.markets = {1, 3}, !.timeouts = TRUE, !.ends = FALSE],
        [Scene(TwoShards) EXCEPT !.calls = 2, !.markets = {1, 7, 9}, !.timeouts = TRUE, !.faults = 1],
        [Scene(OneShard) EXCEPT !.calls = 2, !.markets = {1}, !.meddles = 1, !.opens = TRUE],
        [Scene(OneShard) EXCEPT !.calls = 2, !.markets = {1}, !.other_user = TRUE],
        [Scene(OneShard) EXCEPT !.calls = 2, !.markets = {1}, !.starts = 2, !.crashes = 1]}
=============================================================================

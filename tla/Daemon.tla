-------------------------------- MODULE Daemon --------------------------------
(***************************************************************************)
(* The life of pmwsd processes that are configured alike and may run at    *)
(* the same time (run, bind_control, open_segment and the guards of        *)
(* src/src/bin/pmwsd.rs; create_file_with_mode of src/src/shm/cell.rs;     *)
(* SegmentWriter::create of src/src/shm/writer.rs): preflight, control     *)
(* lock and socket, one segment per shard, serving, and the cleanup.       *)
(* Every system call that other processes can come between is a step.      *)
(* Names resolve to objects through `dir`; an object keeps its identity    *)
(* whatever its name resolves to.  A run is one process start; its number  *)
(* stands for the random instance id its segments are named by.            *)
(***************************************************************************)
EXTENDS DaemonPlan

CONSTANTS
  Daemons,              \* the process slots
  Scenes                \* the deployments and fault budgets explored

ASSUME ScenesAssumption == \A s \in Scenes : s.config \in Configs

VARIABLES
  scene,                \* the deployment of this behaviour, chosen at the start
  lock,                 \* who holds the lock beside the control socket
  dir,                  \* the names that exist, and the object each resolves to
  objects,              \* every object ever created, by its identity
  listening,            \* the sockets with an open listener
  proc,                 \* the processes
  spent                 \* the budgets used, and the names other parties have changed

dvars == <<scene, lock, dir, objects, listening, proc, spent>>

NoObject == 0
Ctl == <<0, 0, "ctl">>
SegName(run, s) == <<run, s, "seg">>
PageName(run, s) == <<run, s, "page">>

Config == scene.config
Plan == PlanOf(Config)

Exists(name) == name \in DOMAIN dir
At(name) == IF Exists(name) THEN dir[name] ELSE NoObject
Link(name, id) == [n \in DOMAIN dir \cup {name} |-> IF n = name THEN id ELSE dir[n]]
Unlinked(name) == [n \in DOMAIN dir \ {name} |-> dir[n]]
NextId == Len(objects) + 1
Object(kind, run, region) == [kind |-> kind, run |-> run, region |-> region]

Idle == [pc |-> "Off", run |-> 0, sock |-> NoObject, identity |-> NoObject, created |-> <<>>,
         targets |-> <<>>, bell |-> NoObject, todo |-> <<>>, seen |-> NoObject, polled |-> FALSE,
         why |-> "None"]

InitDaemons ==
  /\ scene \in Scenes
  /\ lock = "None" /\ dir = <<>> /\ objects = <<>> /\ listening = {}
  /\ proc = [d \in Daemons |-> Idle]
  /\ spent = [starts |-> 0, crashes |-> 0, meddles |-> 0, faults |-> 0, touched |-> {}]

Running(d) == proc[d].pc # "Off"
Serving(d) == proc[d].pc = "Serve"
At1(d) == Len(proc[d].created)           \* the shard whose segment is being opened

-----------------------------------------------------------------------------
(* Leaving                                                                 *)

\* Mutant: a dead process's lock stays taken.
ReleaseLockNever(d) == lock

\* The operating system releases the lock with the process that holds it.
ReleaseLock(d) == IF lock = d THEN "None" ELSE lock

\* The process ends: its lock, its listener and its descriptors go; names stay.
Gone(d, why) ==
  /\ proc' = [proc EXCEPT ![d] = [Idle EXCEPT !.run = proc[d].run, !.polled = proc[d].polled,
                                              !.why = why]]
  /\ lock' = ReleaseLock(d)
  /\ listening' = listening \ {proc[d].sock}

\* SegmentFiles: each created segment, then its page where the writer identified one.
FilesToRemove(p) ==
  FlattenSeq([s \in DOMAIN p.created |->
    <<[name |-> SegName(p.run, s), identity |-> p.created[s].identity]>> \o
    (IF p.created[s].page = NoObject THEN <<>>
     ELSE <<[name |-> PageName(p.run, s), identity |-> p.created[s].page]>>)])

\* The guards in the order they are dropped: the segment files, then the control socket.
Cleanup(p) ==
  FilesToRemove(p) \o
  (IF p.identity = NoObject THEN <<>> ELSE <<[name |-> Ctl, identity |-> p.identity]>>)

\* A `?` of the startup: before the guard exists the locals just go, after it the guards run.
Refuse(d, why) ==
  IF proc[d].identity = NoObject THEN Gone(d, why)
  ELSE /\ proc' = [proc EXCEPT ![d].pc = "Clean", ![d].todo = Cleanup(proc[d]), ![d].why = why]
       /\ UNCHANGED <<lock, listening>>

Goto(d, pc) == proc' = [proc EXCEPT ![d].pc = pc]

-----------------------------------------------------------------------------
(* Startup: the preflight and the control socket                           *)

Start(d) ==
  /\ d \in scene.procs /\ ~Running(d) /\ spent.starts < scene.starts
  /\ spent' = [spent EXCEPT !.starts = @ + 1]
  /\ proc' = [proc EXCEPT ![d] =
       [Idle EXCEPT !.run = spent.starts + 1,
          !.pc = IF ConfigVerdict(Config) = "Ok" /\ EnvelopeFits(Plan, scene.limit)
                 THEN "Lock" ELSE "Off",
          !.why = IF ConfigVerdict(Config) # "Ok" THEN "config"
                  ELSE IF EnvelopeFits(Plan, scene.limit) THEN "None" ELSE "envelope"]]
  /\ UNCHANGED <<scene, lock, dir, objects, listening>>

\* Mutant: the lock file is opened but not locked.
TakeLockAlways(d) ==
  /\ proc[d].pc = "Lock"
  /\ lock' = d /\ Goto(d, "Inspect") /\ UNCHANGED listening
  /\ UNCHANGED <<scene, dir, objects, spent>>

TakeLock(d) ==
  /\ proc[d].pc = "Lock"
  /\ IF lock = "None" THEN lock' = d /\ Goto(d, "Inspect") /\ UNCHANGED listening
     ELSE Refuse(d, "locked")
  /\ UNCHANGED <<scene, dir, objects, spent>>

\* symlink_metadata of the control path.
Inspect(d) ==
  /\ proc[d].pc = "Inspect"
  /\ IF ~Exists(Ctl) THEN Goto(d, "Bind") /\ UNCHANGED <<lock, listening>>
     ELSE IF objects[dir[Ctl]].kind # "Socket" THEN Refuse(d, "occupied")
     ELSE Goto(d, "Probe") /\ UNCHANGED <<lock, listening>>
  /\ UNCHANGED <<scene, dir, objects, spent>>

\* A connect that is answered or fails otherwise refuses; a refused one means an abandoned name
\* (so does one to a file that is no socket).
Probe(d) ==
  /\ proc[d].pc = "Probe"
  /\ IF ~Exists(Ctl) THEN Refuse(d, "unprobed")
     ELSE IF dir[Ctl] \in listening THEN Refuse(d, "answered")
     ELSE Goto(d, "Unlink") /\ UNCHANGED <<lock, listening>>
  /\ UNCHANGED <<scene, dir, objects, spent>>

Unlink(d) ==
  /\ proc[d].pc = "Unlink"
  /\ IF Exists(Ctl)
     THEN dir' = Unlinked(Ctl) /\ Goto(d, "Bind") /\ UNCHANGED <<lock, listening>>
     ELSE Refuse(d, "unremoved") /\ UNCHANGED dir
  /\ UNCHANGED <<scene, objects, spent>>

Bind(d) ==
  /\ proc[d].pc = "Bind"
  /\ IF Exists(Ctl)
     THEN Refuse(d, "occupied") /\ UNCHANGED <<dir, objects>>
     ELSE /\ objects' = Append(objects, Object("Socket", proc[d].run, BlankRegion(0)))
          /\ dir' = Link(Ctl, NextId)
          /\ listening' = listening \cup {NextId}
          /\ proc' = [proc EXCEPT ![d].pc = "Stat", ![d].sock = NextId]
          /\ UNCHANGED lock
  /\ UNCHANGED <<scene, spent>>

\* The permissions and the recorded identity go through the path once more.
Stat(d) ==
  /\ proc[d].pc = "Stat"
  /\ IF Exists(Ctl)
     THEN /\ proc' = [proc EXCEPT ![d].pc = "Metrics", ![d].identity = dir[Ctl]]
          /\ UNCHANGED <<lock, listening>>
     ELSE Refuse(d, "unbound")
  /\ UNCHANGED <<scene, dir, objects, spent>>

\* bind_metrics, where one is configured; the only failures are the environment's (IoFails).
BindMetrics(d) ==
  /\ proc[d].pc = "Metrics"
  /\ Goto(d, "Create")
  /\ UNCHANGED <<scene, lock, dir, objects, listening, spent>>

-----------------------------------------------------------------------------
(* Startup: one segment per shard, with no await until all of them exist   *)

\* Shard::new, then create_file: the size check and the exclusive create under a name that
\* carries the run's own identity; the created file is recorded for cleanup.
CreateSegment(d) ==
  LET s == At1(d) + 1
      bytes == RegionSize(Plan.layout)
  IN  /\ proc[d].pc = "Create"
      /\ IF ShardVerdict(Plan.shards[s]) # "Ok"
         THEN Refuse(d, "shard") /\ UNCHANGED <<dir, objects>>
         ELSE IF SizeVerdict(bytes) # "Ok" \/ Exists(SegName(proc[d].run, s))
         THEN Refuse(d, "segment") /\ UNCHANGED <<dir, objects>>
         ELSE /\ objects' = Append(objects, Object("File", proc[d].run, BlankRegion(bytes)))
              /\ dir' = Link(SegName(proc[d].run, s), NextId)
              /\ proc' = [proc EXCEPT ![d].pc = "Reopen",
                            ![d].created = Append(@, [identity |-> NextId, page |-> NoObject])]
              /\ UNCHANGED <<lock, listening>>
      /\ UNCHANGED <<scene, spent>>

\* The retained read-only descriptor: opened by name, kept only if it is the created object.
Reopen(d) ==
  /\ proc[d].pc = "Reopen"
  /\ IF At(SegName(proc[d].run, At1(d))) = proc[d].created[At1(d)].identity
     THEN /\ proc' = [proc EXCEPT ![d].pc = "Trailer",
                        ![d].targets = Append(@, proc[d].created[At1(d)].identity)]
          /\ UNCHANGED <<lock, listening>>
     ELSE Refuse(d, "swapped")
  /\ UNCHANGED <<scene, dir, objects, spent>>

\* SegmentWriter::create claims the trailer first.
FormatTrailer(d) ==
  LET id == proc[d].created[At1(d)].identity
  IN  /\ proc[d].pc = "Trailer"
      /\ objects' = [objects EXCEPT ![id].region.trailer = TrailerOf(objects[id].region.size)]
      /\ Goto(d, IF scene.page THEN "Page" ELSE "Header")
      /\ UNCHANGED <<scene, lock, dir, listening, spent>>

\* choose_doorbell where the mapping accepts no wait: a sibling page, created exclusively.  Its
\* identity reaches the cleanup with the header.
CreatePage(d) ==
  /\ proc[d].pc = "Page"
  /\ IF Exists(PageName(proc[d].run, At1(d)))
     THEN Refuse(d, "page") /\ UNCHANGED <<dir, objects>>
     ELSE /\ objects' = Append(objects, Object("File", proc[d].run, BlankRegion(RegionAlignment)))
          /\ dir' = Link(PageName(proc[d].run, At1(d)), NextId)
          /\ proc' = [proc EXCEPT ![d].pc = "Header", ![d].bell = NextId]
          /\ UNCHANGED <<lock, listening>>
  /\ UNCHANGED <<scene, spent>>

\* The header is published and validated, and the page's creation identity recorded.
FormatHeader(d) ==
  LET s == At1(d)
      id == proc[d].created[s].identity
      header == HeaderOf(Plan.layout, objects[id].region.size, proc[d].run, 1,
                         IF scene.page THEN PageBit ELSE InHeaderBit)
      region == [objects[id].region EXCEPT !.header = header]
  IN  /\ proc[d].pc = "Header"
      /\ objects' = [objects EXCEPT ![id].region = region]
      /\ IF ValidateVerdict(region) # "Ok" THEN Refuse(d, "segment")
         ELSE /\ proc' = [proc EXCEPT ![d].pc = "Install",
                            ![d].created[s].page = proc[d].bell, ![d].bell = NoObject]
              /\ UNCHANGED <<lock, listening>>
      /\ UNCHANGED <<scene, dir, spent>>

\* publish_into seats the shard's markets, the router learns them, and the task is spawned; no
\* spawned task runs before the loop over the shards is left.
Install(d) ==
  /\ proc[d].pc = "Install"
  /\ IF Len(Plan.shards[At1(d)].markets) > Plan.layout.directory_capacity
     THEN Refuse(d, "directory")
     ELSE Goto(d, IF At1(d) = Len(Plan.shards) THEN "Serve" ELSE "Create")
          /\ UNCHANGED <<lock, listening>>
  /\ UNCHANGED <<scene, dir, objects, spent>>

-----------------------------------------------------------------------------
(* Serving, and the end of a run                                           *)

\* The first await of the control loop: the shard tasks run and dial.
Poll(d) ==
  /\ Serving(d) /\ ~proc[d].polled
  /\ proc' = [proc EXCEPT ![d].polled = TRUE]
  /\ UNCHANGED <<scene, lock, dir, objects, listening, spent>>

\* A signal, or a shard task that completed: the loop is left and the listener dropped.
Leave(d, why) ==
  /\ proc' = [proc EXCEPT ![d].pc = "Clean", ![d].todo = Cleanup(proc[d]), ![d].why = why]
  /\ listening' = listening \ {proc[d].sock}
  /\ UNCHANGED <<scene, lock, dir, objects, spent>>

Signal(d) == Serving(d) /\ scene.ends /\ Leave(d, "signal")

ShardFinished(d) == Serving(d) /\ proc[d].polled /\ scene.ends /\ Leave(d, "lost")

StillNames(item) == At(item.name) = item.identity

\* still_names, the first half of a removal.
CleanCheck(d) ==
  /\ proc[d].pc = "Clean" /\ proc[d].todo # <<>>
  /\ proc' = [proc EXCEPT
       ![d].pc = IF StillNames(Head(proc[d].todo)) THEN "Remove" ELSE "Clean",
       ![d].todo = IF StillNames(Head(proc[d].todo)) THEN @ ELSE Tail(@),
       ![d].seen = IF StillNames(Head(proc[d].todo)) THEN At(Head(proc[d].todo).name) ELSE NoObject]
  /\ UNCHANGED <<scene, lock, dir, objects, listening, spent>>

\* remove_file, the second half: whatever the name resolves to by now.
CleanRemove(d) ==
  /\ proc[d].pc = "Remove"
  /\ dir' = Unlinked(Head(proc[d].todo).name)
  /\ proc' = [proc EXCEPT ![d].pc = "Clean", ![d].todo = Tail(@), ![d].seen = NoObject]
  /\ UNCHANGED <<scene, lock, objects, listening, spent>>

CleanDone(d) ==
  /\ proc[d].pc = "Clean" /\ proc[d].todo = <<>>
  /\ Gone(d, proc[d].why)
  /\ UNCHANGED <<scene, dir, objects, spent>>

-----------------------------------------------------------------------------
(* Faults, and the other parties that share the directory                  *)

\* The process dies: no guard runs.
Crash(d) ==
  /\ Running(d) /\ spent.crashes < scene.crashes
  /\ spent' = [spent EXCEPT !.crashes = @ + 1]
  /\ Gone(d, "crash")
  /\ UNCHANGED <<scene, dir, objects>>

\* A system call of the startup fails: it is refused, except that a control path that cannot be
\* inspected is bound.  A file create_file could not finish is left behind blank.
IoFails(d) ==
  /\ spent.faults < scene.faults
  /\ spent' = [spent EXCEPT !.faults = @ + 1]
  /\ \/ /\ proc[d].pc = "Inspect" /\ Goto(d, "Bind")
        /\ UNCHANGED <<lock, listening, dir, objects>>
     \/ /\ proc[d].pc \in {"Lock", "Probe", "Unlink", "Bind", "Stat", "Metrics", "Create",
                           "Reopen", "Page"}
        /\ Refuse(d, "io")
        /\ UNCHANGED <<dir, objects>>
     \/ /\ proc[d].pc \in {"Create", "Page"}
        /\ Refuse(d, "io")
        /\ objects' = Append(objects, Object("File", proc[d].run, BlankRegion(0)))
        /\ dir' = Link(IF proc[d].pc = "Create" THEN SegName(proc[d].run, At1(d) + 1)
                       ELSE PageName(proc[d].run, At1(d)), NextId)
  /\ UNCHANGED scene

\* Another party of the same user removes a name, or puts a file, an abandoned socket or a copy
\* of what was there in its place.
Meddle ==
  /\ spent.meddles < scene.meddles
  /\ \E name \in DOMAIN dir \cup {Ctl} :
       /\ spent' = [spent EXCEPT !.meddles = @ + 1, !.touched = @ \cup {name}]
       /\ \/ Exists(name) /\ dir' = Unlinked(name) /\ UNCHANGED objects
          \/ \E kind \in IF name = Ctl THEN {"File", "Socket"} ELSE {"File"} :
               /\ dir' = Link(name, NextId)
               /\ objects' = Append(objects,
                    Object(kind, 0, IF Exists(name) THEN objects[dir[name]].region
                                    ELSE BlankRegion(0)))
  /\ UNCHANGED <<scene, lock, listening, proc>>

DaemonStep(d) ==
  \/ TakeLock(d) \/ Inspect(d) \/ Probe(d) \/ Unlink(d) \/ Bind(d) \/ Stat(d) \/ BindMetrics(d)
  \/ CreateSegment(d) \/ Reopen(d) \/ FormatTrailer(d) \/ CreatePage(d) \/ FormatHeader(d)
  \/ Install(d) \/ Poll(d) \/ CleanCheck(d) \/ CleanRemove(d) \/ CleanDone(d)

NextDaemons ==
  \/ \E d \in Daemons : DaemonStep(d)
  \/ \E d \in Daemons : Start(d)
  \/ \E d \in Daemons : Signal(d)
  \/ \E d \in Daemons : ShardFinished(d)
  \/ \E d \in Daemons : Crash(d)
  \/ \E d \in Daemons : IoFails(d)
  \/ Meddle
=============================================================================

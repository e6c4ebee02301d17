------------------------------ MODULE Attachment ------------------------------
(***************************************************************************)
(* A consumer process attached to the daemon (src/src/ffi/mod.rs: the      *)
(* session of pmws_open and pmws_connect and its control conversations)    *)
(* composed with the daemon's side of them (attach and release of          *)
(* src/src/bin/pmwsd.rs) and with the processes of Daemon.  A request and  *)
(* its answer carry the number of the call that sent the request, which    *)
(* the wire does not: properties only.  How the router serves many         *)
(* sessions is Control's; here a market the plan holds is granted and one  *)
(* it does not hold is refused.  A timeout may end a conversation anywhere.*)
(***************************************************************************)
EXTENDS Daemon

VARIABLES
  conns,          \* every control connection made, as both ends see it
  client          \* the consumer's session and the call it is in

vars == <<dvars, conns, client>>

NoConn == 0
Detached == [pc |-> "Out", call |-> 0, op |-> "None", market |-> 0, control |-> NoConn,
             region |-> NoObject, name |-> Ctl, promised |-> 0, held |-> {}]

Init ==
  /\ InitDaemons
  /\ conns = <<>> /\ client = Detached

\* The process that serves connection k, where it still runs.
ServerOf(k) == {d \in Daemons : Running(d) /\ proc[d].run = conns[k].run}
\* The daemon's end of k is open: its process lives and has not closed the session.
Open(k) == conns[k].daemon /\ ServerOf(k) # {}

HoldersOf(m) == {s \in DOMAIN Plan.shards : m \in ToSet(Plan.shards[s].markets)}

-----------------------------------------------------------------------------
(* The daemon's side: one request, one answer                              *)

\* The descriptor open_segment retained, whatever the name resolves to by now.
Descriptor(d, s) == proc[d].targets[s]

\* What attach answers, once the lease is taken: which segment, and its descriptor.
Attached(d, call, s) ==
  [kind |-> "Attached", call |-> call, name |-> SegName(proc[d].run, s), instance |-> proc[d].run,
   doorbell |-> IF scene.page THEN PageBit ELSE InHeaderBit, descriptor |-> Descriptor(d, s)]

Answer(kind, call) == [kind |-> kind, call |-> call]

\* The session's leases after a request that changes none of them, and the answer to it.
Kept(k, request, kind) == [leases |-> conns[k].leases, answer |-> Answer(kind, request.call)]

\* Which peers a descriptor goes to: those of the daemon's own user.
ForeignPeerRefusal == scene.other_user

\* The lease is taken before the descriptor is sent; a refusal leaves the leases as they were.
ServedAttach(d, k, request) ==
  LET m == request.market
  IN  IF ForeignPeerRefusal THEN Kept(k, request, "Error")
      ELSE IF m \in InvalidSlugs \/ HoldersOf(m) = {} THEN Kept(k, request, "Markets")
      ELSE [leases |-> conns[k].leases \cup {m},
            answer |-> Attached(d, request.call, CHOOSE s \in HoldersOf(m) : TRUE)]

\* Idempotent: a market the session never leased answers as a real release does.
ServedRelease(k, request) ==
  IF request.market \in InvalidSlugs THEN Kept(k, request, "Markets")
  ELSE [leases |-> conns[k].leases \ {request.market}, answer |-> Answer("Released", request.call)]

Served(d, k, request) ==
  CASE request.op = "Attach" -> ServedAttach(d, k, request)
    [] request.op = "Release" -> ServedRelease(k, request)
    [] request.op = "Renew" -> Kept(k, request, "Renewed")

\* The answer line and its descriptor leave as one message.
Sent(cs, k, answer) == [cs EXCEPT ![k].answers = Append(@, answer)]

Serve(k) ==
  \E d \in ServerOf(k) :
    /\ Serving(d) /\ conns[k].daemon /\ conns[k].asked # <<>>
    /\ LET served == Served(d, k, Head(conns[k].asked))
       IN  conns' = Sent([conns EXCEPT ![k].asked = Tail(@), ![k].leases = served.leases],
                         k, served.answer)
    /\ UNCHANGED <<dvars, client>>

\* Mutant: an ended session's leases stay counted.
SessionEndedKeepingLeases(k) == [conns EXCEPT ![k].daemon = FALSE]

\* A session that ends releases what it held.
SessionEnded(k) == [conns EXCEPT ![k].daemon = FALSE, ![k].leases = {}]

\* The request is served and its answer is not taken in time: the session is closed with it.
Abandon(k) ==
  /\ \E d \in ServerOf(k) : Serving(d)
  /\ conns[k].daemon /\ conns[k].asked # <<>> /\ spent.faults < scene.faults
  /\ spent' = [spent EXCEPT !.faults = @ + 1]
  /\ conns' = SessionEnded(k)
  /\ UNCHANGED <<scene, lock, dir, objects, listening, proc, client>>

\* The daemon reads the end of the consumer's stream once what it sent before is served.
Hangup(k) ==
  /\ \E d \in ServerOf(k) : Serving(d)
  /\ conns[k].daemon /\ ~conns[k].consumer /\ conns[k].asked = <<>>
  /\ conns' = SessionEnded(k)
  /\ UNCHANGED <<dvars, client>>

\* A silent session past the lease TTL.
Expire(k) ==
  /\ \E d \in ServerOf(k) : Serving(d)
  /\ Plan.leases_expire /\ conns[k].daemon /\ spent.faults < scene.faults
  /\ spent' = [spent EXCEPT !.faults = @ + 1]
  /\ conns' = SessionEnded(k)
  /\ UNCHANGED <<scene, lock, dir, objects, listening, proc, client>>

-----------------------------------------------------------------------------
(* The consumer's calls                                                    *)

Request(op, m) == [op |-> op, market |-> m, call |-> client.call + 1]

\* pmws_connect: a connection to whatever listens at the control path, and the attach request.
Connect(m) ==
  /\ client.pc = "Out" /\ client.call < scene.calls /\ At(Ctl) \in listening
  /\ conns' = Append(conns, [run |-> objects[dir[Ctl]].run, asked |-> <<Request("Attach", m)>>,
                             answers |-> <<>>, leases |-> {}, consumer |-> TRUE, daemon |-> TRUE])
  /\ client' = [client EXCEPT !.pc = "Waiting", !.call = @ + 1, !.op = "connect", !.market = m,
                              !.control = Len(conns) + 1]
  /\ UNCHANGED dvars

\* pmws_open: a session on a segment's path, with no control connection.
OpenPath(name) ==
  /\ client.pc = "Out" /\ scene.opens /\ client.call < scene.calls /\ Exists(name)
  /\ LET region == objects[dir[name]].region
     IN  client' = [client EXCEPT
           !.call = @ + 1,
           !.pc = IF SizeVerdict(region.size) = "Ok" /\ ValidateVerdict(region) = "Ok"
                  THEN "Idle" ELSE "Out",
           !.region = IF SizeVerdict(region.size) = "Ok" /\ ValidateVerdict(region) = "Ok"
                      THEN dir[name] ELSE NoObject]
  /\ UNCHANGED <<dvars, conns>>

\* One request line out on a session that has its connection; one answer line is owed.
Ask(op, request) ==
  /\ client.pc = "Idle" /\ client.control # NoConn /\ client.call < scene.calls
  /\ conns' = [conns EXCEPT ![client.control].asked = Append(@, request)]
  /\ client' = [client EXCEPT !.pc = "Waiting", !.call = @ + 1, !.op = op, !.market = request.market]
  /\ UNCHANGED dvars

PmwsLease(m) == Ask("lease", Request("Attach", m))

PmwsRelease(m) == Ask("release", Request("Release", m))

PmwsRenew == Ask("renew", Request("Renew", client.market))

\* report_failure of a broken conversation: the connection goes, the mapping stays.
Broken(c) == [c EXCEPT !.pc = IF c.region = NoObject THEN "Out" ELSE "Idle",
                       !.control = NoConn, !.held = {}, !.op = "None"]

\* The connections once the session is c: the one it let go of is closed at this end.
HungUp(cs, c) ==
  [k \in DOMAIN cs |-> IF k = client.control /\ c.control = NoConn
                       THEN [cs[k] EXCEPT !.consumer = FALSE] ELSE cs[k]]

Finished(c) == [c EXCEPT !.pc = "Idle", !.op = "None"]

\* session_from_attachment: the transferred object must validate and be the one promised.
Promised(answer) ==
  LET region == objects[answer.descriptor].region
  IN  /\ SizeVerdict(region.size) = "Ok" /\ ValidateVerdict(region) = "Ok"
      /\ region.header.instance = answer.instance
      /\ answer.doorbell \in region.header.features

NamesThisSegment(c, answer) ==
  /\ c.name = answer.name
  /\ objects[c.region].region.header.instance = answer.instance

\* Mutant: the lease another shard granted is not given back.
ForeignKept(c) == Finished(c)

\* A lease in a segment this session does not map is given straight back.
Foreign(c) == [c EXCEPT !.op = "rollback"]

\* Validated and mapped, or nothing: the connection is a local until the session exists.
ConnectAnswered(c, answer) ==
  IF answer.kind = "Attached" /\ answer.descriptor # NoObject /\ Promised(answer)
  THEN [Finished(c) EXCEPT !.region = answer.descriptor, !.name = answer.name,
                           !.promised = answer.instance, !.held = {c.market}]
  ELSE Broken(c)

RenewAnswered(c, answer) == IF answer.kind = "Renewed" THEN Finished(c) ELSE Broken(c)

\* A refusal is an answered conversation: the connection stays.
ReleaseAnswered(c, answer) ==
  CASE answer.kind = "Released" -> [Finished(c) EXCEPT !.held = @ \ {c.market}]
    [] answer.kind = "Markets" -> Finished(c)
    [] OTHER -> Broken(c)

LeaseAnswered(c, answer) ==
  CASE answer.kind = "Attached" ->
       IF NamesThisSegment(c, answer) THEN [Finished(c) EXCEPT !.held = @ \cup {c.market}]
       ELSE Foreign(c)
    [] answer.kind \in {"Markets", "Error"} -> Finished(c)
    [] OTHER -> Broken(c)

\* A rollback that is not confirmed ends the connection, which is what gives the lease back.
RollbackAnswered(c, answer) == IF answer.kind = "Released" THEN Finished(c) ELSE Broken(c)

\* A call's conversation ends with this answer, or goes on with the release that undoes it.
Concluded(c, answer) ==
  CASE c.op = "connect" -> ConnectAnswered(c, answer)
    [] c.op = "renew" -> RenewAnswered(c, answer)
    [] c.op = "release" -> ReleaseAnswered(c, answer)
    [] c.op = "lease" -> LeaseAnswered(c, answer)
    [] c.op = "rollback" -> RollbackAnswered(c, answer)

\* The oldest answer is read, with the descriptor that rode it.
Taken(cs, k) == [cs EXCEPT ![k].answers = Tail(@)]

\* The answer line is read; a foreign segment's lease is given back on the same connection.
Receive ==
  LET k == client.control
      c == Concluded(client, Head(conns[k].answers))
      read == Taken(conns, k)
  IN  /\ client.pc = "Waiting" /\ conns[k].answers # <<>>
      /\ client' = c
      /\ conns' = HungUp(IF c.op = "rollback" /\ client.op # "rollback"
                         THEN [read EXCEPT ![k].asked =
                                 Append(@, [op |-> "Release", market |-> c.market, call |-> c.call])]
                         ELSE read, c)
      /\ UNCHANGED dvars

\* The deadline passes, or the stream ends with no answer in it.
GiveUp ==
  /\ client.pc = "Waiting"
  /\ scene.timeouts \/ (~Open(client.control) /\ conns[client.control].answers = <<>>)
  /\ client' = Broken(client)
  /\ conns' = HungUp(conns, client')
  /\ UNCHANGED dvars

\* pmws_close, or the end of the consumer's process.
Close ==
  /\ client.pc # "Out"
  /\ client' = [Detached EXCEPT !.call = client.call]
  /\ conns' = HungUp(conns, client')
  /\ UNCHANGED dvars

-----------------------------------------------------------------------------

ClientNext ==
  \/ \E m \in scene.markets : Connect(m)
  \/ \E name \in DOMAIN dir \ {Ctl} : OpenPath(name)
  \/ \E m \in scene.markets : PmwsLease(m)
  \/ \E m \in scene.markets : PmwsRelease(m)
  \/ PmwsRenew
  \/ Receive \/ GiveUp \/ Close

Done ==
  /\ \A d \in Daemons : proc[d].pc \in {"Off", "Serve"}
  /\ UNCHANGED vars

Next ==
  \/ NextDaemons /\ UNCHANGED <<conns, client>>
  \/ \E k \in DOMAIN conns : Serve(k)
  \/ \E k \in DOMAIN conns : Abandon(k)
  \/ \E k \in DOMAIN conns : Hangup(k)
  \/ \E k \in DOMAIN conns : Expire(k)
  \/ ClientNext
  \/ Done

Spec == Init /\ [][Next]_vars

\* A process runs on until its next wait: its startup, its cleanup, and, while it serves, the end
\* of a stream that has nothing left to read and the requests before it.
Cleaning(d) == proc[d].pc \in {"Clean", "Remove"}
Hung(k) == /\ \E d \in ServerOf(k) : Serving(d)
           /\ conns[k].daemon /\ ~conns[k].consumer
MaxConns == 3
Fairness ==
  /\ \A d \in Daemons :
       []<>~Cleaning(d) \/ []<><<Cleaning(d) /\ proc'[d] # proc[d]>>_vars
  /\ \A k \in 1..MaxConns :
       []<>~(k \in DOMAIN conns /\ Hung(k)) \/ []<><<k \in DOMAIN conns /\ conns'[k] # conns[k]>>_vars

FairSpec == Spec /\ Fairness

-----------------------------------------------------------------------------
(* Properties                                                              *)

TypeOK ==
  /\ scene \in Scenes
  /\ lock \in Daemons \cup {"None"}
  /\ \A n \in DOMAIN dir : dir[n] \in DOMAIN objects
  /\ listening \subseteq DOMAIN objects
  /\ \A d \in Daemons : {proc[d].sock, proc[d].identity} \subseteq DOMAIN objects \cup {NoObject}
  /\ client.control \in DOMAIN conns \cup {NoConn}
  /\ client.region \in DOMAIN objects \cup {NoObject}
  /\ client.pc = "Waiting" => client.control # NoConn
  /\ spent.starts <= scene.starts /\ spent.meddles <= scene.meddles

\* The shards of a validated configuration partition its market set in order: every market in
\* exactly one shard, no shard past markets_per_shard, none empty unless there is no market, and
\* the sockets they may open at once within the configured cap (DaemonConfig::validate).
PlanPartitionsMarkets ==
  ConfigVerdict(Config) = "Ok" =>
    LET runs == [s \in DOMAIN Plan.shards |-> Plan.shards[s].markets]
    IN  /\ FlattenSeq(runs) = SetToSortSeq(ToSet(Config.markets), <)
        /\ \A s \in DOMAIN runs : Len(runs[s]) <= MarketsPerShard(Config)
        /\ \A s \in DOMAIN runs : runs[s] = <<>> => Config.markets = <<>>
        /\ Config.max_venue_connections # Unset =>
             2 * Plan.replicas * Len(runs) <= Config.max_venue_connections

\* The records a validated configuration's segment is carved into (the first, middle and last of
\* every section) share no byte with one another and stay inside the region (layout.rs).
RecordsApart ==
  spent.starts = 0 /\ ConfigVerdict(Config) = "Ok" => Disjoint(Plan.layout, CornerIds(Plan.layout))

\* The control path names the socket of the daemon that serves, as long as no other party changed
\* it: no second daemon, however its startup interleaves, unlinks a live socket (bind_control).
ControlPathKept ==
  \A d \in Daemons : Serving(d) /\ Ctl \notin spent.touched => At(Ctl) = proc[d].sock

\* Where no other party touches the directory and no system call fails, a validated configuration
\* is refused only while another daemon runs: nothing an earlier run left behind (a lock file, a
\* dead socket, segments) wedges a successor, and no shard or segment refuses the plan.  The one
\* exception is a dirty index of fewer than four entries.
StartsUnlessContended ==
  [][\A d \in Daemons :
       /\ scene.meddles = 0 /\ scene.faults = 0
       /\ proc'[d].why # proc[d].why
       /\ proc'[d].why \notin {"None", "config", "envelope", "signal", "lost", "crash"}
       => \/ proc'[d].why = "locked" /\ \E e \in Daemons \ {d} : Running(e)
          \/ proc'[d].why = "segment" /\ Plan.layout.dirty_capacity < 4]_vars

\* A startup that fails has dialled nothing: no shard task ran (the loop in run has no await).
FailedStartIsSilent ==
  \A d \in Daemons :
    proc[d].why \notin {"None", "signal", "lost", "crash"} => ~proc[d].polled

\* A process that ended other than by a crash leaves no name of its own behind; where a system
\* call failed under it, at most a blank file or a dead socket, never a segment that validates.
LeavesNothing ==
  \A d \in Daemons, n \in DOMAIN dir :
    /\ ~Running(d) /\ proc[d].why # "crash" /\ proc[d].run # 0
    /\ objects[dir[n]].run = proc[d].run
    => spent.faults > 0 /\ objects[dir[n]].region.header = Unpublished

\* A segment file or page that the cleanup removes is one this run created, unless it was put
\* there after the check just before (SegmentFiles::drop).
OnlyOwnFilesRemoved ==
  [][\A d \in Daemons :
       /\ proc[d].pc = "Remove" /\ proc'[d].pc = "Clean"
       /\ Head(proc[d].todo).name # Ctl /\ Exists(Head(proc[d].todo).name)
       => LET o == dir[Head(proc[d].todo).name]
          IN  objects[o].run = proc[d].run \/ o # proc[d].seen]_vars

\* Every answer is read by the call that asked for it: a session between calls has nothing owed
\* on its connection, and one in a call nothing but that call's request and answer.
AnswersPaired ==
  client.control # NoConn =>
    LET owed == conns[client.control].asked \o conns[client.control].answers
    IN  /\ client.pc = "Idle" => owed = <<>>
        /\ client.pc = "Waiting" => \A i \in DOMAIN owed : owed[i].call = client.call

\* Between calls, the daemon holds for a connected session exactly the leases its calls reported:
\* a refused or rolled back lease leaves no demand, and none is lost (lease_market).
NoResidualDemand ==
  client.pc = "Idle" /\ client.control # NoConn /\ Open(client.control) =>
    conns[client.control].leases = client.held

\* What a connected session maps is the object the writer of its leased markets' shard publishes
\* into, whatever the segment's name resolves to by now.
ReadsWhatIsWritten ==
  client.pc = "Idle" /\ client.control # NoConn =>
    \A d \in ServerOf(client.control) :
      Serving(d) => \E s \in DOMAIN proc[d].created :
                      /\ client.region = proc[d].created[s].identity
                      /\ \A m \in client.held : s \in HoldersOf(m)

\* A consumer that is gone is noticed: its leases are released, unless the daemon stops serving.
DroppedIsReleased ==
  \A k \in 1..MaxConns :
    (k \in DOMAIN conns /\ ~conns[k].consumer)
      ~> (k \in DOMAIN conns => conns[k].leases = {} \/ ~\E d \in ServerOf(k) : Serving(d))

\* A lost shard ends the daemon, and its socket leaves the control path (unless it dies first).
LostShardEndsDaemon ==
  \A d \in Daemons :
    (Running(d) /\ proc[d].why = "lost")
      ~> /\ ~Running(d)
         /\ proc[d].why = "crash" \/ (Exists(Ctl) => objects[dir[Ctl]].run # proc[d].run)

\* A validated configuration yields a plan that covers its markets once and a segment whose
\* records are apart.
PlanIsSound == PlanPartitionsMarkets /\ RecordsApart

\* What the directory and the venue see of a daemon is one that serves or one that was never
\* there: the control path stays its own, a failed start is silent, an ended run leaves nothing.
PresenceIsExact == TypeOK /\ ControlPathKept /\ FailedStartIsSilent /\ LeavesNothing

\* A directory is shared with earlier runs and other parties: what they left never wedges a
\* start, and what is theirs is never removed.
DirectoryIsShared == StartsUnlessContended /\ OnlyOwnFilesRemoved

\* Between its calls a session is settled: no answer is owed, the daemon holds exactly the leases
\* its calls reported, and what it maps is what their writer publishes into.
SessionIsSettled == AnswersPaired /\ NoResidualDemand /\ ReadsWhatIsWritten

\* Whoever is gone is noticed: a consumer's leases are released and a lost shard ends its daemon.
GoneIsNoticed == DroppedIsReleased /\ LostShardEndsDaemon
=============================================================================

------------------------------- MODULE Rental -------------------------------
(***************************************************************************)
(* A rented worker of the vendored platform: the server's matcher and      *)
(* block watcher (server/*.py, each request one step here: Marketplace     *)
(* opens them), the MQTT broker's table of sessions, and the worker        *)
(* process (src/PlatformManager.cpp, LeaseManager.cpp, MqttClient.cpp),    *)
(* which handles every message in a thread of its own beside its watchdog  *)
(* and its mining thread.                                                  *)
(***************************************************************************)
EXTENDS Naturals, Sequences

CONSTANTS
  Lease, Block,
  Self,          \* the context of self mining; also "no lease"
  Thread,        \* message handlers the worker may have at a time
  Watchdog,
  MaxUp,         \* messages under way to the server
  MaxEvents      \* connections made, and commands of the operator

ASSUME RentalAssumption ==
  /\ Self \notin Lease /\ Watchdog \notin Thread
  /\ MaxUp \in Nat /\ MaxEvents \in Nat \ {0}

VARIABLES
  \* server
  lease,      \* state of every lease in the database
  rentable,   \* the worker's row says AVAILABLE
  chain,      \* blocks the chain has accepted
  counted,    \* blocks added to a lease's blocks_found: pairs
  \* broker
  session,    \* the session its table has for the worker's client id, or 0
  leaving,    \* old sessions whose connection handler has not ended
  \* network
  up,         \* messages of the worker under way, in order
  link,       \* the worker's connection, or 0
  connections, controls,
  closed,     \* the worker has closed its connection for good
  \* worker
  running,    \* running_: stop() has not been called
  state, held, context,
  ranOut,     \* the time of the lease held is up
  thread, block,
  \* history
  acked, overlapped

server == <<lease, rentable, chain, counted>>
network == <<session, leaving, up, link, connections, controls, closed>>
history == <<acked, overlapped>>
vars == <<server, network, running, state, held, ranOut, context, thread, block, history>>

Runner == Thread \cup {Watchdog}
Idle(label) == [at |-> label, l |-> Self]
Resting == Idle("none")

----------------------------------------------------------------------------
(* Messages *)

(* publish() of the worker: dropped when it is not connected.              *)
Sends(msgs) == up' = IF link = 0 THEN up ELSE up \o msgs

Room(n) == Len(up) + n <= MaxUp

(* The server asks of a status only whether it is AVAILABLE.               *)
Status(s) == [kind |-> "status", l |-> Self, b |-> Self, free |-> s = "AVAILABLE"]
Registration == [kind |-> "register", l |-> Self, b |-> Self, free |-> TRUE]
Found(l, b) == [kind |-> "block", l |-> l, b |-> b, free |-> FALSE]

(* transitionTo() reports a change of state, and only a change.            *)
Transition(s) ==
  /\ Room(1)
  /\ state' = s
  /\ Sends(IF s = state THEN <<>> ELSE <<Status(s)>>)

(* publish() of the broker writes to the session of its table; the worker  *)
(* gets the message if that is the connection it is on, and starts a       *)
(* thread for it.  A message without a subscriber is lost.                 *)
Reaches == link # 0 /\ session = link

Publish(command, l) ==
  IF Reaches
  THEN \E t \in Thread :
         /\ thread[t] = Resting
         /\ thread' = [thread EXCEPT ![t] = [at |-> command, l |-> l]]
  ELSE UNCHANGED thread

----------------------------------------------------------------------------
(* Server *)

Rent(l) ==
  /\ rentable /\ lease[l] = "none" /\ \A m \in Lease : lease[m] # "active"
  /\ lease' = [lease EXCEPT ![l] = "active"] /\ rentable' = FALSE
  /\ Publish("assign", l)
  /\ UNCHANGED <<chain, counted, network, running, state, held, ranOut, context, block, history>>

(* stop_lease() and check_expired_leases().                                *)
End(l) ==
  /\ lease[l] = "active"
  /\ lease' = [lease EXCEPT ![l] = "completed"] /\ rentable' = TRUE
  /\ Publish("release", l)
  /\ UNCHANGED <<chain, counted, network, running, state, held, ranOut, context, block, history>>

Control(action) ==
  /\ connections + controls < MaxEvents /\ controls' = controls + 1
  /\ Reaches /\ Publish(action, Self)
  /\ UNCHANGED <<server, session, leaving, up, link, connections, closed, running,
                 state, held, ranOut, context, block, history>>

(* The dispatcher of the server's MQTT messages. *)
Received ==
  up' = Tail(up) /\ UNCHANGED <<session, leaving, link, connections, controls, closed>>

HandleRegister ==
  /\ up # <<>> /\ Head(up).kind = "register" /\ Received
  /\ rentable' = TRUE /\ Publish("ack", Self)
  /\ UNCHANGED <<lease, chain, counted, running, state, held, ranOut, context, block,
                 history>>

HandleStatus ==
  /\ up # <<>> /\ Head(up).kind = "status" /\ Received
  /\ rentable' = Head(up).free
  /\ UNCHANGED <<lease, chain, counted, running, state, held, ranOut, context, thread, block,
                 history>>

(* handle_block_found(): a block counts for a lease if its key has the     *)
(* prefix of the lease and it is on the chain when the report is handled.  *)
\* Mutant: any key counts.
CountsAnyKey(l, b) == b \in chain

Counts(l, b) == block[b].prefix = l /\ b \in chain

HandleBlock ==
  LET m == Head(up) IN
  /\ up # <<>> /\ m.kind = "block" /\ Received
  /\ counted' = IF m.l # Self /\ Counts(m.l, m.b) THEN counted \cup {<<m.l, m.b>>}
                                                  ELSE counted
  /\ UNCHANGED <<lease, rentable, chain, running, state, held, ranOut, context, thread, block,
                 history>>

----------------------------------------------------------------------------
(* Connection *)

(* A new connection replaces the session the table has under the id; the   *)
(* worker, which subscribes again, knows nothing of it.  The client        *)
(* connects again by itself, of a stopped worker too, unless it was told   *)
(* to disconnect.                                                          *)
Connect ==
  /\ link = 0 /\ ~closed /\ connections + controls < MaxEvents
  /\ connections' = connections + 1 /\ link' = connections + 1
  /\ session' = connections + 1
  /\ UNCHANGED <<server, leaving, up, controls, closed, running, state, held, ranOut,
                 context, thread, block, history>>

(* The connection breaks: what was under way may be lost.                  *)
Break ==
  /\ link # 0 /\ link' = 0 /\ leaving' = leaving \cup {link}
  /\ \E n \in 0..Len(up) : up' = SubSeq(up, 1, n)
  /\ UNCHANGED <<server, session, connections, controls, closed, running, state, held,
                 ranOut, context, thread, block, history>>

(* The finally clause of a connection's handler takes the id out of the    *)
(* table, whoever's session is there now, and publishes no last will.      *)
HandlerEnds(s) ==
  /\ s \in leaving /\ leaving' = leaving \ {s} /\ session' = 0
  /\ UNCHANGED <<server, up, link, connections, controls, closed, running, state, held,
                 ranOut, context, thread, block, history>>

----------------------------------------------------------------------------
(* Worker: the message handlers and the watchdog.  Between two steps of    *)
(* one, the others run.                                                    *)

AtStep(r, label) == thread[r].at = label
Advance(r, label) == thread' = [thread EXCEPT ![r].at = label]
Rest(r) == thread' = [thread EXCEPT ![r] = Resting]

Command == {"pause", "resume", "shutdown"}
Arrived == {"none", "ack", "assign", "release"} \cup Command
(* The watchdog of a stopped worker: past its look at the lease, and ended. *)
Closing == {"second", "ended"}
Midway(r) == thread[r].at \notin Arrived \cup Closing

(* A step of a handler: it leaves the server and the broker alone, and is   *)
(* remembered if it falls between two steps of another.                    *)
Moves(r) ==
  /\ overlapped' = (overlapped \/ \E q \in Runner \ {r} : Midway(q))
  /\ UNCHANGED <<server, session, connections, controls, block>>

Step(r) == Moves(r) /\ UNCHANGED <<leaving, link, closed, running>>

(* handleRegisterAck(): whatever the worker is doing, it is AVAILABLE now. *)
Ack(t) ==
  /\ AtStep(t, "ack") /\ Step(t)
  /\ Transition("AVAILABLE") /\ Rest(t)
  /\ acked' = (acked \/ held # Self)
  /\ UNCHANGED <<held, ranOut, context>>

(* handleAssignTask() *)
Assign(t) ==
  /\ AtStep(t, "assign") /\ Step(t)
  /\ IF state = "AVAILABLE" THEN Advance(t, "lease") ELSE Rest(t)
  /\ UNCHANGED <<up, state, held, ranOut, context, acked>>

Leased(t) ==
  /\ AtStep(t, "lease") /\ Step(t)
  /\ Transition("LEASED") /\ Advance(t, "start")
  /\ UNCHANGED <<held, ranOut, context, acked>>

(* LeaseManager::startLease() *)
StartLease(t) ==
  /\ AtStep(t, "start") /\ Step(t)
  /\ IF held # Self
     THEN Transition("ERROR") /\ Rest(t) /\ UNCHANGED <<held, ranOut>>
     ELSE /\ held' = thread[t].l /\ ranOut' = FALSE
          /\ Advance(t, "context") /\ UNCHANGED <<up, state>>
  /\ UNCHANGED <<context, acked>>

(* toMiningContext() copies the lease, updateContext() publishes the copy. *)
CopyContext(t) ==
  /\ AtStep(t, "context") /\ Step(t)
  /\ thread' = [thread EXCEPT ![t] = [at |-> "switch", l |-> held]]
  /\ UNCHANGED <<up, state, held, ranOut, context, acked>>

SwitchToPlatform(t) ==
  /\ AtStep(t, "switch") /\ Step(t)
  /\ context' = thread[t].l /\ Advance(t, "mine")
  /\ UNCHANGED <<up, state, held, ranOut, acked>>

Mining(t) ==
  /\ AtStep(t, "mine") /\ Step(t)
  /\ Transition("MINING") /\ Rest(t)
  /\ UNCHANGED <<held, ranOut, context, acked>>

(* handleRelease(): another lease, or none, is left alone. *)
Release(t) ==
  /\ AtStep(t, "release") /\ Step(t)
  /\ IF held = thread[t].l
     THEN Transition("COMPLETED") /\ Advance(t, "ending")
     ELSE Rest(t) /\ UNCHANGED <<up, state>>
  /\ UNCHANGED <<held, ranOut, context, acked>>

\* Mutant: the mining context is not switched back.
EndLeaseOnly(r) ==
  /\ AtStep(r, "ending") /\ Step(r)
  /\ held' = Self /\ ranOut' = FALSE
  /\ thread' = [thread EXCEPT ![r] = [at |-> "available", l |-> Self]]
  /\ UNCHANGED <<up, state, context, acked>>

EndLease(r) ==
  /\ AtStep(r, "ending") /\ Step(r)
  /\ held' = Self /\ ranOut' = FALSE
  /\ thread' = [thread EXCEPT ![r] = [at |-> "selfmine", l |-> Self]]
  /\ UNCHANGED <<up, state, context, acked>>

SwitchToSelf(r) ==
  /\ AtStep(r, "selfmine") /\ Step(r)
  /\ context' = Self /\ Advance(r, "available")
  /\ UNCHANGED <<up, state, held, ranOut, acked>>

(* The watchdog of a stopped worker has its look at the error state left.   *)
Available(r) ==
  /\ AtStep(r, "available") /\ Step(r)
  /\ Transition("AVAILABLE")
  /\ IF r = Watchdog /\ ~running THEN Advance(r, "second") ELSE Rest(r)
  /\ UNCHANGED <<held, ranOut, context, acked>>

(* hasActiveLease() is false of a lease that has run out: the lease and the *)
(* mining context then stay.                                                *)
LeaveLease(t, from, switch, then) ==
  /\ AtStep(t, from) /\ Step(t)
  /\ IF held # Self /\ ~ranOut
     THEN held' = Self /\ Advance(t, switch) /\ UNCHANGED acked
     ELSE UNCHANGED held /\ Advance(t, then) /\ acked' = (acked \/ held # Self)
  /\ UNCHANGED <<up, state, ranOut, context>>

LeaveContext(t, switch, then) ==
  /\ AtStep(t, switch) /\ Step(t)
  /\ context' = Self /\ Advance(t, then)
  /\ UNCHANGED <<up, state, held, ranOut, acked>>

GoIdle(t, from) ==
  /\ AtStep(t, from) /\ Step(t)
  /\ Transition("IDLE") /\ Rest(t)
  /\ UNCHANGED <<held, ranOut, context, acked>>

(* handleControl("pause") *)
Pause(t) == LeaveLease(t, "pause", "pauseself", "pausing")
PauseSelf(t) == LeaveContext(t, "pauseself", "pausing")
Paused(t) == GoIdle(t, "pausing")

Registers == Room(2) /\ Sends(<<Registration>>)

Resume(t) ==
  /\ AtStep(t, "resume") /\ Step(t)
  /\ IF state = "IDLE" THEN Registers /\ Advance(t, "available")
                       ELSE Rest(t) /\ UNCHANGED up
  /\ UNCHANGED <<state, held, ranOut, context, acked>>

(* handleControl("shutdown"): stop(), which a worker that is stopped, or is *)
(* being stopped, leaves at once.                                           *)
Shutdown(t) ==
  /\ AtStep(t, "shutdown") /\ Moves(t)
  /\ running' = FALSE /\ IF running THEN Advance(t, "stop") ELSE Rest(t)
  /\ UNCHANGED <<leaving, link, closed, up, state, held, ranOut, context, acked>>

Stop(t) == LeaveLease(t, "stop", "stopself", "join")
StopSelf(t) == LeaveContext(t, "stopself", "join")

(* The watchdog sleeps, or ends the work it has begun. *)
Join(t) ==
  /\ AtStep(t, "join") /\ Step(t) /\ ~Midway(Watchdog)
  /\ thread' = [thread EXCEPT ![t].at = "offline", ![Watchdog] = Idle("ended")]
  /\ UNCHANGED <<up, state, held, ranOut, context, acked>>

Offline(t) ==
  /\ AtStep(t, "offline") /\ Step(t)
  /\ Room(1) /\ Sends(<<Status("offline")>>) /\ Advance(t, "disconnect")
  /\ UNCHANGED <<state, held, ranOut, context, acked>>

(* disconnect() does nothing without a connection, and the client goes on   *)
(* trying to connect.  With one, the broker's handler reads what was sent   *)
(* and ends.                                                                *)
Disconnect(t) ==
  /\ AtStep(t, "disconnect") /\ Moves(t)
  /\ Room(1) /\ Sends(<<Status("offline")>>) /\ Advance(t, "stopping")
  /\ link' = 0 /\ leaving' = leaving \cup ({link} \ {0}) /\ closed' = (link # 0)
  /\ UNCHANGED <<running, state, held, ranOut, context, acked>>

Stopped(t) == GoIdle(t, "stopping")

Stopping(t) ==
  \/ Shutdown(t) \/ Stop(t) \/ StopSelf(t) \/ Join(t) \/ Offline(t)
  \/ Disconnect(t) \/ Stopped(t)

(* leaseWatchdogLoop(): isExpired() is true of no lease at all.  If the     *)
(* worker has been stopped, its test of running_ came before.               *)
Expired == held = Self \/ ranOut

WatchExpiry ==
  /\ AtStep(Watchdog, "none") /\ state = "MINING" /\ Expired /\ Step(Watchdog)
  /\ Transition("COMPLETED") /\ Advance(Watchdog, "ending")
  /\ UNCHANGED <<held, ranOut, context, acked>>

WatchError ==
  /\ thread[Watchdog].at \in {"none", "second"} /\ state = "ERROR" /\ Step(Watchdog)
  /\ Transition("IDLE") /\ Advance(Watchdog, "recover")
  /\ UNCHANGED <<held, ranOut, context, acked>>

(* The end of a round of the watchdog, the last one of a stopped worker. *)
WatchEnds ==
  thread' = [thread EXCEPT ![Watchdog] = Idle(IF running THEN "none" ELSE "ended")]

(* Without a connection it only tries to connect and stays IDLE. *)
Recover ==
  /\ AtStep(Watchdog, "recover") /\ Step(Watchdog)
  /\ IF link # 0 THEN Registers /\ Advance(Watchdog, "recovered")
                 ELSE WatchEnds /\ UNCHANGED up
  /\ UNCHANGED <<state, held, ranOut, context, acked>>

Recovered ==
  /\ AtStep(Watchdog, "recovered") /\ Step(Watchdog)
  /\ Transition("AVAILABLE") /\ WatchEnds
  /\ UNCHANGED <<held, ranOut, context, acked>>

Watch == WatchExpiry \/ WatchError \/ Recover \/ Recovered

Handle(r) ==
  \/ Ack(r) \/ Assign(r) \/ Leased(r) \/ StartLease(r) \/ CopyContext(r)
  \/ SwitchToPlatform(r) \/ Mining(r) \/ Release(r) \/ EndLease(r)
  \/ SwitchToSelf(r) \/ Available(r) \/ Pause(r) \/ PauseSelf(r)
  \/ Paused(r) \/ Resume(r) \/ Stopping(r)

----------------------------------------------------------------------------
(* Worker: the mining thread.  A batch is hashed under the context read at *)
(* its start; a block is reported before it is queued for submission.      *)

RunOut ==
  /\ held # Self /\ ~ranOut /\ ranOut' = TRUE
  /\ UNCHANGED <<server, network, running, state, held, context, thread, block, history>>

Elsewhere == <<lease, rentable, counted, session, leaving, link, connections,
               controls, closed, running, state, held, ranOut, context, thread,
               history>>

(* Only the batch that finds a block is of interest. *)
BeginBatch(b) ==
  /\ block[b].at = "none" /\ \A c \in Block : block[c].at # "mining"
  /\ block' = [block EXCEPT ![b] = [at |-> "mining", prefix |-> context]]
  /\ UNCHANGED <<Elsewhere, up, chain>>

(* onBlockFound(): the report names the lease held now; a stopped worker    *)
(* only submits.                                                            *)
Report(b) ==
  /\ block[b].at = "mining" /\ Room(1)
  /\ block' = [block EXCEPT ![b].at = "reported"]
  /\ Sends(CASE running /\ state = "MINING" /\ held # Self -> <<Found(held, b)>>
              [] running /\ state = "AVAILABLE" -> <<Found(Self, b)>>
              [] OTHER -> <<>>)
  /\ UNCHANGED <<Elsewhere, chain>>

(* The submit task; a block it gives up stays "reported". *)
Submit(b) ==
  /\ block[b].at = "reported" /\ b \notin chain /\ chain' = chain \cup {b}
  /\ UNCHANGED <<Elsewhere, up, block>>

Mine == \E b \in Block : BeginBatch(b) \/ Report(b) \/ Submit(b)

----------------------------------------------------------------------------

(* The worker has connected, subscribed and registered. *)
Init ==
  /\ lease = [l \in Lease |-> "none"] /\ rentable = FALSE
  /\ chain = {} /\ counted = {}
  /\ session = 1 /\ leaving = {} /\ link = 1 /\ connections = 1 /\ controls = 0
  /\ running = TRUE /\ closed = FALSE
  /\ up = <<Registration, Status("AVAILABLE")>>
  /\ state = "AVAILABLE" /\ held = Self /\ ranOut = FALSE /\ context = Self
  /\ thread = [r \in Runner |-> Resting]
  /\ block = [b \in Block |-> [at |-> "none", prefix |-> Self]]
  /\ acked = FALSE /\ overlapped = FALSE

Serve == HandleRegister \/ HandleStatus \/ HandleBlock

Next ==
  \/ \E l \in Lease : Rent(l) \/ End(l)
  \/ \E a \in Command : Control(a)
  \/ Serve
  \/ Connect \/ Break \/ \E s \in leaving : HandlerEnds(s)
  \/ \E r \in Runner : Handle(r)
  \/ Watch \/ RunOut \/ Mine

Spec == Init /\ [][Next]_vars

----------------------------------------------------------------------------
(* Properties *)

State == {"IDLE", "AVAILABLE", "LEASED", "MINING", "COMPLETED", "ERROR"}
Label == Arrived \cup Closing \cup
         {"lease", "start", "context", "switch", "mine", "ending", "selfmine",
          "available", "pauseself", "pausing", "stop", "stopself", "join", "offline",
          "disconnect", "stopping", "recover", "recovered"}

(* Every variable has its type. *)
TypeOK ==
  /\ lease \in [Lease -> {"none", "active", "completed"}] /\ rentable \in BOOLEAN
  /\ chain \subseteq Block /\ counted \subseteq Lease \X Block
  /\ {session, link} \subseteq 0..MaxEvents /\ leaving \subseteq 1..MaxEvents
  /\ connections \in 1..MaxEvents /\ controls \in 0..MaxEvents
  /\ up \in Seq([kind : {"status", "register", "block"}, l : Lease \cup {Self},
                  b : Block \cup {Self}, free : BOOLEAN])
  /\ {running, closed} \subseteq BOOLEAN
  /\ state \in State /\ held \in Lease \cup {Self} /\ ranOut \in BOOLEAN
  /\ context \in Lease \cup {Self}
  /\ thread \in [Runner -> [at : Label, l : Lease \cup {Self}]]
  /\ block \in [Block -> [at : {"none", "mining", "reported"}, prefix : Lease \cup {Self}]]
  /\ acked \in BOOLEAN /\ overlapped \in BOOLEAN

(* A block that counts for a lease was mined for it and no other, although *)
(* the worker names the lease it holds when it reports, and the lease of   *)
(* the batch may have ended meanwhile.                                     *)
CountedWhereMined ==
  \A p, q \in counted : p[2] = q[2] => p = q /\ block[p[2]].prefix = p[1]

(* Between messages the worker's state, its lease and its mining context   *)
(* agree: it mines for a consumer exactly while it is MINING under that    *)
(* consumer's lease.  They can part only if two handlers overlapped, if a  *)
(* register_ack arrived during a lease or if a pause or a shutdown met one *)
(* that had run out, whose lease and context it leaves as they are.        *)
WorkerConsistent ==
  ~overlapped /\ ~acked /\ (\A r \in Runner : ~Midway(r)) =>
    /\ state \in {"IDLE", "AVAILABLE", "MINING", "ERROR"}
    /\ state = "MINING" <=> held # Self
    /\ context = held

(* The worker's variables are of their types and consistent.               *)
WorkerSound == TypeOK /\ WorkerConsistent

=============================================================================

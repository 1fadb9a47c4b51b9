--------------------------- MODULE Rental_proofs ---------------------------
(***************************************************************************)
(* Proofs about Rental, for every number of leases, blocks, message        *)
(* handlers and connections.                                               *)
(***************************************************************************)
EXTENDS Rental, TLAPS

Message == [kind : {"status", "register", "block"}, l : Lease \cup {Self},
            b : Block \cup {Self}, free : BOOLEAN]

(* The block watcher: what counts is on the chain, what is on the chain was *)
(* mined, and under the lease it counts for.                                *)
CountedOK ==
  /\ \A b \in chain : block[b].at = "reported"
  /\ \A p \in counted : p[2] \in chain /\ block[p[2]].prefix = p[1]

----------------------------------------------------------------------------
(* Types *)

LEMMA MessageTypes ==
  ASSUME TypeOK
  PROVE  /\ Registration \in Message /\ \A s \in State : Status(s) \in Message
         /\ \A l \in Lease \cup {Self}, b \in Block : Found(l, b) \in Message
         /\ up \in Seq(Message)
  BY DEF TypeOK, Message, Registration, Status, Found

LEMMA SendsTypes ==
  ASSUME TypeOK, NEW msgs \in Seq(Message), Sends(msgs)
  PROVE  up' \in Seq(Message)
  BY MessageTypes DEF Sends

LEMMA TransitionTypes ==
  ASSUME TypeOK, NEW s \in State, Transition(s)
  PROVE  state' = s /\ up' \in Seq(Message)
  <1>1. (IF s = state THEN <<>> ELSE <<Status(s)>>) \in Seq(Message)
    BY MessageTypes
  <1> QED
    BY <1>1, SendsTypes DEF Transition

LEMMA PublishTypes ==
  ASSUME TypeOK, NEW command \in Arrived \ {"none"}, NEW l \in Lease \cup {Self},
         Publish(command, l)
  PROVE  /\ thread' \in [Runner -> [at : Label, l : Lease \cup {Self}]]
         /\ \A r \in Runner : \/ thread'[r] = thread[r]
                              \/ /\ thread[r] = Resting
                                 /\ thread'[r] = [at |-> command, l |-> l]
  <1>1. CASE UNCHANGED thread
    BY <1>1 DEF TypeOK
  <1>2. CASE \E t \in Thread :
               /\ thread[t] = Resting
               /\ thread' = [thread EXCEPT ![t] = [at |-> command, l |-> l]]
    <2>1. [at |-> command, l |-> l] \in [at : Label, l : Lease \cup {Self}]
      BY DEF Label
    <2> QED
      BY <1>2, <2>1 DEF TypeOK, Runner
  <1> QED
    BY <1>1, <1>2 DEF Publish

----------------------------------------------------------------------------
(* The server, the broker and the mining thread.                            *)

ServerStep ==
  \/ \E l \in Lease : Rent(l) \/ End(l)
  \/ \E a \in Command : Control(a)
  \/ Serve

NetworkStep == Connect \/ Break \/ (\E s \in leaving : HandlerEnds(s)) \/ RunOut \/ Mine

LEMMA ServerTypes ==
  ASSUME TypeOK, ServerStep
  PROVE  /\ TypeOK'
         /\ UNCHANGED <<state, held, context, block, chain, acked, overlapped>>
         /\ \A r \in Runner :
              \/ thread'[r] = thread[r]
              \/ /\ thread[r] = Resting
                 /\ \E c \in Arrived, l \in Lease \cup {Self} :
                      /\ thread'[r] = [at |-> c, l |-> l]
                      /\ c \in {"assign", "release"} => l \in Lease
  <1>1. ASSUME NEW l \in Lease, Rent(l) \/ End(l)
        PROVE  /\ \E c \in {"assign", "release"} : Publish(c, l)
               /\ lease' \in [Lease -> {"none", "active", "completed"}]
               /\ rentable' \in BOOLEAN
               /\ UNCHANGED <<chain, counted, network, running, state, held, ranOut,
                              context, block, history>>
    BY <1>1 DEF TypeOK, Rent, End
  <1>2. ASSUME NEW l \in Lease, Rent(l) \/ End(l)
        PROVE  TypeOK'
    <2>1. thread' \in [Runner -> [at : Label, l : Lease \cup {Self}]]
      BY <1>1, <1>2, PublishTypes DEF Arrived
    <2> QED
      BY <1>1, <1>2, <2>1 DEF TypeOK, network, history
  <1>3. ASSUME NEW a \in Command, Control(a)
        PROVE  TypeOK' /\ Publish(a, Self)
    <2>1. Publish(a, Self)
      BY <1>3 DEF Control
    <2>2. thread' \in [Runner -> [at : Label, l : Lease \cup {Self}]]
      BY <2>1, PublishTypes DEF Arrived, Command
    <2>3. controls' \in 0..MaxEvents
      BY <1>3, RentalAssumption DEF TypeOK, Control
    <2> QED
      BY <1>3, <2>1, <2>2, <2>3 DEF TypeOK, Control, server, history
  <1>4. ASSUME Serve
        PROVE  /\ TypeOK' /\ (Publish("ack", Self) \/ UNCHANGED thread)
    <2>1. up \in Seq(Message) /\ up # <<>> /\ Head(up) \in Message
          /\ up' \in Seq(Message)
      BY <1>4, MessageTypes DEF Serve, HandleRegister, HandleStatus, HandleBlock, Received
    <2>2. CASE HandleRegister
      <3>1. thread' \in [Runner -> [at : Label, l : Lease \cup {Self}]]
            /\ Publish("ack", Self)
        BY <2>2, PublishTypes DEF Arrived, HandleRegister
      <3> QED
        BY <2>1, <2>2, <3>1 DEF TypeOK, HandleRegister, Received, Message, history
    <2>3. CASE HandleStatus
      BY <2>1, <2>3 DEF TypeOK, HandleStatus, Received, Message, history
    <2>4. CASE HandleBlock
      <3>1. counted' \subseteq Lease \X Block
        BY <2>1, <2>4 DEF TypeOK, HandleBlock, Counts, Message
      <3> QED
        BY <2>1, <2>4, <3>1 DEF TypeOK, HandleBlock, Received, Message, history
    <2> QED
      BY <1>4, <2>2, <2>3, <2>4 DEF Serve
  <1>5. TypeOK'
    BY <1>2, <1>3, <1>4 DEF ServerStep
  <1>6. UNCHANGED <<state, held, context, block, chain, acked, overlapped>>
    BY DEF ServerStep, Rent, End, Control, Serve, HandleRegister, HandleStatus,
           HandleBlock, server, history
  <1>7. \/ UNCHANGED thread
        \/ \E c \in Arrived \ {"none"}, l \in Lease \cup {Self} :
              Publish(c, l) /\ (c \in {"assign", "release"} => l \in Lease)
    BY <1>1, <1>3, <1>4 DEF ServerStep, Arrived, Command
  <1>8. CASE UNCHANGED thread
    BY <1>5, <1>6, <1>8
  <1>9. CASE ~UNCHANGED thread
    <2>1. PICK c \in Arrived \ {"none"}, l \in Lease \cup {Self} :
            Publish(c, l) /\ (c \in {"assign", "release"} => l \in Lease)
      BY <1>7, <1>9
    <2>2. \A r \in Runner : \/ thread'[r] = thread[r]
                             \/ /\ thread[r] = Resting
                                /\ thread'[r] = [at |-> c, l |-> l]
      BY <2>1, PublishTypes
    <2> QED
      BY <1>5, <1>6, <2>1, <2>2
  <1> QED
    BY <1>8, <1>9

LEMMA NetworkTypes ==
  ASSUME TypeOK, NetworkStep
  PROVE  TypeOK' /\ UNCHANGED <<state, held, context, thread, acked, overlapped>>
  <1>1. CASE Connect
    BY <1>1, RentalAssumption DEF TypeOK, Connect, server, history
  <1>2. CASE Break
    <2>1. up' \in Seq(Message)
      BY <1>2, MessageTypes DEF Break
    <2>2. link' = 0 /\ link' \in 0..MaxEvents /\ leaving' \subseteq 1..MaxEvents
      <3>1. link \in 0..MaxEvents /\ link # 0 /\ link' = 0
        BY <1>2 DEF TypeOK, Break
      <3>2. link \in 1..MaxEvents
        BY <3>1, RentalAssumption
      <3> QED
        BY <1>2, <3>1, <3>2, RentalAssumption DEF TypeOK, Break
    <2>3. UNCHANGED <<lease, rentable, chain, counted, session, connections, controls,
                      closed, running, state, held, ranOut, context, thread, block, acked, overlapped>>
      BY <1>2 DEF Break, server, history
    <2> QED
      BY <2>1, <2>2, <2>3 DEF TypeOK, Message
  <1>3. CASE \E s \in leaving : HandlerEnds(s)
    BY <1>3, RentalAssumption DEF TypeOK, HandlerEnds, server, history
  <1>4. CASE RunOut
    BY <1>4 DEF TypeOK, RunOut, server, network, history
  <1>5. CASE Mine
    <2>1. PICK b \in Block : BeginBatch(b) \/ Report(b) \/ Submit(b)
      BY <1>5 DEF Mine
    <2>2. CASE BeginBatch(b)
      BY <2>2 DEF TypeOK, BeginBatch, Elsewhere, history
    <2>3. CASE Report(b)
      <3>1. \E msgs \in Seq(Message) : Sends(msgs)
        <4>1. /\ <<>> \in Seq(Message)
              /\ \A l \in Lease \cup {Self} : <<Found(l, b)>> \in Seq(Message)
          BY MessageTypes
        <4> QED
          BY <2>3, <4>1 DEF TypeOK, Report
      <3>2. up' \in Seq(Message)
        BY <3>1, SendsTypes
      <3>3. block' \in [Block -> [at : {"none", "mining", "reported"},
                                  prefix : Lease \cup {Self}]]
        BY <2>3 DEF TypeOK, Report
      <3> QED
        BY <2>3, <3>2, <3>3 DEF TypeOK, Report, Elsewhere, history, Message
    <2>4. CASE Submit(b)
      BY <2>4 DEF TypeOK, Submit, Elsewhere, history
    <2> QED
      BY <2>1, <2>2, <2>3, <2>4
  <1>6. UNCHANGED <<state, held, context, thread, acked, overlapped>>
    BY DEF NetworkStep, Connect, Break, HandlerEnds, RunOut, Mine, BeginBatch, Report,
           Submit, Elsewhere, history
  <1> QED
    BY <1>1, <1>2, <1>3, <1>4, <1>5, <1>6 DEF NetworkStep

----------------------------------------------------------------------------
(* The worker's handlers and its watchdog: their types.                     *)

HandlerStep == (\E r \in Runner : Handle(r)) \/ Watch

\* A step of a runner at rest moves its own thread.
LEMMA MoveTypes ==
  ASSUME TypeOK, NEW r \in Runner,
         \/ \E label \in Label : Advance(r, label)
         \/ Rest(r)
         \/ \E label \in Label, l \in Lease \cup {Self} :
              thread' = [thread EXCEPT ![r] = [at |-> label, l |-> l]]
  PROVE  thread' \in [Runner -> [at : Label, l : Lease \cup {Self}]]
  <1>1. CASE \E label \in Label : Advance(r, label)
    <2>1. PICK label \in Label : Advance(r, label)
      BY <1>1
    <2>2. [thread[r] EXCEPT !.at = label] \in [at : Label, l : Lease \cup {Self}]
      BY DEF TypeOK
    <2> QED
      BY <2>1, <2>2 DEF TypeOK, Advance
  <1>2. CASE Rest(r)
    BY <1>2 DEF TypeOK, Rest, Resting, Idle, Label, Arrived
  <1>3. CASE \E label \in Label, l \in Lease \cup {Self} :
               thread' = [thread EXCEPT ![r] = [at |-> label, l |-> l]]
    BY <1>3 DEF TypeOK
  <1> QED
    BY <1>1, <1>2, <1>3

\* What the steps of a runner leave alone, and the rest.
LEMMA StepTypes ==
  ASSUME TypeOK, NEW r \in Runner, Moves(r), up' \in Seq(Message),
         link' \in 0..MaxEvents, leaving' \subseteq 1..MaxEvents,
         running' \in BOOLEAN, closed' \in BOOLEAN,
         state' \in State, held' \in Lease \cup {Self}, ranOut' \in BOOLEAN,
         context' \in Lease \cup {Self}, acked' \in BOOLEAN,
         thread' \in [Runner -> [at : Label, l : Lease \cup {Self}]]
  PROVE  TypeOK'
  BY DEF TypeOK, Moves, server, Message

LEMMA HandlerTypes ==
  ASSUME TypeOK, HandlerStep
  PROVE  TypeOK'
  <1> USE DEF Label, Arrived, Command, Closing, State
  <1>1. ASSUME NEW r \in Runner, Handle(r)
        PROVE  TypeOK'
    <2> USE DEF Stopping, Shutdown, Stop, StopSelf, Join, Offline, Disconnect, Stopped,
                LeaveLease, LeaveContext, GoIdle
    <2>1. Moves(r) /\ (Disconnect(r) \/ UNCHANGED <<link, leaving, closed>>)
      BY <1>1 DEF Step, Handle, Ack, Assign, Leased, StartLease, CopyContext,
            SwitchToPlatform, Mining, Release, EndLease, SwitchToSelf, Available,
            Pause, PauseSelf, Paused, Resume
    <2>2. thread[r].l \in Lease \cup {Self} /\ held \in Lease \cup {Self}
          /\ ranOut \in BOOLEAN /\ context \in Lease \cup {Self} /\ acked \in BOOLEAN
          /\ state \in State
      BY DEF TypeOK
    <2>3. thread' \in [Runner -> [at : Label, l : Lease \cup {Self}]]
      <3>1. \/ \E label \in Label : Advance(r, label)
            \/ Rest(r)
            \/ \E label \in Label, l \in Lease \cup {Self} :
                 thread' = [thread EXCEPT ![r] = [at |-> label, l |-> l]]
            \/ Join(r)
        BY <1>1, <2>2 DEF Handle, Ack, Assign, Leased, StartLease, CopyContext,
              SwitchToPlatform, Mining, Release, EndLease, SwitchToSelf, Available,
              Pause, PauseSelf, Paused, Resume
      <3>2. CASE Join(r)
        <4>1. [thread[r] EXCEPT !.at = "offline"] \in [at : Label, l : Lease \cup {Self}]
          <5>1. thread[r] \in [at : Label, l : Lease \cup {Self}] /\ "offline" \in Label
            BY DEF TypeOK
          <5> HIDE DEF Label
          <5> QED
            BY <5>1
        <4>2. Idle("ended") \in [at : Label, l : Lease \cup {Self}]
          BY DEF Idle
        <4>3. /\ thread \in [Runner -> [at : Label, l : Lease \cup {Self}]]
              /\ thread' = [thread EXCEPT ![r].at = "offline", ![Watchdog] = Idle("ended")]
          BY <3>2 DEF TypeOK
        <4> HIDE DEF Label
        <4> QED
          BY <4>1, <4>2, <4>3
      <3> QED
        BY <3>1, <3>2, MoveTypes
    <2>4. /\ held' \in Lease \cup {Self} /\ ranOut' \in BOOLEAN
          /\ context' \in Lease \cup {Self} /\ acked' \in BOOLEAN
      BY <1>1, <2>2 DEF Handle, Ack, Assign, Leased, StartLease, CopyContext,
            SwitchToPlatform, Mining, Release, EndLease, SwitchToSelf, Available,
            Pause, PauseSelf, Paused, Resume
    <2>5. \/ UNCHANGED <<up, state>>
          \/ \E s \in State : Transition(s)
          \/ Registers /\ UNCHANGED state
          \/ Sends(<<Status("offline")>>) /\ UNCHANGED state
      BY <1>1 DEF Handle, Ack, Assign, Leased, StartLease, CopyContext,
            SwitchToPlatform, Mining, Release, EndLease, SwitchToSelf, Available,
            Pause, PauseSelf, Paused, Resume
    <2>6. state' \in State /\ up' \in Seq(Message)
      <3>1. <<Registration>> \in Seq(Message) /\ up \in Seq(Message)
        BY MessageTypes
      <3>2. CASE \E s \in State : Transition(s)
        BY <3>2, TransitionTypes
      <3>3. CASE Registers /\ UNCHANGED state
        BY <2>2, <3>1, <3>3, SendsTypes DEF Registers
      <3>4. CASE Sends(<<Status("offline")>>) /\ UNCHANGED state
        <4>1. <<Status("offline")>> \in Seq(Message)
          BY DEF Status, Message
        <4> QED
          BY <2>2, <3>4, <4>1, SendsTypes
      <3> QED
        BY <2>2, <2>5, <3>1, <3>2, <3>3, <3>4
    <2>7. /\ link' \in 0..MaxEvents /\ leaving' \subseteq 1..MaxEvents
          /\ closed' \in BOOLEAN
      <3>1. link \in 0..MaxEvents /\ leaving \subseteq 1..MaxEvents /\ closed \in BOOLEAN
            /\ MaxEvents \in Nat
        BY RentalAssumption DEF TypeOK
      <3>2. CASE Disconnect(r)
        BY <3>1, <3>2
      <3> QED
        BY <2>1, <3>1, <3>2
    <2>8. running' \in BOOLEAN
      BY <1>1 DEF TypeOK, Step, Handle, Ack, Assign, Leased, StartLease, CopyContext,
            SwitchToPlatform, Mining, Release, EndLease, SwitchToSelf, Available,
            Pause, PauseSelf, Paused, Resume
    <2> QED
      BY <2>1, <2>3, <2>4, <2>6, <2>7, <2>8, StepTypes
  <1>2. ASSUME Watch
        PROVE  TypeOK'
    <2>1. Step(Watchdog) /\ Watchdog \in Runner
          /\ UNCHANGED <<held, ranOut, context, acked>>
      BY <1>2 DEF Watch, WatchExpiry, WatchError, Recover, Recovered, Runner
    <2>2. held \in Lease \cup {Self} /\ ranOut \in BOOLEAN
          /\ context \in Lease \cup {Self} /\ acked \in BOOLEAN /\ state \in State
      BY DEF TypeOK
    <2>3. \/ \E label \in Label : Advance(Watchdog, label)
          \/ \E label \in Label, l \in Lease \cup {Self} :
               thread' = [thread EXCEPT ![Watchdog] = [at |-> label, l |-> l]]
      BY <1>2 DEF Watch, WatchExpiry, WatchError, Recover, Recovered, WatchEnds, Idle,
                  Closing
    <2>4. thread' \in [Runner -> [at : Label, l : Lease \cup {Self}]]
      BY <2>1, <2>3, MoveTypes
    <2>5. \/ UNCHANGED <<up, state>>
          \/ \E s \in State : Transition(s)
          \/ Registers /\ UNCHANGED state
      BY <1>2 DEF Watch, WatchExpiry, WatchError, Recover, Recovered
    <2>6. state' \in State /\ up' \in Seq(Message)
      <3>1. <<Registration>> \in Seq(Message) /\ up \in Seq(Message)
        BY MessageTypes
      <3>2. CASE \E s \in State : Transition(s)
        BY <3>2, TransitionTypes
      <3>3. CASE Registers /\ UNCHANGED state
        BY <2>2, <3>1, <3>3, SendsTypes DEF Registers
      <3> QED
        BY <2>2, <2>5, <3>1, <3>2, <3>3
    <2>7. Moves(Watchdog) /\ UNCHANGED <<link, leaving, closed, running>>
      BY <2>1 DEF Step
    <2>8. /\ link' \in 0..MaxEvents /\ leaving' \subseteq 1..MaxEvents
          /\ closed' \in BOOLEAN /\ running' \in BOOLEAN
      BY <2>7 DEF TypeOK
    <2> QED
      BY <2>1, <2>2, <2>4, <2>6, <2>7, <2>8, StepTypes
  <1> QED
    BY <1>1, <1>2 DEF HandlerStep

LEMMA NextSplit == [Next]_vars => \/ ServerStep \/ NetworkStep \/ HandlerStep
                                  \/ UNCHANGED vars
  BY DEF Next, ServerStep, NetworkStep, HandlerStep

LEMMA InitTypes == Init => TypeOK
  <1> SUFFICES ASSUME Init
               PROVE  TypeOK
    OBVIOUS
  <1>1. up \in Seq(Message)
    BY DEF Init, Registration, Status, Message
  <1>2. thread \in [Runner -> [at : Label, l : Lease \cup {Self}]]
    BY DEF Init, Label, Arrived, Resting, Idle
  <1>3. /\ {session, link} \subseteq 0..MaxEvents /\ leaving \subseteq 1..MaxEvents
        /\ connections \in 1..MaxEvents /\ controls \in 0..MaxEvents
    BY RentalAssumption DEF Init
  <1>4. block \in [Block -> [at : {"none", "mining", "reported"},
                             prefix : Lease \cup {Self}]]
    BY DEF Init
  <1> QED
    BY <1>1, <1>2, <1>3, <1>4 DEF Init, TypeOK, Message, State

LEMMA StepTyped == TypeOK /\ [Next]_vars => TypeOK'
  <1>1. TypeOK /\ UNCHANGED vars => TypeOK'
    BY DEF TypeOK, vars, server, network, history
  <1> QED
    BY <1>1, NextSplit, ServerTypes, NetworkTypes, HandlerTypes

----------------------------------------------------------------------------
(* Blocks counted for a lease                                               *)

LEMMA CountedByServer ==
  ASSUME TypeOK, CountedOK, ServerStep
  PROVE  CountedOK'
  <1>1. UNCHANGED <<block, chain>>
    BY ServerTypes
  <1>2. \/ UNCHANGED counted
        \/ \E m \in Message : /\ Counts(m.l, m.b) /\ m.l # Self
                              /\ counted' = counted \cup {<<m.l, m.b>>}
    <2>1. CASE HandleBlock
      <3>1. up \in Seq(Message) /\ up # <<>> /\ Head(up) \in Message
        BY <2>1, MessageTypes DEF HandleBlock
      <3> QED
        BY <2>1, <3>1 DEF HandleBlock
    <2> QED
      BY <2>1 DEF ServerStep, Serve, Rent, End, Control, HandleRegister, HandleStatus,
                  server
  <1> QED
    BY <1>1, <1>2 DEF CountedOK, Counts, Message

LEMMA CountedByNetwork ==
  ASSUME TypeOK, CountedOK, NetworkStep
  PROVE  CountedOK'
  <1>1. CASE Mine
    <2>1. PICK b \in Block : BeginBatch(b) \/ Report(b) \/ Submit(b)
      BY <1>1 DEF Mine
    <2>2. CASE BeginBatch(b)
      <3>1. b \notin chain /\ UNCHANGED <<chain, counted>>
        BY <2>2 DEF BeginBatch, CountedOK, Elsewhere
      <3>2. \A c \in Block \ {b} : block'[c] = block[c]
        BY <2>2 DEF BeginBatch, TypeOK
      <3> QED
        BY <3>1, <3>2 DEF CountedOK, TypeOK
    <2>3. CASE Report(b)
      <3>1. UNCHANGED <<chain, counted>>
        BY <2>3 DEF Report, Elsewhere
      <3>2. \A c \in Block : /\ block'[c].prefix = block[c].prefix
                             /\ block[c].at = "reported" => block'[c].at = "reported"
        BY <2>3 DEF Report, TypeOK
      <3> QED
        BY <3>1, <3>2 DEF CountedOK, TypeOK
    <2>4. CASE Submit(b)
      BY <2>4 DEF CountedOK, Submit, Elsewhere
    <2> QED
      BY <2>1, <2>2, <2>3, <2>4
  <1>2. CASE ~Mine
    <2>1. UNCHANGED <<chain, counted, block>>
      BY <1>2 DEF NetworkStep, Connect, Break, HandlerEnds, RunOut, server
    <2> QED
      BY <2>1 DEF CountedOK
  <1> QED
    BY <1>1, <1>2

LEMMA CountedByHandlers ==
  ASSUME CountedOK, HandlerStep
  PROVE  CountedOK'
  <1>1. UNCHANGED <<chain, counted, block>>
    BY DEF HandlerStep, Handle, Ack, Assign, Leased, StartLease, CopyContext,
           SwitchToPlatform, Mining, Release, EndLease, SwitchToSelf, Available, Pause,
           PauseSelf, Paused, Resume, Stopping, Shutdown, Stop, StopSelf, Join, Offline,
           Disconnect, Stopped, LeaveLease, LeaveContext, GoIdle, Watch, WatchExpiry,
           WatchError, Recover, Recovered, Step, Moves, server
  <1> QED
    BY <1>1 DEF CountedOK

LEMMA CountedImplies == TypeOK /\ CountedOK => CountedWhereMined
  <1> SUFFICES ASSUME TypeOK, CountedOK, NEW p \in counted, NEW q \in counted,
                      p[2] = q[2]
               PROVE  p = q /\ block[p[2]].prefix = p[1]
    BY DEF CountedWhereMined
  <1>1. p \in Lease \X Block /\ q \in Lease \X Block
    BY DEF TypeOK
  <1> QED
    BY <1>1 DEF CountedOK

(* A block counts for one lease at most, the one it was mined under,        *)
(* however connections break and requests, messages and batches interleave: *)
(* the block watcher compares the key of the block, not the word of the     *)
(* worker (server/watcher.py, BlockWatcher.handle_block_found()).           *)
THEOREM CountedForOneLease == Spec => []CountedWhereMined
  <1>1. Init => CountedOK
    BY DEF Init, CountedOK
  <1>2. TypeOK /\ CountedOK /\ [Next]_vars => CountedOK'
    <2>1. CountedOK /\ UNCHANGED vars => CountedOK'
      BY DEF CountedOK, vars, server
    <2> QED
      BY <2>1, NextSplit, CountedByServer, CountedByNetwork, CountedByHandlers
  <1> QED
    BY <1>1, <1>2, InitTypes, StepTyped, CountedImplies, PTL DEF Spec

----------------------------------------------------------------------------
(* The worker: what is so between two steps of the one runner that is in    *)
(* the midst of something, and when none is.                                *)

(* The rest of stop(), when the lease has been left. *)
Leaving == {"join", "offline", "disconnect", "stopping"}

Along(r) ==
  LET at == thread[r].at IN
  /\ at = "lease" => state = "AVAILABLE"
  /\ at \in {"lease", "start", "selfmine", "pauseself", "stopself", "available",
             "pausing", "recover", "recovered"} \cup Leaving => held = Self
  /\ at \in {"lease", "start", "available", "pausing", "recover", "recovered"}
             \cup Leaving => context = Self
  /\ at = "stop" => context = held
  /\ at \in {"context", "switch", "mine"} => held # Self
  /\ at = "switch" => thread[r].l = held
  /\ at = "mine" => context = held
  /\ at = "recover" => state = "IDLE"

Rested ==
  /\ state \in {"IDLE", "AVAILABLE", "MINING", "ERROR"}
  /\ state = "MINING" <=> held # Self
  /\ context = held

Sound(r) == IF Midway(r) THEN Along(r) ELSE Rested

LabelOK(r) ==
  thread[r].at \in {"assign", "lease", "start", "release"} => thread[r].l \in Lease

Alone(r) == \A q \in Runner \ {r} : ~Midway(q)

WorkerInv ==
  /\ \A r \in Runner : LabelOK(r)
  /\ ~overlapped => \A r \in Runner : Midway(r) => Alone(r)
  /\ ~overlapped /\ ~acked => \A r \in Runner : Alone(r) => Sound(r)

\* What a step of a runner leaves alone.
LEMMA HandleFrame ==
  ASSUME TypeOK, NEW r \in Runner, Handle(r) \/ (r = Watchdog /\ Watch)
  PROVE  /\ Moves(r)
         /\ acked => acked'
         /\ \A q \in Runner \ {r} :
              thread'[q] = thread[q] \/ (~Midway(q) /\ thread'[q] = Idle("ended"))
  <1> USE DEF Handle, Ack, Assign, Leased, StartLease, CopyContext, SwitchToPlatform,
              Mining, Release, EndLease, SwitchToSelf, Available, Pause, PauseSelf,
              Paused, Resume, Stopping, Shutdown, Stop, StopSelf, Join, Offline,
              Disconnect, Stopped, LeaveLease, LeaveContext, GoIdle, Watch, WatchExpiry,
              WatchError, Recover, Recovered
  <1>1. Moves(r)
    BY DEF Step
  <1>2. acked => acked'
    OBVIOUS
  <1>3. (\E e : thread' = [thread EXCEPT ![r] = e]) \/ Join(r)
    BY DEF Advance, Rest, WatchEnds
  <1>4. \A q \in Runner \ {r} :
          thread'[q] = thread[q] \/ (~Midway(q) /\ thread'[q] = Idle("ended"))
    BY <1>3 DEF TypeOK
  <1> QED
    BY <1>1, <1>2, <1>4

\* A handler keeps its lease until it is done.
LEMMA HandleLabels ==
  ASSUME TypeOK, NEW r \in Runner, Handle(r) \/ (r = Watchdog /\ Watch), LabelOK(r)
  PROVE  LabelOK(r)'
  <1>1. \/ \E label \in Label \ {"assign", "lease", "start", "release"} :
             thread'[r].at = label
        \/ thread'[r].l = thread[r].l /\ thread[r].at \in {"assign", "lease"}
    <2>1. DOMAIN thread = Runner /\ thread[r] \in [at : Label, l : Lease \cup {Self}]
      BY DEF TypeOK
    <2> QED
      BY <2>1 DEF Handle, Ack, Assign, Leased, StartLease, CopyContext,
         SwitchToPlatform, Mining, Release, EndLease, SwitchToSelf, Available, Pause,
         PauseSelf, Paused, Resume, Stopping, Shutdown, Stop, StopSelf, Join, Offline,
         Disconnect, Stopped, LeaveLease, LeaveContext, GoIdle, Watch, WatchExpiry,
         WatchError, Recover, Recovered, WatchEnds, AtStep, Advance, Rest, Resting, Idle,
         Label, Arrived, Closing, Midway
  <1> QED
    BY <1>1 DEF LabelOK

\* An action that moves a runner takes it from one sound place to another.
LEMMA HandleSound ==
  ASSUME TypeOK, NEW r \in Runner, Handle(r) \/ (r = Watchdog /\ Watch),
         LabelOK(r), ~acked', Sound(r)
  PROVE  Sound(r)'
  <1> USE DEF Sound, Along, Rested, LabelOK, Midway, Arrived, Command, Closing, Leaving,
              AtStep
  <1>1. /\ DOMAIN thread = Runner /\ thread[r].l \in Lease \cup {Self}
        /\ thread[r] \in [at : Label, l : Lease \cup {Self}]
        /\ state \in State /\ held \in Lease \cup {Self} /\ Self \notin Lease
    BY RentalAssumption DEF TypeOK
  <1>2. ASSUME NEW label, Advance(r, label)
        PROVE  thread'[r].at = label /\ thread'[r].l = thread[r].l
    BY <1>1, <1>2 DEF Advance
  <1>3. ASSUME Rest(r)
        PROVE  thread'[r].at = "none"
    BY <1>1, <1>3 DEF Rest, Resting, Idle
  <1>4. ASSUME NEW e, thread' = [thread EXCEPT ![r] = e]
        PROVE  thread'[r] = e
    BY <1>1, <1>4
  <1>5. CASE Ack(r)
    BY <1>1, <1>3, <1>5 DEF Ack, Transition
  <1>6. CASE Assign(r)
    BY <1>1, <1>2, <1>3, <1>6 DEF Assign
  <1>7. CASE Leased(r)
    BY <1>1, <1>2, <1>7 DEF Leased, Transition
  <1>8. CASE StartLease(r)
    BY <1>1, <1>2, <1>3, <1>8 DEF StartLease, Transition
  <1>9. CASE CopyContext(r)
    BY <1>1, <1>4, <1>9 DEF CopyContext
  <1>10. CASE SwitchToPlatform(r)
    BY <1>1, <1>2, <1>10 DEF SwitchToPlatform
  <1>11. CASE Mining(r)
    BY <1>1, <1>3, <1>11 DEF Mining, Transition
  <1>12. CASE Release(r)
    BY <1>1, <1>2, <1>3, <1>12 DEF Release, Transition
  <1>13. CASE EndLease(r)
    BY <1>1, <1>4, <1>13 DEF EndLease
  <1>14. CASE SwitchToSelf(r)
    BY <1>1, <1>2, <1>14 DEF SwitchToSelf
  <1>15. CASE Available(r)
    BY <1>1, <1>2, <1>3, <1>15 DEF Available, Transition
  <1>16. CASE Pause(r) \/ Stop(r)
    <2>1. context = held /\ UNCHANGED <<state, context>>
      BY <1>16 DEF Pause, Stop, LeaveLease
    <2>2. CASE held # Self /\ ~ranOut
      <3>1. held' = Self /\ (Advance(r, "pauseself") \/ Advance(r, "stopself"))
        BY <1>16, <2>2 DEF Pause, Stop, LeaveLease
      <3> QED
        BY <1>2, <3>1
    <2>3. CASE ~(held # Self /\ ~ranOut)
      <3>1. held = Self /\ held' = Self /\ (Advance(r, "pausing") \/ Advance(r, "join"))
        BY <1>16, <2>3 DEF Pause, Stop, LeaveLease
      <3> QED
        BY <1>2, <2>1, <3>1
    <2> QED
      BY <2>2, <2>3
  <1>17. CASE PauseSelf(r) \/ StopSelf(r)
    BY <1>1, <1>2, <1>17 DEF PauseSelf, StopSelf, LeaveContext
  <1>18. CASE Paused(r) \/ Stopped(r)
    BY <1>1, <1>3, <1>18 DEF Paused, Stopped, GoIdle, Transition
  <1>19. CASE Resume(r)
    BY <1>1, <1>2, <1>3, <1>19 DEF Resume
  <1>20. CASE r = Watchdog /\ WatchExpiry
    BY <1>1, <1>2, <1>20 DEF WatchExpiry, Transition
  <1>21. CASE r = Watchdog /\ WatchError
    BY <1>1, <1>2, <1>21 DEF WatchError, Transition
  <1>22. CASE r = Watchdog /\ (Recover \/ Recovered)
    <2>1. WatchEnds => thread'[r].at \in {"none", "ended"}
      BY <1>1, <1>22 DEF WatchEnds, Idle
    <2> QED
      BY <1>1, <1>2, <1>22, <2>1 DEF Recover, Recovered, Transition
  <1>23. CASE Shutdown(r)
    BY <1>1, <1>2, <1>3, <1>23 DEF Shutdown
  <1>24. CASE Join(r)
    <2>1. r # Watchdog /\ thread'[r].at = "offline"
      BY <1>1, <1>24 DEF Join
    <2> QED
      BY <1>24, <2>1 DEF Join
  <1>25. CASE Offline(r) \/ Disconnect(r)
    BY <1>1, <1>2, <1>25 DEF Offline, Disconnect
  <1> QED
    BY <1>5, <1>6, <1>7, <1>8, <1>9, <1>10, <1>11, <1>12, <1>13, <1>14, <1>15, <1>16,
       <1>17, <1>18, <1>19, <1>20, <1>21, <1>22, <1>23, <1>24, <1>25
       DEF Handle, Stopping, Watch

LEMMA WorkerStep ==
  ASSUME TypeOK, WorkerInv, HandlerStep
  PROVE  WorkerInv'
  <1>1. PICK r \in Runner : Handle(r) \/ (r = Watchdog /\ Watch)
    BY DEF HandlerStep, Runner
  <1>2. /\ Moves(r) /\ (acked => acked')
        /\ \A q \in Runner \ {r} :
             thread'[q] = thread[q] \/ (~Midway(q) /\ thread'[q] = Idle("ended"))
    BY <1>1, HandleFrame
  <1>3. \A q \in Runner \ {r} : /\ LabelOK(q)' /\ (Midway(q)' <=> Midway(q))
    BY <1>2 DEF WorkerInv, LabelOK, Midway, Idle, Closing
  <1>4. LabelOK(r)'
    BY <1>1, HandleLabels DEF WorkerInv
  <1>5. ASSUME ~overlapped'
        PROVE  ~overlapped /\ Alone(r) /\ Alone(r)'
    BY <1>2, <1>3, <1>5 DEF Moves, Alone
  <1>6. ASSUME ~overlapped', NEW q \in Runner, Midway(q)'
        PROVE  q = r
    BY <1>5, <1>6 DEF Alone
  <1>7. ASSUME ~overlapped', ~acked'
        PROVE  Sound(r)'
    <2>1. Sound(r)
      BY <1>2, <1>5, <1>7 DEF WorkerInv
    <2> QED
      BY <1>1, <1>7, <2>1, HandleSound DEF WorkerInv
  <1>8. ASSUME ~overlapped', ~acked', NEW q \in Runner, Alone(q)'
        PROVE  Sound(q)'
    <2>1. CASE q = r
      BY <1>7, <1>8, <2>1
    <2>2. CASE q # r
      <3>1. ~Midway(q)' /\ ~Midway(r)'
        BY <1>6, <1>8, <2>2 DEF Alone
      <3> QED
        BY <1>7, <1>8, <3>1 DEF Sound
    <2> QED
      BY <2>1, <2>2
  <1> QED
    BY <1>3, <1>4, <1>5, <1>6, <1>8 DEF WorkerInv

LEMMA QuietStep ==
  ASSUME WorkerInv, UNCHANGED <<state, held, context, acked, overlapped>>,
         \A r \in Runner :
           \/ thread'[r] = thread[r]
           \/ /\ thread[r] = Resting
              /\ \E c \in Arrived, l \in Lease \cup {Self} :
                   /\ thread'[r] = [at |-> c, l |-> l]
                   /\ c \in {"assign", "release"} => l \in Lease
  PROVE  WorkerInv'
  <1>0. /\ "none" \in Arrived \cup Closing
        /\ \A c \in Arrived : c \notin {"lease", "start"}
    BY DEF Arrived, Command
  <1>1. \A r \in Runner : /\ LabelOK(r)' /\ (Midway(r)' <=> Midway(r))
                          /\ Midway(r) => thread'[r] = thread[r]
    <2> SUFFICES ASSUME NEW r \in Runner
                 PROVE  /\ LabelOK(r)' /\ (Midway(r)' <=> Midway(r))
                        /\ Midway(r) => thread'[r] = thread[r]
      OBVIOUS
    <2>1. CASE thread'[r] = thread[r]
      BY <2>1 DEF WorkerInv, LabelOK, Midway
    <2>2. CASE thread'[r] # thread[r]
      <3>1. PICK c \in Arrived, l \in Lease \cup {Self} :
              /\ thread[r] = Resting /\ thread'[r] = [at |-> c, l |-> l]
              /\ c \in {"assign", "release"} => l \in Lease
        BY <2>2
      <3>2. thread'[r].at = c /\ thread'[r].l = l /\ thread[r].at = "none"
        BY <3>1 DEF Resting, Idle
      <3> QED
        BY <1>0, <3>1, <3>2 DEF LabelOK, Midway
    <2> QED
      BY <2>1, <2>2
  <1>2. \A r \in Runner : (Alone(r)' <=> Alone(r)) /\ (Sound(r)' <=> Sound(r))
    BY <1>1 DEF Alone, Sound, Along, Rested
  <1> QED
    BY <1>1, <1>2 DEF WorkerInv

LEMMA WorkerImplies == TypeOK /\ WorkerInv => WorkerSound
  BY DEF WorkerInv, WorkerSound, WorkerConsistent, Alone, Sound, Rested, Runner

(* The worker's state, its lease and the context it mines under agree       *)
(* whenever no handler is half done, unless two handlers have overlapped, a *)
(* register_ack found a lease, or a pause or a shutdown an expired one:     *)
(* these are the only ways to lose it (PlatformManager.cpp's handlers,      *)
(* stop() and watchdog, none of which takes a lock across its steps).       *)
THEOREM WorkerStaysSound == Spec => []WorkerSound
  <1>1. Init => WorkerInv
    BY RentalAssumption DEF Init, WorkerInv, LabelOK, Midway, Arrived, Resting, Idle, Sound,
                            Rested
  <1>2. TypeOK /\ WorkerInv /\ [Next]_vars => WorkerInv'
    <2>1. ASSUME TypeOK, WorkerInv, ServerStep
          PROVE  WorkerInv'
      BY <2>1, ServerTypes, QuietStep
    <2>2. ASSUME TypeOK, WorkerInv, NetworkStep \/ UNCHANGED vars
          PROVE  WorkerInv'
      <3>1. UNCHANGED <<state, held, context, thread, acked, overlapped>>
        BY <2>2, NetworkTypes DEF vars, history
      <3> QED
        BY <2>2, <3>1, QuietStep
    <2> QED
      BY <2>1, <2>2, NextSplit, WorkerStep
  <1> QED
    BY <1>1, <1>2, InitTypes, StepTyped, WorkerImplies, PTL DEF Spec
=============================================================================

----------------------------- MODULE CpuBackend -----------------------------
(***************************************************************************)
(* The CPU backend (mining/backends/cpu.py) under the main loop and the    *)
(* lane manager (efficiency/lane_manager.py): worker processes that hash   *)
(* until a shared event stops them or they have found a block, a queue     *)
(* they put it in, and a counter behind a lock.  start() adds workers to   *)
(* the event and queue at hand; only set_lanes() makes new ones.           *)
(***************************************************************************)
EXTENDS Integers, FiniteSets

CONSTANTS
    CpuLanes,       \* settings.cpu_lanes
    RampStep,       \* settings.lane_ramp_step
    TargetMib, HeadroomMib, TotalMib,
    Sampled,        \* MiB in use of a snapshot, 0 for none
    MaxLanes,       \* bound: no lane is added beyond it
    MaxRounds       \* bound: live workers of one lane

VARIABLES
    phase,     \* where the main thread is
    lanes,     \* LaneManager.lanes, and the _lanes of the backend
    worker,    \* where the worker processes of every lane are
    stop,      \* the stop event is set
    queue,     \* hits in the hit queue
    lock,      \* the lock of the counter
    took       \* history: a hit was taken out of this queue

vars == <<phase, lanes, worker, stop, queue, lock, took>>

Phase == {"built", "loop", "idle_count", "hit_count", "hit", "stopping",
          "halting", "ended"}

Id == (1..MaxLanes) \X (1..MaxRounds)

TypeOK ==
    /\ phase \in Phase
    /\ lanes \in 1..MaxLanes
    /\ worker \in [Id -> {"none", "starting", "ready", "hashing", "counting", "found"}]
    /\ stop \in BOOLEAN /\ took \in BOOLEAN
    /\ queue \in 0..Cardinality(Id)
    /\ lock \in {"free", "held", "lost"}

Live == {i \in Id : worker[i] # "none"}

----------------------------------------------------------------------------
(* _worker_loop() *)

Moves(i, from, to) == worker[i] = from /\ worker' = [worker EXCEPT ![i] = to]

Begin(i) == Moves(i, "starting", "ready") /\ UNCHANGED <<phase, lanes, stop, queue, lock, took>>

Test(i) ==
    /\ Moves(i, "ready", IF stop THEN "none" ELSE "hashing")
    /\ UNCHANGED <<phase, lanes, stop, queue, lock, took>>

\* The process waits for the lock, which a terminated one has taken along.
EnterCount(i) ==
    /\ Moves(i, "hashing", "counting") /\ lock = "free" /\ lock' = "held"
    /\ UNCHANGED <<phase, lanes, stop, queue, took>>

LeaveCount(i) ==
    /\ \E to \in {"ready", "found"} : Moves(i, "counting", to)
    /\ lock' = "free"
    /\ UNCHANGED <<phase, lanes, stop, queue, took>>

\* A worker ends with the block it has found.
Put(i) ==
    /\ Moves(i, "found", "none") /\ queue' = queue + 1
    /\ UNCHANGED <<phase, lanes, stop, lock, took>>

Work(i) == Begin(i) \/ Test(i) \/ EnterCount(i) \/ LeaveCount(i) \/ Put(i)

----------------------------------------------------------------------------
(* The main thread *)

\* Workers of lanes 1..n are added to those of the function w.
Spawned(w, n) ==
    LET first(l) == CHOOSE r \in 1..MaxRounds :
                       w[<<l, r>>] = "none" /\ \A s \in 1..(r - 1) : w[<<l, s>>] # "none"
    IN  [i \in Id |-> IF i[1] <= n /\ i[2] = first(i[1]) THEN "starting" ELSE w[i]]

\* Bound of MaxRounds: there is room for one more worker in every lane.
Room(w, n) == \A l \in 1..n : \E r \in 1..MaxRounds : w[<<l, r>>] = "none"

None == [i \in Id |-> "none"]

\* backend.start() of run(), after set_lanes() of LaneManager.__init__.
Start ==
    /\ phase = "built" /\ phase' = "loop"
    /\ Room(worker, lanes) /\ worker' = Spawned(worker, lanes)
    /\ UNCHANGED <<lanes, stop, queue, lock, took>>

\* VramBudget: without a snapshot there is room for a lane.
ShouldReduce(used) ==
    used # 0 /\ (used > TargetMib \/ TotalMib - used < HeadroomMib \div 2)

CanAddLane(used) ==
    used = 0 \/ (used + 1024 <= TargetMib /\ TotalMib - used >= HeadroomMib)

\* tune()
Tuned(used) ==
    IF ShouldReduce(used) THEN (IF lanes > RampStep THEN lanes - RampStep ELSE 1)
    ELSE IF CanAddLane(used) THEN lanes + RampStep ELSE lanes

\* set_lanes() with another number: stop() sets the event and joins.
Retune ==
    /\ phase = "loop" /\ phase' = "stopping"
    /\ \E used \in Sampled :
          Tuned(used) # lanes /\ Tuned(used) <= MaxLanes /\ lanes' = Tuned(used)
    /\ stop' = TRUE
    /\ UNCHANGED <<worker, queue, lock, took>>

\* After two seconds a worker that has not ended is terminated, where it is.
LostLock == IF \E i \in Id : worker[i] = "counting" THEN "lost" ELSE lock

\* Mutant: the old event is used again.
ReplaceKeepsEvent ==
    /\ phase = "stopping" /\ phase' = "loop"
    /\ lock' = LostLock
    /\ queue' = 0 /\ took' = FALSE
    /\ worker' = Spawned(None, lanes)
    /\ UNCHANGED <<lanes, stop>>

\* The rest of set_lanes(): a new event, a new queue, new workers.
Replace ==
    /\ phase = "stopping" /\ phase' = "loop"
    /\ lock' = LostLock
    /\ stop' = FALSE /\ queue' = 0 /\ took' = FALSE
    /\ worker' = Spawned(None, lanes)
    /\ UNCHANGED lanes

\* mine_batch() takes a hit, and stops the other workers, or times out.
Collect ==
    /\ phase = "loop" /\ queue > 0
    /\ phase' = "hit_count" /\ queue' = queue - 1
    /\ stop' = TRUE /\ took' = TRUE
    /\ UNCHANGED <<lanes, worker, lock>>

TimeOut ==
    /\ phase = "loop" /\ queue = 0 /\ phase' = "idle_count"
    /\ UNCHANGED <<lanes, worker, stop, queue, lock, took>>

Count ==
    /\ phase \in {"idle_count", "hit_count"} /\ lock = "free"
    /\ phase' = IF phase = "hit_count" THEN "hit" ELSE "loop"
    /\ UNCHANGED <<lanes, worker, stop, queue, lock, took>>

\* handle_hit() is over; the workers start() adds find the event set.
Restart ==
    /\ phase = "hit" /\ phase' = "loop"
    /\ Room(worker, lanes) /\ worker' = Spawned(worker, lanes)
    /\ UNCHANGED <<lanes, stop, queue, lock, took>>

\* _graceful_shutdown(), also from Ctrl+C anywhere in the loop.
Halt ==
    /\ phase \notin {"built", "halting", "ended"} /\ phase' = "halting"
    /\ stop' = TRUE
    /\ UNCHANGED <<lanes, worker, queue, lock, took>>

End ==
    /\ phase = "halting" /\ phase' = "ended"
    /\ lock' = LostLock /\ worker' = None
    /\ UNCHANGED <<lanes, stop, queue, took>>

----------------------------------------------------------------------------

\* After the constructors: the lane manager has called set_lanes().
Init ==
    /\ phase = "built" /\ lanes = CpuLanes
    /\ worker = Spawned(None, CpuLanes)
    /\ stop = FALSE /\ queue = 0 /\ lock = "free" /\ took = FALSE

Loop == Start \/ Retune \/ Replace \/ Collect \/ TimeOut \/ Count \/ Restart \/ Halt \/ End

Next == Loop \/ \E i \in Id : Work(i)

Spec == Init /\ [][Next]_vars

----------------------------------------------------------------------------

\* Mining stands still in the loop only over a hit: when no worker is left, a
\* hit of this queue has been taken or is waiting in it, however often the
\* lanes were changed and whatever the workers were doing when they were
\* stopped, joined or terminated (cpu.py:86-94, 117-139).
IdleMeansHit == phase = "loop" /\ Live = {} => took \/ queue > 0
=============================================================================

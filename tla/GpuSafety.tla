----------------------------- MODULE GpuSafety -----------------------------
(***************************************************************************)
(* The supervisor's main loop (core/supervisor.py) around the CUDA backend *)
(* (mining/backends/cuda_native.py): soft derating, the emergency stop,    *)
(* the cooldown, the restart with a lower lane ceiling and the record of   *)
(* that ceiling on disk (efficiency/cuda_lane_policy.py).                  *)
(*                                                                         *)
(* The card has one level at a time: "cool" (5 degrees below the warning,  *)
(* where the ceiling may be restored), "warm", "hot" (a temperature        *)
(* emergency), "full" (a VRAM emergency), "none" (no reading).  The        *)
(* difficulty is "low" (harvest, several lanes) or "ref" (the reference    *)
(* difficulty or more, one lane).  How many lanes a plan finds room for is *)
(* left open, and so is how far a warm card eases them: ThermalPolicy has  *)
(* the rules.  The settings that switch the deratings off are left on.     *)
(***************************************************************************)
EXTENDS Integers

CONSTANTS
    ConfigMaxLanes,     \* cuda_max_lanes
    LaneMin,            \* gpu_thermal_lane_min
    Parallel            \* may the lanes run at the same time

ASSUME LaneAssumption ==
    /\ ConfigMaxLanes \in Nat \ {0}
    /\ LaneMin \in 1..ConfigMaxLanes
    /\ Parallel \in BOOLEAN

Levels == {"cool", "warm", "hot", "full", "none"}
Difficulties == {"low", "ref"}

VARIABLES
    gpu,            \* what a snapshot would show now
    heat,           \* history: lane batches begun since gpu became "hot"; those of
                    \*   lanes that run together count as one
    pc, resume,     \* where the loop is, and where a stop returns to
    snap,           \* the loop's snapshot
    diff,           \* _network_difficulty, and the backend's
    cooldown,       \* time.time() < _cooldown_until
    reduce,         \* _reduce_lanes_after_cooldown
    started,        \* the backend's _started,
    base, lanes,    \*   the lanes of _base_vram_plan (0: None), and _lanes,
    thermalCap, vramCap,    \* its soft caps (ConfigMaxLanes: none),
    cap, policy,    \*   _max_lanes_cap, and effective_max_lanes of _lane_policy
    left,           \* lanes of the batch still to run
    file, torn,     \* gpu_lane_cap.json, as last completed; is it cut short now
    writing         \* who is inside write_text()

loop == <<pc, resume>>
load == <<started, base, lanes, thermalCap, vramCap>>
record == <<cap, policy, file, torn, writing>>
mining == <<left, heat>>
vars == <<gpu, snap, diff, cooldown, reduce, loop, load, record, mining>>

PCs == {"off", "boot", "first", "top", "net", "tune", "guard", "flush", "stop", "vramflush", "vramcool",
        "restart", "pause", "service", "restart2", "mine", "lane", "run", "together", "after",
        "queue", "dying", "farewell", "exit"}

Caps == 1..ConfigMaxLanes

TypeOK ==
    /\ gpu \in Levels /\ snap \in Levels /\ diff \in Difficulties
    /\ pc \in PCs /\ resume \in {"restart", "service"}
    /\ cooldown \in BOOLEAN /\ reduce \in BOOLEAN /\ started \in BOOLEAN
    /\ base \in 0..ConfigMaxLanes /\ lanes \in Caps
    /\ thermalCap \in Caps /\ vramCap \in Caps
    /\ cap \in Caps /\ policy \in Caps /\ file \in Caps
    /\ left \in 0..ConfigMaxLanes /\ heat \in Nat
    /\ torn \in BOOLEAN
    /\ writing \in {"no", "reduce", "restore"}

Smaller(a, b) == IF a < b THEN a ELSE b
Larger(a, b) == IF a < b THEN b ELSE a

Goto(l) == pc' = l /\ UNCHANGED resume

\* The supervisor takes a step only when no write is under way.
At(l) == pc = l /\ writing = "no"

----------------------------------------------------------------------------
(* The card, the clock *)

Sense ==
    /\ gpu' \in Levels \ {gpu}
    /\ heat' = 0
    /\ UNCHANGED <<snap, diff, cooldown, reduce, loop, load, record, left>>

CooldownEnds ==
    /\ cooldown
    /\ cooldown' = FALSE
    /\ UNCHANGED <<gpu, snap, diff, reduce, loop, load, record, mining>>

----------------------------------------------------------------------------
(* The plan of the backend *)

\* Mutant: the plan is made with cuda_max_lanes, not with the ceiling.
PlansAsConfigured(d) == IF d = "ref" THEN {1} ELSE Caps

\* plan_cuda_batch(): one lane from the reference difficulty on, below it what
\* fits under the ceiling.  The lanes are counted as difficulty_lane_bias()
\* leaves them, which every user of the plan applies first.
Plans(d) == IF d = "ref" THEN {1} ELSE 1..cap

\* _effective_plan()
Effective(n) == Smaller(n, Smaller(thermalCap, vramCap))

\* A running engine is planned anew; when that fails it goes on as it was.
SetDifficulty(d) ==
    /\ diff' = d
    /\ \/ started /\ \E n \in Plans(d) : base' = n /\ lanes' = Effective(n)
       \/ UNCHANGED <<base, lanes>>
    /\ UNCHANGED <<started, thermalCap, vramCap>>

Start ==
    /\ started' = TRUE
    /\ \E n \in Plans(diff) : base' = n /\ lanes' = Effective(n)
    /\ UNCHANGED <<thermalCap, vramCap>>

\* The soft cap for VRAM and the number of lanes stay.
Stop ==
    /\ started' = FALSE
    /\ base' = 0
    /\ thermalCap' = ConfigMaxLanes
    /\ UNCHANGED <<lanes, vramCap>>

\* Mutant: gpu_thermal_lane_min is not held to 1.
ThermalCapsToNothing(level, n) ==
    CASE level = "cool" -> {n}
      [] level = "hot" -> {0}
      [] OTHER -> 0..n

\* Lanes left to a plan of n by the temperature, and by the VRAM in use.
ThermalCaps(level, n) ==
    CASE level = "cool" -> {n}
      [] level = "hot" -> {Smaller(LaneMin, n)}
      [] OTHER -> Smaller(LaneMin, n)..n

VramCaps(n) == IF n > 1 THEN Smaller(LaneMin, n)..n ELSE {ConfigMaxLanes}

----------------------------------------------------------------------------
(* refresh_network() *)

\* Where the loop refreshes the network, and where it goes from there.
Follows == [boot |-> "first", net |-> "tune", flush |-> "stop",
            vramflush |-> "vramcool", service |-> "restart2", after |-> "queue", queue |-> "top", farewell |-> "exit"]

\* _maybe_restore_cuda_lane_cap() looks at a snapshot of its own.
Restorable(d) ==
    /\ d = "ref" /\ diff = "low"
    /\ gpu = "cool"
    /\ policy < ConfigMaxLanes

AtRefresh ==
    /\ pc \in DOMAIN Follows
    /\ writing = "no"

\* Not due, no change, or the network is down.
NoNews ==
    /\ AtRefresh
    /\ Goto(Follows[pc])
    /\ UNCHANGED <<gpu, snap, diff, cooldown, reduce, load, record, mining>>

\* A new difficulty on the same side of the reference is planned anew as well.
News ==
    /\ AtRefresh
    /\ \E d \in Difficulties : ~Restorable(d) /\ SetDifficulty(d)
    /\ Goto(Follows[pc])
    /\ UNCHANGED <<gpu, snap, cooldown, reduce, record, mining>>

\* save_lane_policy() empties the file before it writes.
Restore ==
    /\ AtRefresh
    /\ Restorable("ref")
    /\ policy' = ConfigMaxLanes
    /\ torn' = TRUE
    /\ writing' = "restore"
    /\ UNCHANGED <<gpu, snap, diff, cooldown, reduce, loop, load, cap, file, mining>>

\* Mutant: the policy is restored and the backend's copy forgotten.
RestoredOnDiskOnly ==
    /\ writing = "restore"
    /\ file' = policy /\ torn' = FALSE /\ writing' = "no"
    /\ SetDifficulty("ref")
    /\ Goto(Follows[pc])
    /\ UNCHANGED <<gpu, snap, cooldown, reduce, cap, policy, mining>>

Restored ==
    /\ writing = "restore"
    /\ file' = policy /\ torn' = FALSE /\ writing' = "no"
    /\ cap' = policy
    /\ SetDifficulty("ref")
    /\ Goto(Follows[pc])
    /\ UNCHANGED <<gpu, snap, cooldown, reduce, policy, mining>>

----------------------------------------------------------------------------
(* The head of the loop *)

\* A snapshot that raises counts as none.
Snapshot ==
    /\ At("top")
    /\ snap' \in {gpu, "none"}
    /\ Goto("net")
    /\ UNCHANGED <<gpu, diff, cooldown, reduce, load, record, mining>>

\* Not due, or no reading.
NotTuned ==
    /\ At("tune")
    /\ Goto("guard")
    /\ UNCHANGED <<gpu, snap, diff, cooldown, reduce, load, record, mining>>

\* set_thermal_lane_cap and the VRAM reel-in.  A stopped backend keeps its
\* lanes and takes the caps all the same.
Tune ==
    /\ At("tune")
    /\ snap # "none"
    /\ LET planned == Larger(base, lanes)
           inUse == IF base = 0 THEN lanes ELSE base
       IN  /\ IF planned > 1 THEN thermalCap' \in ThermalCaps(snap, planned)
              ELSE thermalCap' = IF base = 0 THEN thermalCap ELSE 1
           /\ vramCap' \in VramCaps(inUse)
    /\ lanes' = IF base = 0 THEN lanes ELSE Smaller(base, Smaller(thermalCap', vramCap'))
    /\ Goto("guard")
    /\ UNCHANGED <<gpu, snap, diff, cooldown, reduce, started, base, record, mining>>

----------------------------------------------------------------------------
(* _apply_gpu_safety() *)

\* _note_temp_cooldown(): with several lanes the next start gets one less.
Note == reduce' = (reduce \/ (snap # "none" /\ lanes > 1))

Calm ==
    /\ At("guard")
    /\ snap \notin {"hot", "full"} \/ (snap = "hot" /\ cooldown /\ ~started)
    /\ Goto("restart")
    /\ UNCHANGED <<gpu, snap, diff, cooldown, reduce, load, record, mining>>

TempStop ==
    /\ At("guard")
    /\ snap = "hot"
    /\ ~(cooldown /\ ~started)
    /\ Note
    /\ pc' = "flush" /\ resume' = "restart"
    /\ UNCHANGED <<gpu, snap, diff, cooldown, load, record, mining>>

\* The end of _graceful_gpu_stop(), after its flush.
GracefulStop ==
    /\ At("stop")
    /\ Stop
    /\ cooldown' = TRUE
    /\ pc' = resume /\ UNCHANGED resume
    /\ UNCHANGED <<gpu, snap, diff, reduce, record, mining>>

VramStop ==
    /\ At("guard")
    /\ snap = "full"
    /\ Stop
    /\ Goto("vramflush")
    /\ UNCHANGED <<gpu, snap, diff, cooldown, reduce, record, mining>>

VramCool ==
    /\ At("vramcool")
    /\ cooldown' = TRUE
    /\ Goto("service")
    /\ UNCHANGED <<gpu, snap, diff, reduce, load, record, mining>>

----------------------------------------------------------------------------
(* _maybe_restart_gpu(), before the pause and after its sleep *)

AtRestart == writing = "no" /\ pc \in {"restart", "restart2"}

AfterRestart == Goto(IF pc = "restart" THEN "pause" ELSE "top")

\* Mutant: without a reading there is no restart.
NoBlindRestart ==
    /\ AtRestart
    /\ cooldown \/ started \/ gpu = "none"
    /\ AfterRestart
    /\ UNCHANGED <<gpu, snap, diff, cooldown, reduce, load, record, mining>>

NoRestart ==
    /\ AtRestart
    /\ cooldown \/ started
    /\ AfterRestart
    /\ UNCHANGED <<gpu, snap, diff, cooldown, reduce, load, record, mining>>

Reducible == reduce /\ lanes > 1 /\ cap > 1

\* Mutant: the flag that asks for the reduction is not taken down.
ReduceAgain ==
    /\ AtRestart
    /\ ~cooldown /\ ~started
    /\ Reducible
    /\ cap' = cap - 1 /\ policy' = cap - 1
    /\ torn' = TRUE /\ writing' = "reduce"
    /\ UNCHANGED <<gpu, snap, diff, cooldown, reduce, loop, load, file, mining>>

\* _apply_lane_cap_after_temp(), its two writes as one.
Reduce ==
    /\ AtRestart
    /\ ~cooldown /\ ~started
    /\ Reducible
    /\ reduce' = FALSE
    /\ cap' = cap - 1 /\ policy' = cap - 1
    /\ torn' = TRUE /\ writing' = "reduce"
    /\ UNCHANGED <<gpu, snap, diff, cooldown, loop, load, file, mining>>

Reduced ==
    /\ writing = "reduce"
    /\ file' = policy /\ torn' = FALSE /\ writing' = "no"
    /\ UNCHANGED <<gpu, snap, diff, cooldown, reduce, loop, load, cap, policy, mining>>

Restart ==
    /\ AtRestart
    /\ ~cooldown /\ ~started
    /\ ~Reducible /\ reduce' = FALSE
    /\ Start
    /\ AfterRestart
    /\ UNCHANGED <<gpu, snap, diff, cooldown, record, mining>>

\* backend.start() raises, and nothing on the way out of run() catches it.
RestartFails ==
    /\ AtRestart
    /\ ~cooldown /\ ~started
    /\ ~Reducible /\ reduce' = FALSE
    /\ Goto("dying")
    /\ UNCHANGED <<gpu, snap, diff, cooldown, load, record, mining>>

Pause ==
    /\ At("pause")
    /\ Goto(IF cooldown /\ ~started THEN "service" ELSE "mine")
    /\ UNCHANGED <<gpu, snap, diff, cooldown, reduce, load, record, mining>>

----------------------------------------------------------------------------
(* mine_batch().  Its abort check takes a snapshot of its own. *)

Aborts == gpu = "hot"

NothingToMine ==
    /\ At("mine")
    /\ ~started
    /\ Goto("after")
    /\ UNCHANGED <<gpu, snap, diff, cooldown, reduce, load, record, mining>>

BeginBatch ==
    /\ At("mine")
    /\ started /\ ~Aborts
    /\ left' = lanes
    /\ \/ Goto("lane")
       \/ Parallel /\ lanes > 1 /\ Goto("together")
    /\ UNCHANGED <<gpu, snap, diff, cooldown, reduce, load, record, heat>>

\* Mutant: one look at the card for all the lanes of a batch.
CheckFirstLaneOnly ==
    /\ At("lane")
    /\ ~Aborts \/ left < lanes
    /\ Goto("run")
    /\ UNCHANGED <<gpu, snap, diff, cooldown, reduce, load, record, mining>>

CheckLane ==
    /\ At("lane")
    /\ ~Aborts
    /\ Goto("run")
    /\ UNCHANGED <<gpu, snap, diff, cooldown, reduce, load, record, mining>>

RunLane ==
    /\ At("run")
    /\ left' = left - 1
    /\ heat' = IF gpu = "hot" THEN heat + 1 ELSE heat
    /\ Goto(IF left = 1 THEN "after" ELSE "lane")
    /\ UNCHANGED <<gpu, snap, diff, cooldown, reduce, load, record>>

\* All lanes in a pool of threads; the check that follows comes with left = 0.
RunTogether ==
    /\ At("together")
    /\ left > 0
    /\ left' = 0
    /\ heat' = IF gpu = "hot" THEN heat + 1 ELSE heat
    /\ UNCHANGED <<gpu, snap, diff, cooldown, reduce, loop, load, record>>

Together ==
    /\ At("together")
    /\ left = 0 /\ ~Aborts
    /\ Goto("after")
    /\ UNCHANGED <<gpu, snap, diff, cooldown, reduce, load, record, mining>>

\* Before the batch, before a lane, after the lanes.
Abort ==
    /\ At("mine") \/ At("lane") \/ (At("together") /\ left = 0)
    /\ started /\ Aborts
    /\ Note
    /\ left' = 0
    /\ pc' = "flush" /\ resume' = "service"
    /\ UNCHANGED <<gpu, snap, diff, cooldown, load, record, heat>>

LaneFails ==
    /\ At("run") \/ (At("together") /\ left > 0)
    /\ left' = 0
    /\ Goto("dying")
    /\ UNCHANGED <<gpu, snap, diff, cooldown, reduce, load, record, heat>>

----------------------------------------------------------------------------
(* The process *)

\* What load_lane_policy() makes of the file.
Loaded == IF torn THEN ConfigMaxLanes ELSE file

\* A difficulty from the network or from miner.ini; the queue that is resumed
\* next may refresh it.
Boot ==
    /\ pc = "off"
    /\ cap' = Loaded /\ policy' = Loaded
    /\ diff' \in Difficulties
    /\ Goto("boot")
    /\ UNCHANGED <<gpu, snap, cooldown, reduce, load, file, torn, writing, mining>>

\* The first start() may raise: that is logged.
FirstStart ==
    /\ At("first")
    /\ Start \/ UNCHANGED load
    /\ Goto("top")
    /\ UNCHANGED <<gpu, snap, diff, cooldown, reduce, record, mining>>

\* The time is up, or Ctrl-C.
Quit ==
    /\ pc \notin {"off", "dying", "farewell", "exit"}
    /\ writing = "no"
    /\ Goto("dying")
    /\ left' = 0
    /\ UNCHANGED <<gpu, snap, diff, cooldown, reduce, load, record, heat>>

\* _graceful_shutdown(); its flush is the refresh at "farewell".
Shutdown ==
    /\ At("dying")
    /\ Stop
    /\ Goto("farewell")
    /\ UNCHANGED <<gpu, snap, diff, cooldown, reduce, record, mining>>

\* What a process that is not there leaves of the state.
Gone ==
    /\ pc' = "off" /\ resume' = "restart"
    /\ snap' = "none" /\ diff' = "low"
    /\ cooldown' = FALSE /\ reduce' = FALSE
    /\ started' = FALSE /\ base' = 0 /\ lanes' = 1
    /\ thermalCap' = ConfigMaxLanes /\ vramCap' = ConfigMaxLanes
    /\ cap' = ConfigMaxLanes /\ policy' = ConfigMaxLanes
    /\ left' = 0
    /\ writing' = "no"
    /\ UNCHANGED <<gpu, heat, file, torn>>

\* _finalize_session()
Exit == At("exit") /\ Gone

\* The process is killed, or a write fails, between any two steps.
Crash == pc # "off" /\ Gone

Init ==
    /\ gpu \in Levels /\ heat = 0
    /\ pc = "off" /\ resume = "restart"
    /\ snap = "none" /\ diff = "low"
    /\ cooldown = FALSE /\ reduce = FALSE
    /\ started = FALSE /\ base = 0 /\ lanes = 1
    /\ thermalCap = ConfigMaxLanes /\ vramCap = ConfigMaxLanes
    /\ cap = ConfigMaxLanes /\ policy = ConfigMaxLanes
    /\ left = 0
    /\ file = ConfigMaxLanes /\ torn = FALSE /\ writing = "no"

\* The steps of a running supervisor.
Loop ==
    \/ NoNews \/ News \/ Restore \/ Restored
    \/ Snapshot \/ NotTuned \/ Tune
    \/ Calm \/ TempStop \/ GracefulStop \/ VramStop \/ VramCool
    \/ NoRestart \/ Reduce \/ Reduced \/ Restart \/ RestartFails \/ Pause
    \/ NothingToMine \/ BeginBatch \/ CheckLane \/ RunLane
    \/ RunTogether \/ Together \/ Abort \/ LaneFails
    \/ FirstStart \/ Shutdown \/ Exit

Next == Sense \/ CooldownEnds \/ Loop \/ Boot \/ Quit \/ Crash

Spec == Init /\ [][Next]_vars

\* A running process takes its steps, and time goes by.  Nobody has to start
\* it again, and the card owes it nothing.
Fairness == WF_vars(Loop) /\ WF_vars(CooldownEnds)

FairSpec == Spec /\ Fairness

----------------------------------------------------------------------------
(* Safety *)

\* A running engine never mines on more lanes than the ceiling that its
\* emergency stops have left, although the ceiling, the plan, the difficulty
\* and the two soft caps change at different places (reduce_lane_cap,
\* restore_lane_cap_if_cool, set_difficulty, start).
LanesWithinCap ==
    /\ started => 1 <= lanes /\ lanes <= base /\ base <= cap
    /\ pc \in {"lane", "run", "together"} => started /\ left <= lanes

\* The ceiling the backend uses, the one in its policy and the one the next
\* session will find are the same except during a write.  (A file cut short by
\* a crash stands for the configured ceiling until the next write.)
CapOnRecord ==
    pc # "off" /\ writing = "no" => cap = policy /\ policy = Loaded

\* A cooldown has no engine running in it: on no path is the engine restarted
\* before the cooldown is over, or the cooldown set with the engine left on.
CooldownIsOff == cooldown => ~started

\* However the loop, the stops, the restarts and new sessions interleave, a
\* card that stays in a temperature emergency gets one more lane batch at
\* most, or one round of the lanes that run at the same time.
HotWorkBounded == heat <= 1

\* A hot card is let alone: both of the above.
HotIsLeftAlone == CooldownIsOff /\ HotWorkBounded

\* The ceiling comes down one at a time and only with the engine off, at most
\* once for each stop that asked for it; it goes up only to the configured
\* one, at the reference difficulty.
CapSteps ==
    [][(cap' # cap /\ pc # "off" /\ pc' # "off") =>
          \/ cap' = cap - 1 /\ ~started /\ reduce /\ ~reduce'
          \/ cap' = ConfigMaxLanes /\ diff' = "ref"]_vars

----------------------------------------------------------------------------
(* Liveness *)

\* README.md:65, "Temp guard: warn -> cooldown -> restart": a miner that goes
\* on running, on a card that in the end stays out of the emergencies, mines
\* again and again, whatever stops, cooldowns and failed first starts it had.
MiningResumes ==
    (<>[](pc # "off") /\ <>[](gpu \notin {"hot", "full"})) => []<>(pc \in {"run", "together"})

----------------------------------------------------------------------------
(* What the repository says of this loop, and the code does not keep *)

\* cuda_native.py:663, "Restore full lane cap when reference difficulty and
\* temps are safe."
LaneCapRestored ==
    <>[](pc # "off" /\ diff = "ref" /\ gpu = "cool") => <>[](cap = ConfigMaxLanes)
===========================================================================

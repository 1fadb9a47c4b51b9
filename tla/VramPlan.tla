------------------------------ MODULE VramPlan ------------------------------
(***************************************************************************)
(* How the CUDA backend sizes its batches to the memory of the card:       *)
(* the caps (efficiency/vram_policy.py), the plan for a difficulty and a   *)
(* reading of the card (mining/vram_batch.py), and the plan in use under   *)
(* heat, memory pressure, retargets and stops                              *)
(* (mining/backends/cuda_native.py), on a card other programs use too.     *)
(* Memory is in MiB, batch buffers in KiB, fractions in percent, rounded   *)
(* down; batch sizes are not fixed by the settings.                        *)
(***************************************************************************)
EXTENDS ThermalPolicy, FiniteSets, FiniteSetsExt

CONSTANTS
    Cards,            \* total memory of the cards
    Engines,          \* of "single", "native", "copies": what runs lanes at a time
    TargetShare, HeadroomShare, EmergencyShare, MinHeadroomShare, OverheadShare,
                      \* target_vram_pct and so on, per 10000
    HeadroomFloor, OverheadFloor, EmergencyFloor,
    Margin,           \* vram_safety_margin_mib
    LaneLimit,        \* cuda_max_lanes
    MinBatch,         \* cuda_min_batch_per_lane
    LowDifficulty, FillLow, FillRef, FillHigh,   \* clock_*
    VramMinScale,     \* vram_soft_min_scale, %
    Difficulties,
    Context,          \* what an initialised engine holds without a batch
    OtherUse,         \* bound: what other programs may hold
    MaxChanges        \* bound: changes of difficulty, heat, ceiling and of the others

VARIABLES
    device,  \* the card and its engine
    other,   \* memory of other programs
    buffer,  \* the buffers of the last batch: how many, and KiB of each
    miner,   \* the backend's fields
    told     \* history: what the last plan was made from, and the changes

vars == <<device, other, buffer, miner, told>>

None == 0

----------------------------------------------------------------------------
(* Caps *)

Monus(a, b) == Larger(0, a - b)

\* resolve_vram_caps()
Caps(total) ==
    LET share(p) == (total * p) \div 10000
        headroom == Larger(HeadroomFloor, Smaller(share(HeadroomShare), total - 1))
        minHead == Larger(HeadroomFloor, Smaller(share(MinHeadroomShare), headroom))
        overhead == Larger(OverheadFloor, Smaller(share(OverheadShare), total \div 2))
        target == Smaller(share(TargetShare), Monus(total, headroom))
    IN  [target |-> target, headroom |-> headroom, minHead |-> minHead,
         emergency |-> Larger(minHead, Smaller(share(EmergencyShare),
                                               Monus(total, EmergencyFloor))),
         overhead |-> IF target = 0 THEN overhead
                      ELSE Smaller(overhead, Larger(OverheadFloor, target \div 2))]

TheCaps == Caps(device.total)

----------------------------------------------------------------------------
(* Plans *)

\* KiB of n attempts, of d * 1.001 KiB each, and the attempts in so many KiB.
BatchKib(n, d) == n * d + (n * d) \div 1000
Attempts(kib, d) ==
    (1000 * (kib \div 1001) + (1000 * (kib % 1001)) \div 1001) \div d

\* difficulty_batch_fill_fraction()
Fill(d) ==
    LET ref == Larger(LowDifficulty, Reference)
        high == Larger(ref + 1, RoundHalfEven(ref * HighDiffFull, 100))
        line(x0, f0, x1, f1) == f0 + ((d - x0) * (f1 - f0)) \div (x1 - x0)
        fill == IF d <= LowDifficulty THEN FillLow
                ELSE IF d <= ref THEN line(LowDifficulty, FillLow, ref, FillRef)
                ELSE IF d <= high THEN line(ref, FillRef, high, FillHigh)
                ELSE FillHigh
    IN  Clamp(fill, 40, 100)

\* vram_cap_batch_budget_bytes() and the fill of plan_cuda_batch(), in KiB.
Budget(total, foreign, d) ==
    LET caps == Caps(total)
        taken == foreign + caps.overhead + Margin
        room == Smaller(Monus(caps.target, taken), Monus(total, caps.headroom + taken))
    IN  ((room * 1024) \div 100) * Fill(d)

\* cuda_lane_count() in "fill" mode.
LaneCount(d, cap, kib) ==
    LET attempts == Attempts(kib, d)
        packed == Larger(Larger(1, Reference \div d), attempts \div MinBatch)
    IN  IF cap <= 1 \/ d >= Reference \/ attempts = 0 THEN 1
        ELSE Smaller(Smaller(cap, 32), packed)

\* One buffer for all lanes: as many as there are MinBatch bytes in the budget.
PrefixCount(d, cap, kib) ==
    IF d >= Reference \/ d > 150 THEN 1
    ELSE Max({1} \cup {n \in 1..Smaller(cap, 32) : n * MinBatch <= 1024 * Smaller(kib, 65536)})

\* _make_plan() and _plan_projection(), with p for what it leaves alone.
MakePlan(p, lanes, conc, batch) ==
    LET together == Larger(1, Smaller(conc, lanes))
        mib == (BatchKib(batch, p.diff) * together) \div 1024
        used == p.foreign + mib + p.overhead
    IN  [p EXCEPT !.lanes = lanes, !.conc = together, !.batch = batch, !.mib = mib,
                  !.used = used, !.headroom = Monus(p.total, used)]

WithinLimits(p) ==
    /\ p.used <= Caps(device.total).target
    /\ p.headroom >= Caps(device.total).headroom

\* The batches a clamp tries: 2 % smaller each, down to one.
Trims(batch) ==
    LET trim[i \in 0..700] ==
            IF i = 0 THEN batch ELSE Larger(1, (98 * trim[i - 1]) \div 100)
    IN  IF batch <= 1 THEN {batch} ELSE {trim[i] : i \in 0..700}

\* clamp_plan_to_caps(): of the most lanes for which one fits, the largest
\* batch that does; the plan as it is if none does.
Clamped(p) ==
    LET fewer == IF p.conc = 1 THEN {p.lanes} ELSE 1..p.lanes
        largest(l) == IF l = p.lanes THEN p.batch ELSE Attempts(p.kib \div Smaller(p.conc, l), p.diff)
        tried(l) == {MakePlan([p EXCEPT !.total = p.used + p.headroom], l, Smaller(p.conc, l), b) :
                       b \in Trims(largest(l))}
        fits(l) == {q \in tried(l) : WithinLimits(q)}
        lanes == {l \in fewer : fits(l) # {}}
    IN  IF WithinLimits(p) \/ lanes = {} THEN p
        ELSE CHOOSE q \in fits(Max(lanes)) : \A r \in fits(Max(lanes)) : r.batch <= q.batch

\* plan_cuda_batch().  (The remainder it tops a batch up with is that of a
\* division by the lanes first, which is not made so here.)
PlanBatch(total, foreign, d, cap, together) ==
    LET kib == Budget(total, foreign, d)
        lanes == IF together THEN LaneCount(d, cap, kib) ELSE PrefixCount(d, cap, kib)
        conc == IF together THEN lanes ELSE 1
        blank == [lanes |-> 1, conc |-> 1, batch |-> 0, mib |-> 0, used |-> 0, headroom |-> 0,
                  total |-> total, foreign |-> foreign, kib |-> kib, diff |-> d,
                  overhead |-> Caps(total).overhead + Margin]
    IN  Clamped(MakePlan(blank, lanes, conc, Attempts(kib, d) \div conc))

\* apply_lane_cap(): what runs alone in the end keeps its batch.
ApplyLaneCap(p, cap) ==
    LET lanes == Larger(1, cap)
        conc == Smaller(p.conc, lanes)
        batch == IF conc = 1 THEN p.batch ELSE Attempts(p.kib \div conc, p.diff)
    IN  IF p.lanes <= lanes THEN p
        ELSE Clamped(MakePlan([p EXCEPT !.total = p.used + p.headroom], lanes, conc, batch))

NoPlan == [lanes |-> None]

\* One more of the bounded changes.
Change == told.changes < MaxChanges /\ told' = [told EXCEPT !.changes = @ + 1]

----------------------------------------------------------------------------
(* The plan in use *)

\* Lane batches that are in memory at a time.
Together(m) == IF m.plan.lanes > 1 /\ m.mode # "sequential" THEN m.plan.lanes ELSE 1

\* _combined_batch_scale() and apply_batch_scale()
LaneBatch(m) ==
    LET floor == Smaller(BatchMinScale, VramMinScale)
        scale == Clamp(Smaller(m.heat, m.pressure), floor, 100)
    IN  Larger(1, (m.plan.batch * scale) \div 100)

UsedMib == other + (IF miner.on THEN Context + (buffer.kib * buffer.count) \div 1024 ELSE 0)

\* Mutant: the memory other programs took since the start is ignored.
ForeignCold(m, used) == IF m.plan = NoPlan THEN Larger(m.baseline, used) ELSE m.baseline

\* estimate_foreign_vram_mib() as _plan_from_device() calls it.
Foreign(m, used) ==
    IF m.plan = NoPlan THEN Larger(m.baseline, used)
    ELSE Larger(m.baseline, Monus(used, m.plan.mib + m.plan.overhead))

\* _concurrent_vram_lanes_hint() and _plan_from_device()
PlanFromDevice(m, used) ==
    PlanBatch(device.total, Foreign(m, used), m.diff, m.cap,
              device.engine = "native" \/ m.mode # "sequential")

\* Otherwise _plan_from_device() raises.
Sized(p) == p.batch > 0 /\ WithinLimits(p)

BiasedLanes(base) ==
    IF base.lanes > 1 THEN DifficultyLaneBias(base.lanes, base.diff) ELSE base.lanes

\* _effective_plan(): bias, then the lower of the two caps.
Effective(m, base) ==
    LET biased == ApplyLaneCap(base, BiasedLanes(base))
        caps == {c \in {m.thermal, m.vram} : c # None /\ c < biased.lanes}
    IN  IF caps = {} THEN biased ELSE ApplyLaneCap(biased, Min(caps))

\* _sync_lane_engines(), where the copies load.
Mode(lanes, loads) ==
    CASE lanes > 1 /\ device.engine = "native" -> "native"
      [] lanes > 1 /\ device.engine = "copies" /\ loads -> "dll-copies"
      [] OTHER -> "sequential"

\* Engines and slots beyond the lanes are shut down with their buffers.
Shed(m) ==
    buffer' = [buffer EXCEPT !.count =
                  Smaller(@, IF device.engine = "native" THEN m.plan.lanes ELSE Together(m))]

\* _apply_plan() of a new base, then the engines.
Adopt(m, base, loads) ==
    LET plan == Effective(m, base)
    IN  /\ miner' = [m EXCEPT !.base = base, !.plan = plan, !.mode = Mode(plan.lanes, loads)]
        /\ Shed(miner')

\* _reapply_live_caps(): the engines only if the number of lanes changes.
Reapply(m, loads) ==
    LET plan == Effective(m, m.base)
    IN  /\ miner' = [m EXCEPT !.plan = plan,
                              !.mode = IF plan.lanes = m.plan.lanes THEN @
                                       ELSE Mode(plan.lanes, loads)]
        /\ Shed(miner')

Start(loads) ==
    LET used == other + Context
        m == [miner EXCEPT !.on = TRUE, !.baseline = used]
        base == PlanFromDevice(m, used)
    IN  /\ ~miner.on /\ Sized(base) /\ Adopt(m, base, loads)
        /\ told' = [told EXCEPT !.other = other, !.start = other, !.sound = TRUE]
        /\ UNCHANGED <<device, other>>

Stop ==
    /\ miner.on
    /\ miner' = [miner EXCEPT !.on = FALSE, !.plan = NoPlan, !.base = NoPlan,
                              !.thermal = None, !.baseline = 0, !.mode = "sequential"]
    /\ buffer' = [count |-> 0, kib |-> 0]
    /\ UNCHANGED <<device, other, told>>

\* set_difficulty(): a plan that cannot be made leaves the one in use.
SetDifficulty(d, loads) ==
    LET m == [miner EXCEPT !.diff = d]
        base == PlanFromDevice(m, UsedMib)
        full == (buffer.kib * buffer.count) \div 1024 >= miner.plan.mib
    IN  /\ d # miner.diff /\ told.changes < MaxChanges
        /\ IF miner.on /\ Sized(base)
           THEN /\ Adopt(m, base, loads)
                /\ told' = [told EXCEPT !.other = other, !.changes = @ + 1,
                                        !.sound = full \/ other <= told.start]
           ELSE miner' = m /\ Change /\ UNCHANGED buffer
        /\ UNCHANGED <<device, other>>

\* The thermal cap is of the biased lanes, or as many when the card is cool.
Warm(warm, loads) ==
    /\ miner.on /\ Change
    /\ Reapply([miner EXCEPT
                  !.heat = IF warm THEN BatchMinScale ELSE 100,
                  !.thermal = IF warm THEN Smaller(ThermalLaneMin, BiasedLanes(miner.base))
                              ELSE BiasedLanes(miner.base)], loads)
    /\ UNCHANGED <<device, other>>

\* vram_pressure_scale() of what is used, down to a floor at the emergency.
Pressure(floor, used) ==
    LET emergency == Larger(TheCaps.target + 1, TheCaps.emergency)
    IN  IF used <= TheCaps.target THEN 100
        ELSE IF used >= emergency THEN floor
        ELSE 100 - ((used - TheCaps.target) * (100 - floor)) \div (emergency - TheCaps.target)

\* vram_pressure_lane_cap()
PressureCap(planned, used) ==
    LET floor == Smaller(ThermalLaneMin, planned)
    IN  planned - RoundHalfEven((100 - Pressure(50, used)) * (planned - floor), 50)

\* update_vram_pressure_from_used()
ReelIn(loads) ==
    LET planned == BiasedLanes(miner.base)
    IN  /\ miner.on
        /\ Reapply([miner EXCEPT
                      !.pressure = Pressure(VramMinScale, UsedMib),
                      !.vram = IF planned > 1 THEN PressureCap(planned, UsedMib) ELSE None], loads)
        /\ UNCHANGED <<device, other, told>>

\* A batch: each lane's backend keeps its buffers until the next.
MineBatch ==
    /\ miner.on
    /\ buffer' = [count |-> Together(miner), kib |-> BatchKib(LaneBatch(miner), miner.diff)]
    /\ UNCHANGED <<device, other, miner, told>>

ReduceLaneCap ==
    /\ Change /\ ~miner.on /\ miner.cap > 1
    /\ miner' = [miner EXCEPT !.cap = @ - 1]
    /\ UNCHANGED <<device, other, buffer>>

RestoreLaneCap ==
    /\ Change /\ miner.cap < LaneLimit
    /\ miner' = [miner EXCEPT !.cap = LaneLimit]
    /\ UNCHANGED <<device, other, buffer>>

\* Another program takes or gives back memory.
OthersTake(mib) ==
    /\ Change /\ mib # other /\ other' = mib
    /\ UNCHANGED <<device, buffer, miner>>

Init ==
    /\ device \in [total : Cards, engine : Engines]
    /\ other = Min(OtherUse) /\ buffer = [count |-> 0, kib |-> 0]
    /\ miner = [on |-> FALSE, diff |-> Min(Difficulties), cap |-> LaneLimit, baseline |-> 0,
                base |-> NoPlan, plan |-> NoPlan, thermal |-> None, vram |-> None,
                heat |-> 100, pressure |-> 100, mode |-> "sequential"]
    /\ told = [other |-> 0, start |-> 0, sound |-> FALSE, changes |-> 0]

Next ==
    \/ Stop \/ MineBatch \/ ReduceLaneCap \/ RestoreLaneCap
    \/ \E mib \in OtherUse : OthersTake(mib)
    \/ \E loads \in BOOLEAN :
          \/ Start(loads) \/ ReelIn(loads)
          \/ \E d \in Difficulties : SetDifficulty(d, loads)
          \/ \E warm \in BOOLEAN : Warm(warm, loads)

Spec == Init /\ [][Next]_vars

----------------------------------------------------------------------------

TypeOK ==
    /\ device.total \in Cards /\ device.engine \in Engines /\ other \in OtherUse
    /\ buffer.count \in 0..LaneLimit /\ miner.cap \in 1..LaneLimit
    /\ miner.on => miner.plan.lanes \in 1..miner.base.lanes
    /\ miner.mode \in {"sequential", "native", "dll-copies"}

\* The batches in use leave the card what the caps promise.  With full batches
\* of the plan in use, the lanes' buffers, the engine and what the other
\* programs held at the last plan stay under the target, and the headroom stays
\* free, through every retarget, lane cap and stop (vram_batch.py:190-199), if
\* - that plan was made with a full batch in memory, or the others had not
\*   grown since the start: a batch scaled down, or none yet, passes for growth
\*   that did not happen (vram_batch.py:222-233);
\* - the plan is one for the difficulty: none could be made otherwise;
\* - lanes that run at a time were planned so: copies that come up for a plan of
\*   one buffer get the whole of it each (cuda_native.py:537-550).
PlanFitsCard ==
    miner.on /\ told.sound /\ miner.plan.diff = miner.diff
             /\ Together(miner) \in {1, miner.plan.conc} =>
        LET used == told.other + Context
                    + (BatchKib(miner.plan.batch, miner.diff) * Together(miner)) \div 1024
        IN  used <= TheCaps.target /\ device.total - used >= TheCaps.headroom
=============================================================================

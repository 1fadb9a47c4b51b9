----------------------------- MODULE MCServices -----------------------------
(***************************************************************************)
(* The parts of the miner and of the platform server that run beside the   *)
(* block pipeline and share no state with one another, model-checked side  *)
(* by side: a behaviour is one of a single service, chosen at the start,   *)
(* and the others stay where they begin.  What is checked of a service is  *)
(* so what a run of its module alone would check.  A variable keeps the    *)
(* name it has in its module where no two modules share it.                *)
(***************************************************************************)
EXTENDS InstanceLock, ThermalPolicy, TLC

CONSTANTS
    Degrees, Used, Difficulties, Planned, Batch,   \* of ThermalWalk
    CpuLanes, RampStep, Sampled, MaxLanes, MaxRounds,   \* of CpuBackend
    TargetPct, MinPct, LowDifficulty, DerateRatio, MinLimit, MaxLimit,
    OwnLimit, Felt, MaxBoosts,   \* of PowerBooster
    HourLen, KeepHours, KeepOutages, MaxOutages, DayHours, DisplayHours,
    LastProbe,   \* of ServerUptime
    Template, MaxStarts,   \* of MinerIni
    QueueMax, BackfillRows, WeekLen, LastDay, MaxAccepts, MaxBeats,
    MaxSessions,   \* of Reporting
    Token, DayLen, Interval, LastTick,   \* of WalletBalances
    Latest, Rows, MaxCrashes,   \* of Migration
    Cards, Engines, TargetShare, HeadroomShare, EmergencyShare,
    MinHeadroomShare, OverheadShare, HeadroomFloor, OverheadFloor,
    EmergencyFloor, Margin, LaneLimit, MinBatch, FillLow, FillRef, FillHigh,
    VramMinScale, Context, OtherUse, MaxChanges, Retargets,   \* of VramPlan
    Worker, Wallet, NoWallet, Keep, Snapshots, MaxEvents   \* of WalletSnapshots

\* What a sensor, the driver and the network report, and a plan of some lanes of
\* more than one hash each (the smallest batch of the settings is far above).
ASSUME HeatAssumption ==
    /\ Degrees \subseteq Nat /\ 0 \in Degrees /\ Degrees # {0}
    /\ Used \subseteq Nat /\ Used # {}
    /\ Difficulties # {}
    /\ Planned \subseteq Nat \ {0} /\ Batch \in Nat /\ Batch > 1

\* max(1, cpu_lanes) and max(1, lane_ramp_step) of LaneManager.__init__.  The
\* bound on the rounds of workers leaves room for the two the miner begins with,
\* of the constructor and of start().
ASSUME CpuAssumption ==
    /\ MaxLanes \in Nat \ {0} /\ MaxRounds \in Nat \ {0, 1} /\ RampStep \in Nat \ {0}
    /\ CpuLanes \in 1..MaxLanes

\* What a driver reports of a card, and the limit the user has set in it.
ASSUME PowerAssumption ==
    /\ TargetPct \in Nat /\ MinPct \in Nat
    /\ LowDifficulty \in Nat /\ DerateRatio \in Nat
    /\ MinLimit \in Nat /\ MaxLimit \in Nat /\ OwnLimit \in MinLimit..MaxLimit
    /\ Felt \subseteq Nat /\ Difficulties \subseteq Nat /\ MaxBoosts \in Nat

\* A backfill takes up to so many rows; the last day is a bound of the model.
ASSUME ReportAssumption == BackfillRows \in Nat /\ LastDay \in Nat

\* A day and a week have a length; the last tick is a bound of the model.
ASSUME BalancesAssumption ==
    /\ DayLen \in Nat \ {0} /\ WeekLen \in Nat \ {0} /\ LastTick \in Nat

\* Outages are kept for 14 days and hours for 48, of which the panel shows the last.
ASSUME UptimeAssumption ==
    /\ HourLen \in Nat \ {0} /\ LastProbe \in Nat /\ KeepHours \in Nat
    /\ KeepOutages \in Nat /\ KeepOutages >= (KeepHours + 1) * HourLen
    /\ MaxOutages \in Nat \ {0}
    /\ DayHours \in 0..KeepHours /\ DisplayHours \in 0..KeepHours

\* What config/settings.py takes of miner.ini, on cards and among programs that
\* use some memory; difficulties are above zero.
ASSUME VramAssumption ==
    /\ {TargetShare, HeadroomShare, EmergencyShare, MinHeadroomShare, OverheadShare,
        HeadroomFloor, OverheadFloor, EmergencyFloor, Margin, FillLow, FillRef,
        FillHigh, VramMinScale, Context} \subseteq Nat
    /\ Cards \subseteq Nat /\ LaneLimit \in Nat \ {0} /\ MinBatch \in Nat \ {0}
    /\ OtherUse \subseteq Nat /\ OtherUse # {}
    /\ Retargets \subseteq Nat \ {0} /\ Retargets # {}

\* hourly_retain_hours is a number of rounds.
ASSUME SnapshotAssumption == Keep \in Nat

\* SCHEMA_VERSION is beyond the last statement that adds a column.
ASSUME MigrationAssumption == Latest \in Nat /\ Latest > 8 /\ Rows \in Nat

\* Bounds of the model are numbers.
ASSUME BoundsAssumption == {MaxStarts, QueueMax, MaxAccepts, Snapshots, MaxEvents} \subseteq Nat

VARIABLES
    service,
    snap, diff, planned,   \* of ThermalWalk
    cpuPhase, cpuLanes, worker, stop, cpuQueue, cpuLock, took,   \* of CpuBackend
    card, plan, boost, degrees, powerMishap,   \* of PowerBooster
    uptimeTick, up, record, uptimeKept, uptimeTorn, born,   \* of ServerUptime
    iniLines, start, fresh, starts, saved, used, iniMishap,   \* of MinerIni
    day, accepted, rows, main, days, statsFile, putter, jobs, post, heard,
    statsMishap,   \* of Reporting
    tick, session, view, fetch, unrecorded, history, kept, torn,   \* of WalletBalances
    at, disk, work, begun, version, origin, crashes,   \* of Migration
    device, other, buffer, backend, told,   \* of VramPlan
    workerRow, chart, committed, lastBlocks, round, chartSession,
    events   \* of WalletSnapshots

heat == <<snap, diff, planned>>
cpu == <<cpuPhase, cpuLanes, worker, stop, cpuQueue, cpuLock, took>>
power == <<card, plan, boost, degrees, powerMishap>>
uptime == <<uptimeTick, up, record, uptimeKept, uptimeTorn, born>>
ini == <<iniLines, start, fresh, starts, saved, used, iniMishap>>
reporting == <<day, accepted, rows, main, days, statsFile, putter, jobs,
               post, heard, statsMishap>>
balances == <<tick, session, view, fetch, unrecorded, history, kept, torn>>
migration == <<at, disk, work, begun, version, origin, crashes>>
vram == <<device, other, buffer, backend, told>>
snapshots == <<workerRow, chart, committed, lastBlocks, round, chartSession, events>>

Heat == INSTANCE ThermalWalk
Cpu == INSTANCE CpuBackend WITH
    phase <- cpuPhase, lanes <- cpuLanes, queue <- cpuQueue, lock <- cpuLock
Power == INSTANCE PowerBooster WITH
    mishap <- powerMishap
Uptime == INSTANCE ServerUptime WITH
    tick <- uptimeTick, kept <- uptimeKept, torn <- uptimeTorn,
    LastTick <- LastProbe
Ini == INSTANCE MinerIni WITH
    ini <- iniLines, run <- start, mishap <- iniMishap
Report == INSTANCE Reporting WITH
    file <- statsFile, mishap <- statsMishap
Balances == INSTANCE WalletBalances WITH
    record <- unrecorded
Upgrade == INSTANCE Migration
Vram == INSTANCE VramPlan WITH
    miner <- backend, Difficulties <- Retargets
Snaps == INSTANCE WalletSnapshots WITH
    row <- workerRow, last <- lastBlocks, session <- chartSession,
    MaxRounds <- Snapshots

\* The processes are treated alike by every action of the lock.
Alike == Permutations(Proc)

\* Workers and wallets are treated alike by WalletSnapshots, and a row that is
\* kept was there before any of those added later: one of the workers is the
\* first to register, and one of the wallets the first to be named.
FirstComers ==
    LET first == CHOOSE w \in Worker : TRUE
        own   == CHOOSE a \in Wallet : TRUE
    IN  /\ workerRow = <<>> \/ first \in DOMAIN workerRow
        /\ events = 1 => \A w \in DOMAIN workerRow : workerRow[w].wallet \in {own, NoWallet}

----------------------------------------------------------------------------

\* A service that is not the chosen one has a single initial state.
HeatRest ==
    /\ \A s \in {"die", "board", "hotspot"} : snap[s] = 0
    /\ \A n \in Planned : n <= planned

ServicesInit ==
    /\ service \in {"lock", "heat", "cpu", "power", "uptime", "ini",
                    "reporting", "balances", "migration", "vram", "snapshots"}
    /\ Init /\ (service # "lock" => file = NoFile)
    /\ Heat!Init /\ (service # "heat" => HeatRest)
    /\ Cpu!Init
    /\ Power!Init
    /\ Uptime!Init
    /\ Ini!Init
    /\ Report!Init
    /\ Balances!Init
    /\ Upgrade!Init
    /\ Vram!Init
    /\ service # "vram" =>
           device = CHOOSE d \in [total : Cards, engine : Engines] : TRUE
    /\ Snaps!Init

LockRuns ==
    /\ service = "lock" /\ Next
    /\ UNCHANGED <<heat, cpu, power, uptime, ini, reporting, balances,
                    migration, vram, snapshots>>

HeatRuns ==
    /\ service = "heat" /\ Heat!Next
    /\ UNCHANGED <<vars, cpu, power, uptime, ini, reporting, balances,
                    migration, vram, snapshots>>

CpuRuns ==
    /\ service = "cpu" /\ Cpu!Next
    /\ UNCHANGED <<vars, heat, power, uptime, ini, reporting, balances,
                    migration, vram, snapshots>>

PowerRuns ==
    /\ service = "power" /\ Power!Next
    /\ UNCHANGED <<vars, heat, cpu, uptime, ini, reporting, balances,
                    migration, vram, snapshots>>

UptimeRuns ==
    /\ service = "uptime" /\ Uptime!Next
    /\ UNCHANGED <<vars, heat, cpu, power, ini, reporting, balances,
                    migration, vram, snapshots>>

IniRuns ==
    /\ service = "ini" /\ Ini!Next
    /\ UNCHANGED <<vars, heat, cpu, power, uptime, reporting, balances,
                    migration, vram, snapshots>>

ReportRuns ==
    /\ service = "reporting" /\ Report!Next
    /\ UNCHANGED <<vars, heat, cpu, power, uptime, ini, balances, migration,
                    vram, snapshots>>

BalancesRuns ==
    /\ service = "balances" /\ Balances!Next
    /\ UNCHANGED <<vars, heat, cpu, power, uptime, ini, reporting, migration,
                    vram, snapshots>>

UpgradeRuns ==
    /\ service = "migration" /\ Upgrade!Next
    /\ UNCHANGED <<vars, heat, cpu, power, uptime, ini, reporting, balances,
                    vram, snapshots>>

VramRuns ==
    /\ service = "vram" /\ Vram!Next
    /\ UNCHANGED <<vars, heat, cpu, power, uptime, ini, reporting, balances,
                    migration, snapshots>>

SnapsRuns ==
    /\ service = "snapshots" /\ Snaps!Next
    /\ UNCHANGED <<vars, heat, cpu, power, uptime, ini, reporting, balances,
                    migration, vram>>

ServicesNext ==
    /\ UNCHANGED service
    /\ \/ LockRuns \/ HeatRuns
       \/ CpuRuns
       \/ PowerRuns
       \/ UptimeRuns
       \/ IniRuns
       \/ ReportRuns
       \/ BalancesRuns
       \/ UpgradeRuns
       \/ VramRuns
       \/ SnapsRuns

all == <<service, vars, heat, cpu, power, uptime, ini, reporting, balances,
         migration, vram, snapshots>>

ServicesSpec == ServicesInit /\ [][ServicesNext]_all

----------------------------------------------------------------------------

\* The type invariants of the services, each where its service runs.
ServicesTypeOK ==
    /\ TypeOK
    /\ service = "heat" => Heat!TypeOK
    /\ service = "cpu" => Cpu!TypeOK
    /\ service = "power" => Power!TypeOK
    /\ service = "uptime" => Uptime!TypeOK
    /\ service = "ini" => Ini!TypeOK
    /\ service = "reporting" => Report!TypeOK
    /\ service = "balances" => Balances!TypeOK
    /\ service = "migration" => Upgrade!TypeOK
    /\ service = "vram" => Vram!TypeOK
    /\ service = "snapshots" => Snaps!TypeOK

\* The thermal policy: see ThermalWalk.
DeratesInOrder == service = "heat" => Heat!DeratesInOrder
MoreHeatNeverMoreWork == [][service = "heat" => Heat!NeverMoreWork]_heat

\* Stated in CpuBackend.
IdleMeansHit == service = "cpu" => Cpu!IdleMeansHit

\* Stated in PowerBooster.
LimitKept == service = "power" => Power!LimitKept
HotNeverRaises == Power!HotNeverRaises

\* Stated in ServerUptime.
RecordAddsUp == service = "uptime" => Uptime!RecordAddsUp

\* Stated in MinerIni.
IdentityKept == service = "ini" => Ini!IdentityKept

\* Stated in Reporting.
AcceptsCountedOnce == service = "reporting" => Report!AcceptsCountedOnce
NeverGoesBack == Report!NeverGoesBack

\* Stated in WalletBalances.
SnapshotsAreRead == service = "balances" => Balances!SnapshotsAreRead
PastDaysFixed == Balances!PastDaysFixed

\* Stated in Migration.
MigrationKept == service = "migration" => Upgrade!MigrationKept

\* Stated in VramPlan.
PlanFitsCard == service = "vram" => Vram!PlanFitsCard

\* Stated in WalletSnapshots.
ChartAddsUp == service = "snapshots" => Snaps!ChartAddsUp
=============================================================================

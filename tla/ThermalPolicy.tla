--------------------------- MODULE ThermalPolicy ---------------------------
(***************************************************************************)
(* The rules by which heat, difficulty and VRAM pressure ease the load of  *)
(* the GPU (efficiency/thermal_policy.py), and the verdict of the guard    *)
(* (efficiency/vram_guard.py).  Pure functions of a sensor reading and the *)
(* settings.  The code's floats are ratios of integers here, its round()   *)
(* is round-half-even; ratios of the settings are percentages.             *)
(***************************************************************************)
EXTENDS Integers

CONSTANTS
    WarnDie, MaxDie, WarnBoard, MaxBoard,   \* degrees
    ThermalLaneMin,                         \* gpu_thermal_lane_min
    BatchMinScale,                          \* gpu_thermal_batch_min_scale, %
    Reference,                              \* vram_reference_difficulty
    FullPackRatio,                          \* gpu_difficulty_lane_full_pack_ratio, %
    HighDiffStart, HighDiffFull, MaxTighten,  \* gpu_high_diff_temp_*, %, %, degrees
    TotalMib, TargetMib, EmergencyMib, MinHeadroomMib, HeadroomMib

ASSUME SettingsAssumption ==
    /\ {WarnDie, MaxDie, WarnBoard, MaxBoard, ThermalLaneMin, BatchMinScale, Reference,
        FullPackRatio, HighDiffStart, HighDiffFull, MaxTighten, TotalMib, TargetMib,
        EmergencyMib, MinHeadroomMib, HeadroomMib} \subseteq Nat
    /\ 1 < WarnDie /\ WarnDie < MaxDie
    /\ 1 < WarnBoard /\ WarnBoard < MaxBoard
    /\ 1 <= Reference /\ 1 <= ThermalLaneMin
    /\ 50 <= BatchMinScale /\ BatchMinScale <= 100
    /\ 5 <= FullPackRatio /\ FullPackRatio <= 95
    /\ 100 <= HighDiffStart /\ HighDiffStart < HighDiffFull
    /\ TargetMib < EmergencyMib /\ EmergencyMib <= TotalMib - 256

Larger(a, b) == IF a < b THEN b ELSE a
Smaller(a, b) == IF a < b THEN a ELSE b

Clamp(v, lo, hi) == Larger(lo, Smaller(hi, v))

\* round(n / d) of Python, for n >= 0 and d > 0.
RoundHalfEven(n, d) ==
    LET q == n \div d
        r == n % d
    IN  IF 2 * r < d \/ (2 * r = d /\ q % 2 = 0) THEN q ELSE q + 1

\* Mutant: the line is not cut off at x1.
EasedBeyond(hi, lo, x, x0, x1) ==
    IF x <= x0 THEN hi
    ELSE RoundHalfEven(hi * (x1 - x0) - (x - x0) * (hi - lo), x1 - x0)

\* From hi at x0 in a straight line to lo at x1, and level outside.
Eased(hi, lo, x, x0, x1) ==
    IF x <= x0 THEN hi
    ELSE IF x >= x1 THEN lo
    ELSE Clamp(RoundHalfEven(hi * (x1 - x0) - (x - x0) * (hi - lo), x1 - x0), lo, hi)

----------------------------------------------------------------------------
(* Lanes *)

ThermalLaneCap(planned, temp, warn, max) ==
    LET floor == Smaller(ThermalLaneMin, planned)
    IN  IF temp <= 0 THEN planned ELSE Eased(planned, floor, temp, warn - 3, max)

DifficultyLaneBias(planned, diff) ==
    LET fullAt == Larger(1, (Reference * FullPackRatio) \div 100)
    IN  IF diff >= Reference THEN 1 ELSE Eased(planned, 1, diff, fullAt, Reference)

\* A scale of 0.999 or more leaves the lanes alone.
VramPressureLaneCap(planned, used) ==
    LET floor == Smaller(ThermalLaneMin, planned)
    IN  IF 500 * (used - TargetMib) <= EmergencyMib - TargetMib THEN planned
        ELSE Eased(planned, floor, used, TargetMib, EmergencyMib)

----------------------------------------------------------------------------
(* Batch *)

\* Mutant: without the cool margin.
ThermalBatchFromWarn(batch, temp, warn, max) ==
    IF temp <= warn THEN batch
    ELSE Larger(1, (IF temp >= max THEN batch * BatchMinScale
                    ELSE ((100 * (max - warn) - (temp - warn) * (100 - BatchMinScale)) * batch)
                            \div (max - warn)) \div 100)

\* apply_batch_scale(batch, thermal_batch_scale(temp, warn, max)).
ThermalBatch(batch, temp, warn, max) ==
    LET start == warn - 5
        eased == ((100 * (max - start) - (temp - start) * (100 - BatchMinScale)) * batch)
                     \div (100 * (max - start))
    IN  IF temp <= 0 \/ temp <= start THEN batch
        ELSE Larger(1, IF temp >= max THEN (batch * BatchMinScale) \div 100 ELSE eased)

----------------------------------------------------------------------------
(* Readings.  0 degrees: the sensor is not there. *)

\* Mutant: nothing outside the ramp, on either side of it.
TightenOnTheRampOnly(diff) ==
    IF 100 * diff \in Reference * HighDiffStart .. Reference * HighDiffFull - 1
    THEN RoundHalfEven(MaxTighten * (100 * diff - Reference * HighDiffStart),
                       Reference * (HighDiffFull - HighDiffStart))
    ELSE 0

\* high_diff_temp_tighten_c()
Tighten(diff) ==
    IF 100 * diff <= Reference * HighDiffStart THEN 0
    ELSE IF 100 * diff >= Reference * HighDiffFull THEN MaxTighten
    ELSE RoundHalfEven(MaxTighten * (100 * diff - Reference * HighDiffStart),
                       Reference * (HighDiffFull - HighDiffStart))

EffectiveDie(snap) == IF snap.die > 0 THEN snap.die ELSE snap.hotspot

EffectiveBoard(snap, diff) ==
    LET base == Larger(snap.die, snap.hotspot)
    IN  IF snap.board > 0 THEN snap.board
        ELSE IF base > 0 THEN base + Tighten(diff) ELSE 0

\* temperature_c, the hottest of the sensors.
ControlTemp(snap) == Larger(snap.die, Larger(snap.board, snap.hotspot))

\* _policy_temp_c(), the temperature the power limit is stepped by: the board's,
\* or the higher of the two where no board sensor is.
PolicyTemp(snap, diff) ==
    LET die == EffectiveDie(snap)
        board == EffectiveBoard(snap, diff)
    IN  IF snap.board > 0 \/ board > die \/ die = 0 THEN board ELSE die

AtOrAbove(temp, limit) == temp > 0 /\ temp >= limit

\* evaluate_die_board_temps().abort, and its level "emergency".
TempEmergency(snap, diff) ==
    \/ AtOrAbove(EffectiveDie(snap), MaxDie)
    \/ AtOrAbove(EffectiveBoard(snap, diff), MaxBoard)

TempWarning(snap, diff) ==
    \/ AtOrAbove(EffectiveDie(snap), WarnDie)
    \/ AtOrAbove(EffectiveBoard(snap, diff), WarnBoard)

LaneCapFromTemp(snap, diff, planned) ==
    Smaller(ThermalLaneCap(planned, EffectiveDie(snap), WarnDie, MaxDie),
            ThermalLaneCap(planned, EffectiveBoard(snap, diff), WarnBoard, MaxBoard))

BatchFromTemp(snap, diff, batch) ==
    Smaller(ThermalBatch(batch, EffectiveDie(snap), WarnDie, MaxDie),
            ThermalBatch(batch, EffectiveBoard(snap, diff), WarnBoard, MaxBoard))

----------------------------------------------------------------------------
(* VramGuard.evaluate() *)

VramEmergency(snap) ==
    \/ snap.used >= Smaller(EmergencyMib, TotalMib - 256)
    \/ TotalMib - snap.used <= MinHeadroomMib

Evaluate(snap, diff) ==
    IF VramEmergency(snap) THEN "vram_emergency"
    ELSE IF TempEmergency(snap, diff) THEN "temp_emergency"
    ELSE IF TempWarning(snap, diff) \/ TotalMib - snap.used < HeadroomMib THEN "warn"
    ELSE "ok"
===========================================================================

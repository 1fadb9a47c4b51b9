---------------------------- MODULE ThermalWalk ----------------------------
(***************************************************************************)
(* The rules of ThermalPolicy over bounded readings: a walk in which one   *)
(* sensor gets hotter, the VRAM fuller or the network harder at a time, so *)
(* that an action property compares two neighbouring readings.             *)
(***************************************************************************)
EXTENDS ThermalPolicy

CONSTANTS Degrees,      \* what a sensor may show
          Used,         \* MiB in use
          Difficulties,
          Planned,      \* lanes of a plan
          Batch         \* its batch per lane

VARIABLES snap, diff, planned

vars == <<snap, diff, planned>>

Coldest(set) == CHOOSE x \in set : \A y \in set : x <= y

Present == {0, Coldest(Degrees \ {0})}

Reading == [die : Degrees, board : Degrees, hotspot : Degrees, used : Used]

\* The walk starts with the sensors the card has at their coldest.
Init ==
    /\ snap \in [die : Present, board : Present, hotspot : Present, used : {Coldest(Used)}]
    /\ diff = Coldest(Difficulties)
    /\ planned \in Planned

\* A sensor that is missing stays missing.
Warmer ==
    /\ \E s \in {"die", "board", "hotspot"} :
          /\ snap[s] > 0
          /\ \E t \in Degrees : t > snap[s] /\ snap' = [snap EXCEPT ![s] = t]
    /\ UNCHANGED <<diff, planned>>

Fuller ==
    /\ \E u \in Used : u > snap.used /\ snap' = [snap EXCEPT !.used = u]
    /\ UNCHANGED <<diff, planned>>

Harder ==
    /\ \E d \in Difficulties : d > diff /\ diff' = d
    /\ UNCHANGED <<snap, planned>>

Next == Warmer \/ Fuller \/ Harder

Spec == Init /\ [][Next]_vars

Lanes ==
    Smaller(Smaller(LaneCapFromTemp(snap, diff, planned),
                    VramPressureLaneCap(planned, snap.used)),
            DifficultyLaneBias(planned, diff))

BatchPerLane == BatchFromTemp(snap, diff, Batch)

Severity ==
    CASE Evaluate(snap, diff) = "ok" -> 0
      [] Evaluate(snap, diff) = "warn" -> 1
      [] Evaluate(snap, diff) = "temp_emergency" -> 2
      [] Evaluate(snap, diff) = "vram_emergency" -> 3

\* What the settings allow: 1..planned lanes, BatchMinScale..100 % of the batch.
TypeOK ==
    /\ snap \in Reading /\ diff \in Difficulties /\ planned \in Planned
    /\ Lanes \in 1..planned
    /\ BatchPerLane \in (Batch * BatchMinScale) \div 100 .. Batch

\* A hotter sensor, a fuller card or a harder network never gets more lanes or
\* a larger batch, a milder verdict or a power step by a lower temperature: no
\* rounding step, no hand-over between die, hotspot and board proxy, turns the
\* wrong way.
NeverMoreWork ==
    /\ Lanes' <= Lanes
    /\ BatchPerLane' <= BatchPerLane
    /\ Severity' >= Severity
    /\ PolicyTemp(snap, diff)' >= PolicyTemp(snap, diff)

MoreHeatNeverMoreWork == [][NeverMoreWork]_vars

\* thermal_policy.py:6-8, "we soft-scale batch first, then shrink live lane
\* count before the hard temp stop": fewer lanes for heat only with a reduced
\* batch, and at the hard stop both have been eased to their floors.
BatchThenLanesThenStop ==
    LET byTemp == LaneCapFromTemp(snap, diff, planned)
    IN  /\ byTemp < planned /\ BatchMinScale < 100 => BatchPerLane < Batch
        /\ TempEmergency(snap, diff) =>
              /\ byTemp = Smaller(ThermalLaneMin, planned)
              /\ BatchPerLane = (Batch * BatchMinScale) \div 100

\* The lane rules that act on one temperature (temperature_c, the
\* hottest sensor) and the guard that acts on two limits agree in one way: the
\* guard never stops a card for its temperature while every sensor of it,
\* with the allowance for the network's difficulty, is below both warnings.
NoStopBelowWarning ==
    ControlTemp(snap) + Tighten(diff) < Smaller(WarnDie, WarnBoard)
        => ~TempEmergency(snap, diff) /\ ~TempWarning(snap, diff)

\* The hard stop of the policy comes when and only when it should: not before
\* the batch and the lanes have been eased, nor below every warning.
DeratesInOrder == BatchThenLanesThenStop /\ NoStopBelowWarning
===========================================================================

---------------------------- MODULE PowerBooster ----------------------------
(***************************************************************************)
(* The GPU's power limit (efficiency/gpu_power.py, with the target of      *)
(* efficiency/thermal_policy.py): raised at the start of a session, moved  *)
(* with temperature and difficulty, given back at its end, over a driver   *)
(* that may refuse and sessions that may crash.  Limits are milliwatts.    *)
(***************************************************************************)
EXTENDS ThermalPolicy

CONSTANTS
    TargetPct, MinPct,          \* gpu_power_target_pct, gpu_power_min_pct
    LowDifficulty, DerateRatio, \* the latter in per cent
    MinLimit, MaxLimit,         \* the driver's range
    OwnLimit,                   \* the user's limit before the first session
    Felt,                       \* the hottest sensor of a snapshot, degrees
    Difficulties,
    MaxBoosts                   \* bound: sessions

VARIABLES
    card,       \* the limit the driver has
    plan,       \* the Windows power plan
    boost,      \* the booster of the session
    degrees,    \* the temperature adjust() last looked at
    mishap      \* history: "crash", "refused", or "left": the high power plan

vars == <<card, plan, boost, degrees, mishap>>

----------------------------------------------------------------------------
(* difficulty_power_target_pct() *)

Target == Clamp(TargetPct, 50, 100)
Floor == Smaller(Clamp(MinPct, 50, 100), Target)

Low == Larger(1, LowDifficulty)
Ref == Larger(Low, Reference)
High == Larger(Ref + 1, RoundHalfEven(Ref * DerateRatio, 100))

\* A value (d - a) / (b - a) of the way from u down to v.
Slope(d, a, b, u, v) ==
    LET span == b - a
        done == Clamp(d - a, 0, span)
    IN  IF span > 0 THEN Clamp(RoundHalfEven(u * span - done * (u - v), span), Floor, Target)
                    ELSE v

Mid == Clamp(RoundHalfEven(100 * Target - 35 * (Target - Floor), 100), Floor, Target)

PowerTarget(d) ==
    CASE d <= Low -> Target
      [] Low < d /\ d <= Ref -> Slope(d, Low, Ref, Target, Mid)
      [] Ref < d -> Slope(d, Ref, High, Mid, Floor)

Milliwatts(pct) == MinLimit + ((MaxLimit - MinLimit) * pct) \div 100

Step == Larger(5000, (MaxLimit - MinLimit) \div 20)

----------------------------------------------------------------------------

\* No session, or one whose booster was constructed; 0 is None.
NewBooster(d) ==
    [at |-> "made", difficulty |-> d, original |-> 0, current |-> 0,
     applied |-> FALSE, saved |-> "none", count |-> boost.count + 1]

Boot ==
    /\ boost.at \in {"none", "over"} /\ boost.count < MaxBoosts
    /\ boost' = NewBooster(Reference)
    /\ UNCHANGED <<card, plan, degrees, mishap>>

SetDifficulty(d) ==
    /\ boost.at \in {"made", "on"} /\ d # boost.difficulty
    /\ boost' = [boost EXCEPT !.difficulty = d]
    /\ UNCHANGED <<card, plan, degrees, mishap>>

\* Mutant: the limit to go back to is read after the boost.
ApplyReadsLate(granted) ==
    LET target == Milliwatts(PowerTarget(boost.difficulty)) IN
    /\ boost.at = "made"
    /\ card' = IF target > card /\ granted THEN target ELSE card
    /\ boost' = [boost EXCEPT !.at = "on", !.original = card', !.current = card',
                              !.applied = TRUE]
    /\ UNCHANGED <<plan, degrees, mishap>>

\* apply(): a target not above the limit leaves it; a refusal leaves the
\* booster without effect; a success also changes the power plan.
Apply(granted) ==
    LET target == Milliwatts(PowerTarget(boost.difficulty))
        on == [boost EXCEPT !.at = "on", !.original = card]
    IN
    /\ boost.at = "made"
    /\ IF target <= card
       THEN boost' = [on EXCEPT !.current = card, !.applied = TRUE] /\ UNCHANGED <<card, plan>>
       ELSE IF granted
       THEN /\ boost' = [on EXCEPT !.current = target, !.applied = TRUE, !.saved = plan]
            /\ card' = target /\ plan' = "high"
       ELSE boost' = on /\ UNCHANGED <<card, plan>>
    /\ UNCHANGED <<degrees, mishap>>

\* Mutant: the floor is that of the effective target.
FloorIsTarget(target) == target

FloorLimit(target) == Larger(MinLimit, Smaller(Smaller(Milliwatts(Floor), target), MaxLimit))

\* What adjust() makes of the limit before it is clamped.
Moved(temp, target) ==
    CASE temp >= WarnDie - 2 -> Larger(FloorLimit(target), boost.current - Step)
      [] temp <= WarnDie - 12 -> Smaller(target, boost.current + Step)
      [] WarnDie - 12 < temp /\ temp < WarnDie - 2 ->
            IF boost.current > target THEN Larger(target, boost.current - Step)
            ELSE IF temp <= WarnDie - 5 THEN Smaller(target, boost.current + Step)
            ELSE boost.current

Adjust(temp, granted) ==
    LET target == Milliwatts(PowerTarget(boost.difficulty))
        limit == Larger(FloorLimit(target), Smaller(Moved(temp, target), MaxLimit))
    IN
    /\ boost.at = "on" /\ boost.applied
    /\ degrees' = temp
    /\ IF granted THEN card' = limit /\ boost' = [boost EXCEPT !.current = limit]
                  ELSE UNCHANGED <<card, boost>>
    /\ UNCHANGED <<plan, mishap>>

\* restore() looks at the plan only if it has a limit to give back.
Restore(granted) ==
    LET due == boost.applied /\ boost.current # boost.original IN
    /\ boost.at = "on"
    /\ card' = IF due /\ granted THEN boost.original ELSE card
    /\ plan' = IF due /\ boost.saved # "none" THEN boost.saved ELSE plan
    /\ mishap' = mishap \cup (IF due /\ ~granted THEN {"refused"} ELSE {})
                         \cup (IF ~due /\ boost.saved # "none" THEN {"left"} ELSE {})
    /\ boost' = [boost EXCEPT !.at = "over", !.applied = FALSE]
    /\ UNCHANGED degrees

Crash ==
    /\ boost.at \in {"made", "on"}
    /\ boost' = [boost EXCEPT !.at = "over", !.applied = FALSE]
    /\ mishap' = mishap \cup {"crash"}
    /\ UNCHANGED <<card, plan, degrees>>

Init ==
    /\ card = OwnLimit /\ plan = "user" /\ degrees = 0 /\ mishap = {}
    /\ boost = [at |-> "none", difficulty |-> Reference, original |-> 0, current |-> 0,
                applied |-> FALSE, saved |-> "none", count |-> 0]

Next ==
    \/ Boot \/ Crash
    \/ \E d \in Difficulties : SetDifficulty(d)
    \/ \E granted \in BOOLEAN :
          \/ Apply(granted) \/ Restore(granted)
          \/ \E temp \in Felt : Adjust(temp, granted)

Spec == Init /\ [][Next]_vars

----------------------------------------------------------------------------

TypeOK ==
    /\ card \in MinLimit..MaxLimit
    /\ plan \in {"user", "high"} /\ mishap \subseteq {"crash", "refused", "left"}
    /\ degrees \in Felt \cup {0}
    /\ boost.at \in {"none", "made", "on", "over"}
    /\ boost.saved \in {"none", "user", "high"} /\ boost.applied \in BOOLEAN
    /\ PowerTarget(boost.difficulty) \in Floor..Target

\* In a session the limit stays where the user had it or between the
\* configured bounds of the driver's range, whatever order heat, retargets
\* and refusals come in (gpu_power.py:223-252).
LimitWithinRange ==
    boost.at = "on" =>
        /\ card <= Larger(boost.original, Milliwatts(Target))
        /\ card >= Smaller(boost.original, Milliwatts(Floor))

\* "Near warn temp: step down": a hot card never gets more power, although the
\* target, which bounds the floor, moves with the difficulty.
HotNeverRaises ==
    [][boost.at = "on" /\ boost'.at = "on" /\ degrees' >= WarnDie - 2 => card' <= card]_vars

\* "Restore the original driver power limit on shutdown": after any number of
\* sessions the user has the own limit again, and the own power plan unless
\* the limit happened to be back already when a session ended; a crash or a
\* refused restoration are the only ways to lose them.
LimitGivenBack ==
    boost.at = "over" /\ mishap \subseteq {"left"} =>
        /\ card = OwnLimit
        /\ mishap = {} => plan = "user"

\* The limit is in range while the session lasts and given back at its end.
LimitKept == LimitWithinRange /\ LimitGivenBack
=============================================================================

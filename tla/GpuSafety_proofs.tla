------------------------- MODULE GpuSafety_proofs -------------------------
(***************************************************************************)
(* The safety of GpuSafety for every ceiling, every least number of lanes  *)
(* and both ways to run the lanes.                                         *)
(***************************************************************************)
EXTENDS GpuSafety, TLAPS

\* Where the loop may be during a write, and who wrote what.
Writing ==
    /\ writing = "reduce" => pc \in {"restart", "restart2"} /\ cap = policy /\ ~started
    /\ writing = "restore" => pc \in DOMAIN Follows /\ policy = ConfigMaxLanes

\* The engine is off where the loop takes it to be, without looking.
Off ==
    /\ pc \in {"off", "boot", "first"} => ~cooldown /\ ~started
    /\ pc \in {"vramflush", "vramcool"} => ~started

\* A batch about to begin has been checked, and heat is that of a hot card.
Checked ==
    /\ heat > 0 => gpu = "hot"
    /\ pc = "run" => heat = 0
    /\ pc \in {"lane", "run"} => left > 0
    /\ pc = "together" => Parallel /\ (left > 0 => heat = 0)

IInv ==
    /\ TypeOK
    /\ Writing
    /\ Off
    /\ Checked
    /\ LanesWithinCap
    /\ CapOnRecord
    /\ CooldownIsOff
    /\ HotWorkBounded

LEMMA InitIInv == Init => IInv
<1>1. ASSUME Init PROVE TypeOK
  <2>1. 1 \in Caps /\ ConfigMaxLanes \in Caps /\ 0 \in 0..ConfigMaxLanes /\ 0 \in Nat
    BY LaneAssumption DEF Caps
  <2>2. {cooldown, reduce, started, torn} \subseteq BOOLEAN
    BY <1>1 DEF Init
  <2>3. pc \in PCs /\ diff \in Difficulties /\ snap \in Levels
    BY <1>1 DEF Init, PCs, Difficulties, Levels
  <2> QED
    BY <1>1, <2>1, <2>2, <2>3 DEF Init, TypeOK
<1>2. Init => Writing /\ Off /\ Checked
  BY DEF Init, Writing, Off, Checked
<1>3. Init => LanesWithinCap /\ CapOnRecord /\ CooldownIsOff /\ HotWorkBounded
  BY LaneAssumption DEF Init, LanesWithinCap, CapOnRecord, CooldownIsOff, HotWorkBounded
<1> QED
  BY <1>1, <1>2, <1>3 DEF IInv

\* What the soft caps leave of a plan is at least a lane and at most the plan.
LEMMA EffectiveLanes ==
    ASSUME TypeOK, NEW n \in Caps
    PROVE  Effective(n) \in Caps /\ Effective(n) <= n
  BY DEF TypeOK, Effective, Smaller, Caps

\* A plan is at most as wide as the ceiling.
LEMMA PlanWithinCap ==
    ASSUME TypeOK, NEW d, NEW n \in Plans(d)
    PROVE  n \in Caps /\ n <= cap
  BY LaneAssumption DEF TypeOK, Plans, Caps

\* A restart or a replan leaves the lanes within the ceiling.
LEMMA StartWithinCap ==
    ASSUME TypeOK, Start
    PROVE  /\ base' \in Caps /\ lanes' \in Caps
           /\ lanes' <= base' /\ base' <= cap
  <1>1. PICK n \in Plans(diff) : base' = n /\ lanes' = Effective(n)
    BY DEF Start
  <1>2. n \in Caps /\ n <= cap
    BY PlanWithinCap
  <1> QED
    BY <1>1, <1>2, EffectiveLanes

LEMMA ReplanWithinCap ==
    ASSUME TypeOK, NEW d, SetDifficulty(d)
    PROVE  \/ base' = base /\ lanes' = lanes
           \/ /\ started
              /\ base' \in Caps /\ lanes' \in Caps
              /\ lanes' <= base' /\ base' <= cap
              /\ d = "ref" => base' = 1
  <1>1. CASE UNCHANGED <<base, lanes>>
    BY <1>1
  <1>2. CASE started /\ \E n \in Plans(d) : base' = n /\ lanes' = Effective(n)
    <2>1. PICK n \in Plans(d) : base' = n /\ lanes' = Effective(n)
      BY <1>2
    <2>2. n \in Caps /\ n <= cap
      BY PlanWithinCap
    <2>3. d = "ref" => n = 1
      BY DEF Plans
    <2> QED
      BY <1>2, <2>1, <2>2, <2>3, EffectiveLanes
  <1> QED
    BY <1>1, <1>2 DEF SetDifficulty

\* The soft caps the loop takes over leave at least one lane.
LEMMA SoftCaps ==
    ASSUME NEW level, NEW n \in Caps
    PROVE  ThermalCaps(level, n) \subseteq Caps /\ VramCaps(n) \subseteq Caps
  BY LaneAssumption DEF ThermalCaps, VramCaps, Smaller, Caps

LEMMA FollowsTypes == \A l \in DOMAIN Follows :
    /\ Follows[l] \in PCs
    /\ Follows[l] \notin {"off", "boot", "lane", "run", "together"}
    /\ Follows[l] = "first" => l = "boot"
    /\ Follows[l] = "vramcool" => l = "vramflush"
    /\ Follows[l] # "vramflush" /\ l \notin {"off", "lane", "run", "together"}
  BY DEF Follows, PCs

\* TypeOK in three parts.
Flags ==
    /\ cooldown \in BOOLEAN /\ reduce \in BOOLEAN /\ started \in BOOLEAN
    /\ torn \in BOOLEAN

Numbers ==
    /\ base \in 0..ConfigMaxLanes /\ lanes \in Caps
    /\ thermalCap \in Caps /\ vramCap \in Caps
    /\ cap \in Caps /\ policy \in Caps /\ file \in Caps
    /\ left \in 0..ConfigMaxLanes /\ heat \in Nat

Labels ==
    /\ gpu \in Levels /\ snap \in Levels /\ diff \in Difficulties
    /\ pc \in PCs /\ resume \in {"restart", "service"}
    /\ writing \in {"no", "reduce", "restore"}

\* What a process that ends leaves.
LEMMA GoneIInv == ASSUME IInv, Gone PROVE IInv'
<1>1. TypeOK'
  <2>1. 1 \in Caps /\ ConfigMaxLanes \in Caps /\ 0 \in 0..ConfigMaxLanes
    BY LaneAssumption DEF Caps
  <2>2. /\ cooldown' \in BOOLEAN /\ reduce' \in BOOLEAN
        /\ started' \in BOOLEAN
    BY DEF Gone
  <2>3. pc' \in PCs /\ diff' \in Difficulties /\ snap' \in Levels
    BY DEF Gone, PCs, Difficulties, Levels
  <2> QED
    BY <2>1, <2>2, <2>3 DEF Gone, IInv, TypeOK
<1>2. Writing' /\ Off' /\ Checked'
  BY DEF Gone, IInv, Writing, Off, Checked
<1>3. LanesWithinCap' /\ CapOnRecord' /\ CooldownIsOff' /\ HotWorkBounded'
  BY DEF Gone, IInv, LanesWithinCap, CapOnRecord, CooldownIsOff, HotWorkBounded
<1> QED
  BY <1>1, <1>2, <1>3 DEF IInv

\* Every step preserves the invariant.
LEMMA StepIInv == IInv /\ [Next]_vars => IInv'
<1> SUFFICES ASSUME IInv, [Next]_vars PROVE IInv'
  OBVIOUS
<1> USE DEF At, Goto, vars, loop, load, record, mining
<1>0. CASE UNCHANGED vars
  BY <1>0 DEF IInv, TypeOK, Writing, Off, Checked, LanesWithinCap, CapOnRecord, CooldownIsOff,
        HotWorkBounded, Loaded
<1>1. CASE Sense
  BY <1>1, LaneAssumption DEF Sense, IInv, TypeOK, Writing, Off, Checked, LanesWithinCap,
     CapOnRecord, CooldownIsOff, HotWorkBounded, Loaded, Caps, PCs, Levels, Difficulties
<1>2. CASE CooldownEnds
  <2>1. TypeOK'
    <3>1. Flags'
      BY <1>2 DEF CooldownEnds, IInv, TypeOK, Flags
    <3>2. Numbers'
      BY <1>2, LaneAssumption DEF CooldownEnds, IInv, TypeOK, Checked, Numbers, Caps
    <3>3. Labels'
      BY <1>2 DEF CooldownEnds, IInv, TypeOK, Writing, Labels, PCs, Levels, Difficulties
    <3> QED
      BY <3>1, <3>2, <3>3 DEF TypeOK, Flags, Numbers, Labels
  <2>2. Writing' /\ Off' /\ Checked'
    BY <1>2 DEF CooldownEnds, IInv, TypeOK, Writing, Off, Checked, LanesWithinCap,
       CooldownIsOff
  <2>3. LanesWithinCap' /\ CapOnRecord'
    BY <1>2, LaneAssumption DEF CooldownEnds, IInv, TypeOK, Writing, Off, LanesWithinCap,
       CapOnRecord, Loaded, Caps
  <2>4. CooldownIsOff' /\ HotWorkBounded'
    BY <1>2 DEF CooldownEnds, IInv, TypeOK, Off, CooldownIsOff, HotWorkBounded
  <2> QED
    BY <2>1, <2>2, <2>3, <2>4 DEF IInv
<1>3. CASE NoNews
  BY <1>3, LaneAssumption DEF NoNews, AtRefresh, Follows, IInv, TypeOK, Writing, Off,
     Checked, LanesWithinCap, CapOnRecord, CooldownIsOff, HotWorkBounded, Loaded, Caps, PCs,
     Levels, Difficulties
<1>4. CASE News
  <2>0. \/ base' = base /\ lanes' = lanes
        \/ started /\ base' \in Caps /\ lanes' \in Caps /\ lanes' <= base' /\ base' <= cap
    BY <1>4, ReplanWithinCap DEF News, IInv
  <2>1. TypeOK'
    <3>1. Flags'
      BY <1>4, <2>0 DEF News, AtRefresh, SetDifficulty, IInv, TypeOK, Flags
    <3>2. Numbers'
      BY <1>4, <2>0, FollowsTypes, LaneAssumption DEF News, AtRefresh, SetDifficulty,
         Follows, IInv, TypeOK, Checked, Numbers, Caps
    <3>3. Labels'
      BY <1>4, FollowsTypes DEF News, AtRefresh, SetDifficulty, Follows, IInv, TypeOK,
         Writing, Labels, PCs, Levels, Difficulties
    <3> QED
      BY <3>1, <3>2, <3>3 DEF TypeOK, Flags, Numbers, Labels
  <2>2. Writing' /\ Off' /\ Checked'
    BY <1>4, <2>0, FollowsTypes DEF News, AtRefresh, SetDifficulty, Follows, IInv, TypeOK,
       Writing, Off, Checked, LanesWithinCap, CooldownIsOff
  <2>3. LanesWithinCap' /\ CapOnRecord'
    BY <1>4, <2>0, FollowsTypes, LaneAssumption DEF News, AtRefresh, SetDifficulty, Follows,
       IInv, TypeOK, Writing, Off, LanesWithinCap, CapOnRecord, Loaded, Caps
  <2>4. CooldownIsOff' /\ HotWorkBounded'
    BY <1>4, <2>0, FollowsTypes DEF News, AtRefresh, SetDifficulty, Follows, IInv, TypeOK,
       Off, CooldownIsOff, HotWorkBounded
  <2> QED
    BY <2>1, <2>2, <2>3, <2>4 DEF IInv
<1>5. CASE Restore
  BY <1>5, LaneAssumption DEF Restore, AtRefresh, Restorable, Follows, IInv, TypeOK,
     Writing, Off, Checked, LanesWithinCap, CapOnRecord, CooldownIsOff, HotWorkBounded,
     Loaded, Caps, PCs, Levels, Difficulties
<1>6. CASE Restored
  <2>0. \/ base' = base /\ lanes' = lanes
        \/ started /\ base' \in Caps /\ lanes' \in Caps /\ lanes' <= base' /\ base' = 1
    BY <1>6, ReplanWithinCap DEF Restored, IInv
  <2>1. TypeOK'
    <3>1. Flags'
      BY <1>6, <2>0 DEF Restored, SetDifficulty, IInv, TypeOK, Flags
    <3>2. Numbers'
      BY <1>6, <2>0, FollowsTypes, LaneAssumption DEF Restored, SetDifficulty, Follows,
         IInv, TypeOK, Checked, Numbers, Caps
    <3>3. Labels'
      BY <1>6, FollowsTypes DEF Restored, SetDifficulty, Follows, IInv, TypeOK, Writing,
         Labels, PCs, Levels, Difficulties
    <3> QED
      BY <3>1, <3>2, <3>3 DEF TypeOK, Flags, Numbers, Labels
  <2>2. Writing' /\ Off' /\ Checked'
    BY <1>6, <2>0, FollowsTypes DEF Restored, SetDifficulty, Follows, IInv, TypeOK, Writing,
       Off, Checked, LanesWithinCap, CooldownIsOff
  <2>3. LanesWithinCap' /\ CapOnRecord'
    BY <1>6, <2>0, FollowsTypes, LaneAssumption DEF Restored, SetDifficulty, Follows, IInv,
       TypeOK, Writing, Off, LanesWithinCap, CapOnRecord, Loaded, Caps
  <2>4. CooldownIsOff' /\ HotWorkBounded'
    BY <1>6, <2>0, FollowsTypes DEF Restored, SetDifficulty, Follows, IInv, TypeOK, Off,
       CooldownIsOff, HotWorkBounded
  <2> QED
    BY <2>1, <2>2, <2>3, <2>4 DEF IInv
<1>7. CASE Snapshot
  BY <1>7, LaneAssumption DEF Snapshot, IInv, TypeOK, Writing, Off, Checked, LanesWithinCap,
     CapOnRecord, CooldownIsOff, HotWorkBounded, Loaded, Caps, PCs, Levels, Difficulties
<1>8. CASE NotTuned
  BY <1>8, LaneAssumption DEF NotTuned, IInv, TypeOK, Writing, Off, Checked, LanesWithinCap,
     CapOnRecord, CooldownIsOff, HotWorkBounded, Loaded, Caps, PCs, Levels, Difficulties
<1>9. CASE Tune
  <2>0. thermalCap' \in Caps /\ vramCap' \in Caps
    <3>1. Larger(base, lanes) \in Caps /\ (IF base = 0 THEN lanes ELSE base) \in Caps
      BY LaneAssumption DEF IInv, TypeOK, Larger, Caps
    <3>2. vramCap' \in Caps
      BY <1>9, <3>1, SoftCaps DEF Tune
    <3>3. CASE Larger(base, lanes) > 1
      BY <1>9, <3>1, <3>2, <3>3, SoftCaps DEF Tune
    <3>4. CASE ~(Larger(base, lanes) > 1)
      BY <1>9, <3>2, <3>4, LaneAssumption DEF Tune, IInv, TypeOK, Caps
    <3> QED
      BY <3>3, <3>4
  <2>5. \/ base = 0 /\ lanes' = lanes
        \/ lanes' \in Caps /\ lanes' <= base
    <3>1. CASE base = 0
      BY <1>9, <3>1 DEF Tune
    <3>2. CASE base # 0
      <4>1. base \in Caps
        BY <3>2 DEF IInv, TypeOK, Caps
      <4>2. lanes' = Smaller(base, Smaller(thermalCap', vramCap'))
        BY <1>9, <3>2 DEF Tune
      <4> QED
        BY <2>0, <4>1, <4>2, LaneAssumption DEF Smaller, Caps
    <3> QED
      BY <3>1, <3>2
  <2>1. TypeOK'
    <3>1. Flags'
      BY <1>9, <2>0 DEF Tune, IInv, TypeOK, Flags
    <3>2. Numbers'
      BY <1>9, <2>0, <2>5, LaneAssumption DEF Tune, IInv, TypeOK, Checked, Numbers, Caps
    <3>3. Labels'
      BY <1>9 DEF Tune, IInv, TypeOK, Writing, Labels, PCs, Levels, Difficulties
    <3> QED
      BY <3>1, <3>2, <3>3 DEF TypeOK, Flags, Numbers, Labels
  <2>2. Writing' /\ Off' /\ Checked'
    BY <1>9, <2>0, <2>5 DEF Tune, IInv, TypeOK, Writing, Off, Checked, LanesWithinCap,
       CooldownIsOff
  <2>3. LanesWithinCap' /\ CapOnRecord'
    BY <1>9, <2>0, <2>5, LaneAssumption DEF Tune, IInv, TypeOK, Writing, Off,
       LanesWithinCap, CapOnRecord, Loaded, Caps
  <2>4. CooldownIsOff' /\ HotWorkBounded'
    BY <1>9, <2>0, <2>5 DEF Tune, IInv, TypeOK, Off, CooldownIsOff, HotWorkBounded
  <2> QED
    BY <2>1, <2>2, <2>3, <2>4 DEF IInv
<1>10. CASE Calm
  BY <1>10, LaneAssumption DEF Calm, IInv, TypeOK, Writing, Off, Checked, LanesWithinCap,
     CapOnRecord, CooldownIsOff, HotWorkBounded, Loaded, Caps, PCs, Levels, Difficulties
<1>11. CASE TempStop
  BY <1>11, LaneAssumption DEF TempStop, Note, IInv, TypeOK, Writing, Off, Checked,
     LanesWithinCap, CapOnRecord, CooldownIsOff, HotWorkBounded, Loaded, Caps, PCs, Levels,
     Difficulties
<1>12. CASE GracefulStop
  <2>1. TypeOK'
    <3>1. Flags'
      BY <1>12 DEF GracefulStop, Stop, IInv, TypeOK, Flags
    <3>2. Numbers'
      BY <1>12, LaneAssumption DEF GracefulStop, Stop, IInv, TypeOK, Checked, Numbers, Caps
    <3>3. Labels'
      BY <1>12 DEF GracefulStop, Stop, IInv, TypeOK, Writing, Labels, PCs, Levels,
         Difficulties
    <3> QED
      BY <3>1, <3>2, <3>3 DEF TypeOK, Flags, Numbers, Labels
  <2>2. Writing' /\ Off' /\ Checked'
    BY <1>12 DEF GracefulStop, Stop, IInv, TypeOK, Writing, Off, Checked, LanesWithinCap,
       CooldownIsOff
  <2>3. LanesWithinCap' /\ CapOnRecord'
    BY <1>12, LaneAssumption DEF GracefulStop, Stop, IInv, TypeOK, Writing, Off,
       LanesWithinCap, CapOnRecord, Loaded, Caps
  <2>4. CooldownIsOff' /\ HotWorkBounded'
    BY <1>12 DEF GracefulStop, Stop, IInv, TypeOK, Off, CooldownIsOff, HotWorkBounded
  <2> QED
    BY <2>1, <2>2, <2>3, <2>4 DEF IInv
<1>13. CASE VramStop
  <2>1. TypeOK'
    <3>1. Flags'
      BY <1>13 DEF VramStop, Stop, IInv, TypeOK, Flags
    <3>2. Numbers'
      BY <1>13, LaneAssumption DEF VramStop, Stop, IInv, TypeOK, Checked, Numbers, Caps
    <3>3. Labels'
      BY <1>13 DEF VramStop, Stop, IInv, TypeOK, Writing, Labels, PCs, Levels, Difficulties
    <3> QED
      BY <3>1, <3>2, <3>3 DEF TypeOK, Flags, Numbers, Labels
  <2>2. Writing' /\ Off' /\ Checked'
    BY <1>13 DEF VramStop, Stop, IInv, TypeOK, Writing, Off, Checked, LanesWithinCap,
       CooldownIsOff
  <2>3. LanesWithinCap' /\ CapOnRecord'
    BY <1>13, LaneAssumption DEF VramStop, Stop, IInv, TypeOK, Writing, Off, LanesWithinCap,
       CapOnRecord, Loaded, Caps
  <2>4. CooldownIsOff' /\ HotWorkBounded'
    BY <1>13 DEF VramStop, Stop, IInv, TypeOK, Off, CooldownIsOff, HotWorkBounded
  <2> QED
    BY <2>1, <2>2, <2>3, <2>4 DEF IInv
<1>14. CASE VramCool
  BY <1>14, LaneAssumption DEF VramCool, IInv, TypeOK, Writing, Off, Checked,
     LanesWithinCap, CapOnRecord, CooldownIsOff, HotWorkBounded, Loaded, Caps, PCs, Levels,
     Difficulties
<1>15. CASE NoRestart
  BY <1>15, LaneAssumption DEF NoRestart, AtRestart, AfterRestart, IInv, TypeOK, Writing,
     Off, Checked, LanesWithinCap, CapOnRecord, CooldownIsOff, HotWorkBounded, Loaded, Caps,
     PCs, Levels, Difficulties
<1>16. CASE Reduce
  <2>1. TypeOK'
    <3>1. Flags'
      BY <1>16 DEF Reduce, AtRestart, Reducible, IInv, TypeOK, Flags
    <3>2. Numbers'
      BY <1>16, LaneAssumption DEF Reduce, AtRestart, Reducible, IInv, TypeOK, Checked,
         Numbers, Caps
    <3>3. Labels'
      BY <1>16 DEF Reduce, AtRestart, Reducible, IInv, TypeOK, Writing, Labels, PCs, Levels,
         Difficulties
    <3> QED
      BY <3>1, <3>2, <3>3 DEF TypeOK, Flags, Numbers, Labels
  <2>2. Writing' /\ Off' /\ Checked'
    BY <1>16 DEF Reduce, AtRestart, Reducible, IInv, TypeOK, Writing, Off, Checked,
       LanesWithinCap, CooldownIsOff
  <2>3. LanesWithinCap' /\ CapOnRecord'
    BY <1>16, LaneAssumption DEF Reduce, AtRestart, Reducible, IInv, TypeOK, Writing, Off,
       LanesWithinCap, CapOnRecord, Loaded, Caps
  <2>4. CooldownIsOff' /\ HotWorkBounded'
    BY <1>16 DEF Reduce, AtRestart, Reducible, IInv, TypeOK, Off, CooldownIsOff,
       HotWorkBounded
  <2> QED
    BY <2>1, <2>2, <2>3, <2>4 DEF IInv
<1>17. CASE Reduced
  <2>1. TypeOK'
    <3>1. Flags'
      BY <1>17 DEF Reduced, Loaded, IInv, TypeOK, Flags
    <3>2. Numbers'
      BY <1>17, LaneAssumption DEF Reduced, Loaded, IInv, TypeOK, Checked, Numbers, Caps
    <3>3. Labels'
      BY <1>17 DEF Reduced, Loaded, IInv, TypeOK, Writing, Labels, PCs, Levels, Difficulties
    <3> QED
      BY <3>1, <3>2, <3>3 DEF TypeOK, Flags, Numbers, Labels
  <2>2. Writing' /\ Off' /\ Checked'
    BY <1>17 DEF Reduced, Loaded, IInv, TypeOK, Writing, Off, Checked, LanesWithinCap,
       CooldownIsOff
  <2>3. LanesWithinCap' /\ CapOnRecord'
    BY <1>17, LaneAssumption DEF Reduced, Loaded, IInv, TypeOK, Writing, Off,
       LanesWithinCap, CapOnRecord, Caps
  <2>4. CooldownIsOff' /\ HotWorkBounded'
    BY <1>17 DEF Reduced, Loaded, IInv, TypeOK, Off, CooldownIsOff, HotWorkBounded
  <2> QED
    BY <2>1, <2>2, <2>3, <2>4 DEF IInv
<1>18. CASE Restart
  <2>0. base' \in Caps /\ lanes' \in Caps /\ lanes' <= base' /\ base' <= cap
    BY <1>18, StartWithinCap DEF Restart, IInv
  <2>1. TypeOK'
    <3>1. Flags'
      BY <1>18, <2>0 DEF Restart, AtRestart, AfterRestart, Start, IInv, TypeOK, Flags
    <3>2. Numbers'
      BY <1>18, <2>0, LaneAssumption DEF Restart, AtRestart, AfterRestart, Start, IInv,
         TypeOK, Checked, Numbers, Caps
    <3>3. Labels'
      BY <1>18 DEF Restart, AtRestart, AfterRestart, Start, IInv, TypeOK, Writing, Labels,
         PCs, Levels, Difficulties
    <3> QED
      BY <3>1, <3>2, <3>3 DEF TypeOK, Flags, Numbers, Labels
  <2>2. Writing' /\ Off' /\ Checked'
    BY <1>18, <2>0 DEF Restart, AtRestart, AfterRestart, Start, IInv, TypeOK, Writing, Off,
       Checked, LanesWithinCap, CooldownIsOff
  <2>3. LanesWithinCap' /\ CapOnRecord'
    BY <1>18, <2>0, LaneAssumption DEF Restart, AtRestart, AfterRestart, Start, IInv,
       TypeOK, Writing, Off, LanesWithinCap, CapOnRecord, Loaded, Caps
  <2>4. CooldownIsOff' /\ HotWorkBounded'
    BY <1>18, <2>0 DEF Restart, AtRestart, AfterRestart, Start, IInv, TypeOK, Off,
       CooldownIsOff, HotWorkBounded
  <2> QED
    BY <2>1, <2>2, <2>3, <2>4 DEF IInv
<1>19. CASE RestartFails
  <2>1. TypeOK'
    <3>1. Flags'
      BY <1>19 DEF RestartFails, AtRestart, IInv, TypeOK, Flags
    <3>2. Numbers'
      BY <1>19, LaneAssumption DEF RestartFails, AtRestart, IInv, TypeOK, Checked, Numbers,
         Caps
    <3>3. Labels'
      BY <1>19 DEF RestartFails, AtRestart, IInv, TypeOK, Writing, Labels, PCs, Levels,
         Difficulties
    <3> QED
      BY <3>1, <3>2, <3>3 DEF TypeOK, Flags, Numbers, Labels
  <2>2. Writing' /\ Off' /\ Checked'
    BY <1>19 DEF RestartFails, AtRestart, IInv, TypeOK, Writing, Off, Checked,
       LanesWithinCap, CooldownIsOff
  <2>3. LanesWithinCap' /\ CapOnRecord'
    BY <1>19, LaneAssumption DEF RestartFails, AtRestart, IInv, TypeOK, Writing, Off,
       LanesWithinCap, CapOnRecord, Loaded, Caps
  <2>4. CooldownIsOff' /\ HotWorkBounded'
    BY <1>19 DEF RestartFails, AtRestart, IInv, TypeOK, Off, CooldownIsOff, HotWorkBounded
  <2> QED
    BY <2>1, <2>2, <2>3, <2>4 DEF IInv
<1>20. CASE Pause
  BY <1>20, LaneAssumption DEF Pause, IInv, TypeOK, Writing, Off, Checked, LanesWithinCap,
     CapOnRecord, CooldownIsOff, HotWorkBounded, Loaded, Caps, PCs, Levels, Difficulties
<1>21. CASE NothingToMine
  BY <1>21, LaneAssumption DEF NothingToMine, IInv, TypeOK, Writing, Off, Checked,
     LanesWithinCap, CapOnRecord, CooldownIsOff, HotWorkBounded, Loaded, Caps, PCs, Levels,
     Difficulties
<1>22. CASE BeginBatch
  BY <1>22, LaneAssumption DEF BeginBatch, Aborts, IInv, TypeOK, Writing, Off, Checked,
     LanesWithinCap, CapOnRecord, CooldownIsOff, HotWorkBounded, Loaded, Caps, PCs, Levels,
     Difficulties
<1>23. CASE CheckLane
  BY <1>23, LaneAssumption DEF CheckLane, Aborts, IInv, TypeOK, Writing, Off, Checked,
     LanesWithinCap, CapOnRecord, CooldownIsOff, HotWorkBounded, Loaded, Caps, PCs, Levels,
     Difficulties
<1>24. CASE RunLane
  BY <1>24, LaneAssumption DEF RunLane, IInv, TypeOK, Writing, Off, Checked, LanesWithinCap,
     CapOnRecord, CooldownIsOff, HotWorkBounded, Loaded, Caps, PCs, Levels, Difficulties
<1>25. CASE RunTogether
  BY <1>25, LaneAssumption DEF RunTogether, IInv, TypeOK, Writing, Off, Checked,
     LanesWithinCap, CapOnRecord, CooldownIsOff, HotWorkBounded, Loaded, Caps, PCs, Levels,
     Difficulties
<1>26. CASE Together
  BY <1>26, LaneAssumption DEF Together, Aborts, IInv, TypeOK, Writing, Off, Checked,
     LanesWithinCap, CapOnRecord, CooldownIsOff, HotWorkBounded, Loaded, Caps, PCs, Levels,
     Difficulties
<1>27. CASE Abort
  BY <1>27, LaneAssumption DEF Abort, Note, Aborts, IInv, TypeOK, Writing, Off, Checked,
     LanesWithinCap, CapOnRecord, CooldownIsOff, HotWorkBounded, Loaded, Caps, PCs, Levels,
     Difficulties
<1>28. CASE LaneFails
  BY <1>28, LaneAssumption DEF LaneFails, IInv, TypeOK, Writing, Off, Checked,
     LanesWithinCap, CapOnRecord, CooldownIsOff, HotWorkBounded, Loaded, Caps, PCs, Levels,
     Difficulties
<1>29. CASE FirstStart
  <2>0. \/ UNCHANGED load
        \/ Start /\ base' \in Caps /\ lanes' \in Caps /\ lanes' <= base' /\ base' <= cap
    BY <1>29, StartWithinCap DEF FirstStart, IInv
  <2>1. TypeOK'
    <3>1. Flags'
      BY <1>29, <2>0 DEF FirstStart, Start, IInv, TypeOK, Flags
    <3>2. Numbers'
      BY <1>29, <2>0, LaneAssumption DEF FirstStart, Start, IInv, TypeOK, Checked, Numbers,
         Caps
    <3>3. Labels'
      BY <1>29 DEF FirstStart, Start, IInv, TypeOK, Writing, Labels, PCs, Levels,
         Difficulties
    <3> QED
      BY <3>1, <3>2, <3>3 DEF TypeOK, Flags, Numbers, Labels
  <2>2. Writing' /\ Off' /\ Checked'
    BY <1>29, <2>0 DEF FirstStart, Start, IInv, TypeOK, Writing, Off, Checked,
       LanesWithinCap, CooldownIsOff
  <2>3. LanesWithinCap' /\ CapOnRecord'
    BY <1>29, <2>0, LaneAssumption DEF FirstStart, Start, IInv, TypeOK, Writing, Off,
       LanesWithinCap, CapOnRecord, Loaded, Caps
  <2>4. CooldownIsOff' /\ HotWorkBounded'
    BY <1>29, <2>0 DEF FirstStart, Start, IInv, TypeOK, Off, CooldownIsOff, HotWorkBounded
  <2> QED
    BY <2>1, <2>2, <2>3, <2>4 DEF IInv
<1>30. CASE Shutdown
  <2>1. TypeOK'
    <3>1. Flags'
      BY <1>30 DEF Shutdown, Stop, IInv, TypeOK, Flags
    <3>2. Numbers'
      BY <1>30, LaneAssumption DEF Shutdown, Stop, IInv, TypeOK, Checked, Numbers, Caps
    <3>3. Labels'
      BY <1>30 DEF Shutdown, Stop, IInv, TypeOK, Writing, Labels, PCs, Levels, Difficulties
    <3> QED
      BY <3>1, <3>2, <3>3 DEF TypeOK, Flags, Numbers, Labels
  <2>2. Writing' /\ Off' /\ Checked'
    BY <1>30 DEF Shutdown, Stop, IInv, TypeOK, Writing, Off, Checked, LanesWithinCap,
       CooldownIsOff
  <2>3. LanesWithinCap' /\ CapOnRecord'
    BY <1>30, LaneAssumption DEF Shutdown, Stop, IInv, TypeOK, Writing, Off, LanesWithinCap,
       CapOnRecord, Loaded, Caps
  <2>4. CooldownIsOff' /\ HotWorkBounded'
    BY <1>30 DEF Shutdown, Stop, IInv, TypeOK, Off, CooldownIsOff, HotWorkBounded
  <2> QED
    BY <2>1, <2>2, <2>3, <2>4 DEF IInv
<1>31. CASE Exit
  BY <1>31, GoneIInv DEF Exit
<1>32. CASE Boot
  <2>1. TypeOK'
    <3>1. Flags'
      BY <1>32 DEF Boot, Loaded, IInv, TypeOK, Flags
    <3>2. Numbers'
      BY <1>32, LaneAssumption DEF Boot, Loaded, Follows, IInv, TypeOK, Checked, Numbers,
         Caps
    <3>3. Labels'
      BY <1>32 DEF Boot, Loaded, Follows, IInv, TypeOK, Writing, Labels, PCs, Levels,
         Difficulties
    <3> QED
      BY <3>1, <3>2, <3>3 DEF TypeOK, Flags, Numbers, Labels
  <2>2. Writing' /\ Off' /\ Checked'
    BY <1>32 DEF Boot, Loaded, Follows, IInv, TypeOK, Writing, Off, Checked, LanesWithinCap,
       CooldownIsOff
  <2>3. LanesWithinCap' /\ CapOnRecord'
    BY <1>32, LaneAssumption DEF Boot, Loaded, Follows, IInv, TypeOK, Writing, Off,
       LanesWithinCap, CapOnRecord, Caps
  <2>4. CooldownIsOff' /\ HotWorkBounded'
    BY <1>32 DEF Boot, Loaded, Follows, IInv, TypeOK, Off, CooldownIsOff, HotWorkBounded
  <2> QED
    BY <2>1, <2>2, <2>3, <2>4 DEF IInv
<1>33. CASE Quit
  BY <1>33, LaneAssumption DEF Quit, IInv, TypeOK, Writing, Off, Checked, LanesWithinCap,
     CapOnRecord, CooldownIsOff, HotWorkBounded, Loaded, Caps, PCs, Levels, Difficulties
<1>34. CASE Crash
  BY <1>34, GoneIInv DEF Crash
<1> QED
  BY <1>0, <1>1, <1>2, <1>3, <1>4, <1>5, <1>6, <1>7, <1>8, <1>9, <1>10, <1>11, <1>12,
     <1>13, <1>14, <1>15, <1>16, <1>17, <1>18, <1>19, <1>20, <1>21, <1>22, <1>23, <1>24,
     <1>25, <1>26, <1>27, <1>28, <1>29, <1>30, <1>31, <1>32, <1>33, <1>34 DEF Next, Loop

\* The invariant holds in every state.
LEMMA Invariance == Spec => []IInv
  BY InitIInv, StepIInv, PTL DEF Spec

\* A running engine never mines on more lanes than the ceiling its emergency
\* stops have left (reduce_lane_cap, restore_lane_cap_if_cool, set_difficulty,
\* start), for every configured ceiling.
THEOREM LanesStayWithinCap == Spec => []LanesWithinCap
<1>1. IInv => LanesWithinCap
  BY DEF IInv
<1> QED
  BY <1>1, Invariance, PTL

\* The ceiling in use is the one on record, and the one a new session loads.
THEOREM CapStaysOnRecord == Spec => []CapOnRecord
<1>1. IInv => CapOnRecord
  BY DEF IInv
<1> QED
  BY <1>1, Invariance, PTL

\* Every reachable state is well typed.
THEOREM TypeStaysCorrect == Spec => []TypeOK
<1>1. IInv => TypeOK
  BY DEF IInv
<1> QED
  BY <1>1, Invariance, PTL

\* No engine runs during a cooldown (_graceful_gpu_stop, _maybe_restart_gpu),
\* and a card that stays in a temperature emergency gets one lane batch more at
\* most, or one round of as many as the lanes that run at the same time
\* (mine_batch and its abort check).
THEOREM HotCardsAreLeftAlone == Spec => []HotIsLeftAlone
<1>1. IInv => HotIsLeftAlone
  BY DEF IInv, HotIsLeftAlone
<1> QED
  BY <1>1, Invariance, PTL

\* The ceiling comes down by one, with the engine off, once for each request;
\* it goes up to the configured one only (_apply_lane_cap_after_temp,
\* restore_lane_cap_if_cool).
THEOREM CapMovesByRule == Spec => CapSteps
<1>1. IInv /\ [Next]_vars => [(cap' # cap /\ pc # "off" /\ pc' # "off") =>
          \/ cap' = cap - 1 /\ ~started /\ reduce /\ ~reduce'
          \/ cap' = ConfigMaxLanes /\ diff' = "ref"]_vars
  <2> SUFFICES ASSUME IInv, Next, cap' # cap, pc # "off", pc' # "off"
               PROVE  \/ cap' = cap - 1 /\ ~started /\ reduce /\ ~reduce'
                      \/ cap' = ConfigMaxLanes /\ diff' = "ref"
    BY DEF vars, record
  <2>1. CASE Reduce
    BY <2>1 DEF Reduce, Reducible
  <2>2. CASE Restored
    BY <2>2 DEF Restored, SetDifficulty, IInv, Writing
  <2>3. CASE Boot \/ Exit \/ Crash
    BY <2>3 DEF Boot, Exit, Crash, Gone
  <2>4. CASE Next /\ ~(Reduce \/ Restored \/ Boot \/ Exit \/ Crash)
    BY <2>4 DEF Next, Loop, Sense, CooldownEnds, NoNews, News, Restore, Snapshot, NotTuned, Tune, Calm,
       TempStop, GracefulStop, VramStop, VramCool, NoRestart, Reduced, Restart, RestartFails, Pause,
       NothingToMine, BeginBatch, CheckLane, RunLane, RunTogether, Together, Abort, LaneFails,
       FirstStart, Shutdown, Quit, record
  <2> QED
    BY <2>1, <2>2, <2>3, <2>4
<1> QED
  BY <1>1, Invariance, PTL DEF Spec, CapSteps

===========================================================================

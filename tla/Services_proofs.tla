--------------------------- MODULE Services_proofs ---------------------------
(***************************************************************************)
(* The services of MCServices that share no state: what their runs check,  *)
(* for every value of the constants.  Every service is proved on its own:  *)
(* a step of the whole is one of the chosen service, or leaves it alone.   *)
(***************************************************************************)
EXTENDS MCServices, WellFoundedInduction, TLAPS

LEMMA ServiceStays == [ServicesNext]_all => service' = service
<1> QED BY DEF all, ServicesNext

----------------------------------------------------------------------------
(* InstanceLock, by its own specification.  The lock excludes because a    *)
(* file that holds the id of a running miner sends every other one away;   *)
(* the invariant says what each step of acquire() and release() may find.  *)

\* Running miners have different ids.
DistinctIds ==
    \A p, q \in Proc : Running(p) /\ Running(q) /\ pid[p] = pid[q] => p = q

\* No two processes are in acquire().
OneAcquires ==
    \A p, q \in Proc : Acquiring(p) /\ Acquiring(q) => p = q

\* Who holds the lock, or is about to remove the file, is the one it names.
OwnersNamed ==
    \A p \in Proc : Holding(p) \/ pc[p] = "remove" => file = pid[p]

\* While the file names a running miner no other one replaces it: a process
\* that has read the file has read that name.
OthersKeepOff ==
    \A p, q \in Proc : Running(p) /\ file = pid[p] /\ p # q =>
        /\ pc[q] \notin {"unlink", "open"}
        /\ pc[q] = "alive" => seen[q] = pid[p]

\* Between the two steps of write_text() the file is empty.
EmptyWhenOpened == \A p \in Proc : pc[p] = "write" => file = NoPid

\* A miner holds the lock from the end of acquire() on: run() goes on only
\* when it returned True.
HeldWhileMining ==
    \A p \in Proc : /\ pc[p] = "mining" => held[p]
                    /\ Acquiring(p) \/ pc[p] = "off" => ~held[p]

Serial ==
    OneAcquires /\ OwnersNamed /\ OthersKeepOff /\ EmptyWhenOpened /\ HeldWhileMining

\* A running miner has an id.
HasId == \A p \in Proc : Running(p) => pid[p] \in Pid

LockInv == TypeOK /\ HasId /\ DistinctIds /\ (~overlapped => Serial)

\* The invariant holds before any miner was started (file left by anyone).
LEMMA InvInit == Init => LockInv
  BY LockAssumption DEF Init, LockInv, TypeOK, Label, AcquireLabel, HasId, DistinctIds,
     Running, Serial, OneAcquires, OwnersNamed, OthersKeepOff, EmptyWhenOpened,
     HeldWhileMining, Acquiring, Holding

\* Every step of acquire(), release() and the world keeps the types.
LEMMA TypeNext == TypeOK /\ [Next]_vars => TypeOK'
<1> SUFFICES ASSUME TypeOK, [Next]_vars PROVE TypeOK'
  OBVIOUS
<1> USE DEF TypeOK, Label, AcquireLabel, Goto
<1>1. ASSUME NEW p \in Proc, Start(p) PROVE TypeOK'
  BY <1>1 DEF Start
<1>2. ASSUME NEW p \in Proc, Acquire(p) PROVE TypeOK'
  <2>1. CASE Exists(p)  BY <2>1 DEF Exists
  <2>2. CASE Read(p)    BY <2>2 DEF Read
  <2>3. CASE Alive(p)   BY <2>3 DEF Alive
  <2>4. CASE Unlink(p)  BY <2>4 DEF Unlink, Unlinked
  <2>5. CASE Open(p)    BY <2>5 DEF Open
  <2>6. CASE Write(p)   BY <2>6 DEF Write
  <2> QED  BY <1>2, <2>1, <2>2, <2>3, <2>4, <2>5, <2>6 DEF Acquire
<1>3. ASSUME NEW p \in Proc, Release(p) PROVE TypeOK'
  <2>1. CASE Finish(p)   BY <2>1 DEF Finish
  <2>2. CASE Compare(p)  BY <2>2 DEF Compare
  <2>3. CASE Remove(p)   BY <2>3 DEF Remove, Unlinked
  <2> QED  BY <1>3, <2>1, <2>2, <2>3 DEF Release
<1>4. ASSUME NEW p \in Proc, Exit(p) PROVE TypeOK'
  BY <1>4 DEF Exit
<1>5. CASE OtherProgram
  BY <1>5 DEF OtherProgram
<1>6. CASE UNCHANGED vars
  BY <1>6 DEF vars
<1> QED
  BY <1>1, <1>2, <1>3, <1>4, <1>5, <1>6 DEF Next

\* A process is given an id nobody has, and keeps it until it ends.
LEMMA IdsNext ==
  ASSUME TypeOK, HasId, DistinctIds, [Next]_vars
  PROVE  HasId' /\ DistinctIds'
<1> USE DEF HasId, DistinctIds, Running, Goto, TypeOK
<1>1. ASSUME NEW p \in Proc, Start(p) PROVE HasId' /\ DistinctIds'
  <2>1. PICK i \in Pid \ Live : pid' = [pid EXCEPT ![p] = i]
    BY <1>1 DEF Start
  <2>2. \A q \in Proc : Running(q) => pid[q] # i
    BY <2>1 DEF Live
  <2>3. \A q \in Proc : pc'[q] = IF q = p THEN "exists" ELSE pc[q]
    BY <1>1 DEF Start
  <2> QED  BY <2>1, <2>2, <2>3
<1>2. ASSUME NEW p \in Proc, Acquire(p) PROVE HasId' /\ DistinctIds'
  <2>1. pid' = pid /\ pc[p] # "off" /\ \A q \in Proc \ {p} : pc'[q] = pc[q]
    BY <1>2 DEF Acquire, Exists, Read, Alive, Unlink, Open, Write
  <2> QED  BY <2>1
<1>3. ASSUME NEW p \in Proc, Release(p) PROVE HasId' /\ DistinctIds'
  <2>1. pid' = pid /\ pc[p] # "off" /\ \A q \in Proc \ {p} : pc'[q] = pc[q]
    BY <1>3 DEF Release, Finish, Compare, Remove
  <2> QED  BY <2>1
<1>4. ASSUME NEW p \in Proc, Exit(p) PROVE HasId' /\ DistinctIds'
  BY <1>4 DEF Exit
<1>5. CASE OtherProgram
  BY <1>5 DEF OtherProgram
<1>6. CASE UNCHANGED vars
  BY <1>6 DEF vars
<1> QED
  BY <1>1, <1>2, <1>3, <1>4, <1>5, <1>6 DEF Next

\* As long as starts do not overlap, no step lets a second miner in.
LEMMA SerialNext ==
  ASSUME LockInv, [Next]_vars, ~overlapped'
  PROVE  Serial'
<1> USE DEF Running, Acquiring, AcquireLabel, Holding, Goto
<1>0. TypeOK /\ HasId /\ DistinctIds /\ TypeOK'
  BY TypeNext DEF LockInv
<1>1. ~overlapped /\ Serial
  <2>1. overlapped => overlapped'
    BY Zenon DEF Next, Acquire, Release, Start, Exists, Read, Alive, Unlink, Open, Write,
         Finish, Compare, Remove, Exit, OtherProgram, vars
  <2> QED  BY <2>1 DEF LockInv
<1> USE <1>0, <1>1, LockAssumption
    DEF TypeOK, HasId, DistinctIds, Serial, OneAcquires, OwnersNamed, OthersKeepOff,
        EmptyWhenOpened, HeldWhileMining
<1>2. ASSUME NEW p \in Proc, Start(p) PROVE Serial'
  <2>1. \A q \in Proc : ~Acquiring(q)
    BY <1>2 DEF Start
  <2>2. PICK i \in Pid \ Live : pid' = [pid EXCEPT ![p] = i]
    BY <1>2 DEF Start
  <2>3. /\ \A q \in Proc : pc'[q] = IF q = p THEN "exists" ELSE pc[q]
        /\ \A q \in Proc : q # p => pid'[q] = pid[q]
        /\ file' = file /\ held' = held /\ seen' = seen
    BY <1>2, <2>2 DEF Start
  <2>4. pc[p] = "off"
    BY <1>2 DEF Start
  <2>5. OneAcquires' /\ OthersKeepOff'
    BY <2>1, <2>3
  <2>6. OwnersNamed' /\ EmptyWhenOpened' /\ HeldWhileMining'
    BY <2>1, <2>3, <2>4
  <2> QED  BY <2>5, <2>6
<1>3. ASSUME NEW p \in Proc, Exists(p) PROVE Serial'
  BY <1>3 DEF Exists
<1>4. ASSUME NEW p \in Proc, Read(p) PROVE Serial'
  BY <1>4 DEF Read
<1>5. ASSUME NEW p \in Proc, Alive(p) PROVE Serial'
  <2>1. \A q \in Proc : Running(q) => pid[q] \in Live
    BY DEF Live
  <2>2. CASE seen[p] \in Live
    BY <1>5, <2>2 DEF Alive
  <2>3. CASE seen[p] \notin Live
    BY <1>5, <2>1, <2>3 DEF Alive
  <2> QED  BY <2>2, <2>3
<1>6. ASSUME NEW p \in Proc, Unlink(p) PROVE Serial'
  BY <1>6 DEF Unlink, Unlinked
<1>7. ASSUME NEW p \in Proc, Open(p) PROVE Serial'
  BY <1>7 DEF Open
<1>8. ASSUME NEW p \in Proc, Write(p) PROVE Serial'
  BY <1>8 DEF Write
<1>9. ASSUME NEW p \in Proc, Finish(p) PROVE Serial'
  BY <1>9 DEF Finish
<1>10. ASSUME NEW p \in Proc, Compare(p) PROVE Serial'
  BY <1>10 DEF Compare
<1>11. ASSUME NEW p \in Proc, Remove(p) PROVE Serial'
  BY <1>11 DEF Remove, Unlinked
<1>12. ASSUME NEW p \in Proc, Exit(p) PROVE Serial'
  BY <1>12 DEF Exit
<1>13. CASE OtherProgram
  BY <1>13 DEF OtherProgram
<1>14. CASE UNCHANGED vars
  BY <1>14 DEF vars
<1> QED
  BY <1>2, <1>3, <1>4, <1>5, <1>6, <1>7, <1>8, <1>9, <1>10, <1>11, <1>12, <1>13, <1>14
  DEF Next, Acquire, Release

\* The lock's invariant, from which the theorems follow.
LEMMA LockInvariant == Spec => []LockInv
<1>1. LockInv /\ [Next]_vars => LockInv'
  BY TypeNext, IdsNext, SerialNext DEF LockInv
<1> QED
  BY InvInit, <1>1, PTL DEF Spec


\* The variables are well typed: acquire() asks only for ids it could read.
THEOREM LockTypeCorrect == Spec => []TypeOK
<1>1. LockInv => TypeOK
  BY DEF LockInv
<1> QED
  BY LockInvariant, <1>1, PTL

\* Miners that are not started at the same time are never two to hold the
\* lock, for any number of processes and of ids, whichever ids are reused.
THEOREM LockExcludes == Spec => []SerialStartsExclude
<1>1. LockInv => SerialStartsExclude
  BY DEF LockInv, SerialStartsExclude, Serial, OwnersNamed, DistinctIds, Holding, Running
<1> QED
  BY LockInvariant, <1>1, PTL

\* Nobody takes the file away from the miner that holds the lock.
THEOREM LockStaysOnRecord == Spec => []HolderOnRecord
<1>1. LockInv => HolderOnRecord
  BY DEF LockInv, HolderOnRecord, Serial, OwnersNamed, Holding, HeldWhileMining
<1> QED
  BY LockInvariant, <1>1, PTL

----------------------------------------------------------------------------
(* CpuBackend *)

LEMMA CpuFrame ==
  [ServicesNext]_all /\ service = "cpu" => service' = "cpu" /\ [Cpu!Next]_Cpu!vars
<1> QED
    BY DEF all, ServicesNext, LockRuns, HeatRuns, CpuRuns, PowerRuns, UptimeRuns, IniRuns,
       ReportRuns, BalancesRuns, UpgradeRuns, VramRuns, SnapsRuns, cpu, Cpu!vars

(* The main thread is between two stops of its workers.                    *)
InBatch == cpuPhase \in {"built", "loop", "idle_count", "hit_count", "hit"}

Stage == {"none", "starting", "ready", "hashing", "counting", "found"}

CpuTypes ==
  /\ cpuPhase \in Cpu!Phase
  /\ cpuLanes \in 1..MaxLanes
  /\ worker \in [Cpu!Id -> Stage]
  /\ stop \in BOOLEAN /\ took \in BOOLEAN
  /\ cpuQueue \in Nat

(* The event is set over a hit only, and while it is not set there are     *)
(* workers, or what the last of them has found.                            *)
CpuInv ==
  /\ CpuTypes
  /\ InBatch => (stop => took) /\ (Cpu!Live # {} \/ took \/ cpuQueue > 0)

LEMMA SpawnedTypes ==
  ASSUME NEW w \in [Cpu!Id -> Stage], NEW n
  PROVE  Cpu!Spawned(w, n) \in [Cpu!Id -> Stage]
<1> QED BY DEF Cpu!Spawned, Stage

(* Workers are added to those that run.                                    *)
LEMMA SpawnedKeeps ==
  ASSUME NEW w \in [Cpu!Id -> Stage], NEW n, NEW i \in Cpu!Id, w[i] # "none"
  PROVE  Cpu!Spawned(w, n)[i] # "none"
<1> QED BY DEF Cpu!Spawned, Stage

LEMMA FirstWorker == <<1, 1>> \in Cpu!Id
<1>1. 1 \in 1..MaxLanes /\ 1 \in 1..MaxRounds
    BY CpuAssumption
<1> QED BY <1>1 DEF Cpu!Id

LEMMA NoWorkers == Cpu!None \in [Cpu!Id -> Stage] /\ Cpu!None[<<1, 1>>] = "none"
<1> QED BY FirstWorker DEF Cpu!None, Stage

(* The first lane gets a worker when there was none.                       *)
LEMMA SpawnedStarts ==
  ASSUME NEW n \in 1..MaxLanes
  PROVE  Cpu!Spawned(Cpu!None, n)[<<1, 1>>] = "starting"
<1>1. n >= 1 /\ \A s \in 1..(1 - 1) : Cpu!None[<<1, s>>] # "none"
    BY CpuAssumption
<1> QED BY <1>1, FirstWorker, NoWorkers DEF Cpu!Spawned, Cpu!Id

LEMMA CpuInit == Cpu!Init => CpuInv
<1> SUFFICES ASSUME Cpu!Init PROVE CpuInv
    OBVIOUS
<1>3. Cpu!Live # {}
    BY FirstWorker, SpawnedStarts, CpuAssumption DEF Cpu!Init, Cpu!Live
<1>4. CpuTypes
    BY NoWorkers, SpawnedTypes, CpuAssumption DEF CpuTypes, Cpu!Init, Cpu!Phase
<1> QED BY <1>3, <1>4 DEF CpuInv, Cpu!Init

LEMMA CpuStep == CpuInv /\ [Cpu!Next]_Cpu!vars => CpuInv'
<1> SUFFICES ASSUME CpuInv, [Cpu!Next]_Cpu!vars PROVE CpuInv'
    OBVIOUS
<1> USE DEF CpuInv, CpuTypes, InBatch, Cpu!Phase, Stage
<1>1. ASSUME NEW i \in Cpu!Id, Cpu!Work(i) PROVE CpuInv'
  <2>1. CASE Cpu!Begin(i)
      BY <2>1 DEF Cpu!Begin, Cpu!Moves, Cpu!Live
  <2>2. CASE Cpu!Test(i)
      BY <2>2 DEF Cpu!Test, Cpu!Moves, Cpu!Live
  <2>3. CASE Cpu!EnterCount(i)
      BY <2>3 DEF Cpu!EnterCount, Cpu!Moves, Cpu!Live
  <2>4. CASE Cpu!LeaveCount(i)
      BY <2>4 DEF Cpu!LeaveCount, Cpu!Moves, Cpu!Live
  <2>5. CASE Cpu!Put(i)
      BY <2>5 DEF Cpu!Put, Cpu!Moves, Cpu!Live
  <2> QED BY <1>1, <2>1, <2>2, <2>3, <2>4, <2>5 DEF Cpu!Work
<1>2. CASE Cpu!Start \/ Cpu!Restart
  <2>1. worker' = Cpu!Spawned(worker, cpuLanes) /\ UNCHANGED <<cpuLanes, stop, cpuQueue, took>>
        /\ InBatch /\ cpuPhase' = "loop"
      BY <1>2 DEF Cpu!Start, Cpu!Restart
  <2>2. Cpu!Live \subseteq Cpu!Live'
      BY <2>1, SpawnedKeeps DEF Cpu!Live
  <2>3. worker' \in [Cpu!Id -> Stage]
      BY <2>1, SpawnedTypes
  <2> QED BY <2>1, <2>2, <2>3
<1>3. CASE Cpu!Retune
    BY <1>3, CpuAssumption DEF Cpu!Retune, Cpu!Tuned
<1>4. CASE Cpu!Replace
  <2>1. worker' = Cpu!Spawned(Cpu!None, cpuLanes)
      BY <1>4 DEF Cpu!Replace
  <2>2. worker' \in [Cpu!Id -> Stage]
      BY <2>1, NoWorkers, SpawnedTypes
  <2>3. Cpu!Live' # {}
      BY <2>1, FirstWorker, SpawnedStarts DEF Cpu!Live
  <2> QED BY <1>4, <2>2, <2>3 DEF Cpu!Replace
<1>5. CASE Cpu!Collect
    BY <1>5 DEF Cpu!Collect
<1>6. CASE Cpu!TimeOut \/ Cpu!Count
    BY <1>6 DEF Cpu!TimeOut, Cpu!Count, Cpu!Live
<1>7. CASE Cpu!Halt \/ Cpu!End
  <2> QED BY <1>7, NoWorkers DEF Cpu!Halt, Cpu!End
<1>8. CASE UNCHANGED Cpu!vars
    BY <1>8 DEF Cpu!vars, Cpu!Live
<1> QED BY <1>1, <1>2, <1>3, <1>4, <1>5, <1>6, <1>7, <1>8 DEF Cpu!Next, Cpu!Loop

(* cpu.py:86-94, 117-139: whatever retunes, hits and batches that time out *)
(* come in whatever order, the loop is without workers only over a hit.    *)
THEOREM IdleOverHitOnly == ServicesSpec => []IdleMeansHit
<1> DEFINE Inv == service = "cpu" => CpuInv
<1>1. ServicesInit => Inv
    BY CpuInit DEF ServicesInit
<1>2. Inv /\ [ServicesNext]_all => Inv'
    BY CpuFrame, CpuStep, ServiceStays
<1>3. Inv => IdleMeansHit
    BY DEF IdleMeansHit, Cpu!IdleMeansHit, CpuInv, CpuTypes, InBatch
<1> QED BY <1>1, <1>2, <1>3, PTL DEF ServicesSpec

----------------------------------------------------------------------------
(* PowerBooster *)

LEMMA PowerFrame ==
  [ServicesNext]_all /\ service = "power" => service' = "power" /\ [Power!Next]_Power!vars
<1> QED
    BY DEF all, ServicesNext, LockRuns, HeatRuns, CpuRuns, PowerRuns, UptimeRuns, IniRuns,
       ReportRuns, BalancesRuns, UpgradeRuns, VramRuns, SnapsRuns, power, Power!vars

LEMMA ClampedWithin ==
  ASSUME NEW v \in Int, NEW lo \in Int, NEW hi \in Int, lo <= hi
  PROVE  Power!Clamp(v, lo, hi) \in lo..hi
<1> QED BY DEF Power!Clamp, Power!Larger, Power!Smaller

LEMMA RoundedIsInt ==
  ASSUME NEW n \in Int, NEW d \in Nat \ {0}
  PROVE  Power!RoundHalfEven(n, d) \in Int
<1> QED BY DEF Power!RoundHalfEven

LEMMA FloorAndTarget ==
  /\ Power!Target \in 50..100
  /\ Power!Floor \in 50..100 /\ Power!Floor <= Power!Target
<1>1. TargetPct \in Int /\ MinPct \in Int
    BY PowerAssumption
<1>2. \A v \in Int : Power!Clamp(v, 50, 100) \in 50..100
    BY DEF Power!Clamp, Power!Larger, Power!Smaller
<1> QED BY <1>1, <1>2 DEF Power!Target, Power!Floor, Power!Smaller

LEMMA Anchors ==
  /\ Power!Low \in Nat /\ Power!Ref \in Nat /\ Power!High \in Int
  /\ Power!Low <= Power!Ref /\ Power!Ref < Power!High
<1>1. Reference \in Nat
    BY SettingsAssumption
<1>2. Power!Low \in Nat /\ Power!Ref \in Nat /\ Power!Low <= Power!Ref
    BY <1>1, PowerAssumption DEF Power!Low, Power!Ref, Power!Larger
<1>3. Power!Ref * DerateRatio \in Int
    BY <1>2, PowerAssumption
<1>4. Power!RoundHalfEven(Power!Ref * DerateRatio, 100) \in Int
    BY <1>3, RoundedIsInt
<1> QED BY <1>2, <1>4 DEF Power!High, Power!Larger

LEMMA SlopeWithin ==
  ASSUME NEW d \in Int, NEW a \in Int, NEW b \in Int,
         NEW u \in Int, NEW v \in Power!Floor..Power!Target
  PROVE  Power!Slope(d, a, b, u, v) \in Power!Floor..Power!Target
<1> DEFINE span == b - a
           done == Power!Clamp(d - a, 0, span)
           n == u * span - done * (u - v)
<1>1. CASE span > 0
  <2>1. done \in Int
      BY <1>1, ClampedWithin
  <2>2. v \in Int
      BY FloorAndTarget
  <2>3. n \in Int
    <3>1. u * span \in Int
        OBVIOUS
    <3>2. u - v \in Int
        BY <2>2
    <3>3. done * (u - v) \in Int
        BY <2>1, <3>2
    <3> QED BY <3>1, <3>3
  <2>4. Power!RoundHalfEven(n, span) \in Int
    <3> HIDE DEF n
    <3> QED BY <1>1, <2>3, RoundedIsInt
  <2>5. Power!Clamp(Power!RoundHalfEven(n, span), Power!Floor, Power!Target)
          \in Power!Floor..Power!Target
    <3>1. Power!Floor \in Int /\ Power!Target \in Int /\ Power!Floor <= Power!Target
        BY FloorAndTarget
    <3> QED BY <2>4, <3>1, ClampedWithin
  <2> QED BY <1>1, <2>5 DEF Power!Slope
<1>2. CASE ~(span > 0)
    BY <1>2 DEF Power!Slope
<1> QED BY <1>1, <1>2

(* The target of any difficulty is one the settings allow.                 *)
LEMMA TargetWithin ==
  ASSUME NEW d \in Nat
  PROVE  Power!PowerTarget(d) \in Power!Floor..Power!Target
<1>1. Power!Mid \in Power!Floor..Power!Target
  <2> DEFINE n == 100 * Power!Target - 35 * (Power!Target - Power!Floor)
  <2>1. Power!RoundHalfEven(n, 100) \in Int
    <3>1. n \in Int /\ 100 \in Nat \ {0}
        BY FloorAndTarget
    <3> HIDE DEF n
    <3> QED BY <3>1, RoundedIsInt
  <2>2. Power!Floor \in Int /\ Power!Target \in Int /\ Power!Floor <= Power!Target
      BY FloorAndTarget
  <2> QED BY <2>1, <2>2, ClampedWithin DEF Power!Mid
<1>2. Power!Floor \in Power!Floor..Power!Target /\ Power!Target \in Power!Floor..Power!Target
    BY FloorAndTarget
<1>3. Power!Slope(d, Power!Low, Power!Ref, Power!Target, Power!Mid) \in Power!Floor..Power!Target
    BY <1>1, Anchors, FloorAndTarget, SlopeWithin
<1>4. Power!Slope(d, Power!Ref, Power!High, Power!Mid, Power!Floor) \in Power!Floor..Power!Target
    BY <1>1, <1>2, Anchors, FloorAndTarget, SlopeWithin
<1>5. d <= Power!Low \/ (Power!Low < d /\ d <= Power!Ref) \/ Power!Ref < d
    BY Anchors
<1>6. CASE d <= Power!Low
    BY <1>2, <1>6, Anchors DEF Power!PowerTarget
<1>7. CASE Power!Low < d /\ d <= Power!Ref
    BY <1>3, <1>7, Anchors DEF Power!PowerTarget
<1>8. CASE Power!Ref < d
    BY <1>4, <1>8, Anchors DEF Power!PowerTarget
<1> QED BY <1>5, <1>6, <1>7, <1>8

LEMMA Scaling ==
  ASSUME NEW k \in Nat, NEW p \in Nat, NEW q \in Nat, p <= q
  PROVE  k * p <= k * q
<1>1. q - p \in Nat /\ k * (q - p) >= 0
    OBVIOUS
<1>2. k * q = k * p + k * (q - p)
    OBVIOUS
<1> QED BY <1>1, <1>2

(* More per cent are more milliwatts, within the driver's range.           *)
LEMMA MilliwattsGrow ==
  ASSUME NEW p \in 0..100, NEW q \in 0..100, p <= q
  PROVE  /\ Power!Milliwatts(p) \in MinLimit..MaxLimit
         /\ Power!Milliwatts(p) <= Power!Milliwatts(q)
<1> DEFINE range == MaxLimit - MinLimit
<1>1. range \in Nat
    BY PowerAssumption
<1>2. range * p \in Nat /\ range * q \in Nat /\ range * 100 \in Nat
    BY <1>1
<1>3. range * p <= range * q /\ range * p <= range * 100
    BY <1>1, Scaling
<1>4. (range * p) \div 100 <= (range * q) \div 100
      /\ (range * p) \div 100 \in 0..range
    BY <1>1, <1>2, <1>3
<1> QED BY <1>1, <1>4, PowerAssumption DEF Power!Milliwatts

(* In a session whose booster has had effect the driver has the limit that *)
(* is on record, between the configured bounds or where the user had it.   *)
PowerInv ==
  /\ card \in MinLimit..MaxLimit /\ plan \in {"user", "high"}
  /\ powerMishap \subseteq {"crash", "refused", "left"}
  /\ degrees \in Felt \cup {0}
  /\ boost \in [at : {"none", "made", "on", "over"}, difficulty : Nat, original : Int,
                current : Int, applied : BOOLEAN, saved : {"none", "user", "high"},
                count : Nat]
  /\ boost.at = "on" =>
       /\ boost.original \in MinLimit..MaxLimit
       /\ ~boost.applied => card = boost.original
       /\ boost.applied =>
            /\ card = boost.current
            /\ card >= Power!Milliwatts(Power!Floor)
            /\ card <= Power!Larger(boost.original, Power!Milliwatts(Power!Target))
  /\ boost.at # "on" => ~boost.applied
  /\ powerMishap \subseteq {"left"} =>
       (IF boost.at = "on" THEN boost.original ELSE card) = OwnLimit
  /\ powerMishap = {} => plan = "user" \/ (boost.at = "on" /\ boost.saved = "user")
  /\ powerMishap = {} => boost.saved \in {"none", "user"}
  /\ boost.saved # "none" /\ boost.at = "on" => boost.applied
  /\ boost.at = "made" => boost.saved = "none"

(* What PowerTarget() makes of the difficulty at hand, in milliwatts.      *)
LEMMA TargetLimit ==
  ASSUME NEW d \in Nat
  PROVE  /\ Power!Milliwatts(Power!PowerTarget(d)) \in MinLimit..MaxLimit
         /\ Power!Milliwatts(Power!Floor) \in MinLimit..MaxLimit
         /\ Power!Milliwatts(Power!Target) \in MinLimit..MaxLimit
         /\ Power!Milliwatts(Power!Floor) <= Power!Milliwatts(Power!PowerTarget(d))
         /\ Power!Milliwatts(Power!PowerTarget(d)) <= Power!Milliwatts(Power!Target)
<1>1. /\ Power!PowerTarget(d) \in 0..100 /\ Power!Floor \in 0..100 /\ Power!Target \in 0..100
      /\ Power!Floor <= Power!PowerTarget(d) /\ Power!PowerTarget(d) <= Power!Target
  <2>1. Power!PowerTarget(d) \in Power!Floor..Power!Target
      BY TargetWithin
  <2> QED BY <2>1, FloorAndTarget
<1>2. /\ Power!Milliwatts(Power!Floor) \in MinLimit..MaxLimit
      /\ Power!Milliwatts(Power!Floor) <= Power!Milliwatts(Power!PowerTarget(d))
    BY <1>1, MilliwattsGrow
<1>3. /\ Power!Milliwatts(Power!PowerTarget(d)) \in MinLimit..MaxLimit
      /\ Power!Milliwatts(Power!PowerTarget(d)) <= Power!Milliwatts(Power!Target)
    BY <1>1, MilliwattsGrow
<1>4. Power!Milliwatts(Power!Target) \in MinLimit..MaxLimit
    BY <1>1, MilliwattsGrow
<1> QED BY <1>2, <1>3, <1>4

(* adjust() never goes below the configured floor, nor out of the range,   *)
(* whatever the target is.                                                 *)
LEMMA FloorOfLimit ==
  ASSUME NEW d \in Nat
  PROVE  Power!FloorLimit(Power!Milliwatts(Power!PowerTarget(d))) = Power!Milliwatts(Power!Floor)
<1> QED BY TargetLimit, PowerAssumption DEF Power!FloorLimit, Power!Larger, Power!Smaller

LEMMA PowerInit == Power!Init => PowerInv
<1> QED BY SettingsAssumption, PowerAssumption DEF Power!Init, PowerInv

LEMMA StepIsInt == Power!Step \in Nat
<1> QED BY PowerAssumption DEF Power!Step, Power!Larger

(* Where adjust() takes the limit.                                         *)
LEMMA AdjustedLimit ==
  ASSUME PowerInv, boost.at = "on", boost.applied,
         NEW temp \in Int, NEW granted \in BOOLEAN, Power!Adjust(temp, granted)
  PROVE  /\ card' \in MinLimit..MaxLimit
         /\ card' >= Power!Milliwatts(Power!Floor)
         /\ card' <= Power!Larger(boost.original, Power!Milliwatts(Power!Target))
         /\ boost' = [boost EXCEPT !.current = card'] \/ UNCHANGED <<card, boost>>
         /\ temp >= WarnDie - 2 => card' <= card
<1> DEFINE target == Power!Milliwatts(Power!PowerTarget(boost.difficulty))
           floor == Power!Milliwatts(Power!Floor)
           top == Power!Milliwatts(Power!Target)
           moved == Power!Moved(temp, target)
           limit == Power!Larger(Power!FloorLimit(target), Power!Smaller(moved, MaxLimit))
<1>1. /\ target \in MinLimit..MaxLimit /\ floor \in MinLimit..MaxLimit
      /\ top \in MinLimit..MaxLimit /\ floor <= target /\ target <= top
      /\ Power!FloorLimit(target) = floor
    BY TargetLimit, FloorOfLimit DEF PowerInv
<1>2. MinLimit \in Nat /\ MaxLimit \in Nat /\ WarnDie \in Nat /\ Power!Step \in Nat
    BY PowerAssumption, SettingsAssumption, StepIsInt
<1>3. /\ boost.current = card /\ card \in MinLimit..MaxLimit /\ card >= floor
      /\ card <= Power!Larger(boost.original, top) /\ boost.original \in MinLimit..MaxLimit
    BY DEF PowerInv
<1> HIDE DEF target, floor, top
<1>4. /\ moved \in Int
      /\ moved <= card \/ moved <= target \/ moved <= floor
      /\ temp >= WarnDie - 2 => moved <= card
    BY <1>1, <1>2, <1>3 DEF Power!Moved, Power!Larger, Power!Smaller
<1> HIDE DEF moved
<1>5. /\ limit \in MinLimit..MaxLimit /\ limit >= floor
      /\ limit <= Power!Larger(boost.original, top)
      /\ temp >= WarnDie - 2 => limit <= card
    BY <1>1, <1>2, <1>3, <1>4 DEF Power!Larger, Power!Smaller
<1>6. \/ card' = limit /\ boost' = [boost EXCEPT !.current = limit]
      \/ UNCHANGED <<card, boost>>
    BY DEF Power!Adjust, limit, moved, target
<1> QED BY <1>3, <1>5, <1>6, <1>1, <1>2 DEF floor, top

LEMMA PowerStep == PowerInv /\ [Power!Next]_Power!vars => PowerInv'
<1> SUFFICES ASSUME PowerInv, [Power!Next]_Power!vars PROVE PowerInv'
    OBVIOUS
<1> USE DEF PowerInv
<1>a. Power!Milliwatts(Power!Floor) \in Int /\ Power!Milliwatts(Power!Target) \in Int
    BY TargetLimit, PowerAssumption
<1>1. CASE Power!Boot
    BY <1>1, SettingsAssumption DEF Power!Boot, Power!NewBooster
<1>2. ASSUME NEW d \in Difficulties, Power!SetDifficulty(d) PROVE PowerInv'
    BY <1>2, PowerAssumption DEF Power!SetDifficulty
<1>3. ASSUME NEW granted \in BOOLEAN, Power!Apply(granted) PROVE PowerInv'
  <2> DEFINE target == Power!Milliwatts(Power!PowerTarget(boost.difficulty))
             floor == Power!Milliwatts(Power!Floor)
             top == Power!Milliwatts(Power!Target)
  <2>1. /\ target \in MinLimit..MaxLimit /\ floor \in MinLimit..MaxLimit
        /\ top \in MinLimit..MaxLimit /\ floor <= target /\ target <= top
      BY TargetLimit
  <2>2. MinLimit \in Nat /\ MaxLimit \in Nat
      BY PowerAssumption
  <2>3. /\ boost.at = "made" /\ UNCHANGED <<degrees, powerMishap>>
        /\ \/ /\ target <= card /\ UNCHANGED <<card, plan>>
              /\ boost' = [boost EXCEPT !.at = "on", !.original = card, !.current = card,
                                        !.applied = TRUE]
           \/ /\ card < target /\ card' = target /\ plan' = "high"
              /\ boost' = [boost EXCEPT !.at = "on", !.original = card, !.current = target,
                                        !.applied = TRUE, !.saved = plan]
           \/ /\ UNCHANGED <<card, plan>>
              /\ boost' = [boost EXCEPT !.at = "on", !.original = card]
      BY <1>3, <2>1, <2>2 DEF Power!Apply
  <2> HIDE DEF target, floor, top
  <2>4. /\ boost' \in [at : {"none", "made", "on", "over"}, difficulty : Nat, original : Int,
                current : Int, applied : BOOLEAN, saved : {"none", "user", "high"},
                count : Nat]
        /\ boost'.at = "on" /\ boost'.original = card
        /\ \/ boost'.applied /\ card' >= target /\ boost'.current = card'
              /\ (card' = card \/ card' = target)
           \/ ~boost'.applied /\ card' = card
        /\ \/ plan' = plan /\ boost'.saved = "none"
           \/ plan' = "high" /\ boost'.saved = plan /\ boost'.applied
    <3>0. /\ boost \in [at : {"none", "made", "on", "over"}, difficulty : Nat, original : Int,
                current : Int, applied : BOOLEAN, saved : {"none", "user", "high"},
                count : Nat]
          /\ boost.saved = "none" /\ ~boost.applied /\ card \in Int /\ target \in Int
          /\ plan \in {"user", "high"}
        BY <2>1, <2>2, <2>3
    <3>1. CASE target <= card /\ UNCHANGED <<card, plan>>
               /\ boost' = [boost EXCEPT !.at = "on", !.original = card, !.current = card,
                                         !.applied = TRUE]
        BY <3>0, <3>1
    <3>2. CASE card < target /\ card' = target /\ plan' = "high"
               /\ boost' = [boost EXCEPT !.at = "on", !.original = card, !.current = target,
                                         !.applied = TRUE, !.saved = plan]
      <4>1. /\ boost'.at = "on" /\ boost'.original = card /\ boost'.current = target
            /\ boost'.applied /\ boost'.saved = plan /\ boost'.difficulty = boost.difficulty
            /\ boost'.count = boost.count
          BY <3>0, <3>2
      <4>2. boost' \in [at : {"none", "made", "on", "over"}, difficulty : Nat, original : Int,
                current : Int, applied : BOOLEAN, saved : {"none", "user", "high"},
                count : Nat]
          BY <3>0, <3>2
      <4> QED BY <3>0, <3>2, <4>1, <4>2
    <3>3. CASE UNCHANGED <<card, plan>> /\ boost' = [boost EXCEPT !.at = "on", !.original = card]
        BY <3>0, <3>3
    <3> QED BY <2>3, <3>1, <3>2, <3>3
  <2>6. card' \in MinLimit..MaxLimit
      BY <2>1, <2>3
  <2>7. /\ ~boost'.applied => card' = boost'.original
        /\ boost'.applied => card' >= floor /\ card' <= Power!Larger(boost'.original, top)
      BY <2>1, <2>2, <2>4 DEF Power!Larger
  <2> QED BY <2>3, <2>4, <2>6, <2>7 DEF floor, top
<1>4. ASSUME NEW granted \in BOOLEAN, Power!Restore(granted) PROVE PowerInv'
    BY <1>4 DEF Power!Restore
<1>5. ASSUME NEW granted \in BOOLEAN, NEW temp \in Felt, Power!Adjust(temp, granted)
      PROVE  PowerInv'
  <2>1. boost.at = "on" /\ boost.applied /\ UNCHANGED <<plan, powerMishap>> /\ degrees' = temp
      BY <1>5 DEF Power!Adjust
  <2> QED BY <1>5, <2>1, AdjustedLimit, PowerAssumption
<1>6. CASE Power!Crash
    BY <1>6 DEF Power!Crash
<1>7. CASE UNCHANGED Power!vars
    BY <1>7 DEF Power!vars
<1> QED BY <1>1, <1>2, <1>3, <1>4, <1>5, <1>6, <1>7 DEF Power!Next

(* gpu_power.py:113-160, 209-300: whatever order heat, retargets, refusals *)
(* and sessions come in, the limit stays in its range and is given back.   *)
THEOREM LimitStaysKept == ServicesSpec => []LimitKept
<1> DEFINE Inv == service = "power" => PowerInv
<1>1. ServicesInit => Inv
    BY PowerInit DEF ServicesInit
<1>2. Inv /\ [ServicesNext]_all => Inv'
    BY PowerFrame, PowerStep, ServiceStays
<1>3. Inv => LimitKept
  <2> SUFFICES ASSUME PowerInv PROVE Power!LimitKept
      BY DEF LimitKept
  <2>1. Power!LimitWithinRange
      BY TargetLimit, PowerAssumption
         DEF PowerInv, Power!LimitWithinRange, Power!Larger, Power!Smaller
  <2>2. Power!LimitGivenBack
      BY DEF PowerInv, Power!LimitGivenBack
  <2> QED BY <2>1, <2>2 DEF Power!LimitKept
<1> QED BY <1>1, <1>2, <1>3, PTL DEF ServicesSpec

LEMMA PowerRests == [ServicesNext]_all /\ service # "power" => UNCHANGED Power!vars
<1> QED
    BY DEF all, ServicesNext, LockRuns, HeatRuns, CpuRuns, PowerRuns, UptimeRuns, IniRuns,
       ReportRuns, BalancesRuns, UpgradeRuns, VramRuns, SnapsRuns, power, Power!vars

LEMMA PowerNeverRaises ==
  PowerInv /\ [Power!Next]_Power!vars =>
    (boost.at = "on" /\ boost'.at = "on" /\ degrees' >= WarnDie - 2 => card' <= card)
<1> SUFFICES ASSUME PowerInv, [Power!Next]_Power!vars, boost.at = "on", boost'.at = "on",
                    degrees' >= WarnDie - 2
             PROVE  card' <= card
    OBVIOUS
<1>1. ASSUME NEW granted \in BOOLEAN, NEW temp \in Felt, Power!Adjust(temp, granted)
      PROVE  card' <= card
  <2>1. boost.applied /\ degrees' = temp
      BY <1>1 DEF Power!Adjust
  <2> QED BY <1>1, <2>1, AdjustedLimit, PowerAssumption
<1>2. card \in Int
    BY PowerAssumption DEF PowerInv
<1>3. CASE card' = card
    BY <1>2, <1>3
<1>4. CASE Power!Boot \/ Power!Crash
    BY <1>4, <1>3 DEF Power!Boot, Power!NewBooster, Power!Crash
<1>5. ASSUME NEW d \in Difficulties, Power!SetDifficulty(d) PROVE card' <= card
    BY <1>5, <1>3 DEF Power!SetDifficulty
<1>6. ASSUME NEW granted \in BOOLEAN, Power!Apply(granted) \/ Power!Restore(granted)
      PROVE  card' <= card
    BY <1>6 DEF Power!Apply, Power!Restore, PowerInv
<1>7. CASE UNCHANGED Power!vars
    BY <1>7, <1>3 DEF Power!vars
<1> QED BY <1>1, <1>4, <1>5, <1>6, <1>7 DEF Power!Next

(* gpu_power.py:237-238: near the warning the limit is never raised,       *)
(* although the target and with it the floor moves with the difficulty.    *)
THEOREM HotCardsAreNotRaised == ServicesSpec => HotNeverRaises
<1> DEFINE Inv == service = "power" => PowerInv
<1>1. ServicesInit => Inv
    BY PowerInit DEF ServicesInit
<1>2. Inv /\ [ServicesNext]_all => Inv'
    BY PowerFrame, PowerStep, ServiceStays
<1>3. Inv /\ [ServicesNext]_all =>
        [boost.at = "on" /\ boost'.at = "on" /\ degrees' >= WarnDie - 2 => card' <= card]_Power!vars
    BY PowerNeverRaises, PowerFrame, PowerRests
<1> QED BY <1>1, <1>2, <1>3, PTL DEF ServicesSpec, HotNeverRaises, Power!HotNeverRaises
----------------------------------------------------------------------------
(* WalletBalances *)

LEMMA BalancesFrame ==
  [ServicesNext]_all /\ service = "balances" =>
    service' = "balances" /\ [Balances!Next]_Balances!vars
<1> QED
    BY DEF all, ServicesNext, LockRuns, HeatRuns, CpuRuns, PowerRuns, UptimeRuns, IniRuns,
       ReportRuns, BalancesRuns, UpgradeRuns, VramRuns, SnapsRuns, balances, Balances!vars

LEMMA BalancesRest == [ServicesNext]_all /\ service # "balances" => UNCHANGED Balances!vars
<1> QED
    BY DEF all, ServicesNext, LockRuns, HeatRuns, CpuRuns, PowerRuns, UptimeRuns, IniRuns,
       ReportRuns, BalancesRuns, UpgradeRuns, VramRuns, SnapsRuns, balances, Balances!vars

LEMMA LeastNat ==
  ASSUME NEW T \in SUBSET Nat, T # {}
  PROVE  \E x \in T : \A y \in T : x <= y
<1>1. PICK x \in T : \A y \in T : ~ (<<y, x>> \in OpToRel(<, Nat))
    BY NatLessThanWellFounded, WFMin
<1>2. ASSUME NEW y \in T PROVE x <= y
  <2>1. y \in Nat /\ x \in Nat
      OBVIOUS
  <2>2. <<y, x>> \in Nat \X Nat
      BY <2>1
  <2>3. ~(y < x)
      BY <1>1, <2>2 DEF OpToRel
  <2> QED BY <2>1, <2>3
<1> QED BY <1>2

(* Of a set of days there is a latest one.                                 *)
LEMMA LatestDay ==
  ASSUME NEW m \in Int, NEW T \in SUBSET Int, T # {}, \A y \in T : y <= m
  PROVE  \E x \in T : \A y \in T : y <= x
<1> DEFINE U == {m - y : y \in T}
<1>1. \A y \in T : m - y \in Nat
    OBVIOUS
<1>2. U \in SUBSET Nat /\ U # {}
    BY <1>1
<1>3. PICK u \in U : \A v \in U : u <= v
  <2> HIDE DEF U
  <2> QED BY <1>2, LeastNat
<1>4. PICK x \in T : u = m - x
    OBVIOUS
<1>5. ASSUME NEW y \in T PROVE y <= x
  <2>1. m - y \in U /\ y \in Int /\ x \in Int
      OBVIOUS
  <2>2. m - x <= m - y
      BY <1>3, <1>4, <2>1
  <2> QED BY <2>1, <2>2
<1> QED BY <1>5

Amounts == [Token -> Int]
Snapshot == [values : Amounts, since : Int]

(* The balances of a snapshot were read after since, and by now.           *)
WasRead(s) == \A t \in Token : s.since < s.values[t] /\ s.values[t] <= tick + 1

(* A token read in the refresh under way was read after it began, and no   *)
(* snapshot there is has a later balance of it.                            *)
FetchSound ==
  /\ fetch.at = "begin" => \A t \in Token : fetch.got[t] = Balances!None
  /\ fetch.at = "fetch" =>
       /\ fetch.since \in 0..tick
       /\ \A t \in Token : fetch.got[t] # Balances!None /\ t \notin fetch.noted =>
            /\ fetch.since < fetch.got[t] /\ fetch.got[t] <= tick + 1
            /\ \A s \in unrecorded : s.values[t] <= fetch.got[t]
            /\ \A d \in Balances!Day : history[d].values[t] <= fetch.got[t]
                                       /\ kept[d].values[t] <= fetch.got[t]

(* While what is shown was read, no snapshot has a later balance.          *)
ShownLast ==
  view.status = "ok" =>
    \A t \in Token :
      /\ \A s \in unrecorded : s.values[t] <= view.values[t]
      /\ \A d \in Balances!Day : history[d].values[t] <= view.values[t]

BalancesTypes ==
  /\ tick \in Nat
  /\ session \in [on : BOOLEAN, count : Nat]
  /\ view \in [values : Amounts,
               status : {"waiting", "cached", "fetching", "rpc_error", "stale", "ok", "partial"},
               updated : Int, tried : Int, daily : Int, refreshing : BOOLEAN]
  /\ fetch \in [at : {"none", "begin", "fetch"}, fallback : Amounts, got : Amounts,
                noted : SUBSET Token, since : Int]
  /\ unrecorded \subseteq Snapshot
  /\ history \in [Balances!Day -> Snapshot] /\ kept \in [Balances!Day -> Snapshot]

BalancesInv ==
  /\ BalancesTypes
  /\ \A s \in unrecorded : WasRead(s)
  /\ \A d \in Balances!Day : history[d] = Balances!NoSnapshot \/ WasRead(history[d])
  /\ \A d \in Balances!Day : kept[d] = Balances!NoSnapshot \/ WasRead(kept[d])
  /\ FetchSound
  /\ ShownLast

LEMMA NothingTyped ==
  /\ Balances!NoSnapshot \in Snapshot /\ Balances!NoSnapshot.values \in Amounts
  /\ \A t \in Token : Balances!NoSnapshot.values[t] = -1
  /\ Balances!NoHistory \in [Balances!Day -> Snapshot]
  /\ \A d \in Balances!Day : Balances!NoHistory[d] = Balances!NoSnapshot
  /\ Balances!NoFetch \in [at : {"none", "begin", "fetch"}, fallback : Amounts, got : Amounts,
                           noted : SUBSET Token, since : Int]
  /\ Balances!NoFetch.at = "none" /\ Balances!NoFetch.noted = {}
  /\ Balances!NoFetch.got = Balances!NoSnapshot.values
  /\ Balances!NoView \in [values : Amounts,
               status : {"waiting", "cached", "fetching", "rpc_error", "stale", "ok", "partial"},
               updated : Int, tried : Int, daily : Int, refreshing : BOOLEAN]
  /\ Balances!NoView.status = "waiting"
<1>1. [t \in Token |-> -1] \in Amounts
    BY DEF Amounts
<1> QED BY <1>1 DEF Balances!NoSnapshot, Balances!NoHistory, Balances!NoFetch, Balances!NoView,
                    Balances!None, Snapshot

LEMMA DaysAreInts ==
  /\ \A t \in Nat : Balances!MiningDay(t) \in Int
  /\ \A d \in Balances!Day : d \in Int /\ d <= Balances!MiningDay(LastTick)
<1>1. \A t \in Nat : Balances!MiningDay(t) \in Int
    BY BalancesAssumption DEF Balances!MiningDay
<1>2. Balances!MiningDay(0) \in Int /\ Balances!MiningDay(LastTick) \in Int
    BY <1>1, BalancesAssumption
<1> QED BY <1>1, <1>2 DEF Balances!Day

LEMMA SeedTyped ==
  ASSUME NEW h \in [Balances!Day -> Snapshot]
  PROVE  Balances!Seed(h).values \in Amounts /\ Balances!Seed(h).status \in {"waiting", "cached"}
<1> DEFINE known == {d \in Balances!Day : Balances!Has(h, d)}
<1>1. CASE known = {}
    BY <1>1, NothingTyped DEF Balances!Seed
<1>2. CASE known # {}
  <2>1. \E d \in known : \A e \in known : e <= d
    <3>1. known \in SUBSET Int /\ Balances!MiningDay(LastTick) \in Int
          /\ \A e \in known : e <= Balances!MiningDay(LastTick)
        BY DaysAreInts, BalancesAssumption
    <3> QED BY <1>2, <3>1, LatestDay
  <2> DEFINE latest == CHOOSE d \in known : \A e \in known : e <= d
  <2>2. latest \in known
      BY <2>1
  <2>3. h[latest].values \in Amounts
      BY <2>2 DEF Snapshot
  <2>4. Balances!Seed(h) = [values |-> h[latest].values, status |-> "cached"]
      BY <1>2 DEF Balances!Seed
  <2> QED BY <2>3, <2>4
<1> QED BY <1>1, <1>2

LEMMA BalancesInit == Balances!Init => BalancesInv
<1> SUFFICES ASSUME Balances!Init PROVE BalancesInv
    OBVIOUS
<1>1. BalancesTypes
    BY NothingTyped DEF Balances!Init, BalancesTypes
<1> QED BY <1>1, NothingTyped DEF Balances!Init, BalancesInv, FetchSound, ShownLast

LEMMA ReadLater ==
  ASSUME tick \in Nat, tick' \in Nat, tick <= tick', NEW s \in Snapshot, WasRead(s)
  PROVE  WasRead(s)'
<1> QED BY DEF WasRead, Snapshot, Amounts

LEMMA BalancesStart == BalancesInv /\ Balances!Start => BalancesInv'
<1> SUFFICES ASSUME BalancesInv, Balances!Start PROVE BalancesInv'
    OBVIOUS
<1> DEFINE read == IF torn THEN Balances!NoHistory ELSE kept
<1>1. /\ read \in [Balances!Day -> Snapshot]
      /\ \A d \in Balances!Day : read[d] = kept[d] \/ read[d] = Balances!NoSnapshot
    BY NothingTyped DEF BalancesInv, BalancesTypes
<1>2. history' = read /\ UNCHANGED <<tick, fetch, unrecorded, kept>>
      /\ session' = [on |-> TRUE, count |-> session.count + 1]
      /\ view' = [Balances!NoView EXCEPT !.values = Balances!Seed(read).values,
                                         !.status = Balances!Seed(read).status]
    BY DEF Balances!Start
<1> HIDE DEF read
<1>3. view'.status \in {"waiting", "cached"} /\ view' \in [values : Amounts,
               status : {"waiting", "cached", "fetching", "rpc_error", "stale", "ok", "partial"},
               updated : Int, tried : Int, daily : Int, refreshing : BOOLEAN]
    BY <1>1, <1>2, SeedTyped, NothingTyped
<1>4. BalancesTypes'
    BY <1>1, <1>2, <1>3 DEF BalancesInv, BalancesTypes
<1>5. FetchSound'
  <2> SUFFICES ASSUME fetch.at = "fetch", NEW t \in Token,
                      fetch.got[t] # Balances!None, t \notin fetch.noted, NEW d \in Balances!Day
               PROVE  read[d].values[t] <= fetch.got[t]
      BY <1>2 DEF FetchSound, BalancesInv
  <2>1. fetch.since < fetch.got[t] /\ kept[d].values[t] <= fetch.got[t] /\ fetch.since \in 0..tick
      BY DEF FetchSound, BalancesInv
  <2>2. fetch.got[t] \in Int /\ tick \in Int
      BY DEF BalancesInv, BalancesTypes, Amounts
  <2> QED BY <1>1, <2>1, <2>2, NothingTyped
<1>6. ShownLast'
    BY <1>3 DEF ShownLast
<1>7. \A d \in Balances!Day : history'[d] = Balances!NoSnapshot \/ WasRead(history[d])'
    BY <1>1, <1>2 DEF BalancesInv, WasRead
<1>8. \A s \in unrecorded' : WasRead(s)'
    BY <1>2 DEF BalancesInv, WasRead
<1>9. \A d \in Balances!Day : kept'[d] = Balances!NoSnapshot \/ WasRead(kept[d])'
    BY <1>2 DEF BalancesInv, WasRead
<1> QED BY <1>4, <1>5, <1>6, <1>7, <1>8, <1>9 DEF BalancesInv

(* The clock, and what changes neither a snapshot nor a balance.           *)
LEMMA BalancesPass == BalancesInv /\ Balances!Pass => BalancesInv'
<1> SUFFICES ASSUME BalancesInv, Balances!Pass PROVE BalancesInv'
    OBVIOUS
<1>1. /\ tick' = tick + 1 /\ tick \in Nat
      /\ UNCHANGED <<session, view, fetch, unrecorded, history, kept, torn>>
    BY DEF Balances!Pass, BalancesInv, BalancesTypes
<1>2. \A s \in Snapshot : WasRead(s) => WasRead(s)'
    BY <1>1, ReadLater
<1>3. BalancesTypes'
    BY <1>1 DEF BalancesInv, BalancesTypes
<1>4. FetchSound'
  <2> SUFFICES ASSUME fetch.at = "fetch"
               PROVE  FetchSound'
      BY <1>1 DEF FetchSound, BalancesInv
  <2>1. fetch.got \in Amounts /\ fetch.since \in 0..tick
      BY DEF BalancesInv, BalancesTypes, FetchSound
  <2>2. \A t \in Token : fetch.got[t] \in Int
      BY <2>1 DEF Amounts
  <2> QED BY <1>1, <2>1, <2>2 DEF FetchSound, BalancesInv
<1>5. ShownLast'
    BY <1>1 DEF ShownLast, BalancesInv
<1>6. /\ \A s \in unrecorded' : WasRead(s)'
      /\ \A d \in Balances!Day : history'[d] = Balances!NoSnapshot \/ WasRead(history[d])'
      /\ \A d \in Balances!Day : kept'[d] = Balances!NoSnapshot \/ WasRead(kept[d])'
  <2>1. /\ unrecorded \subseteq Snapshot
        /\ \A d \in Balances!Day : history[d] \in Snapshot /\ kept[d] \in Snapshot
      BY DEF BalancesInv, BalancesTypes
  <2>2. \A d \in Balances!Day : WasRead(history[d]) => WasRead(history[d])'
      BY <1>1, <1>2, <2>1 DEF WasRead
  <2>3. \A d \in Balances!Day : WasRead(kept[d]) => WasRead(kept[d])'
      BY <1>1, <1>2, <2>1 DEF WasRead
  <2> QED BY <1>1, <1>2, <2>1, <2>2, <2>3 DEF BalancesInv
<1> QED BY <1>3, <1>4, <1>5, <1>6 DEF BalancesInv

(* A step that keeps the snapshots and the clock keeps that they were read.*)
LEMMA SnapshotsRest ==
  ASSUME BalancesInv, UNCHANGED <<tick, unrecorded, history, kept>>
  PROVE  /\ \A s \in unrecorded' : WasRead(s)'
         /\ \A d \in Balances!Day : history'[d] = Balances!NoSnapshot \/ WasRead(history[d])'
         /\ \A d \in Balances!Day : kept'[d] = Balances!NoSnapshot \/ WasRead(kept[d])'
<1> QED BY DEF BalancesInv, WasRead

LEMMA BalancesRefresh ==
  ASSUME BalancesInv, NEW daily \in Int, Balances!Refresh(daily)
  PROVE  BalancesInv'
<1>1. UNCHANGED <<tick, session, unrecorded, history, kept, torn>>
    BY DEF Balances!Refresh
<1>2. /\ fetch' = [Balances!NoFetch EXCEPT !.at = "begin"]
      /\ view'.values = view.values
      /\ view'.status = view.status \/ view'.status = "fetching"
      /\ view' \in [values : Amounts,
               status : {"waiting", "cached", "fetching", "rpc_error", "stale", "ok", "partial"},
               updated : Int, tried : Int, daily : Int, refreshing : BOOLEAN]
  <2> DEFINE new == IF view.values = Balances!NoSnapshot.values
                       /\ view.status \in {"waiting", "rpc_error"} THEN "fetching" ELSE view.status
  <2>1. new = view.status \/ new = "fetching"
      OBVIOUS
  <2>2. /\ fetch' = [Balances!NoFetch EXCEPT !.at = "begin"]
        /\ view' = [view EXCEPT !.refreshing = TRUE, !.tried = tick, !.daily = daily,
                                !.status = new]
      BY DEF Balances!Refresh
  <2> HIDE DEF new
  <2>3. tick \in Int /\ view \in [values : Amounts,
               status : {"waiting", "cached", "fetching", "rpc_error", "stale", "ok", "partial"},
               updated : Int, tried : Int, daily : Int, refreshing : BOOLEAN]
      BY DEF BalancesInv, BalancesTypes
  <2>4. view'.values = view.values /\ view'.status = new
      BY <2>2, <2>3
  <2>5. view' = [values |-> view.values, status |-> new, updated |-> view.updated,
                 tried |-> tick, daily |-> daily, refreshing |-> TRUE]
      BY <2>2, <2>3
  <2> QED BY <2>1, <2>2, <2>3, <2>4, <2>5
<1>3. fetch' \in [at : {"none", "begin", "fetch"}, fallback : Amounts, got : Amounts,
                  noted : SUBSET Token, since : Int] /\ fetch'.at = "begin"
      /\ \A t \in Token : fetch'.got[t] = Balances!None
    BY <1>2, NothingTyped DEF Balances!None
<1>4. BalancesTypes'
    BY <1>1, <1>2, <1>3 DEF BalancesInv, BalancesTypes
<1>5. FetchSound' /\ ShownLast'
    BY <1>1, <1>2, <1>3 DEF BalancesInv, FetchSound, ShownLast
<1> QED BY <1>1, <1>4, <1>5, SnapshotsRest DEF BalancesInv

LEMMA BalancesFetch ==
  ASSUME BalancesInv, NEW answered \in BOOLEAN, Balances!FetchToken(answered)
  PROVE  BalancesInv'
<1> DEFINE w == Balances!Wanted
           spare == IF fetch.fallback[w] # Balances!None THEN fetch.fallback[w] ELSE 0
<1>1. /\ fetch.at = "fetch" /\ UNCHANGED <<tick, session, view, unrecorded, history, kept, torn>>
      /\ fetch' = [fetch EXCEPT !.got[w] = IF answered THEN tick + 1 ELSE spare,
                                !.noted = IF answered THEN @ ELSE @ \cup {w}]
    BY DEF Balances!FetchToken
<1>2. w \in Token
    BY DEF Balances!FetchToken, Balances!Fetched, Balances!Wanted
<1>3. /\ fetch.got \in Amounts /\ fetch.fallback \in Amounts /\ fetch.noted \subseteq Token
      /\ fetch.since \in Int /\ tick \in Nat
    BY DEF BalancesInv, BalancesTypes
<1>4. spare \in Int
    BY <1>2, <1>3 DEF Amounts
<1> HIDE DEF spare, w
<1>5. fetch'.got = [fetch.got EXCEPT ![w] = IF answered THEN tick + 1 ELSE spare]
      /\ fetch'.noted = (IF answered THEN fetch.noted ELSE fetch.noted \cup {w})
      /\ fetch'.at = fetch.at /\ fetch'.since = fetch.since /\ fetch'.fallback = fetch.fallback
    BY <1>1 DEF BalancesInv, BalancesTypes
<1>6. fetch'.got \in Amounts
  <2>1. (IF answered THEN tick + 1 ELSE spare) \in Int
      BY <1>3, <1>4
  <2> QED BY <1>2, <1>3, <1>5, <2>1 DEF Amounts
<1>7. fetch' \in [at : {"none", "begin", "fetch"}, fallback : Amounts, got : Amounts,
                  noted : SUBSET Token, since : Int]
  <2>1. fetch' = [at |-> fetch.at, fallback |-> fetch.fallback, got |-> fetch'.got,
                  noted |-> fetch'.noted, since |-> fetch.since]
      BY <1>1 DEF BalancesInv, BalancesTypes
  <2> QED BY <1>1, <1>2, <1>3, <1>5, <1>6, <2>1
<1>8. BalancesTypes'
    BY <1>1, <1>7 DEF BalancesInv, BalancesTypes
<1>9. FetchSound'
  <2>1. fetch.since \in 0..tick
      BY <1>1 DEF BalancesInv, FetchSound
  <2>2. ASSUME NEW t \in Token, fetch'.got[t] # Balances!None, t \notin fetch'.noted
        PROVE  /\ fetch.since < fetch'.got[t] /\ fetch'.got[t] <= tick + 1
               /\ \A s \in unrecorded : s.values[t] <= fetch'.got[t]
               /\ \A d \in Balances!Day : history[d].values[t] <= fetch'.got[t]
                                          /\ kept[d].values[t] <= fetch'.got[t]
    <3>1. CASE t = w
      <4>1. fetch'.got[t] = tick + 1
          BY <1>2, <1>3, <1>5, <2>2, <3>1 DEF Amounts
      <4>2. \A s \in Snapshot : s = Balances!NoSnapshot \/ WasRead(s) => s.values[t] <= tick + 1
          BY <1>3, NothingTyped DEF WasRead
      <4>3. /\ unrecorded \subseteq Snapshot
            /\ \A d \in Balances!Day : history[d] \in Snapshot /\ kept[d] \in Snapshot
          BY DEF BalancesInv, BalancesTypes
      <4> QED BY <1>3, <2>1, <4>1, <4>2, <4>3 DEF BalancesInv
    <3>2. CASE t # w
      <4>1. fetch'.got[t] = fetch.got[t] /\ t \notin fetch.noted
          BY <1>2, <1>3, <1>5, <2>2, <3>2 DEF Amounts
      <4> QED BY <1>1, <2>2, <4>1 DEF BalancesInv, FetchSound
    <3> QED BY <3>1, <3>2
  <2> QED BY <1>1, <1>5, <2>1, <2>2 DEF FetchSound
<1>10. ShownLast'
    BY <1>1 DEF BalancesInv, ShownLast
<1> QED BY <1>1, <1>8, <1>9, <1>10, SnapshotsRest DEF BalancesInv

LEMMA BalancesPublish == BalancesInv /\ Balances!Publish => BalancesInv'
<1> SUFFICES ASSUME BalancesInv, Balances!Publish PROVE BalancesInv'
    OBVIOUS
<1> DEFINE s == [values |-> fetch.got, since |-> fetch.since]
<1>1. /\ fetch.at = "fetch" /\ Balances!Fetched /\ fetch' = Balances!NoFetch
      /\ UNCHANGED <<tick, session, history, kept, torn>>
      /\ unrecorded' = (IF fetch.noted = {} THEN unrecorded \cup {s} ELSE unrecorded)
    BY DEF Balances!Publish, Balances!Recorded
<1>2. /\ view'.values = fetch.got
      /\ view'.status = (IF fetch.noted = {} THEN "ok" ELSE "partial")
      /\ view' \in [values : Amounts,
               status : {"waiting", "cached", "fetching", "rpc_error", "stale", "ok", "partial"},
               updated : Int, tried : Int, daily : Int, refreshing : BOOLEAN]
  <2> DEFINE new == IF fetch.noted = {} THEN "ok" ELSE "partial"
  <2>1. view' = [view EXCEPT !.values = fetch.got, !.updated = tick, !.refreshing = FALSE,
                             !.status = new]
      BY DEF Balances!Publish
  <2>2. new \in {"ok", "partial"}
      OBVIOUS
  <2> HIDE DEF new
  <2>3. tick \in Int /\ fetch.got \in Amounts /\ view \in [values : Amounts,
               status : {"waiting", "cached", "fetching", "rpc_error", "stale", "ok", "partial"},
               updated : Int, tried : Int, daily : Int, refreshing : BOOLEAN]
      BY DEF BalancesInv, BalancesTypes
  <2>4. view' = [values |-> fetch.got, status |-> new, updated |-> tick,
                 tried |-> view.tried, daily |-> view.daily, refreshing |-> FALSE]
      BY <2>1, <2>3
  <2> QED BY <2>2, <2>3, <2>4 DEF new
<1>3. s \in Snapshot /\ s.values = fetch.got /\ s.since = fetch.since
    BY DEF BalancesInv, BalancesTypes, Snapshot
<1> HIDE DEF s
<1>4. BalancesTypes'
    BY <1>1, <1>2, <1>3, NothingTyped DEF BalancesInv, BalancesTypes
<1>5. ASSUME fetch.noted = {}
      PROVE  /\ WasRead(s)
             /\ \A t \in Token :
                  /\ \A r \in unrecorded : r.values[t] <= fetch.got[t]
                  /\ \A d \in Balances!Day : history[d].values[t] <= fetch.got[t]
    BY <1>1, <1>3, <1>5 DEF BalancesInv, FetchSound, Balances!Fetched, WasRead
<1>6. FetchSound'
    BY <1>1, NothingTyped DEF FetchSound
<1>7. ShownLast'
  <2> SUFFICES ASSUME fetch.noted = {}, NEW t \in Token
               PROVE  /\ \A r \in unrecorded' : r.values[t] <= fetch.got[t]
                      /\ \A d \in Balances!Day : history[d].values[t] <= fetch.got[t]
      BY <1>1, <1>2 DEF ShownLast
  <2>1. fetch.got[t] \in Int
      BY DEF BalancesInv, BalancesTypes, Amounts
  <2> QED BY <1>1, <1>3, <1>5, <2>1
<1>8. \A r \in unrecorded' : WasRead(r)'
  <2>1. \A r \in unrecorded' : WasRead(r)
      BY <1>1, <1>5 DEF BalancesInv
  <2> QED BY <1>1, <2>1 DEF WasRead
<1>9. /\ \A d \in Balances!Day : history'[d] = Balances!NoSnapshot \/ WasRead(history[d])'
      /\ \A d \in Balances!Day : kept'[d] = Balances!NoSnapshot \/ WasRead(kept[d])'
    BY <1>1 DEF BalancesInv, WasRead
<1> QED BY <1>4, <1>6, <1>7, <1>8, <1>9 DEF BalancesInv

LEMMA BalancesRecord ==
  ASSUME BalancesInv, NEW s \in unrecorded, Balances!RecordSnapshot(s)
  PROVE  BalancesInv'
<1>1. /\ UNCHANGED <<tick, session, view, fetch>>
      /\ unrecorded' = unrecorded \ {s} /\ kept' = history'
      /\ history' = [history EXCEPT ![Balances!SnapshotDay(s)] = s]
    BY DEF Balances!RecordSnapshot
<1>2. s \in Snapshot /\ WasRead(s) /\ history \in [Balances!Day -> Snapshot]
    BY DEF BalancesInv, BalancesTypes
<1>3. /\ history' \in [Balances!Day -> Snapshot]
      /\ \A d \in Balances!Day : history'[d] = history[d] \/ history'[d] = s
    BY <1>1, <1>2
<1>4. BalancesTypes'
    BY <1>1, <1>3 DEF BalancesInv, BalancesTypes
<1>5. FetchSound'
    BY <1>1, <1>3 DEF BalancesInv, FetchSound
<1>6. ShownLast'
    BY <1>1, <1>3 DEF BalancesInv, ShownLast
<1>7. /\ \A d \in Balances!Day : history'[d] = Balances!NoSnapshot \/ WasRead(history[d])'
      /\ \A d \in Balances!Day : kept'[d] = Balances!NoSnapshot \/ WasRead(kept[d])'
  <2>1. \A d \in Balances!Day : history'[d] = Balances!NoSnapshot \/ WasRead(history'[d])
      BY <1>2, <1>3 DEF BalancesInv
  <2> QED BY <1>1, <2>1 DEF WasRead
<1>8. \A r \in unrecorded' : WasRead(r)'
    BY <1>1 DEF BalancesInv, WasRead
<1> QED BY <1>4, <1>5, <1>6, <1>7, <1>8 DEF BalancesInv

LEMMA BalancesStep == BalancesInv /\ [Balances!Next]_Balances!vars => BalancesInv'
<1> SUFFICES ASSUME BalancesInv, [Balances!Next]_Balances!vars PROVE BalancesInv'
    OBVIOUS
<1>1. CASE Balances!Leave
  <2>1. /\ UNCHANGED <<tick, history, kept>> /\ unrecorded' = {}
        /\ view' = Balances!NoView /\ fetch' = Balances!NoFetch
        /\ session' = [session EXCEPT !.on = FALSE]
      BY <1>1 DEF Balances!Leave
  <2>2. BalancesTypes'
      BY <2>1, NothingTyped DEF BalancesInv, BalancesTypes
  <2>3. FetchSound' /\ ShownLast'
      BY <2>1, NothingTyped DEF FetchSound, ShownLast
  <2> QED BY <2>1, <2>2, <2>3 DEF BalancesInv, WasRead
<1>2. CASE Balances!DailyRefresh
  <2> DEFINE daily == IF Balances!AfterOne THEN Balances!MiningDay(tick) ELSE view.daily
  <2>1. daily \in Int
      BY DaysAreInts DEF BalancesInv, BalancesTypes
  <2>2. CASE Balances!Refresh(daily)
      BY <2>1, <2>2, BalancesRefresh
  <2>3. CASE /\ view' = [view EXCEPT !.daily = daily]
             /\ UNCHANGED <<tick, session, fetch, unrecorded, history, kept, torn>>
    <3>1. /\ view'.values = view.values /\ view'.status = view.status
          /\ view' \in [values : Amounts,
               status : {"waiting", "cached", "fetching", "rpc_error", "stale", "ok", "partial"},
               updated : Int, tried : Int, daily : Int, refreshing : BOOLEAN]
        BY <2>1, <2>3 DEF BalancesInv, BalancesTypes
    <3>2. BalancesTypes' /\ FetchSound' /\ ShownLast'
        BY <2>3, <3>1 DEF BalancesInv, BalancesTypes, FetchSound, ShownLast
    <3> QED BY <2>3, <3>2, SnapshotsRest DEF BalancesInv
  <2> QED BY <1>2, <2>2, <2>3 DEF Balances!DailyRefresh
<1>3. CASE Balances!MaybeRefresh
  <2>1. view.daily \in Int
      BY DEF BalancesInv, BalancesTypes
  <2> QED BY <1>3, <2>1, BalancesRefresh DEF Balances!MaybeRefresh
<1>4. CASE Balances!Begin
  <2>1. /\ UNCHANGED <<tick, session, view, unrecorded, history, kept, torn>>
        /\ fetch' = [fetch EXCEPT !.at = "fetch", !.fallback = view.values, !.since = tick]
      BY <1>4 DEF Balances!Begin
  <2>2. /\ fetch'.at = "fetch" /\ fetch'.since = tick /\ fetch'.got = fetch.got
        /\ fetch' \in [at : {"none", "begin", "fetch"}, fallback : Amounts, got : Amounts,
                        noted : SUBSET Token, since : Int]
        /\ tick \in Nat
    <3>1. /\ tick \in Nat /\ view.values \in Amounts
          /\ fetch \in [at : {"none", "begin", "fetch"}, fallback : Amounts, got : Amounts,
                         noted : SUBSET Token, since : Int]
        BY DEF BalancesInv, BalancesTypes
    <3>2. fetch' = [at |-> "fetch", fallback |-> view.values, got |-> fetch.got,
                    noted |-> fetch.noted, since |-> tick]
        BY <2>1, <3>1
    <3> QED BY <3>1, <3>2
  <2>3. FetchSound'
      BY <1>4, <2>1, <2>2 DEF BalancesInv, FetchSound, Balances!Begin
  <2>4. BalancesTypes' /\ ShownLast'
      BY <2>1, <2>2 DEF BalancesInv, BalancesTypes, ShownLast
  <2> QED BY <2>1, <2>3, <2>4, SnapshotsRest DEF BalancesInv
<1>5. CASE Balances!Fail
  <2>1. /\ UNCHANGED <<tick, session, unrecorded, history, kept, torn>>
        /\ fetch' = Balances!NoFetch
        /\ view'.status \in {"rpc_error", "stale"}
        /\ view' \in [values : Amounts,
               status : {"waiting", "cached", "fetching", "rpc_error", "stale", "ok", "partial"},
               updated : Int, tried : Int, daily : Int, refreshing : BOOLEAN]
      BY <1>5 DEF Balances!Fail, BalancesInv, BalancesTypes
  <2>2. BalancesTypes' /\ FetchSound' /\ ShownLast'
      BY <2>1, NothingTyped DEF BalancesInv, BalancesTypes, FetchSound, ShownLast
  <2> QED BY <2>1, <2>2, SnapshotsRest DEF BalancesInv
<1>6. CASE UNCHANGED Balances!vars
    BY <1>6 DEF Balances!vars, BalancesInv, BalancesTypes, FetchSound, ShownLast, WasRead
<1> QED
    BY <1>1, <1>2, <1>3, <1>4, <1>5, <1>6, BalancesStart, BalancesPass, BalancesFetch,
       BalancesPublish, BalancesRecord DEF Balances!Next

(* wallet_balances.py:171-272, 369-378, 449-510: the panel counts its      *)
(* changes between balances that were read, the later ones from what it    *)
(* shows, whatever refreshes overlap, fail or come late.                   *)
THEOREM SnapshotsStayRead == ServicesSpec => []SnapshotsAreRead
<1> DEFINE Inv == service = "balances" => BalancesInv
<1>1. ServicesInit => Inv
    BY BalancesInit DEF ServicesInit
<1>2. Inv /\ [ServicesNext]_all => Inv'
    BY BalancesFrame, BalancesStep, ServiceStays
<1>3. Inv => SnapshotsAreRead
  <2> SUFFICES ASSUME BalancesInv PROVE Balances!SnapshotsAreRead
      BY DEF SnapshotsAreRead
  <2>1. Balances!SnapshotsWereRead
      BY DEF Balances!SnapshotsWereRead, Balances!Has, BalancesInv, WasRead
  <2>2. Balances!ChangesAreGains
    <3> SUFFICES ASSUME view.status = "ok", NEW t \in Token, NEW d \in Balances!Day,
                        NEW gain, gain = view.values[t] - history[d].values[t]
                 PROVE  gain >= 0
        BY DEF Balances!ChangesAreGains, Balances!View, Balances!TokenChange,
               Balances!DayBaseline, Balances!WeekBaseline
    <3>1. view.values[t] \in Int /\ history[d].values[t] \in Int
        BY DEF BalancesInv, BalancesTypes, Snapshot, Amounts
    <3> QED BY <3>1 DEF BalancesInv, ShownLast
  <2> QED BY <2>1, <2>2 DEF Balances!SnapshotsAreRead
<1> QED BY <1>1, <1>2, <1>3, PTL DEF ServicesSpec

LEMMA PastRests ==
  BalancesInv /\ [Balances!Next]_Balances!vars /\ session.on /\ session'.on =>
    \A d \in Balances!Day : d < Balances!MiningDay(tick) => history'[d] = history[d]
<1> SUFFICES ASSUME BalancesInv, [Balances!Next]_Balances!vars, session.on,
                    NEW d \in Balances!Day, d < Balances!MiningDay(tick)
             PROVE  history'[d] = history[d]
    OBVIOUS
<1>1. ASSUME NEW s \in unrecorded, Balances!RecordSnapshot(s) PROVE history'[d] = history[d]
  <2>1. d # Balances!MiningDay(tick)
      BY DaysAreInts DEF BalancesInv, BalancesTypes
  <2> QED
      BY <1>1, <2>1 DEF Balances!RecordSnapshot, Balances!SnapshotDay, BalancesInv, BalancesTypes
<1>2. CASE UNCHANGED history
    BY <1>2
<1> QED
    BY <1>1, <1>2 DEF Balances!Next, Balances!vars, Balances!Start, Balances!Leave,
       Balances!Pass, Balances!DailyRefresh, Balances!MaybeRefresh, Balances!Refresh,
       Balances!Begin, Balances!FetchToken, Balances!Fail, Balances!Publish

(* wallet_balances.py:449-467: _record_snapshot() takes the day from the   *)
(* clock, so a refresh that is late never rewrites a day that is over.     *)
THEOREM PastDaysStayFixed == ServicesSpec => PastDaysFixed
<1> DEFINE Inv == service = "balances" => BalancesInv
<1>1. ServicesInit => Inv
    BY BalancesInit DEF ServicesInit
<1>2. Inv /\ [ServicesNext]_all => Inv'
    BY BalancesFrame, BalancesStep, ServiceStays
<1>3. Inv /\ [ServicesNext]_all =>
        [session.on /\ session'.on =>
            \A d \in Balances!Day :
               d < Balances!MiningDay(tick) => history'[d] = history[d]]_Balances!vars
    BY PastRests, BalancesFrame, BalancesRest
<1> QED BY <1>1, <1>2, <1>3, PTL DEF ServicesSpec, PastDaysFixed, Balances!PastDaysFixed
----------------------------------------------------------------------------
(* Migration *)

LEMMA UpgradeFrame ==
  [ServicesNext]_all /\ service = "migration" =>
    service' = "migration" /\ [Upgrade!Next]_Upgrade!vars
<1> QED
    BY DEF all, ServicesNext, LockRuns, HeatRuns, CpuRuns, PowerRuns, UptimeRuns, IniRuns,
       ReportRuns, BalancesRuns, UpgradeRuns, VramRuns, SnapsRuns, migration, Upgrade!vars

Does(i) == Upgrade!Statements[i].does
Below(i) == Upgrade!Statements[i].below

LEMMA StatementTable ==
  /\ DOMAIN Upgrade!Statements = 1..14
  /\ Does(1) = "script" /\ Does(2) = "chain" /\ Does(3) = "price" /\ Does(4) = "online"
  /\ Does(5) = "api_key" /\ Does(6) = "self" /\ Does(7) = "spare" /\ Does(8) = "copy"
  /\ Does(9) = "drop" /\ Does(10) = "rename" /\ Does(11) = "snapshots" /\ Does(12) = "index"
  /\ Does(13) = "record" /\ Does(14) = "commit"
<1> QED BY DEF Upgrade!Statements, Does

LEMMA BelowTable ==
  /\ Below(1) = Latest /\ Below(2) = 2 /\ Below(3) = 3 /\ Below(4) = 4 /\ Below(5) = 5
  /\ Below(6) = 6 /\ Below(7) = 6 /\ Below(8) = 6 /\ Below(9) = 6 /\ Below(10) = 6
  /\ Below(11) = 8 /\ Below(12) = Latest /\ Below(13) = Latest /\ Below(14) = Latest
<1> QED BY DEF Upgrade!Statements, Below

Statement == {"script", "chain", "price", "online", "api_key", "self", "spare", "copy", "drop",
              "rename", "snapshots", "index", "record", "commit"}

LEMMA StatementNames == {Does(i) : i \in 1..14} = Statement
<1>1. \A i \in 1..14 : Does(i) \in Statement
    BY StatementTable DEF Statement
<1>2. \A x \in Statement : \E i \in 1..14 : Does(i) = x
    BY StatementTable DEF Statement
<1> QED BY <1>1, <1>2

LEMMA PlaceFound ==
  ASSUME NEW i \in 1..14
  PROVE  Upgrade!Place(Does(i)) = i
<1>1. \A j \in 1..14 : Does(j) = Does(i) => j = i
    BY StatementTable
<1>2. Upgrade!Place(Does(i)) = CHOOSE j \in 1..14 : Does(j) = Does(i)
    BY StatementTable DEF Upgrade!Place, Does
<1> QED BY <1>1, <1>2

(* The next statement is the first one the version still needs.            *)
LEMMA FollowingFound ==
  ASSUME NEW i \in 1..13, NEW j \in 2..14, i < j, version < Below(j),
         \A k \in (i + 1)..(j - 1) : ~(version < Below(k))
  PROVE  Upgrade!Following(i) = Does(j)
<1> DEFINE due == {k \in 1..14 : k > i /\ version < Below(k)}
<1>1. Upgrade!Following(i) = IF due = {} THEN "up" ELSE Does(CHOOSE k \in due : \A l \in due : k <= l)
    BY StatementTable DEF Upgrade!Following, Does, Below
<1>2. j \in due /\ \A k \in due : j <= k
    OBVIOUS
<1>3. \A k \in due : (\A l \in due : k <= l) => k = j
    BY <1>2
<1> HIDE DEF due
<1> QED BY <1>1, <1>2, <1>3

LEMMA LastFollowed == Upgrade!Following(14) = "up"
<1> QED BY StatementTable DEF Upgrade!Following

(* The statement after each, for the versions that come to it.             *)
LEMMA Following ==
  ASSUME version \in Nat, version < Latest
  PROVE  /\ version = 0 => Upgrade!Following(1) = "chain"
         /\ version = 5 => Upgrade!Following(1) = "self"
         /\ version \in 6..7 => Upgrade!Following(1) = "snapshots"
         /\ version >= 8 => Upgrade!Following(1) = "index"
         /\ version < 2 => Upgrade!Following(2) = "price"
         /\ version < 3 => Upgrade!Following(3) = "online"
         /\ version < 4 => Upgrade!Following(4) = "api_key"
         /\ version < 5 => Upgrade!Following(5) = "self"
         /\ version < 6 => /\ Upgrade!Following(6) = "spare" /\ Upgrade!Following(7) = "copy"
                           /\ Upgrade!Following(8) = "drop" /\ Upgrade!Following(9) = "rename"
                           /\ Upgrade!Following(10) = "snapshots"
         /\ version < 8 => Upgrade!Following(11) = "index"
         /\ Upgrade!Following(12) = "record" /\ Upgrade!Following(13) = "commit"
         /\ Upgrade!Following(14) = "up"
<1>1. ASSUME NEW i \in 1..13, version < Below(i + 1) PROVE Upgrade!Following(i) = Does(i + 1)
    BY <1>1, FollowingFound
<1>2. version = 5 => Upgrade!Following(1) = "self"
  <2>1. version = 5 => \A k \in 2..5 : ~(version < Below(k))
      BY BelowTable
  <2> QED BY <2>1, FollowingFound, StatementTable, BelowTable
<1>3. version \in 6..7 => Upgrade!Following(1) = "snapshots"
  <2>1. version \in 6..7 => \A k \in 2..10 : ~(version < Below(k))
      BY BelowTable
  <2> QED BY <2>1, FollowingFound, StatementTable, BelowTable
<1>4. version >= 8 => Upgrade!Following(1) = "index"
  <2>1. version >= 8 => \A k \in 2..11 : ~(version < Below(k))
      BY BelowTable
  <2> QED BY <2>1, FollowingFound, StatementTable, BelowTable
<1>5. /\ version = 0 => Upgrade!Following(1) = "chain"
      /\ version < 2 => Upgrade!Following(2) = "price"
      /\ version < 3 => Upgrade!Following(3) = "online"
      /\ version < 4 => Upgrade!Following(4) = "api_key"
      /\ version < 5 => Upgrade!Following(5) = "self"
    BY <1>1, StatementTable, BelowTable
<1>6. version < 6 => /\ Upgrade!Following(6) = "spare" /\ Upgrade!Following(7) = "copy"
                     /\ Upgrade!Following(8) = "drop" /\ Upgrade!Following(9) = "rename"
    BY <1>1, StatementTable, BelowTable
<1>7. /\ version < 6 => Upgrade!Following(10) = "snapshots"
      /\ version < 8 => Upgrade!Following(11) = "index"
      /\ Upgrade!Following(12) = "record" /\ Upgrade!Following(13) = "commit"
    BY <1>1, StatementTable, BelowTable
<1> QED BY <1>2, <1>3, <1>4, <1>5, <1>6, <1>7, LastFollowed

Shape ==
    [version : Nat, columns : SUBSET Upgrade!Columns, layout : {"schema", "appended"},
     rows : Nat, spare : Nat, twice : BOOLEAN, index : BOOLEAN]

\* The database as the first start found it.
Found(d) ==
    /\ d \in Shape
    /\ d.version <= Latest /\ d.columns = Upgrade!Known(d.version)
    /\ d.layout = "schema" \/ d.version \in 2..5
    /\ d.spare = Upgrade!None /\ (d.index <=> d.version = Latest)
    /\ d.version = Latest => ~d.twice

\* The blocks table of the schema, and no half-built one beside it, but for a
\* database that got its chain columns late.
Rebuilt(d) ==
    \/ d.layout = "schema" /\ d.spare = Upgrade!None
    \/ origin.layout = "appended"

\* A database is whole under the newest version; under the one it
\* came with it has the columns it came with, every row in blocks and at most
\* an empty table beside it.
Sound(d) ==
    /\ d \in Shape
    /\ d.rows = origin.rows /\ d.twice = origin.twice
    /\ d.version \in {origin.version, Latest}
    /\ d.version = Latest => d.index /\ d.columns = Upgrade!Columns /\ Rebuilt(d)
    /\ d.version # Latest =>
         /\ Upgrade!Known(origin.version) \subseteq d.columns
         /\ d.spare \in {Upgrade!None, 0}
         /\ origin.version >= 6 => d.spare = Upgrade!None
         /\ origin.version \notin 1..4 /\ origin.layout = "schema" => d.layout = "schema"
         /\ origin.version \in 1..4 => "api_key" \notin d.columns
         /\ origin.version = 0 => d.columns \in {{}, Upgrade!Columns}

Altering == {"chain", "price", "online", "api_key", "self"}

\* Which versions come to a statement, and what the ones before it have made
\* of the database the connection sees.
Versions ==
    /\ at = "chain" => version < 2
    /\ at = "price" => version < 3
    /\ at = "online" => version < 4
    /\ at = "api_key" => version < 5
    /\ at \in {"self", "spare", "copy", "drop", "rename"} => version < 6
    /\ at = "snapshots" => version < 8

Done ==
    /\ work \in Shape /\ work.twice = origin.twice
    /\ origin.version \notin 1..4 /\ work.index
    /\ {"chain", "price", "online", "api_key", "snapshots"} \subseteq work.columns
    /\ at \notin Altering => work.columns = Upgrade!Columns
    /\ work.version = IF at = "commit" THEN Latest ELSE version

\* The rebuild of the blocks table.
Rebuilding ==
    /\ at \in Altering \cup {"spare", "copy"} => ~begun
    /\ at = "copy" => work.spare = 0
    /\ at \in {"drop", "rename"} => begun /\ work.spare = origin.rows
    /\ at = "drop" => work.rows = origin.rows
    /\ at \in {"snapshots", "index", "record", "commit"} =>
          work.rows = origin.rows /\ Rebuilt(work)
    /\ at = "commit" => begun

UpgradeInv ==
    /\ at \in {"given", "down", "up", "failed"} \cup Statement
    /\ begun \in BOOLEAN /\ version \in Nat
    /\ Found(origin) /\ Sound(disk)
    /\ ~begun => work = disk
    /\ at \in {"given", "down", "up", "failed"} => ~begun
    /\ at = "given" => disk = Upgrade!Empty /\ origin = Upgrade!Empty
    /\ at \in Statement => version = origin.version /\ disk.version = version /\ version < Latest
    /\ at = "script" => ~begun
    /\ at \in Statement \ {"script"} => Versions /\ Done /\ Rebuilding
    /\ at = "up" => disk.version = Latest
    /\ at = "failed" => origin.version \in 1..4 \/ origin.twice

LEMMA KnownColumns ==
  ASSUME NEW v \in Nat
  PROVE  /\ Upgrade!Known(v) \subseteq Upgrade!Columns
         /\ v >= 5 => {"chain", "price", "online", "api_key"} \subseteq Upgrade!Known(v)
         /\ v < 5 => "api_key" \notin Upgrade!Known(v)
         /\ v >= 6 => "self" \in Upgrade!Known(v)
         /\ v >= 8 => Upgrade!Known(v) = Upgrade!Columns
         /\ v < 2 => Upgrade!Known(v) = {}
<1> QED BY DEF Upgrade!Known, Upgrade!Columns

Spared(d) == [d EXCEPT !.spare = IF d.spare = Upgrade!None THEN 0 ELSE @]

LEMMA Effects ==
  ASSUME NEW d
  PROVE  /\ Upgrade!Effect("script", d) = Upgrade!Scripted(d)
         /\ \A does \in Altering : Upgrade!Effect(does, d) = Upgrade!Altered(d, does)
         /\ Upgrade!Effect("snapshots", d) = Upgrade!Altered(d, "snapshots")
         /\ Upgrade!Effect("spare", d) = Spared(d)
         /\ Upgrade!Effect("copy", d) = [d EXCEPT !.spare = @ + d.rows]
         /\ Upgrade!Effect("drop", d) = [d EXCEPT !.rows = 0]
         /\ Upgrade!Effect("rename", d) =
               [d EXCEPT !.rows = d.spare, !.spare = Upgrade!None, !.layout = "schema"]
         /\ Upgrade!Effect("index", d) = [d EXCEPT !.index = @ \/ ~d.twice]
         /\ Upgrade!Effect("record", d) = [d EXCEPT !.version = Latest]
         /\ Upgrade!Effect("commit", d) = d
<1> QED BY DEF Upgrade!Effect, Upgrade!Columns, Altering, Spared

LEMMA Executed ==
  ASSUME NEW i \in 1..14, at = Does(i), begun \in BOOLEAN, Upgrade!Execute
  PROVE  /\ work' = Upgrade!Effect(Does(i), work) /\ at' = Upgrade!Following(i)
         /\ at = "commit" => begun' = FALSE
         /\ at \in {"copy", "record"} => begun' = TRUE
         /\ at \notin {"copy", "record", "commit"} => begun' = begun
         /\ begun' = TRUE => disk' = disk
         /\ begun' = FALSE => disk' = work'
         /\ UNCHANGED <<version, origin>>
<1>1. begun' = (at # "commit" /\ (begun \/ at \in {"copy", "record"}))
    BY DEF Upgrade!Execute, Upgrade!Begins
<1> QED BY <1>1, PlaceFound DEF Upgrade!Execute

LEMMA UpgradeInit == Upgrade!Init => UpgradeInv
<1> SUFFICES ASSUME Upgrade!Init PROVE UpgradeInv
    OBVIOUS
<1>1. Upgrade!Empty = [version |-> 0, columns |-> {}, layout |-> "schema", rows |-> 0,
                       spare |-> Upgrade!None, twice |-> FALSE, index |-> FALSE]
  <2> DEFINE newest == 0 = Latest
  <2>1. newest = FALSE
      BY MigrationAssumption
  <2>2. Upgrade!Empty = [[version |-> 0, columns |-> {}, layout |-> "schema", rows |-> Rows,
                          spare |-> Upgrade!None, twice |-> FALSE, index |-> newest]
                            EXCEPT !.rows = 0]
      BY DEF Upgrade!Empty, Upgrade!Database
  <2> HIDE DEF newest
  <2> QED BY <2>1, <2>2
<1>2. Upgrade!None \in Nat
    BY MigrationAssumption DEF Upgrade!None
<1>3. Found(origin) /\ Sound(disk)
    BY <1>1, <1>2, KnownColumns, MigrationAssumption DEF Upgrade!Init, Found, Sound, Shape, Rebuilt
<1> QED BY <1>3 DEF Upgrade!Init, UpgradeInv, Statement

LEMMA UpgradeGive ==
  ASSUME UpgradeInv, NEW d \in Upgrade!Old, Upgrade!Give(d)
  PROVE  UpgradeInv'
<1>1. Found(d)
  <2>1. Upgrade!None \in Nat
      BY MigrationAssumption DEF Upgrade!None
  <2>2. CASE d = Upgrade!Empty
      BY <2>2 DEF Upgrade!Give, UpgradeInv
  <2>3. CASE d # Upgrade!Empty
    <3>1. PICK v \in 1..Latest, layout \in {"schema", "appended"}, rented \in BOOLEAN :
            d = Upgrade!Database(v, Upgrade!Known(v), layout, rented)
        BY <2>3 DEF Upgrade!Old
    <3> DEFINE newest == v = Latest
    <3>2. newest \in BOOLEAN
        OBVIOUS
    <3>3. d = [version |-> v, columns |-> Upgrade!Known(v), layout |-> layout, rows |-> Rows,
               spare |-> Upgrade!None, twice |-> rented, index |-> newest]
        BY <3>1 DEF Upgrade!Database
    <3>4. newest <=> v = Latest
        OBVIOUS
    <3> HIDE DEF newest
    <3>5. d \in Shape
        BY <2>1, <3>2, <3>3, KnownColumns, MigrationAssumption DEF Shape
    <3>6. Upgrade!Given(d)
        BY DEF Upgrade!Give
    <3> QED BY <3>3, <3>4, <3>5, <3>6 DEF Upgrade!Given, Found
  <2> QED BY <2>2, <2>3
<1> QED BY <1>1, KnownColumns, MigrationAssumption
        DEF Upgrade!Give, UpgradeInv, Found, Sound, Shape, Rebuilt, Statement

LEMMA UpgradeStart ==
  ASSUME UpgradeInv, Upgrade!Start
  PROVE  UpgradeInv'
<1>1. disk.version \in Nat /\ disk.version \in {origin.version, Latest} /\ Found(origin)
    BY DEF UpgradeInv, Sound, Shape
<1>2. disk.version < Latest => disk.version = origin.version
    BY <1>1, MigrationAssumption
<1>3. ~(disk.version < Latest) => disk.version = Latest
    BY <1>1, MigrationAssumption DEF Found, Shape
<1> QED BY <1>1, <1>2, <1>3 DEF Upgrade!Start, UpgradeInv, Found, Sound, Rebuilt, Statement

LEMMA UpgradeCrash ==
  ASSUME UpgradeInv, Upgrade!Crash
  PROVE  UpgradeInv'
<1> QED BY DEF Upgrade!Crash, UpgradeInv, Found, Sound, Rebuilt, Statement

LEMMA UpgradeScriptFails ==
  ASSUME UpgradeInv, Upgrade!ScriptFails
  PROVE  UpgradeInv'
<1>1. UNCHANGED <<disk, work, begun, version, origin>> /\ at' = "failed" /\ at = "script"
      /\ Upgrade!ScriptRaises(work)
    BY DEF Upgrade!ScriptFails
<1>2. ~begun /\ work = disk /\ version = origin.version /\ disk.version = version /\ version < Latest
    BY <1>1 DEF UpgradeInv, Statement
<1>3. origin.version \in 1..4 \/ origin.twice
  <2>1. CASE disk.twice
      BY <2>1 DEF UpgradeInv, Sound
  <2>2. CASE disk.version # 0 /\ "api_key" \notin disk.columns
    <3>1. Upgrade!Known(origin.version) \subseteq disk.columns /\ origin.version \in Nat
        BY <1>2 DEF UpgradeInv, Sound, Found, Shape
    <3> QED BY <1>2, <2>2, <3>1, KnownColumns
  <2> QED BY <1>1, <1>2, <2>1, <2>2 DEF Upgrade!ScriptRaises
<1> QED BY <1>1, <1>2, <1>3 DEF UpgradeInv, Found, Sound, Rebuilt, Statement

LEMMA UpgradeScript ==
  ASSUME UpgradeInv, at = "script", Upgrade!Execute
  PROVE  UpgradeInv'
<1>1. /\ work' = Upgrade!Scripted(work) /\ at' = Upgrade!Following(1)
      /\ begun' = FALSE /\ disk' = work' /\ UNCHANGED <<version, origin>>
      /\ ~Upgrade!ScriptRaises(work)
  <2>1. begun = FALSE /\ at = Does(1) /\ at \notin {"copy", "record", "commit"}
      BY StatementTable DEF UpgradeInv
  <2>2. ~Upgrade!ScriptRaises(work)
      BY DEF Upgrade!Execute
  <2>3. /\ work' = Upgrade!Effect(Does(1), work) /\ at' = Upgrade!Following(1)
        /\ begun' = begun /\ (begun' = FALSE => disk' = work') /\ UNCHANGED <<version, origin>>
      BY <2>1, Executed, 1 \in 1..14
  <2>4. Does(1) = "script"
      BY StatementTable
  <2>5. Upgrade!Effect(Does(1), work) = Upgrade!Scripted(work)
      BY <2>4, Effects
  <2> QED BY <2>1, <2>2, <2>3, <2>5
<1>2. /\ work = disk /\ version = origin.version /\ disk.version = version /\ version < Latest
      /\ Sound(disk) /\ Found(origin) /\ version \in Nat
    BY DEF UpgradeInv, Statement
<1>3. version \notin 1..4
    BY <1>1, <1>2 DEF Upgrade!ScriptRaises, Sound
<1>4. work \in Shape /\ work.columns \subseteq Upgrade!Columns
    BY <1>2 DEF Sound, Shape
<1>5. /\ work'.version = work.version /\ work'.layout = work.layout /\ work'.rows = work.rows
      /\ work'.spare = work.spare /\ work'.twice = work.twice /\ work'.index
      /\ work'.columns = IF work.version = 0 /\ work.columns = {} THEN Upgrade!Columns
                         ELSE work.columns \cup {"snapshots"}
      /\ work' \in Shape
    BY <1>1, <1>4 DEF Upgrade!Scripted, Shape, Upgrade!Columns
<1>6. /\ {"chain", "price", "online", "api_key", "snapshots"} \subseteq work'.columns
      /\ version = 0 \/ version >= 6 => "self" \in work'.columns
      /\ work'.columns \subseteq Upgrade!Columns
      /\ version = 0 => work'.columns = Upgrade!Columns
      /\ Upgrade!Known(version) \subseteq work'.columns
  <2>1. CASE version = 0
      BY <1>2, <1>4, <1>5, <2>1, KnownColumns DEF Sound, Upgrade!Columns
  <2>2. CASE version >= 5
      BY <1>2, <1>4, <1>5, <2>2, KnownColumns DEF Sound, Upgrade!Columns
  <2> QED BY <1>2, <1>3, <2>1, <2>2
<1>7. Sound(work)'
    BY <1>1, <1>2, <1>3, <1>5, <1>6 DEF Sound
<1>8. at' = IF version = 0 THEN "chain" ELSE IF version = 5 THEN "self"
            ELSE IF version < 8 THEN "snapshots" ELSE "index"
    BY <1>1, <1>2, <1>3, Following
<1>9. Done'
  <2>1. version >= 6 => work'.columns = Upgrade!Columns
      BY <1>2, <1>6 DEF Upgrade!Columns
  <2> QED BY <1>1, <1>2, <1>3, <1>5, <1>6, <1>8, <2>1 DEF Done, Altering, Sound
<1>10. Versions' /\ Rebuilding'
  <2>1. version >= 6 => Rebuilt(work)'
      BY <1>1, <1>2, <1>5 DEF Sound, Found, Rebuilt
  <2>2. /\ at' \in {"chain", "self", "snapshots", "index"}
        /\ at' \in {"snapshots", "index"} => version >= 6
        /\ at' = "snapshots" => version < 8
        /\ at' \in {"chain", "self"} => version < 6 /\ (at' = "chain" => version < 2)
      BY <1>2, <1>3, <1>8
  <2>3. work'.rows = origin'.rows
      BY <1>1, <1>2, <1>5 DEF Sound
  <2> QED BY <1>1, <2>1, <2>2, <2>3 DEF Versions, Rebuilding, Altering
<1> QED BY <1>1, <1>2, <1>5, <1>7, <1>8, <1>9, <1>10 DEF UpgradeInv, Found, Statement

(* The statements outside the copy's transaction commit at once.           *)
LEMMA Committed ==
  ASSUME NEW i \in 2..7, at = Does(i), UpgradeInv, Upgrade!Execute
  PROVE  /\ work' = Upgrade!Effect(Does(i), work) /\ at' = Upgrade!Following(i)
         /\ begun' = FALSE /\ disk' = work' /\ UNCHANGED <<version, origin>>
<1>1. at \in Altering \cup {"spare"}
    BY StatementTable DEF Altering
<1>2. begun = FALSE
    BY <1>1 DEF UpgradeInv, Rebuilding, Altering, Statement
<1>3. i \in 1..14 /\ at \notin {"copy", "record", "commit"}
    BY <1>1 DEF Altering
<1> QED BY <1>2, <1>3, Executed

LEMMA UpgradeAlters ==
  ASSUME UpgradeInv, at \in Altering, Upgrade!Execute
  PROVE  UpgradeInv'
<1>1. PICK i \in 2..6 : at = Does(i)
    BY StatementTable, 2 \in 2..6, 3 \in 2..6, 4 \in 2..6, 5 \in 2..6, 6 \in 2..6 DEF Altering
<1>2. /\ work' = Upgrade!Altered(work, at) /\ at' = Upgrade!Following(i)
      /\ begun' = FALSE /\ disk' = work' /\ UNCHANGED <<version, origin>>
  <2>1. i \in 2..7
      OBVIOUS
  <2>2. Upgrade!Effect(at, work) = Upgrade!Altered(work, at)
    <3>1. \A does \in Altering : Upgrade!Effect(does, work) = Upgrade!Altered(work, does)
        BY Effects
    <3> QED BY <3>1
  <2> QED BY <1>1, <2>1, <2>2, Committed
<1>3. /\ work = disk /\ version = origin.version /\ disk.version = version /\ version < Latest
      /\ Sound(disk) /\ Found(origin) /\ version \in Nat /\ version \notin 1..4
      /\ Versions /\ Done
    BY DEF UpgradeInv, Statement, Altering, Rebuilding, Done
<1>4. work \in Shape /\ "chain" \in work.columns /\ work.columns \subseteq Upgrade!Columns
    BY <1>3 DEF Done, Shape
<1>5. /\ work'.version = work.version /\ work'.layout = work.layout /\ work'.rows = work.rows
      /\ work'.spare = work.spare /\ work'.twice = work.twice /\ work'.index = work.index
      /\ work'.columns = work.columns \cup {at} /\ work' \in Shape
    BY <1>2, <1>4 DEF Upgrade!Altered, Shape, Upgrade!Columns, Altering
<1>6. Sound(work)'
  <2>1. origin.version = 0 => work'.columns = Upgrade!Columns
      BY <1>3, <1>4, <1>5 DEF Sound, Altering, Upgrade!Columns
  <2>2. work'.version # Latest /\ origin.version # Latest
      BY <1>3, <1>5, MigrationAssumption
  <2>3. Upgrade!Known(origin.version) \subseteq work'.columns
      BY <1>3, <1>5, <2>2 DEF Sound
  <2> QED BY <1>2, <1>3, <1>5, <2>1, <2>2, <2>3 DEF Sound
<1>7. at' \in {"price", "online", "api_key", "self", "spare"}
      /\ at' = (CASE at = "chain" -> "price" [] at = "price" -> "online" [] at = "online" -> "api_key"
                  [] at = "api_key" -> "self" [] at = "self" -> "spare")
  <2>1. Does(2) = "chain" /\ Does(3) = "price" /\ Does(4) = "online" /\ Does(5) = "api_key" /\ Does(6) = "self"
      BY StatementTable
  <2>2. i = 2 \/ i = 3 \/ i = 4 \/ i = 5 \/ i = 6
      OBVIOUS
  <2>3. version < 6 /\ (i = 2 => version < 2) /\ (i = 3 => version < 3) /\ (i = 4 => version < 4)
        /\ (i = 5 => version < 5)
      BY <1>1, <1>3, <2>1, <2>2 DEF Versions
  <2> QED BY <1>1, <1>2, <1>3, <2>1, <2>2, <2>3, Following
<1>8. Done'
  <2>1. at' = "spare" => at = "self"
      BY <1>7 DEF Altering
  <2>2. {"chain", "price", "online", "api_key", "snapshots"} \subseteq work'.columns
      BY <1>3, <1>5 DEF Done
  <2>3. at' = "spare" => work'.columns = Upgrade!Columns
      BY <1>4, <1>5, <2>1, <2>2 DEF Upgrade!Columns
  <2>4. at' # "commit" /\ at # "commit" /\ (at' \notin Altering => at' = "spare")
      BY <1>7 DEF Altering
  <2> QED BY <1>2, <1>3, <1>5, <2>2, <2>3, <2>4 DEF Done
<1>9. Versions' /\ Rebuilding'
    BY <1>2, <1>3, <1>7 DEF Versions, Rebuilding, Altering
<1> QED BY <1>2, <1>3, <1>5, <1>6, <1>7, <1>8, <1>9 DEF UpgradeInv, Found, Statement

LEMMA UpgradeSpare ==
  ASSUME UpgradeInv, at = "spare", Upgrade!Execute
  PROVE  UpgradeInv'
<1>1. at = Does(7)
    BY StatementTable
<1>2. /\ work' = Spared(work)
      /\ at' = Upgrade!Following(7)
      /\ begun' = FALSE /\ disk' = work' /\ UNCHANGED <<version, origin>>
  <2>1. Upgrade!Effect(Does(7), work) = Spared(work)
      BY <1>1, Effects
  <2> QED BY <1>1, <2>1, Committed, 7 \in 2..7
<1>3. /\ work = disk /\ version = origin.version /\ disk.version = version /\ version < Latest
      /\ Sound(disk) /\ Found(origin) /\ version \in Nat /\ version \notin 1..4
      /\ Versions /\ Done /\ version < 6
    BY DEF UpgradeInv, Statement, Altering, Rebuilding, Done, Versions
<1>4. work \in Shape /\ work.columns = Upgrade!Columns /\ work.spare \in {Upgrade!None, 0}
    BY <1>3 DEF Done, Sound, Altering
<1>5. /\ work'.version = work.version /\ work'.layout = work.layout /\ work'.rows = work.rows
      /\ work'.spare = 0 /\ work'.twice = work.twice /\ work'.index = work.index
      /\ work'.columns = work.columns /\ work' \in Shape
    BY <1>2, <1>4 DEF Shape, Spared
<1>6. Sound(work)'
    BY <1>2, <1>3, <1>4, <1>5 DEF Sound
<1>7. at' = "copy"
    BY <1>2, <1>3, Following
<1>8. Done'
    BY <1>2, <1>3, <1>4, <1>5, <1>7 DEF Done, Altering, Upgrade!Columns
<1>9. Versions' /\ Rebuilding'
    BY <1>2, <1>3, <1>5, <1>7 DEF Versions, Rebuilding, Altering
<1> QED BY <1>2, <1>3, <1>5, <1>6, <1>7, <1>8, <1>9 DEF UpgradeInv, Found, Statement

LEMMA UpgradeCopy ==
  ASSUME UpgradeInv, at = "copy", Upgrade!Execute
  PROVE  UpgradeInv'
<1>1. at = Does(8)
    BY StatementTable
<1>2. Upgrade!Effect(at, work) = [work EXCEPT !.spare = @ + work.rows]
    BY Effects
<1>3. begun \in BOOLEAN
    BY DEF UpgradeInv
<1>4. /\ work' = [work EXCEPT !.spare = @ + work.rows] /\ at' = Upgrade!Following(8)
      /\ begun' = TRUE /\ disk' = disk /\ UNCHANGED <<version, origin>>
    BY <1>1, <1>2, <1>3, Executed, 8 \in 1..14
<1>5. /\ work = disk /\ version = origin.version /\ disk.version = version /\ version < Latest
      /\ Sound(disk) /\ Found(origin) /\ version \in Nat
      /\ Versions /\ Done /\ version < 6 /\ work.spare = 0 /\ work.rows = origin.rows
    BY DEF UpgradeInv, Statement, Altering, Rebuilding, Done, Versions, Sound
<1>6. work \in Shape /\ work.columns = Upgrade!Columns
    BY <1>5 DEF Done, Altering
<1>7. /\ work'.version = work.version /\ work'.rows = origin.rows
      /\ work'.spare = origin.rows /\ work'.twice = work.twice /\ work'.index = work.index
      /\ work'.columns = work.columns /\ work' \in Shape
    BY <1>4, <1>5, <1>6 DEF Shape
<1>8. at' = "drop"
    BY <1>4, <1>5, Following
<1>9. Done' /\ Versions' /\ Rebuilding'
    BY <1>4, <1>5, <1>6, <1>7, <1>8 DEF Done, Versions, Rebuilding, Altering, Upgrade!Columns
<1> QED BY <1>4, <1>5, <1>8, <1>9 DEF UpgradeInv, Found, Sound, Rebuilt, Statement

LEMMA UpgradeCopyFails ==
  ASSUME UpgradeInv, Upgrade!CopyFails
  PROVE  UpgradeInv'
<1>1. Upgrade!Place("rename") = 10
    BY PlaceFound, StatementTable, 10 \in 1..14
<1>2. /\ at = "copy" /\ work.layout = "appended" /\ begun' = TRUE /\ at' = Upgrade!Following(10)
      /\ UNCHANGED <<disk, work, version, origin>>
    BY <1>1 DEF Upgrade!CopyFails, Upgrade!CopyRaises
<1>3. /\ work = disk /\ version = origin.version /\ disk.version = version /\ version < Latest
      /\ Sound(disk) /\ Found(origin) /\ version \in Nat
      /\ Versions /\ Done /\ version < 6 /\ work.rows = origin.rows
    BY <1>2 DEF UpgradeInv, Statement, Altering, Rebuilding, Done, Versions, Sound
<1>4. origin.layout = "appended"
    BY <1>2, <1>3, MigrationAssumption DEF Sound, Done, Found, Shape
<1>5. at' = "snapshots"
    BY <1>2, <1>3, Following
<1>6. Done' /\ Versions' /\ Rebuilding'
    BY <1>2, <1>3, <1>4, <1>5 DEF Done, Versions, Rebuilding, Altering, Rebuilt
<1> QED BY <1>2, <1>3, <1>5, <1>6 DEF UpgradeInv, Found, Sound, Rebuilt, Statement

LEMMA UpgradeDrop ==
  ASSUME UpgradeInv, at = "drop", Upgrade!Execute
  PROVE  UpgradeInv'
<1>1. at = Does(9)
    BY StatementTable
<1>2. Upgrade!Effect(at, work) = [work EXCEPT !.rows = 0]
    BY Effects
<1>3. /\ begun = TRUE /\ version = origin.version /\ disk.version = version /\ version < Latest
      /\ Sound(disk) /\ Found(origin) /\ version \in Nat
      /\ Versions /\ Done /\ version < 6 /\ work.spare = origin.rows
    BY DEF UpgradeInv, Statement, Rebuilding, Done, Versions
<1>4. /\ work' = [work EXCEPT !.rows = 0] /\ at' = Upgrade!Following(9)
      /\ begun' = TRUE /\ disk' = disk /\ UNCHANGED <<version, origin>>
    BY <1>1, <1>2, <1>3, Executed, 9 \in 1..14
<1>5. work \in Shape /\ work.columns = Upgrade!Columns
    BY <1>3 DEF Done, Altering
<1>6. /\ work'.version = work.version /\ work'.spare = origin.rows
      /\ work'.twice = work.twice /\ work'.index = work.index
      /\ work'.columns = work.columns /\ work' \in Shape
    BY <1>3, <1>4, <1>5 DEF Shape
<1>7. at' = "rename"
    BY <1>3, <1>4, Following
<1>8. Done' /\ Versions' /\ Rebuilding'
    BY <1>3, <1>4, <1>5, <1>6, <1>7 DEF Done, Versions, Rebuilding, Altering, Upgrade!Columns
<1> QED BY <1>3, <1>4, <1>7, <1>8 DEF UpgradeInv, Found, Sound, Rebuilt, Statement

LEMMA UpgradeRename ==
  ASSUME UpgradeInv, at = "rename", Upgrade!Execute
  PROVE  UpgradeInv'
<1>1. at = Does(10)
    BY StatementTable
<1>2. Upgrade!Effect(at, work) =
        [work EXCEPT !.rows = work.spare, !.spare = Upgrade!None, !.layout = "schema"]
    BY Effects
<1>3. /\ begun = TRUE /\ version = origin.version /\ disk.version = version /\ version < Latest
      /\ Sound(disk) /\ Found(origin) /\ version \in Nat
      /\ Versions /\ Done /\ version < 6 /\ work.spare = origin.rows
    BY DEF UpgradeInv, Statement, Rebuilding, Done, Versions
<1>4. /\ work' = [work EXCEPT !.rows = work.spare, !.spare = Upgrade!None, !.layout = "schema"]
      /\ at' = Upgrade!Following(10)
      /\ begun' = TRUE /\ disk' = disk /\ UNCHANGED <<version, origin>>
    BY <1>1, <1>2, <1>3, Executed, 10 \in 1..14
<1>5. work \in Shape /\ work.columns = Upgrade!Columns /\ Upgrade!None \in Nat
    BY <1>3, MigrationAssumption DEF Done, Altering, Upgrade!None
<1>6. /\ work'.version = work.version /\ work'.rows = origin.rows /\ work'.spare = Upgrade!None
      /\ work'.layout = "schema" /\ work'.twice = work.twice /\ work'.index = work.index
      /\ work'.columns = work.columns /\ work' \in Shape
    BY <1>3, <1>4, <1>5 DEF Shape
<1>7. at' = "snapshots"
    BY <1>3, <1>4, Following
<1>8. Done' /\ Versions' /\ Rebuilding'
    BY <1>3, <1>4, <1>5, <1>6, <1>7
       DEF Done, Versions, Rebuilding, Rebuilt, Altering, Upgrade!Columns
<1> QED BY <1>3, <1>4, <1>7, <1>8 DEF UpgradeInv, Found, Sound, Rebuilt, Statement

LEMMA UpgradeSnapshots ==
  ASSUME UpgradeInv, at = "snapshots", Upgrade!Execute
  PROVE  UpgradeInv'
<1>1. at = Does(11) /\ begun \in BOOLEAN
    BY StatementTable DEF UpgradeInv
<1>2. Upgrade!Effect(at, work) = Upgrade!Altered(work, "snapshots")
    BY Effects
<1>3. /\ (begun = FALSE => work = disk)
      /\ version = origin.version /\ disk.version = version /\ version < Latest
      /\ Sound(disk) /\ Found(origin) /\ version \in Nat
      /\ Versions /\ Done /\ version < 8 /\ work.rows = origin.rows /\ Rebuilt(work)
    BY DEF UpgradeInv, Statement, Rebuilding, Done, Versions
<1>4. /\ work' = Upgrade!Altered(work, "snapshots") /\ at' = Upgrade!Following(11)
      /\ begun' = begun /\ (begun' = FALSE => disk' = work') /\ (begun' = TRUE => disk' = disk)
      /\ UNCHANGED <<version, origin>>
    BY <1>1, <1>2, Executed, 11 \in 1..14
<1>5. work \in Shape /\ work.columns = Upgrade!Columns
    BY <1>3 DEF Done, Altering
<1>6. work' = work
  <2>1. work' = [work EXCEPT !.columns = work.columns, !.layout = work.layout]
    <3>1. "snapshots" # "chain" /\ work.columns \cup {"snapshots"} = work.columns
        BY <1>5 DEF Upgrade!Columns
    <3> QED BY <1>4, <3>1 DEF Upgrade!Altered
  <2> QED BY <1>5, <2>1 DEF Shape
<1>7. at' = "index" /\ disk' = disk
    BY <1>1, <1>3, <1>4, <1>6, Following
<1>8. Done' /\ Versions' /\ Rebuilding'
    BY <1>3, <1>4, <1>6, <1>7 DEF Done, Versions, Rebuilding, Rebuilt, Altering
<1> QED BY <1>1, <1>3, <1>4, <1>6, <1>7, <1>8 DEF UpgradeInv, Found, Sound, Rebuilt, Statement

LEMMA UpgradeIndex ==
  ASSUME UpgradeInv, at = "index", Upgrade!Execute
  PROVE  UpgradeInv'
<1>1. at = Does(12) /\ begun \in BOOLEAN
    BY StatementTable DEF UpgradeInv
<1>2. Upgrade!Effect(at, work) = [work EXCEPT !.index = @ \/ ~work.twice]
    BY Effects
<1>3. /\ (begun = FALSE => work = disk)
      /\ version = origin.version /\ disk.version = version /\ version < Latest
      /\ Sound(disk) /\ Found(origin) /\ version \in Nat
      /\ Versions /\ Done /\ work.rows = origin.rows /\ Rebuilt(work)
    BY DEF UpgradeInv, Statement, Rebuilding, Done, Versions
<1>4. /\ work' = [work EXCEPT !.index = @ \/ ~work.twice] /\ at' = Upgrade!Following(12)
      /\ begun' = begun /\ (begun' = FALSE => disk' = work') /\ (begun' = TRUE => disk' = disk)
      /\ UNCHANGED <<version, origin>>
    BY <1>1, <1>2, Executed, 12 \in 1..14
<1>5. work \in Shape /\ work.index = TRUE
    BY <1>3 DEF Done, Shape
<1>6. work' = work
    BY <1>4, <1>5 DEF Shape
<1>7. at' = "record" /\ disk' = disk
    BY <1>1, <1>3, <1>4, <1>6, Following
<1>8. Done' /\ Versions' /\ Rebuilding'
    BY <1>3, <1>4, <1>6, <1>7 DEF Done, Versions, Rebuilding, Rebuilt, Altering
<1> QED BY <1>1, <1>3, <1>4, <1>6, <1>7, <1>8 DEF UpgradeInv, Found, Sound, Rebuilt, Statement

LEMMA UpgradeRecord ==
  ASSUME UpgradeInv, at = "record", Upgrade!Execute
  PROVE  UpgradeInv'
<1>1. at = Does(13) /\ begun \in BOOLEAN
    BY StatementTable DEF UpgradeInv
<1>2. Upgrade!Effect(at, work) = [work EXCEPT !.version = Latest]
    BY Effects
<1>3. /\ version = origin.version /\ disk.version = version /\ version < Latest
      /\ Sound(disk) /\ Found(origin) /\ version \in Nat
      /\ Versions /\ Done /\ work.rows = origin.rows /\ Rebuilt(work)
    BY DEF UpgradeInv, Statement, Rebuilding, Done, Versions
<1>4. /\ work' = [work EXCEPT !.version = Latest] /\ at' = Upgrade!Following(13)
      /\ begun' = TRUE /\ disk' = disk /\ UNCHANGED <<version, origin>>
    BY <1>1, <1>2, Executed, 13 \in 1..14
<1>5. work \in Shape /\ work.columns = Upgrade!Columns
    BY <1>3 DEF Done, Altering
<1>6. /\ work'.version = Latest /\ work'.rows = work.rows /\ work'.spare = work.spare
      /\ work'.layout = work.layout /\ work'.twice = work.twice /\ work'.index = work.index
      /\ work'.columns = work.columns /\ work' \in Shape
    BY <1>4, <1>5, MigrationAssumption DEF Shape
<1>7. at' = "commit"
    BY <1>3, <1>4, Following
<1>8. Done' /\ Versions' /\ Rebuilding'
    BY <1>3, <1>4, <1>5, <1>6, <1>7
       DEF Done, Versions, Rebuilding, Rebuilt, Altering, Upgrade!Columns
<1> QED BY <1>3, <1>4, <1>7, <1>8 DEF UpgradeInv, Found, Sound, Rebuilt, Statement

LEMMA UpgradeCommit ==
  ASSUME UpgradeInv, at = "commit", Upgrade!Execute
  PROVE  UpgradeInv'
<1>1. at = Does(14) /\ begun \in BOOLEAN
    BY StatementTable DEF UpgradeInv
<1>2. Upgrade!Effect(at, work) = work
    BY Effects
<1>3. /\ Found(origin) /\ version \in Nat /\ version < Latest
      /\ Done /\ work.rows = origin.rows /\ Rebuilt(work)
    BY DEF UpgradeInv, Statement, Rebuilding
<1>4. /\ work' = work /\ at' = "up" /\ begun' = FALSE /\ disk' = work
      /\ UNCHANGED <<version, origin>>
    BY <1>1, <1>2, LastFollowed, Executed, 14 \in 1..14
<1>5. Sound(disk)'
    BY <1>3, <1>4 DEF Sound, Done, Rebuilt, Altering
<1> QED BY <1>3, <1>4, <1>5 DEF UpgradeInv, Found, Done, Statement

LEMMA UpgradeStep == UpgradeInv /\ [Upgrade!Next]_Upgrade!vars => UpgradeInv'
<1> SUFFICES ASSUME UpgradeInv, [Upgrade!Next]_Upgrade!vars PROVE UpgradeInv'
    OBVIOUS
<1>1. CASE Upgrade!Execute
  <2>1. at \in Statement
    <3>1. {Upgrade!Statements[i].does : i \in DOMAIN Upgrade!Statements} = Statement
        BY StatementTable, StatementNames DEF Does
    <3> QED BY <1>1, <3>1 DEF Upgrade!Execute
  <2>2. \/ at = "script" \/ at \in Altering \/ at = "spare" \/ at = "copy" \/ at = "drop"
        \/ at = "rename" \/ at = "snapshots" \/ at = "index" \/ at = "record" \/ at = "commit"
      BY <2>1 DEF Statement, Altering
  <2> QED BY <1>1, <2>2, UpgradeScript, UpgradeAlters, UpgradeSpare, UpgradeCopy, UpgradeDrop,
             UpgradeRename, UpgradeSnapshots, UpgradeIndex, UpgradeRecord, UpgradeCommit
<1>2. CASE UNCHANGED Upgrade!vars
    BY <1>2 DEF Upgrade!vars, UpgradeInv, Found, Sound, Rebuilt, Versions, Done, Rebuilding
<1> QED BY <1>1, <1>2, UpgradeGive, UpgradeStart, UpgradeCrash, UpgradeCopyFails, UpgradeScriptFails
        DEF Upgrade!Next

(* _migrate.py:20-165: cut off at any statement, by a crash or by what one  *)
(* raises, and however often, the migration leaves every row of the blocks  *)
(* table, and a server that comes up has the newest schema.                 *)
THEOREM BlocksOutliveMigration == ServicesSpec => []MigrationKept
<1> DEFINE Inv == service = "migration" => UpgradeInv
<1>1. ServicesInit => Inv
    BY UpgradeInit DEF ServicesInit
<1>2. Inv /\ [ServicesNext]_all => Inv'
    BY UpgradeFrame, UpgradeStep, ServiceStays
<1>3. UpgradeInv => Upgrade!MigrationKept
    BY DEF UpgradeInv, Sound, Shape, Rebuilt, Upgrade!MigrationKept, Upgrade!BlocksKept,
           Upgrade!UpIsMigrated
<1> QED BY <1>1, <1>2, <1>3, PTL DEF ServicesSpec, MigrationKept
----------------------------------------------------------------------------
(* ThermalWalk.  Quotients, rounding and the straight line are monotone.    *)

LEMMA Division ==
  ASSUME NEW n \in Int, NEW d \in Nat \ {0}
  PROVE  /\ n \div d \in Int /\ n % d \in 0..(d - 1)
         /\ n % d = n - d * (n \div d)
<1>1. n % d = n - d * (n \div d)
    OBVIOUS
<1>2. n \div d \in Int /\ n % d \in 0..(d - 1)
    OBVIOUS
<1> QED BY <1>1, <1>2

LEMMA QuotientAtLeast ==
  ASSUME NEW n \in Int, NEW d \in Nat \ {0}, NEW q \in Int, q * d <= n
  PROVE  q <= n \div d
<1> DEFINE p == n \div d
<1>1. p \in Int /\ n < d * p + d
    BY Division
<1> HIDE DEF p
<1>2. SUFFICES ASSUME p < q PROVE FALSE
    BY <1>1 DEF p
<1>3. d * (p + 1) <= d * q
  <2>1. q - (p + 1) \in Nat /\ d * (q - (p + 1)) >= 0
      BY <1>1, <1>2
  <2>2. d * q = d * (p + 1) + d * (q - (p + 1))
      BY <1>1
  <2> QED BY <1>1, <2>1, <2>2
<1>4. d * (p + 1) = d * p + d
    BY <1>1
<1> QED BY <1>1, <1>3, <1>4

LEMMA QuotientBelow ==
  ASSUME NEW n \in Int, NEW d \in Nat \ {0}, NEW q \in Int, n < q * d
  PROVE  n \div d < q
<1> DEFINE p == n \div d
<1>1. p \in Int /\ d * p <= n
    BY Division
<1> HIDE DEF p
<1>2. SUFFICES ASSUME q <= p PROVE FALSE
    BY <1>1 DEF p
<1>3. d * q <= d * p
  <2>1. p - q \in Nat /\ d * (p - q) >= 0
      BY <1>1, <1>2
  <2>2. d * p = d * q + d * (p - q)
      BY <1>1
  <2> QED BY <1>1, <2>1, <2>2
<1> QED BY <1>1, <1>3

LEMMA QuotientGrows ==
  ASSUME NEW m \in Int, NEW n \in Int, NEW d \in Nat \ {0}, m <= n
  PROVE  m \div d <= n \div d
<1> DEFINE p == m \div d
<1>1. p \in Int /\ p * d <= m
    BY Division
<1> HIDE DEF p
<1>2. p * d <= n
    BY <1>1
<1> QED BY <1>1, <1>2, QuotientAtLeast DEF p

LEMMA RoundingGrows ==
  ASSUME NEW m \in Int, NEW n \in Int, NEW d \in Nat \ {0}, m <= n
  PROVE  /\ Heat!RoundHalfEven(m, d) \in Int
         /\ Heat!RoundHalfEven(m, d) <= Heat!RoundHalfEven(n, d)
<1> DEFINE p == m \div d
           q == n \div d
           r == m % d
           s == n % d
<1>1. /\ p \in Int /\ q \in Int /\ r \in Int /\ s \in Int /\ p <= q
      /\ r = m - d * p /\ s = n - d * q
  <2>1. m % d = m - d * (m \div d)
      OBVIOUS
  <2>2. n % d = n - d * (n \div d)
      OBVIOUS
  <2>3. m \div d \in Int /\ n \div d \in Int /\ m % d \in Int /\ n % d \in Int
      OBVIOUS
  <2>4. m \div d <= n \div d
      BY QuotientGrows
  <2> QED BY <2>1, <2>2, <2>3, <2>4
<1>2. /\ Heat!RoundHalfEven(m, d) = IF 2 * r < d \/ (2 * r = d /\ p % 2 = 0) THEN p ELSE p + 1
      /\ Heat!RoundHalfEven(n, d) = IF 2 * s < d \/ (2 * s = d /\ q % 2 = 0) THEN q ELSE q + 1
    BY DEF Heat!RoundHalfEven
<1> HIDE DEF p, q, r, s
<1>3. CASE p < q
    BY <1>1, <1>2, <1>3
<1>4. CASE p = q
  <2>1. r <= s
      BY <1>1, <1>4
  <2> QED BY <1>1, <1>2, <1>4, <2>1
<1> QED BY <1>1, <1>3, <1>4

LEMMA RoundedNat ==
  ASSUME NEW n \in Nat, NEW d \in Nat \ {0}
  PROVE  Heat!RoundHalfEven(n, d) \in Nat
<1>1. Heat!RoundHalfEven(0, d) = 0
    BY DEF Heat!RoundHalfEven
<1> QED BY <1>1, RoundingGrows

LEMMA Products ==
  ASSUME NEW k \in Nat, NEW p \in Int, NEW q \in Int, p <= q
  PROVE  k * p \in Int /\ k * q \in Int /\ k * p <= k * q
<1>1. q - p \in Nat /\ k * (q - p) >= 0
    OBVIOUS
<1>2. k * q = k * p + k * (q - p)
    OBVIOUS
<1> QED BY <1>1, <1>2

LEMMA EasedWithin ==
  ASSUME NEW hi \in Int, NEW lo \in Int, lo <= hi, NEW x \in Int, NEW x0 \in Int, NEW x1 \in Int
  PROVE  Heat!Eased(hi, lo, x, x0, x1) \in lo..hi
<1> DEFINE n == hi * (x1 - x0) - (x - x0) * (hi - lo)
<1>1. CASE x0 < x /\ x < x1
  <2>1. n \in Int /\ x1 - x0 \in Nat \ {0}
      BY <1>1
  <2> HIDE DEF n
  <2>2. Heat!RoundHalfEven(n, x1 - x0) \in Int
      BY <2>1, RoundingGrows
  <2>3. Heat!Eased(hi, lo, x, x0, x1) = Heat!Clamp(Heat!RoundHalfEven(n, x1 - x0), lo, hi)
      BY <1>1 DEF Heat!Eased, n
  <2> QED BY <2>2, <2>3 DEF Heat!Clamp, Heat!Larger, Heat!Smaller
<1>2. CASE ~(x0 < x /\ x < x1)
    BY <1>2 DEF Heat!Eased
<1> QED BY <1>1, <1>2

(* A load eased along a line never grows as the reading does.              *)
LEMMA EasedFalls ==
  ASSUME NEW hi \in Int, NEW lo \in Int, lo <= hi, NEW x0 \in Int, NEW x1 \in Int, x0 < x1,
         NEW x \in Int, NEW y \in Int, x <= y
  PROVE  Heat!Eased(hi, lo, y, x0, x1) <= Heat!Eased(hi, lo, x, x0, x1)
<1> DEFINE n(z) == hi * (x1 - x0) - (z - x0) * (hi - lo)
<1>1. CASE x0 < x /\ y < x1
  <2>1. n(x) \in Int /\ n(y) \in Int /\ x1 - x0 \in Nat \ {0} /\ n(y) <= n(x)
    <3>1. (hi - lo) * (x - x0) <= (hi - lo) * (y - x0)
      <4>1. hi - lo \in Nat /\ x - x0 \in Int /\ y - x0 \in Int /\ x - x0 <= y - x0
          OBVIOUS
      <4> QED BY <4>1, Products
    <3> QED BY <1>1, <3>1
  <2>2. /\ Heat!Eased(hi, lo, x, x0, x1) = Heat!Clamp(Heat!RoundHalfEven(n(x), x1 - x0), lo, hi)
        /\ Heat!Eased(hi, lo, y, x0, x1) = Heat!Clamp(Heat!RoundHalfEven(n(y), x1 - x0), lo, hi)
      BY <1>1 DEF Heat!Eased
  <2> HIDE DEF n
  <2>3. /\ Heat!RoundHalfEven(n(x), x1 - x0) \in Int /\ Heat!RoundHalfEven(n(y), x1 - x0) \in Int
        /\ Heat!RoundHalfEven(n(y), x1 - x0) <= Heat!RoundHalfEven(n(x), x1 - x0)
      BY <2>1, RoundingGrows
  <2> QED BY <2>2, <2>3 DEF Heat!Clamp, Heat!Larger, Heat!Smaller
<1>2. CASE ~(x0 < x)
  <2>1. Heat!Eased(hi, lo, x, x0, x1) = hi
      BY <1>2 DEF Heat!Eased
  <2> QED BY <2>1, EasedWithin
<1>3. CASE ~(y < x1)
  <2>1. Heat!Eased(hi, lo, y, x0, x1) = lo
      BY <1>3 DEF Heat!Eased
  <2>2. Heat!Eased(hi, lo, x, x0, x1) \in lo..hi
      BY EasedWithin
  <2> QED BY <2>1, <2>2
<1> QED BY <1>1, <1>2, <1>3

(* The batch between its floor and the whole, and how it is eased.         *)
LEMMA EasedBatch ==
  ASSUME NEW batch \in Nat, batch > 1, NEW temp \in Int, NEW warn \in Int, NEW max \in Int,
         warn < max, BatchMinScale \in 50..100
  PROVE  /\ Heat!ThermalBatch(batch, temp, warn, max) \in (batch * BatchMinScale) \div 100 .. batch
         /\ temp > 0 /\ temp >= max => Heat!ThermalBatch(batch, temp, warn, max) = (batch * BatchMinScale) \div 100
         /\ temp > 0 /\ temp > warn - 5 /\ BatchMinScale < 100 =>
                Heat!ThermalBatch(batch, temp, warn, max) < batch
<1> DEFINE cool == warn - 5
           span == max - cool
           k == temp - cool
           n == (100 * span - k * (100 - BatchMinScale)) * batch
           floor == (batch * BatchMinScale) \div 100
           eased == n \div (100 * span)
<1>1. span \in Nat \ {0} /\ 100 * span \in Nat \ {0} /\ k \in Int /\ span * batch \in Nat
    OBVIOUS
<1>2. floor \in Int /\ floor * 100 <= batch * BatchMinScale /\ 1 <= floor /\ floor <= batch
  <2>1. batch * BatchMinScale \in Int /\ 1 * 100 <= batch * BatchMinScale
        /\ batch * BatchMinScale < (batch + 1) * 100
    <3>1. batch * 50 <= batch * BatchMinScale /\ batch * BatchMinScale <= batch * 100
        BY Products
    <3> QED BY <3>1
  <2> DEFINE b == batch * BatchMinScale
  <2> HIDE DEF b
  <2>2. b \in Int /\ 1 * 100 <= b /\ b < (batch + 1) * 100
      BY <2>1 DEF b
  <2>3. b \div 100 \in Int /\ 1 <= b \div 100 /\ b \div 100 <= batch
        /\ (b \div 100) * 100 <= b
      BY <2>2
  <2> QED BY <2>3 DEF b
<1>3. Heat!ThermalBatch(batch, temp, warn, max) =
        IF temp <= 0 \/ temp <= cool THEN batch
        ELSE Heat!Larger(1, IF temp >= max THEN floor ELSE eased)
    BY DEF Heat!ThermalBatch
<1>4. CASE temp > 0 /\ temp > cool /\ temp < max
  <2>1. n \in Int /\ floor * (100 * span) <= n /\ n <= batch * (100 * span)
        /\ (BatchMinScale < 100 => n < batch * (100 * span))
    <3> DEFINE c == k * (100 - BatchMinScale)
    <3>1. c \in Int /\ 0 <= c /\ c <= span * (100 - BatchMinScale)
          /\ (BatchMinScale < 100 => 0 < c)
      <4>1. 100 - BatchMinScale \in Nat /\ 1 <= k /\ k <= span
          BY <1>4
      <4>2. (100 - BatchMinScale) * 1 <= (100 - BatchMinScale) * k
            /\ (100 - BatchMinScale) * k <= (100 - BatchMinScale) * span
          BY <1>1, <4>1, Products
      <4> QED BY <1>1, <4>1, <4>2
    <3>2. span * (100 - BatchMinScale) = 100 * span - span * BatchMinScale
        BY <1>1
    <3> HIDE DEF c
    <3>3. 100 * span - c \in Int /\ span * BatchMinScale <= 100 * span - c
          /\ 100 * span - c <= 100 * span /\ (BatchMinScale < 100 => 100 * span - c <= 100 * span - 1)
        BY <1>1, <3>1, <3>2
    <3>4. /\ batch * (span * BatchMinScale) <= batch * (100 * span - c)
          /\ batch * (100 * span - c) <= batch * (100 * span)
          /\ BatchMinScale < 100 => batch * (100 * span - c) <= batch * (100 * span - 1)
      <4>1. span * BatchMinScale \in Int /\ 100 * span \in Int /\ 100 * span - 1 \in Int
          BY <1>1
      <4> QED BY <3>3, <4>1, Products
    <3>5. n = batch * (100 * span - c)
        BY <1>1, <3>3 DEF c
    <3>6. floor * (100 * span) <= batch * (span * BatchMinScale)
      <4>1. span * (floor * 100) <= span * (batch * BatchMinScale)
          BY <1>1, <1>2, Products
      <4> HIDE DEF floor
      <4> QED BY <1>1, <1>2, <4>1
    <3>7. batch * (100 * span - 1) < batch * (100 * span)
        BY <1>1
    <3> QED BY <1>1, <1>2, <3>3, <3>4, <3>5, <3>6, <3>7
  <2>2. eased \in Int /\ floor <= eased /\ eased <= batch /\ (BatchMinScale < 100 => eased < batch)
    <3> HIDE DEF n, floor, span
    <3>1. eased \in Int
        BY <1>1, <2>1, Division
    <3>2. floor <= eased
        BY <1>1, <1>2, <2>1, QuotientAtLeast
    <3>3. n < (batch + 1) * (100 * span)
        BY <1>1, <2>1
    <3>4. eased < batch + 1
        BY <1>1, <2>1, <3>3, QuotientBelow
    <3>5. BatchMinScale < 100 => eased < batch
        BY <1>1, <2>1, QuotientBelow
    <3> QED BY <3>1, <3>2, <3>4, <3>5
  <2> HIDE DEF eased, floor
  <2>3. /\ Heat!ThermalBatch(batch, temp, warn, max) \in floor..batch
        /\ BatchMinScale < 100 => Heat!ThermalBatch(batch, temp, warn, max) < batch
      BY <1>2, <1>3, <1>4, <2>2 DEF Heat!Larger
  <2> QED BY <1>4, <2>3 DEF floor
<1>5. CASE temp > 0 /\ temp >= max
  <2>1. temp > cool
      BY <1>5
  <2>2. BatchMinScale < 100 => floor < batch
    <3>1. BatchMinScale < 100 => batch * BatchMinScale < batch * 100
      <4>1. BatchMinScale < 100 => batch * BatchMinScale <= batch * 99
          BY Products
      <4>2. batch * 99 < batch * 100
          OBVIOUS
      <4> QED BY <4>1, <4>2
    <3> QED BY <3>1, QuotientBelow
  <2> HIDE DEF floor
  <2>3. /\ Heat!ThermalBatch(batch, temp, warn, max) = floor /\ floor \in floor..batch
        /\ BatchMinScale < 100 => floor < batch
      BY <1>2, <1>3, <1>5, <2>1, <2>2 DEF Heat!Larger
  <2> QED BY <2>3 DEF floor
<1>6. CASE temp <= 0 \/ temp <= cool
    BY <1>2, <1>3, <1>6
<1> QED BY <1>4, <1>5, <1>6

LEMMA BatchFalls ==
  ASSUME NEW batch \in Nat, batch > 1, NEW warn \in Int, NEW max \in Int,
         warn < max, BatchMinScale \in 50..100, NEW t \in Int, NEW u \in Int, t <= u
  PROVE  Heat!ThermalBatch(batch, u, warn, max) <= Heat!ThermalBatch(batch, t, warn, max)
<1> DEFINE cool == warn - 5
           span == max - cool
           n(z) == (100 * span - (z - cool) * (100 - BatchMinScale)) * batch
           eased(z) == n(z) \div (100 * span)
           floor == (batch * BatchMinScale) \div 100
<1>1. CASE t <= 0 \/ t <= cool
  <2>1. Heat!ThermalBatch(batch, t, warn, max) = batch
      BY <1>1 DEF Heat!ThermalBatch
  <2>2. Heat!ThermalBatch(batch, u, warn, max) \in floor..batch
      BY EasedBatch
  <2>3. floor \in Int
      BY DEF floor
  <2> HIDE DEF floor
  <2> QED BY <2>1, <2>2, <2>3
<1>2. CASE u > 0 /\ u >= max
  <2>1. Heat!ThermalBatch(batch, u, warn, max) = floor
      BY <1>2, EasedBatch
  <2>2. Heat!ThermalBatch(batch, t, warn, max) \in floor..batch
      BY EasedBatch
  <2> HIDE DEF floor
  <2> QED BY <2>1, <2>2
<1>3. CASE t > 0 /\ t > cool /\ u < max
  <2>1. /\ Heat!ThermalBatch(batch, t, warn, max) = Heat!Larger(1, eased(t))
        /\ Heat!ThermalBatch(batch, u, warn, max) = Heat!Larger(1, eased(u))
      BY <1>3 DEF Heat!ThermalBatch
  <2>2. n(t) \in Int /\ n(u) \in Int /\ n(u) <= n(t) /\ 100 * span \in Nat \ {0}
    <3>1. (100 - BatchMinScale) * (t - cool) <= (100 - BatchMinScale) * (u - cool)
      <4>1. 100 - BatchMinScale \in Nat /\ t - cool \in Int /\ u - cool \in Int
            /\ t - cool <= u - cool
          OBVIOUS
      <4> QED BY <4>1, Products
    <3> DEFINE p == 100 * span - (t - cool) * (100 - BatchMinScale)
               q == 100 * span - (u - cool) * (100 - BatchMinScale)
    <3>2. p \in Int /\ q \in Int /\ q <= p
        BY <3>1
    <3>3. n(t) = batch * p /\ n(u) = batch * q
        OBVIOUS
    <3> HIDE DEF p, q
    <3>4. batch * p \in Int /\ batch * q \in Int /\ batch * q <= batch * p
        BY <3>2, Products
    <3>5. 100 * span \in Nat \ {0}
        OBVIOUS
    <3> HIDE DEF n, span
    <3> QED BY <3>3, <3>4, <3>5
  <2> DEFINE d == 100 * span
  <2>3. eased(t) = n(t) \div d /\ eased(u) = n(u) \div d
      OBVIOUS
  <2> HIDE DEF n, d, eased
  <2>4. d \in Nat \ {0}
      BY <2>2 DEF d
  <2>5. eased(u) <= eased(t)
      BY <2>2, <2>3, <2>4, QuotientGrows
  <2>6. eased(t) \in Int /\ eased(u) \in Int
      BY <2>2, <2>3, <2>4, Division
  <2> QED BY <2>1, <2>5, <2>6 DEF Heat!Larger
<1> QED BY <1>1, <1>2, <1>3

(* Lanes between their floor and the plan, and how heat eases them.        *)
LEMMA EasedLanes ==
  ASSUME NEW lanes \in Nat \ {0}, NEW temp \in Nat, NEW warn \in Nat, NEW max \in Nat,
         warn < max, ThermalLaneMin \in Nat \ {0}
  PROVE  LET floor == Heat!Smaller(ThermalLaneMin, lanes)
         IN  /\ floor \in 1..lanes
             /\ Heat!ThermalLaneCap(lanes, temp, warn, max) \in floor..lanes
             /\ temp > 0 /\ temp >= max => Heat!ThermalLaneCap(lanes, temp, warn, max) = floor
             /\ Heat!ThermalLaneCap(lanes, temp, warn, max) < lanes => temp > 0 /\ temp > warn - 3
<1> DEFINE floor == Heat!Smaller(ThermalLaneMin, lanes)
<1>1. floor \in 1..lanes
    BY DEF Heat!Smaller
<1>2. Heat!ThermalLaneCap(lanes, temp, warn, max) =
        IF temp <= 0 THEN lanes ELSE Heat!Eased(lanes, floor, temp, warn - 3, max)
    BY DEF Heat!ThermalLaneCap
<1> HIDE DEF floor
<1>3. Heat!Eased(lanes, floor, temp, warn - 3, max) \in floor..lanes
  <2>1. floor \in Int /\ floor <= lanes /\ warn - 3 \in Int /\ lanes \in Int /\ max \in Int
        /\ temp \in Int
      BY <1>1
  <2> QED BY <2>1, EasedWithin
<1>4. temp >= max => Heat!Eased(lanes, floor, temp, warn - 3, max) = floor
    BY DEF Heat!Eased
<1>5. temp <= warn - 3 => Heat!Eased(lanes, floor, temp, warn - 3, max) = lanes
    BY DEF Heat!Eased
<1>6. /\ floor \in 1..lanes
      /\ Heat!ThermalLaneCap(lanes, temp, warn, max) \in floor..lanes
      /\ temp > 0 /\ temp >= max => Heat!ThermalLaneCap(lanes, temp, warn, max) = floor
      /\ Heat!ThermalLaneCap(lanes, temp, warn, max) < lanes => temp > 0 /\ temp > warn - 3
    BY <1>1, <1>2, <1>3, <1>4, <1>5
<1> QED BY <1>6 DEF floor

LEMMA LanesFall ==
  ASSUME NEW lanes \in Nat \ {0}, NEW warn \in Nat, NEW max \in Nat, warn < max,
         ThermalLaneMin \in Nat \ {0}, NEW t \in Nat, NEW u \in Nat, t <= u
  PROVE  Heat!ThermalLaneCap(lanes, u, warn, max) <= Heat!ThermalLaneCap(lanes, t, warn, max)
<1> DEFINE floor == Heat!Smaller(ThermalLaneMin, lanes)
<1>1. CASE t = 0
  <2>1. Heat!ThermalLaneCap(lanes, t, warn, max) = lanes
      BY <1>1 DEF Heat!ThermalLaneCap
  <2>2. floor \in 1..lanes /\ Heat!ThermalLaneCap(lanes, u, warn, max) \in floor..lanes
      BY EasedLanes
  <2> HIDE DEF floor
  <2> QED BY <2>1, <2>2
<1>2. CASE t > 0
  <2>1. /\ Heat!ThermalLaneCap(lanes, t, warn, max) = Heat!Eased(lanes, floor, t, warn - 3, max)
        /\ Heat!ThermalLaneCap(lanes, u, warn, max) = Heat!Eased(lanes, floor, u, warn - 3, max)
      BY <1>2 DEF Heat!ThermalLaneCap
  <2>2. /\ floor \in Int /\ floor <= lanes /\ warn - 3 \in Int /\ warn - 3 < max
        /\ lanes \in Int /\ max \in Int /\ t \in Int /\ u \in Int
      BY DEF Heat!Smaller
  <2> HIDE DEF floor
  <2>3. Heat!Eased(lanes, floor, u, warn - 3, max) <= Heat!Eased(lanes, floor, t, warn - 3, max)
      BY <2>2, EasedFalls
  <2> QED BY <2>1, <2>3
<1> QED BY <1>1, <1>2

LEMMA PressureLanesFall ==
  ASSUME NEW lanes \in Nat \ {0}, NEW t \in Nat, NEW u \in Nat, t <= u
  PROVE  /\ Heat!VramPressureLaneCap(lanes, t) \in 1..lanes
         /\ Heat!VramPressureLaneCap(lanes, u) <= Heat!VramPressureLaneCap(lanes, t)
<1> DEFINE floor == Heat!Smaller(ThermalLaneMin, lanes)
           eased(z) == Heat!Eased(lanes, floor, z, TargetMib, EmergencyMib)
<1>0. /\ TargetMib \in Nat /\ EmergencyMib \in Nat /\ TargetMib < EmergencyMib
      /\ ThermalLaneMin \in Nat \ {0}
    BY SettingsAssumption
<1>1. /\ floor \in 1..lanes /\ floor \in Int /\ floor <= lanes /\ lanes \in Int
      /\ t \in Int /\ u \in Int /\ TargetMib \in Int /\ EmergencyMib \in Int
    BY <1>0 DEF Heat!Smaller
<1>2. \A z \in {t, u} : Heat!VramPressureLaneCap(lanes, z) =
          IF 500 * (z - TargetMib) <= EmergencyMib - TargetMib THEN lanes ELSE eased(z)
    BY DEF Heat!VramPressureLaneCap
<1> HIDE DEF floor
<1>3. eased(t) \in 1..lanes /\ eased(u) \in 1..lanes
  <2>1. eased(t) \in floor..lanes
      BY <1>1, EasedWithin
  <2>2. eased(u) \in floor..lanes
      BY <1>1, EasedWithin
  <2> HIDE DEF eased
  <2> QED BY <1>1, <2>1, <2>2
<1>4. eased(u) <= eased(t)
    BY <1>0, <1>1, EasedFalls
<1> HIDE DEF eased
<1> QED BY <1>0, <1>2, <1>3, <1>4

LEMMA BiasedLanesFall ==
  ASSUME NEW lanes \in Nat \ {0}, NEW d \in Nat, NEW e \in Nat, d <= e
  PROVE  /\ Heat!DifficultyLaneBias(lanes, d) \in 1..lanes
         /\ Heat!DifficultyLaneBias(lanes, e) <= Heat!DifficultyLaneBias(lanes, d)
<1> DEFINE fullAt == Heat!Larger(1, (Reference * FullPackRatio) \div 100)
           eased(z) == Heat!Eased(lanes, 1, z, fullAt, Reference)
<1>0. Reference \in Nat /\ FullPackRatio \in Nat
    BY SettingsAssumption
<1>1. fullAt \in Int
  <2>1. Reference * FullPackRatio \in Int
      BY <1>0
  <2>2. (Reference * FullPackRatio) \div 100 \in Int
      BY <2>1
  <2> QED BY <2>2 DEF Heat!Larger
<1>2. \A z \in {d, e} : Heat!DifficultyLaneBias(lanes, z) = IF z >= Reference THEN 1 ELSE eased(z)
    BY DEF Heat!DifficultyLaneBias
<1> HIDE DEF fullAt
<1>3. eased(d) \in 1..lanes /\ eased(e) \in 1..lanes
    BY <1>0, <1>1, EasedWithin
<1>4. CASE fullAt < Reference
  <2>1. eased(e) <= eased(d)
      BY <1>0, <1>1, <1>4, EasedFalls
  <2> HIDE DEF eased
  <2> QED BY <1>0, <1>2, <1>3, <2>1
<1>5. CASE Reference <= fullAt
  <2>1. d < Reference => eased(d) = lanes
      BY <1>0, <1>1, <1>5 DEF Heat!Eased
  <2> HIDE DEF eased
  <2> QED BY <1>0, <1>2, <1>3, <2>1
<1> QED BY <1>0, <1>1, <1>4, <1>5

LEMMA TightenGrows ==
  ASSUME NEW d \in Nat, NEW e \in Nat, d <= e
  PROVE  Heat!Tighten(d) \in Nat /\ Heat!Tighten(d) <= Heat!Tighten(e)
<1> DEFINE low == Reference * HighDiffStart
           high == Reference * HighDiffFull
           span == Reference * (HighDiffFull - HighDiffStart)
           n(z) == MaxTighten * (100 * z - low)
           eased(z) == Heat!RoundHalfEven(n(z), span)
<1>0. /\ Reference \in Nat \ {0} /\ HighDiffStart \in Nat /\ HighDiffFull \in Nat
      /\ MaxTighten \in Nat /\ HighDiffStart < HighDiffFull
    BY SettingsAssumption
<1>1. /\ low \in Int /\ high \in Int /\ span \in Nat \ {0} /\ low + span = high
  <2>1. Reference * HighDiffFull = Reference * HighDiffStart + Reference * (HighDiffFull - HighDiffStart)
      BY <1>0
  <2>2. Reference * 1 <= Reference * (HighDiffFull - HighDiffStart)
      BY <1>0, Products
  <2> QED BY <1>0, <2>1, <2>2
<1>2. \A z \in {d, e} : Heat!Tighten(z) =
          IF 100 * z <= low THEN 0 ELSE IF 100 * z >= high THEN MaxTighten ELSE eased(z)
    BY DEF Heat!Tighten
<1> HIDE DEF low, high, span
<1>3. ASSUME NEW z \in {d, e}, low < 100 * z, 100 * z < high
      PROVE  eased(z) \in 0..MaxTighten
  <2>1. 100 * z - low \in Nat /\ 100 * z - low <= span
      BY <1>1, <1>3
  <2>2. n(z) \in Nat /\ n(z) <= MaxTighten * span
      BY <1>0, <1>1, <2>1, Products
  <2>3. eased(z) \in Nat
      BY <1>1, <2>2, RoundedNat
  <2>4. Heat!RoundHalfEven(MaxTighten * span, span) = MaxTighten
    <3> DEFINE m == MaxTighten * span
    <3>1. m \in Nat /\ MaxTighten * span <= m /\ m < (MaxTighten + 1) * span
        BY <1>0, <1>1
    <3> HIDE DEF m
    <3>2. m \div span >= MaxTighten /\ m \div span < MaxTighten + 1 /\ m \div span \in Int
      <4>1. m \in Int /\ MaxTighten \in Int /\ MaxTighten + 1 \in Int
          BY <1>0, <3>1
      <4>2. MaxTighten <= m \div span
          BY <1>1, <3>1, <4>1, QuotientAtLeast
      <4>3. m \div span < MaxTighten + 1
          BY <1>1, <3>1, <4>1, QuotientBelow
      <4>4. m \div span \in Int
          BY <1>1, <4>1, Division
      <4> QED BY <4>1, <4>2, <4>3, <4>4
    <3>3. m \div span = MaxTighten
        BY <1>0, <3>2
    <3>4. m % span = 0
        BY <1>0, <1>1, <3>1, <3>3, Division DEF m
    <3>5. Heat!RoundHalfEven(m, span) = MaxTighten
        BY <1>0, <1>1, <3>3, <3>4 DEF Heat!RoundHalfEven
    <3> QED BY <3>5 DEF m
  <2>5. MaxTighten * span \in Int
      BY <1>0, <1>1
  <2> HIDE DEF n
  <2>6. eased(z) <= Heat!RoundHalfEven(MaxTighten * span, span)
      BY <1>1, <2>2, <2>5, RoundingGrows
  <2> QED BY <1>0, <2>3, <2>4, <2>6
<1>4. eased(d) \in Int /\ eased(e) \in Int /\ eased(d) <= eased(e)
  <2>1. 100 * d - low \in Int /\ 100 * e - low \in Int /\ 100 * d - low <= 100 * e - low
      BY <1>1
  <2>2. n(d) \in Int /\ n(e) \in Int /\ n(d) <= n(e)
      BY <1>0, <2>1, Products
  <2> HIDE DEF n
  <2> QED BY <1>1, <2>2, RoundingGrows
<1> HIDE DEF eased
<1> QED BY <1>0, <1>1, <1>2, <1>3, <1>4

(* The settings, as the lemmas need them.                                  *)
LEMMA HeatSettings ==
  /\ WarnDie \in Nat /\ MaxDie \in Nat /\ WarnDie < MaxDie
  /\ WarnBoard \in Nat /\ MaxBoard \in Nat /\ WarnBoard < MaxBoard
  /\ ThermalLaneMin \in Nat \ {0} /\ BatchMinScale \in 50..100
  /\ TotalMib \in Nat /\ EmergencyMib \in Nat /\ MinHeadroomMib \in Nat /\ HeadroomMib \in Nat
<1> QED BY SettingsAssumption

LEMMA HeatFrame ==
  [ServicesNext]_all /\ service = "heat" => service' = "heat" /\ [Heat!Next]_Heat!vars
<1> QED
    BY DEF all, ServicesNext, LockRuns, HeatRuns, CpuRuns, PowerRuns, UptimeRuns, IniRuns,
       ReportRuns, BalancesRuns, UpgradeRuns, VramRuns, SnapsRuns, heat, Heat!vars

HeatInv ==
  /\ snap \in Heat!Reading
  /\ diff \in Difficulties
  /\ planned \in Planned

(* One reading is no hotter than another: the sensors the card has are the *)
(* same, and none of them shows less.                                      *)
NoHotter(s, t) ==
  /\ \A x \in {"die", "board", "hotspot"} : s[x] <= t[x] /\ (s[x] = 0 => t[x] = 0)
  /\ s.used <= t.used

Sensors(s) == s.die \in Nat /\ s.board \in Nat /\ s.hotspot \in Nat /\ s.used \in Nat

LEMMA ReadingSensors ==
  ASSUME NEW s \in Heat!Reading
  PROVE  Sensors(s)
<1> QED BY HeatAssumption DEF Heat!Reading, Sensors

LEMMA ColdestThere ==
  ASSUME NEW T \in SUBSET Nat, T # {}
  PROVE  Heat!Coldest(T) \in T
<1> QED BY LeastNat DEF Heat!Coldest

LEMMA HeatStarts == Heat!Init => HeatInv
<1> SUFFICES ASSUME Heat!Init PROVE HeatInv
    OBVIOUS
<1>1. /\ Degrees \ {0} \in SUBSET Nat /\ Degrees \ {0} # {} /\ Used \in SUBSET Nat
      /\ Used # {} /\ Difficulties \in SUBSET Nat /\ Difficulties # {} /\ 0 \in Degrees
    BY HeatAssumption, PowerAssumption
<1>2. /\ Heat!Coldest(Degrees \ {0}) \in Degrees /\ Heat!Coldest(Used) \in Used
      /\ Heat!Coldest(Difficulties) \in Difficulties
    BY <1>1, ColdestThere
<1>3. Heat!Present \subseteq Degrees
    BY <1>1, <1>2 DEF Heat!Present
<1> QED BY <1>2, <1>3 DEF Heat!Init, HeatInv, Heat!Reading

(* Every step of the walk is to a reading that is hotter, fuller or harder.*)
LEMMA HeatMoves ==
  ASSUME HeatInv, [Heat!Next]_Heat!vars
  PROVE  /\ HeatInv'
         /\ NoHotter(snap, snap') /\ diff <= diff' /\ planned' = planned
<1>0. Sensors(snap) /\ diff \in Nat
    BY ReadingSensors, PowerAssumption DEF HeatInv
<1>1. CASE Heat!Warmer
  <2>1. PICK x \in {"die", "board", "hotspot"}, t \in Degrees :
             snap[x] > 0 /\ t > snap[x] /\ snap' = [snap EXCEPT ![x] = t]
      BY <1>1 DEF Heat!Warmer
  <2>2. UNCHANGED <<diff, planned>>
      BY <1>1 DEF Heat!Warmer
  <2>3. snap' \in Heat!Reading
      BY <2>1 DEF HeatInv, Heat!Reading
  <2>4. NoHotter(snap, snap')
      BY <1>0, <2>1, HeatAssumption DEF HeatInv, Heat!Reading, NoHotter, Sensors
  <2> QED BY <1>0, <2>2, <2>3, <2>4 DEF HeatInv
<1>2. CASE Heat!Fuller
  <2>1. PICK u \in Used : u > snap.used /\ snap' = [snap EXCEPT !.used = u]
      BY <1>2 DEF Heat!Fuller
  <2>2. UNCHANGED <<diff, planned>>
      BY <1>2 DEF Heat!Fuller
  <2>3. snap' \in Heat!Reading
      BY <2>1 DEF HeatInv, Heat!Reading
  <2>4. NoHotter(snap, snap')
      BY <1>0, <2>1, HeatAssumption DEF HeatInv, Heat!Reading, NoHotter, Sensors
  <2> QED BY <1>0, <2>2, <2>3, <2>4 DEF HeatInv
<1>3. CASE Heat!Harder
  <2>1. PICK d \in Difficulties : d > diff /\ diff' = d
      BY <1>3 DEF Heat!Harder
  <2>2. NoHotter(snap, snap)
      BY <1>0 DEF NoHotter, Sensors
  <2> QED BY <1>0, <1>3, <2>1, <2>2, PowerAssumption DEF Heat!Harder, HeatInv
<1>4. CASE UNCHANGED Heat!vars
  <2>1. NoHotter(snap, snap)
      BY <1>0 DEF NoHotter, Sensors
  <2> QED BY <1>0, <1>4, <2>1 DEF Heat!vars, HeatInv
<1> QED BY <1>1, <1>2, <1>3, <1>4 DEF Heat!Next

(* What the policy takes for the temperatures of die and board.            *)
LEMMA EffectiveTemps ==
  ASSUME NEW s, Sensors(s), NEW d \in Nat
  PROVE  /\ Heat!EffectiveDie(s) \in Nat /\ Heat!EffectiveBoard(s, d) \in Nat
         /\ Heat!EffectiveDie(s) <= Heat!ControlTemp(s)
         /\ Heat!EffectiveBoard(s, d) <= Heat!ControlTemp(s) + Heat!Tighten(d)
         /\ Heat!ControlTemp(s) \in Nat /\ Heat!Tighten(d) \in Nat
         /\ Heat!PolicyTemp(s, d) \in Nat
<1>1. Heat!Tighten(d) \in Nat
    BY TightenGrows
<1>2. /\ Heat!EffectiveDie(s) \in Nat /\ Heat!EffectiveBoard(s, d) \in Nat
      /\ Heat!EffectiveDie(s) <= Heat!ControlTemp(s)
      /\ Heat!EffectiveBoard(s, d) <= Heat!ControlTemp(s) + Heat!Tighten(d)
      /\ Heat!ControlTemp(s) \in Nat
    BY <1>1 DEF Heat!EffectiveDie, Heat!EffectiveBoard, Heat!ControlTemp, Heat!Larger, Sensors
<1> QED BY <1>1, <1>2 DEF Heat!PolicyTemp

LEMMA TempsGrow ==
  ASSUME NEW s, NEW t, Sensors(s), Sensors(t), NoHotter(s, t),
         NEW d \in Nat, NEW e \in Nat, d <= e
  PROVE  /\ Heat!EffectiveDie(s) <= Heat!EffectiveDie(t)
         /\ Heat!EffectiveBoard(s, d) <= Heat!EffectiveBoard(t, e)
         /\ Heat!PolicyTemp(s, d) <= Heat!PolicyTemp(t, e)
<1>1. /\ Heat!Tighten(d) \in Nat /\ Heat!Tighten(e) \in Nat
      /\ Heat!Tighten(d) <= Heat!Tighten(e)
    BY TightenGrows
<1>2. /\ s.die <= t.die /\ s.board <= t.board /\ s.hotspot <= t.hotspot
      /\ s.die = 0 => t.die = 0
      /\ s.board = 0 => t.board = 0
      /\ s.hotspot = 0 => t.hotspot = 0
    BY DEF NoHotter
<1>3. Heat!EffectiveDie(s) <= Heat!EffectiveDie(t)
    BY <1>2 DEF Heat!EffectiveDie, Sensors
<1>4. Heat!EffectiveBoard(s, d) <= Heat!EffectiveBoard(t, e)
    BY <1>1, <1>2 DEF Heat!EffectiveBoard, Heat!Larger, Sensors
<1>5. /\ Heat!EffectiveDie(s) \in Nat /\ Heat!EffectiveBoard(s, d) \in Nat
      /\ Heat!EffectiveDie(t) \in Nat /\ Heat!EffectiveBoard(t, e) \in Nat
    BY EffectiveTemps
<1>6. Heat!PolicyTemp(s, d) <= Heat!PolicyTemp(t, e)
    BY <1>2, <1>3, <1>4, <1>5 DEF Heat!PolicyTemp, Sensors
<1> QED BY <1>3, <1>4, <1>6

(* Lanes and batch under two limits: the lower of two eased values.        *)
LEMMA BothLimits ==
  ASSUME NEW die \in Nat, NEW board \in Nat, NEW lanes \in Nat \ {0}
  PROVE  LET floor == Heat!Smaller(ThermalLaneMin, lanes)
             least == (Batch * BatchMinScale) \div 100
             cap == Heat!Smaller(Heat!ThermalLaneCap(lanes, die, WarnDie, MaxDie),
                                 Heat!ThermalLaneCap(lanes, board, WarnBoard, MaxBoard))
             batch == Heat!Smaller(Heat!ThermalBatch(Batch, die, WarnDie, MaxDie),
                                   Heat!ThermalBatch(Batch, board, WarnBoard, MaxBoard))
         IN  /\ cap \in 1..lanes /\ batch \in least..Batch
             /\ (die > 0 /\ die >= MaxDie) \/ (board > 0 /\ board >= MaxBoard) =>
                    cap = floor /\ batch = least
             /\ cap < lanes /\ BatchMinScale < 100 => batch < Batch
<1> DEFINE floor == Heat!Smaller(ThermalLaneMin, lanes)
           least == (Batch * BatchMinScale) \div 100
           c1 == Heat!ThermalLaneCap(lanes, die, WarnDie, MaxDie)
           c2 == Heat!ThermalLaneCap(lanes, board, WarnBoard, MaxBoard)
           b1 == Heat!ThermalBatch(Batch, die, WarnDie, MaxDie)
           b2 == Heat!ThermalBatch(Batch, board, WarnBoard, MaxBoard)
           cap == Heat!Smaller(c1, c2)
           batch == Heat!Smaller(b1, b2)
<1>0. /\ Batch \in Nat /\ Batch > 1 /\ BatchMinScale \in 50..100
      /\ WarnDie \in Int /\ MaxDie \in Int /\ WarnDie < MaxDie
      /\ WarnBoard \in Int /\ MaxBoard \in Int /\ WarnBoard < MaxBoard
      /\ die \in Int /\ board \in Int
    BY HeatSettings, HeatAssumption
<1>1. /\ floor \in 1..lanes /\ c1 \in floor..lanes
      /\ die > 0 /\ die >= MaxDie => c1 = floor
      /\ c1 < lanes => die > 0 /\ die > WarnDie - 3
    BY HeatSettings, EasedLanes
<1>2. /\ c2 \in floor..lanes
      /\ board > 0 /\ board >= MaxBoard => c2 = floor
      /\ c2 < lanes => board > 0 /\ board > WarnBoard - 3
    BY HeatSettings, EasedLanes
<1>3. /\ b1 \in least..Batch
      /\ die > 0 /\ die >= MaxDie => b1 = least
      /\ die > 0 /\ die > WarnDie - 5 /\ BatchMinScale < 100 => b1 < Batch
    BY <1>0, EasedBatch
<1>4. /\ b2 \in least..Batch
      /\ board > 0 /\ board >= MaxBoard => b2 = least
      /\ board > 0 /\ board > WarnBoard - 5 /\ BatchMinScale < 100 => b2 < Batch
    BY <1>0, EasedBatch
<1>5. least \in Int /\ Batch \in Nat
  <2>1. Batch * BatchMinScale \in Int
      BY HeatSettings, HeatAssumption
  <2> QED BY <2>1, HeatAssumption
<1> HIDE DEF floor, least, c1, c2, b1, b2
<1>6. cap \in floor..lanes /\ cap <= c1 /\ cap <= c2 /\ (cap = c1 \/ cap = c2)
    BY <1>1, <1>2 DEF Heat!Smaller
<1>7. batch \in least..Batch /\ batch <= b1 /\ batch <= b2 /\ (batch = b1 \/ batch = b2)
    BY <1>3, <1>4, <1>5 DEF Heat!Smaller
<1> HIDE DEF cap, batch
<1>8. /\ cap \in 1..lanes /\ batch \in least..Batch
      /\ (die > 0 /\ die >= MaxDie) \/ (board > 0 /\ board >= MaxBoard) =>
             cap = floor /\ batch = least
    BY <1>1, <1>2, <1>3, <1>4, <1>5, <1>6, <1>7
<1>9. cap < lanes /\ BatchMinScale < 100 => batch < Batch
    BY <1>1, <1>2, <1>3, <1>4, <1>5, <1>6, <1>7, HeatSettings
<1> QED BY <1>8, <1>9 DEF cap, batch, floor, least, c1, c2, b1, b2

LEMMA DeratedInOrder ==
  ASSUME HeatInv
  PROVE  Heat!DeratesInOrder
<1> DEFINE die == Heat!EffectiveDie(snap)
           board == Heat!EffectiveBoard(snap, diff)
<1>0. Sensors(snap) /\ diff \in Nat /\ planned \in Nat \ {0}
    BY ReadingSensors, PowerAssumption, HeatAssumption DEF HeatInv
<1>1. /\ die \in Nat /\ board \in Nat
      /\ die <= Heat!ControlTemp(snap)
      /\ board <= Heat!ControlTemp(snap) + Heat!Tighten(diff)
      /\ Heat!ControlTemp(snap) \in Nat /\ Heat!Tighten(diff) \in Nat
    BY <1>0, EffectiveTemps
<1>2. /\ Heat!TempEmergency(snap, diff) <=>
           ((die > 0 /\ die >= MaxDie) \/ (board > 0 /\ board >= MaxBoard))
      /\ Heat!TempWarning(snap, diff) <=>
           ((die > 0 /\ die >= WarnDie) \/ (board > 0 /\ board >= WarnBoard))
    BY DEF Heat!TempEmergency, Heat!TempWarning, Heat!AtOrAbove
<1>3. /\ Heat!LaneCapFromTemp(snap, diff, planned) =
           Heat!Smaller(Heat!ThermalLaneCap(planned, die, WarnDie, MaxDie),
                        Heat!ThermalLaneCap(planned, board, WarnBoard, MaxBoard))
      /\ Heat!BatchPerLane =
           Heat!Smaller(Heat!ThermalBatch(Batch, die, WarnDie, MaxDie),
                        Heat!ThermalBatch(Batch, board, WarnBoard, MaxBoard))
    BY DEF Heat!LaneCapFromTemp, Heat!BatchPerLane, Heat!BatchFromTemp
<1> HIDE DEF die, board
<1>4. Heat!BatchThenLanesThenStop
  <2>1. LET cap == Heat!LaneCapFromTemp(snap, diff, planned)
        IN  /\ Heat!TempEmergency(snap, diff) =>
                   /\ cap = Heat!Smaller(ThermalLaneMin, planned)
                   /\ Heat!BatchPerLane = (Batch * BatchMinScale) \div 100
            /\ cap < planned /\ BatchMinScale < 100 => Heat!BatchPerLane < Batch
    <3> DEFINE floor == Heat!Smaller(ThermalLaneMin, planned)
               least == (Batch * BatchMinScale) \div 100
               cap == Heat!Smaller(Heat!ThermalLaneCap(planned, die, WarnDie, MaxDie),
                                   Heat!ThermalLaneCap(planned, board, WarnBoard, MaxBoard))
               batch == Heat!Smaller(Heat!ThermalBatch(Batch, die, WarnDie, MaxDie),
                                     Heat!ThermalBatch(Batch, board, WarnBoard, MaxBoard))
    <3>1. /\ (die > 0 /\ die >= MaxDie) \/ (board > 0 /\ board >= MaxBoard) =>
                 cap = floor /\ batch = least
          /\ cap < planned /\ BatchMinScale < 100 => batch < Batch
        BY <1>0, <1>1, BothLimits
    <3>2. Heat!LaneCapFromTemp(snap, diff, planned) = cap /\ Heat!BatchPerLane = batch
        BY <1>3
    <3> HIDE DEF cap, batch
    <3> QED BY <1>2, <3>1, <3>2
  <2> QED BY <2>1 DEF Heat!BatchThenLanesThenStop
<1>5. Heat!NoStopBelowWarning
  <2>1. SUFFICES ASSUME Heat!ControlTemp(snap) + Heat!Tighten(diff) < Heat!Smaller(WarnDie, WarnBoard)
                 PROVE  ~Heat!TempEmergency(snap, diff) /\ ~Heat!TempWarning(snap, diff)
      BY DEF Heat!NoStopBelowWarning
  <2>2. die < WarnDie /\ board < WarnBoard
      BY <1>1, <2>1, HeatSettings DEF Heat!Smaller
  <2> QED BY <1>1, <1>2, <2>2, HeatSettings
<1> QED BY <1>4, <1>5 DEF Heat!DeratesInOrder

(* The verdict of the guard, as the number its step is compared by.        *)
LEMMA Verdict ==
  Heat!Severity = IF Heat!VramEmergency(snap) THEN 3
                  ELSE IF Heat!TempEmergency(snap, diff) THEN 2
                  ELSE IF Heat!TempWarning(snap, diff) \/ TotalMib - snap.used < HeadroomMib THEN 1
                  ELSE 0
<1> QED BY DEF Heat!Severity, Heat!Evaluate

LEMMA VerdictWorsens ==
  ASSUME HeatInv, HeatInv', NoHotter(snap, snap'), diff <= diff'
  PROVE  Heat!Severity' >= Heat!Severity
<1>0. Sensors(snap) /\ Sensors(snap') /\ diff \in Nat /\ diff' \in Nat
    BY ReadingSensors, PowerAssumption DEF HeatInv
<1>1. /\ Heat!EffectiveDie(snap) <= Heat!EffectiveDie(snap')
      /\ Heat!EffectiveBoard(snap, diff) <= Heat!EffectiveBoard(snap', diff')
    BY <1>0, TempsGrow
<1>2. /\ Heat!EffectiveDie(snap) \in Nat /\ Heat!EffectiveBoard(snap, diff) \in Nat
      /\ Heat!EffectiveDie(snap') \in Nat /\ Heat!EffectiveBoard(snap', diff') \in Nat
    BY <1>0, EffectiveTemps
<1>3. snap.used <= snap'.used
    BY DEF NoHotter
<1>4. Heat!VramEmergency(snap) => Heat!VramEmergency(snap')
    BY <1>0, <1>3, HeatSettings DEF Heat!VramEmergency, Heat!Smaller, Sensors
<1>5. /\ Heat!TempEmergency(snap, diff) => Heat!TempEmergency(snap', diff')
      /\ Heat!TempWarning(snap, diff) => Heat!TempWarning(snap', diff')
    BY <1>1, <1>2, HeatSettings DEF Heat!TempEmergency, Heat!TempWarning, Heat!AtOrAbove
<1>6. TotalMib - snap.used < HeadroomMib => TotalMib - snap'.used < HeadroomMib
    BY <1>0, <1>3, HeatSettings DEF Sensors
<1>7. Heat!Severity' = IF Heat!VramEmergency(snap') THEN 3
                  ELSE IF Heat!TempEmergency(snap', diff') THEN 2
                  ELSE IF Heat!TempWarning(snap', diff') \/ TotalMib - snap'.used < HeadroomMib THEN 1
                  ELSE 0
    BY DEF Heat!Severity, Heat!Evaluate
<1> QED BY Verdict, <1>4, <1>5, <1>6, <1>7

LEMMA LessWork ==
  ASSUME HeatInv, HeatInv', NoHotter(snap, snap'), diff <= diff', planned' = planned
  PROVE  Heat!NeverMoreWork
<1> DEFINE die == Heat!EffectiveDie(snap)
           board == Heat!EffectiveBoard(snap, diff)
           hotDie == Heat!EffectiveDie(snap')
           hotBoard == Heat!EffectiveBoard(snap', diff')
<1>0. /\ Sensors(snap) /\ Sensors(snap') /\ diff \in Nat /\ diff' \in Nat
      /\ planned \in Nat \ {0} /\ snap.used \in Nat /\ snap'.used \in Nat
      /\ snap.used <= snap'.used
    BY ReadingSensors, PowerAssumption, HeatAssumption DEF HeatInv, Sensors, NoHotter
<1>1. /\ die <= hotDie /\ board <= hotBoard
      /\ Heat!PolicyTemp(snap, diff) <= Heat!PolicyTemp(snap', diff')
    BY <1>0, TempsGrow
<1>2. /\ die \in Nat /\ board \in Nat /\ hotDie \in Nat /\ hotBoard \in Nat
      /\ Heat!PolicyTemp(snap, diff) \in Nat /\ Heat!PolicyTemp(snap', diff') \in Nat
    BY <1>0, EffectiveTemps
<1>3. /\ Heat!Lanes = Heat!Smaller(Heat!Smaller(
              Heat!Smaller(Heat!ThermalLaneCap(planned, die, WarnDie, MaxDie),
                           Heat!ThermalLaneCap(planned, board, WarnBoard, MaxBoard)),
              Heat!VramPressureLaneCap(planned, snap.used)),
              Heat!DifficultyLaneBias(planned, diff))
      /\ Heat!BatchPerLane =
           Heat!Smaller(Heat!ThermalBatch(Batch, die, WarnDie, MaxDie),
                        Heat!ThermalBatch(Batch, board, WarnBoard, MaxBoard))
    BY DEF Heat!Lanes, Heat!LaneCapFromTemp, Heat!BatchPerLane, Heat!BatchFromTemp
<1>4. /\ Heat!Lanes' = Heat!Smaller(Heat!Smaller(
              Heat!Smaller(Heat!ThermalLaneCap(planned, hotDie, WarnDie, MaxDie),
                           Heat!ThermalLaneCap(planned, hotBoard, WarnBoard, MaxBoard)),
              Heat!VramPressureLaneCap(planned, snap'.used)),
              Heat!DifficultyLaneBias(planned, diff'))
      /\ Heat!BatchPerLane' =
           Heat!Smaller(Heat!ThermalBatch(Batch, hotDie, WarnDie, MaxDie),
                        Heat!ThermalBatch(Batch, hotBoard, WarnBoard, MaxBoard))
    BY DEF Heat!Lanes, Heat!LaneCapFromTemp, Heat!BatchPerLane, Heat!BatchFromTemp
<1> HIDE DEF die, board, hotDie, hotBoard
<1>5. Heat!Lanes' <= Heat!Lanes
  <2> DEFINE c1(x) == Heat!ThermalLaneCap(planned, x, WarnDie, MaxDie)
             c2(x) == Heat!ThermalLaneCap(planned, x, WarnBoard, MaxBoard)
             c3(x) == Heat!VramPressureLaneCap(planned, x)
             c4(x) == Heat!DifficultyLaneBias(planned, x)
  <2>1. c1(hotDie) <= c1(die) /\ c2(hotBoard) <= c2(board)
    <3>1. c1(hotDie) <= c1(die)
        BY <1>0, <1>1, <1>2, HeatSettings, LanesFall
    <3>2. c2(hotBoard) <= c2(board)
        BY <1>0, <1>1, <1>2, HeatSettings, LanesFall
    <3> QED BY <3>1, <3>2
  <2>2. /\ c1(hotDie) \in Int /\ c1(die) \in Int /\ c2(hotBoard) \in Int /\ c2(board) \in Int
    <3> DEFINE floor == Heat!Smaller(ThermalLaneMin, planned)
    <3>1. c1(hotDie) \in floor..planned /\ c1(die) \in floor..planned
        BY <1>0, <1>2, HeatSettings, EasedLanes
    <3>2. c2(hotBoard) \in floor..planned /\ c2(board) \in floor..planned
        BY <1>0, <1>2, HeatSettings, EasedLanes
    <3> HIDE DEF floor, c1, c2
    <3> QED BY <3>1, <3>2
  <2>3. c3(snap'.used) <= c3(snap.used) /\ c3(snap'.used) \in Int /\ c3(snap.used) \in Int
      BY <1>0, PressureLanesFall
  <2>4. c4(diff') <= c4(diff) /\ c4(diff') \in Int /\ c4(diff) \in Int
      BY <1>0, BiasedLanesFall
  <2> HIDE DEF c1, c2, c3, c4
  <2>5. Heat!Smaller(Heat!Smaller(Heat!Smaller(c1(hotDie), c2(hotBoard)), c3(snap'.used)), c4(diff'))
        <= Heat!Smaller(Heat!Smaller(Heat!Smaller(c1(die), c2(board)), c3(snap.used)), c4(diff))
      BY <2>1, <2>2, <2>3, <2>4 DEF Heat!Smaller
  <2> QED BY <1>3, <1>4, <2>5 DEF c1, c2, c3, c4
<1>6. Heat!BatchPerLane' <= Heat!BatchPerLane
  <2> DEFINE b1(x) == Heat!ThermalBatch(Batch, x, WarnDie, MaxDie)
             b2(x) == Heat!ThermalBatch(Batch, x, WarnBoard, MaxBoard)
  <2>0. /\ Batch \in Nat /\ Batch > 1 /\ BatchMinScale \in 50..100
        /\ WarnDie \in Int /\ MaxDie \in Int /\ WarnDie < MaxDie
        /\ WarnBoard \in Int /\ MaxBoard \in Int /\ WarnBoard < MaxBoard
        /\ die \in Int /\ board \in Int /\ hotDie \in Int /\ hotBoard \in Int
      BY <1>2, HeatSettings, HeatAssumption
  <2>1. b1(hotDie) <= b1(die) /\ b2(hotBoard) <= b2(board)
    <3>1. b1(hotDie) <= b1(die)
        BY <1>1, <2>0, BatchFalls
    <3>2. b2(hotBoard) <= b2(board)
        BY <1>1, <2>0, BatchFalls
    <3> QED BY <3>1, <3>2
  <2>2. /\ b1(hotDie) \in Int /\ b1(die) \in Int /\ b2(hotBoard) \in Int /\ b2(board) \in Int
    <3> DEFINE least == (Batch * BatchMinScale) \div 100
    <3>1. b1(hotDie) \in least..Batch /\ b1(die) \in least..Batch
        BY <2>0, EasedBatch
    <3>2. b2(hotBoard) \in least..Batch /\ b2(board) \in least..Batch
        BY <2>0, EasedBatch
    <3> HIDE DEF least, b1, b2
    <3> QED BY <3>1, <3>2
  <2> HIDE DEF b1, b2
  <2>3. Heat!Smaller(b1(hotDie), b2(hotBoard)) <= Heat!Smaller(b1(die), b2(board))
      BY <2>1, <2>2 DEF Heat!Smaller
  <2> QED BY <1>3, <1>4, <2>3 DEF b1, b2
<1>7. Heat!Severity' >= Heat!Severity
    BY VerdictWorsens
<1>8. Heat!PolicyTemp(snap, diff)' >= Heat!PolicyTemp(snap, diff)
  <2>1. Heat!PolicyTemp(snap, diff)' = Heat!PolicyTemp(snap', diff')
      OBVIOUS
  <2> QED BY <1>1, <1>2, <2>1
<1> QED BY <1>5, <1>6, <1>7, <1>8 DEF Heat!NeverMoreWork

LEMMA HeatInvariant == ServicesSpec => [](service = "heat" => HeatInv)
<1>1. ServicesInit => (service = "heat" => HeatInv)
    BY HeatStarts DEF ServicesInit
<1>2. (service = "heat" => HeatInv) /\ [ServicesNext]_all => (service = "heat" => HeatInv)'
  <2> SUFFICES ASSUME service = "heat" => HeatInv, [ServicesNext]_all, service' = "heat"
               PROVE  HeatInv'
      OBVIOUS
  <2>1. service = "heat"
      BY ServiceStays
  <2>2. HeatInv /\ [Heat!Next]_Heat!vars
      BY <2>1, HeatFrame
  <2> QED BY <2>2, HeatMoves
<1> QED BY <1>1, <1>2, PTL DEF ServicesSpec

(* DeratesInOrder: with any limits and settings of the thermal policy the  *)
(* batch is eased before the lanes are, both are at their floors when the  *)
(* guard stops the card for heat (thermal_policy.py:6-8), and it does not  *)
(* stop a card whose sensors are all below the warnings.                   *)
THEOREM HeatDeratesInOrder == ServicesSpec => []DeratesInOrder
<1>1. (service = "heat" => HeatInv) => DeratesInOrder
    BY DeratedInOrder DEF DeratesInOrder
<1> QED BY <1>1, HeatInvariant, PTL

(* MoreHeatNeverMoreWork: no step to a hotter reading, a fuller card or a  *)
(* harder network gives more lanes, a larger batch, a milder verdict or a  *)
(* lower temperature for the power step (thermal_policy.py, vram_guard.py).*)
THEOREM MoreHeatLessWork == ServicesSpec => MoreHeatNeverMoreWork
<1>1. (service = "heat" => HeatInv) /\ [ServicesNext]_all
          => [service = "heat" => Heat!NeverMoreWork]_heat
  <2> SUFFICES ASSUME service = "heat" => HeatInv, [ServicesNext]_all, service = "heat"
               PROVE  Heat!NeverMoreWork
      OBVIOUS
  <2>1. HeatInv /\ [Heat!Next]_Heat!vars
      BY HeatFrame
  <2> QED BY <2>1, HeatMoves, LessWork
<1> QED BY <1>1, HeatInvariant, PTL DEF ServicesSpec, MoreHeatNeverMoreWork

----------------------------------------------------------------------------
(* The types of what the services keep, where no count is among them *)

LEMMA HeatTyped == ServicesSpec => [](service = "heat" => Heat!TypeOK)
<1>1. HeatInv => Heat!TypeOK
  <2> SUFFICES ASSUME HeatInv PROVE Heat!TypeOK
      OBVIOUS
  <2> DEFINE die == Heat!EffectiveDie(snap)
             board == Heat!EffectiveBoard(snap, diff)
             cap == Heat!Smaller(Heat!ThermalLaneCap(planned, die, WarnDie, MaxDie),
                                 Heat!ThermalLaneCap(planned, board, WarnBoard, MaxBoard))
             batch == Heat!Smaller(Heat!ThermalBatch(Batch, die, WarnDie, MaxDie),
                                   Heat!ThermalBatch(Batch, board, WarnBoard, MaxBoard))
             pressed == Heat!VramPressureLaneCap(planned, snap.used)
             biased == Heat!DifficultyLaneBias(planned, diff)
  <2>1. Sensors(snap) /\ diff \in Nat /\ planned \in Nat \ {0} /\ snap.used \in Nat
      BY ReadingSensors, PowerAssumption, HeatAssumption DEF HeatInv, Sensors
  <2>2. die \in Nat /\ board \in Nat
      BY <2>1, EffectiveTemps
  <2>3. cap \in 1..planned /\ batch \in (Batch * BatchMinScale) \div 100 .. Batch
    <3> HIDE DEF die, board
    <3> QED BY <2>1, <2>2, BothLimits
  <2>4. pressed \in 1..planned /\ biased \in 1..planned
      BY <2>1, PressureLanesFall, BiasedLanesFall
  <2>5. /\ Heat!Lanes = Heat!Smaller(Heat!Smaller(cap, pressed), biased)
        /\ Heat!BatchPerLane = batch
      BY DEF Heat!Lanes, Heat!LaneCapFromTemp, Heat!BatchPerLane, Heat!BatchFromTemp
  <2> HIDE DEF cap, batch, pressed, biased
  <2>6. Heat!Lanes \in 1..planned
      BY <2>1, <2>3, <2>4, <2>5 DEF Heat!Smaller
  <2> QED BY <2>3, <2>5, <2>6 DEF Heat!TypeOK, HeatInv
<1> QED BY <1>1, HeatInvariant, PTL

LEMMA PowerTyped == ServicesSpec => [](service = "power" => Power!TypeOK)
<1> DEFINE Inv == service = "power" => PowerInv
<1>1. ServicesInit => Inv
    BY PowerInit DEF ServicesInit
<1>2. Inv /\ [ServicesNext]_all => Inv'
    BY PowerFrame, PowerStep, ServiceStays
<1>3. PowerInv => Power!TypeOK
  <2> SUFFICES ASSUME PowerInv PROVE Power!TypeOK
      OBVIOUS
  <2>1. boost.difficulty \in Nat
      BY DEF PowerInv
  <2>2. Power!PowerTarget(boost.difficulty) \in Power!Floor..Power!Target
      BY <2>1, TargetWithin
  <2> QED BY <2>2 DEF PowerInv, Power!TypeOK
<1> QED BY <1>1, <1>2, <1>3, PTL DEF ServicesSpec

(* The clock keeps to its bound, and there is a refreshing thread just     *)
(* while a running session's tracker says so.                              *)
RefreshInv ==
  /\ tick <= LastTick
  /\ (fetch.at = "none") = ~view.refreshing
  /\ ~session.on => fetch.at = "none"

LEMMA RefreshInit == Balances!Init => RefreshInv
<1>1. 0 <= LastTick
    BY BalancesAssumption
<1> QED BY <1>1 DEF Balances!Init, RefreshInv, Balances!NoView, Balances!NoFetch

LEMMA RefreshStep == BalancesInv /\ RefreshInv /\ [Balances!Next]_Balances!vars => RefreshInv'
<1> SUFFICES ASSUME BalancesInv, RefreshInv, [Balances!Next]_Balances!vars PROVE RefreshInv'
    OBVIOUS
<1> USE DEF RefreshInv
<1>0. /\ tick \in Nat /\ LastTick \in Nat
      /\ session \in [on : BOOLEAN, count : Nat]
      /\ view = [values |-> view.values, status |-> view.status, updated |-> view.updated,
                 tried |-> view.tried, daily |-> view.daily, refreshing |-> view.refreshing]
      /\ view.refreshing \in BOOLEAN
      /\ fetch = [at |-> fetch.at, fallback |-> fetch.fallback, got |-> fetch.got,
                  noted |-> fetch.noted, since |-> fetch.since]
    BY BalancesAssumption DEF BalancesInv, BalancesTypes
<1>1. CASE Balances!Start
    BY <1>0, <1>1 DEF Balances!Start, Balances!NoView
<1>2. CASE Balances!Leave
    BY <1>0, <1>2 DEF Balances!Leave, Balances!NoView, Balances!NoFetch
<1>3. CASE Balances!Pass
    BY <1>0, <1>3 DEF Balances!Pass
<1>4. ASSUME NEW d, Balances!Refresh(d), session.on PROVE RefreshInv'
    BY <1>0, <1>4 DEF Balances!Refresh, Balances!NoFetch
<1>5. CASE Balances!DailyRefresh
  <2> DEFINE daily == IF Balances!AfterOne THEN Balances!MiningDay(tick) ELSE view.daily
  <2>1. session.on
        /\ \/ Balances!Refresh(daily)
           \/ /\ view' = [view EXCEPT !.daily = daily]
              /\ UNCHANGED <<tick, session, fetch>>
      BY <1>5 DEF Balances!DailyRefresh
  <2> HIDE DEF daily
  <2> QED BY <2>1, <1>0, <1>4
<1>6. CASE Balances!MaybeRefresh
    BY <1>6, <1>4 DEF Balances!MaybeRefresh
<1>7. CASE Balances!Begin
    BY <1>0, <1>7 DEF Balances!Begin
<1>8. CASE Balances!Fail
    BY <1>0, <1>8 DEF Balances!Fail, Balances!NoFetch
<1>9. CASE Balances!Publish
    BY <1>0, <1>9 DEF Balances!Publish, Balances!NoFetch
<1>10. ASSUME NEW answered \in BOOLEAN, Balances!FetchToken(answered) PROVE RefreshInv'
  <2>1. fetch'.at = fetch.at /\ UNCHANGED <<tick, session, view>>
      BY <1>0, <1>10 DEF Balances!FetchToken
  <2> QED BY <2>1
<1>11. ASSUME NEW s \in unrecorded, Balances!RecordSnapshot(s) PROVE RefreshInv'
    BY <1>11 DEF Balances!RecordSnapshot
<1>12. CASE UNCHANGED Balances!vars
    BY <1>12 DEF Balances!vars
<1> QED
    BY <1>1, <1>2, <1>3, <1>5, <1>6, <1>7, <1>8, <1>9, <1>10, <1>11, <1>12 DEF Balances!Next

LEMMA BalancesTyped == ServicesSpec => [](service = "balances" => Balances!TypeOK)
<1> DEFINE Inv == service = "balances" => BalancesInv /\ RefreshInv
<1>1. ServicesInit => Inv
    BY BalancesInit, RefreshInit DEF ServicesInit
<1>2. Inv /\ [ServicesNext]_all => Inv'
    BY BalancesFrame, BalancesStep, RefreshStep, ServiceStays
<1>3. BalancesInv /\ RefreshInv => Balances!TypeOK
    BY BalancesAssumption DEF BalancesInv, BalancesTypes, RefreshInv, Balances!TypeOK
<1> QED BY <1>1, <1>2, <1>3, PTL DEF ServicesSpec

LEMMA UpgradeTyped == ServicesSpec => [](service = "migration" => Upgrade!TypeOK)
<1> DEFINE Inv == service = "migration" => UpgradeInv
<1>1. ServicesInit => Inv
    BY UpgradeInit DEF ServicesInit
<1>2. Inv /\ [ServicesNext]_all => Inv'
    BY UpgradeFrame, UpgradeStep, ServiceStays
<1>3. UpgradeInv => Upgrade!TypeOK
  <2>1. {Upgrade!Statements[i].does : i \in DOMAIN Upgrade!Statements} = Statement
      BY StatementTable, StatementNames DEF Does
  <2> QED BY <2>1 DEF UpgradeInv, Sound, Shape, Upgrade!TypeOK
<1> QED BY <1>1, <1>2, <1>3, PTL DEF ServicesSpec

LEMMA LockTyped == ServicesSpec => []TypeOK
<1>1. ServicesInit => LockInv
    BY InvInit DEF ServicesInit
<1>2. TypeOK /\ [ServicesNext]_all => TypeOK'
  <2>1. [ServicesNext]_all => [Next]_vars
      BY DEF all, ServicesNext, LockRuns, HeatRuns, CpuRuns, PowerRuns, UptimeRuns, IniRuns,
         ReportRuns, BalancesRuns, UpgradeRuns, VramRuns, SnapsRuns
  <2> QED BY <2>1, TypeNext
<1>3. LockInv => TypeOK
    BY DEF LockInv
<1> QED BY <1>1, <1>2, <1>3, PTL DEF ServicesSpec
=============================================================================

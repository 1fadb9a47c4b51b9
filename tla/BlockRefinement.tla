-------------------------- MODULE BlockRefinement --------------------------
(***************************************************************************)
(* BlockPipeline implements BlockLedger: a found block, once it is in the  *)
(* log, is owed to the pool until the pool has recorded it, whatever the   *)
(* miner, its submit workers, crashes, restarts and the pool do, and for   *)
(* every set of blocks and difficulties.                                   *)
(***************************************************************************)
EXTENDS BlockPipeline_proofs

----------------------------------------------------------------------------
(* The ledger's variables as functions of the pipeline's state.            *)

Done(k) == IsLogged(k) /\ rows[k] # <<>> /\ ~IsPending(k)

Excused(k) == k \in Bogus \/ \E n \in DOMAIN rows[k] : ~CostKnown(k, rows[k][n])

Accepted(k) == \E s \in submitted[k] : SuccessStatus(s)

SameLogged == \A k \in Key : IsLogged(k)' <=> IsLogged(k)
SameDone == \A k \in Key : Done(k)' <=> Done(k)
SameAccepted == \A k \in Key : Accepted(k)' <=> Accepted(k)
SameExcused == \A k \in Key : Excused(k)' <=> Excused(k)

LedgerStep == [Ledger!LedgerNext]_(Ledger!ledgerVars)

logged == {k \in Key : IsLogged(k)}
closed == {k \in Key : Done(k)}
excused == {k \in Key : Excused(k)}

\* The ledger this is about is the one of ImplementsLedger.
LEMMA ExcusedAs ==
    /\ excused = Bogus \cup {k \in Key : \E n \in DOMAIN rows[k] :
                                          ~CostKnown(k, rows[k][n])}
    /\ excused' = Bogus \cup {k \in Key : \E n \in DOMAIN rows'[k] :
                                           ~CostKnown(k, rows[k][n])'}
  BY PipelineAssumption DEF excused, Excused

\* A step that changes none of these is none of the ledger's.
LEMMA Stutter ==
    ASSUME SameLogged, SameDone, recorded' = recorded, SameAccepted, SameExcused
    PROVE  LedgerStep
  <1>1. logged' = logged /\ closed' = closed /\ excused' = excused
    BY DEF SameLogged, SameDone, SameExcused, logged, closed, excused
  <1>2. AcceptedKeys' = AcceptedKeys
    BY DEF SameAccepted, AcceptedKeys, Accepted
  <1> QED
    BY <1>1, <1>2, ExcusedAs DEF LedgerStep, Ledger!ledgerVars, logged, closed, Done

\* The steps of the ledger, by what they change.
LEMMA Logs ==
    ASSUME NEW k \in Key, IsLogged(k)', \A j \in Key \ {k} : IsLogged(j)' <=> IsLogged(j),
           SameDone, recorded' = recorded, SameAccepted, SameExcused
    PROVE  LedgerStep
  <1>1. logged' = logged \cup {k} /\ closed' = closed /\ excused' = excused
    BY DEF SameDone, SameExcused, logged, closed, excused
  <1>2. AcceptedKeys' = AcceptedKeys
    BY DEF SameAccepted, AcceptedKeys, Accepted
  <1>3. Ledger!Log(k)
    BY <1>1, <1>2, ExcusedAs DEF Ledger!Log, logged, closed, Done
  <1> QED
    BY <1>3 DEF LedgerStep, Ledger!LedgerNext

LEMMA Books ==
    ASSUME NEW k \in Key, recorded' = recorded \cup {k},
           SameLogged, SameDone, SameAccepted, SameExcused
    PROVE  LedgerStep
  <1>1. logged' = logged /\ closed' = closed /\ excused' = excused
    BY DEF SameLogged, SameDone, SameExcused, logged, closed, excused
  <1>2. AcceptedKeys' = AcceptedKeys
    BY DEF SameAccepted, AcceptedKeys, Accepted
  <1>3. Ledger!Book(k)
    BY <1>1, <1>2, ExcusedAs DEF Ledger!Book, logged, closed, Done
  <1> QED
    BY <1>3 DEF LedgerStep, Ledger!LedgerNext

LEMMA Seals ==
    ASSUME NEW k \in Key, k \in recorded, AcceptedKeys' = AcceptedKeys \cup {k},
           SameLogged, SameDone, recorded' = recorded, SameExcused
    PROVE  LedgerStep
  <1>1. logged' = logged /\ closed' = closed /\ excused' = excused
    BY DEF SameLogged, SameDone, SameExcused, logged, closed, excused
  <1>3. Ledger!Seal(k)
    BY <1>1, ExcusedAs DEF Ledger!Seal, logged, closed, Done
  <1> QED
    BY <1>3 DEF LedgerStep, Ledger!LedgerNext

LEMMA Closes ==
    ASSUME NEW k \in Key, IsLogged(k), ~Done(k), Done(k)',
           \A j \in Key \ {k} : Done(j)' <=> Done(j),
           SameLogged, recorded' = recorded, SameExcused,
           \/ k \in recorded /\ AcceptedKeys' \in {AcceptedKeys, AcceptedKeys \cup {k}}
           \/ Excused(k) /\ AcceptedKeys' = AcceptedKeys
    PROVE  LedgerStep
  <1>1. logged' = logged /\ closed' = closed \cup {k} /\ excused' = excused
        /\ k \in logged \ closed /\ (Excused(k) <=> k \in excused)
    BY DEF SameLogged, SameExcused, logged, closed, excused
  <1>3. Ledger!Close(k)
    BY <1>1, ExcusedAs DEF Ledger!Close, logged, closed, Done
  <1> QED
    BY <1>3 DEF LedgerStep, Ledger!LedgerNext

LEMMA Requeues ==
    ASSUME NEW K \in SUBSET Key,
           \A k \in K : IsLogged(k) /\ ~Done(k)' /\ (Done(k) => k \notin AcceptedKeys),
           \A k \in Key \ K : Done(k)' <=> Done(k),
           \A k \in Key : Excused(k) => Excused(k)',
           \A k \in Key \ K : Excused(k)' => Excused(k),
           SameLogged, recorded' = recorded, SameAccepted
    PROVE  LedgerStep
  <1> DEFINE S == K \cap closed
             E == {k \in K : Excused(k)'}
  <1>1. logged' = logged /\ closed' = closed \ S /\ excused' = excused \cup E
        /\ S \in SUBSET closed /\ E \in SUBSET logged /\ S \cap AcceptedKeys = {}
    BY DEF SameLogged, logged, closed, excused
  <1>2. AcceptedKeys' = AcceptedKeys
    BY DEF SameAccepted, AcceptedKeys, Accepted
  <1> HIDE DEF S, E
  <1>3. PICK Z \in SUBSET closed, F \in SUBSET logged : Z = S /\ F = E
    BY <1>1, Zenon
  <1>4. Ledger!Requeue(Z, F)
    BY <1>1, <1>2, <1>3, ExcusedAs DEF Ledger!Requeue, logged, closed, Done
  <1>5. Ledger!LedgerNext
    BY <1>4 DEF Ledger!LedgerNext, logged, closed, Done
  <1> QED
    BY <1>5 DEF LedgerStep

\* The queue may let go of a block that is recorded, or excused.
LEMMA Settles ==
    ASSUME NEW k \in Key, Done(k) => Done(k)',
           \A j \in Key \ {k} : Done(j)' <=> Done(j),
           SameLogged, recorded' = recorded, SameExcused,
           \/ k \in recorded /\ AcceptedKeys' \in {AcceptedKeys, AcceptedKeys \cup {k}}
           \/ Excused(k) /\ AcceptedKeys' = AcceptedKeys
    PROVE  LedgerStep
  <1>1. CASE ~Done(k) /\ Done(k)'
    <2>1. IsLogged(k)
      BY <1>1 DEF Done, SameLogged
    <2> QED
      BY <1>1, <2>1, Closes
  <1>2. CASE Done(k) \/ ~Done(k)'
    <2>1. SameDone
      BY <1>2 DEF SameDone
    <2>2. CASE AcceptedKeys' = AcceptedKeys
      <3>1. SameAccepted
        BY <2>2 DEF SameAccepted, AcceptedKeys, Accepted
      <3> QED
        BY <2>1, <3>1, Stutter
    <2>3. CASE k \in recorded /\ AcceptedKeys' = AcceptedKeys \cup {k}
      BY <2>1, <2>3, Seals
    <2> QED
      BY <2>2, <2>3
  <1> QED
    BY <1>1, <1>2

----------------------------------------------------------------------------
(* Frames.                                                                 *)

LEMMA SameLog == ASSUME jsonl' = jsonl PROVE SameLogged
  BY DEF SameLogged, IsLogged

LEMMA SameTable ==
    ASSUME rows' = rows, mined' = mined, SameLogged
    PROVE  SameDone /\ SameExcused
  BY PipelineAssumption
     DEF SameLogged, SameDone, SameExcused, Done, Excused, IsPending, OpenRows,
         CostKnown, KnownCost

\* Only failed submissions are added.
LEMMA NoSuccessAdded ==
    ASSUME \A k \in Key : \A s \in submitted[k] : s \in submitted'[k],
           \A k \in Key : \A s \in submitted'[k] : SuccessStatus(s) => s \in submitted[k]
    PROVE  SameAccepted
  BY DEF SameAccepted, Accepted

\* A rewrite of rows, which closes some of them at most.
LEMMA RewrittenTable ==
    ASSUME StoreTypeOK, StoreTypeOK', RowsKept, mined' = mined, SameLogged,
           \A k \in Key : DOMAIN rows'[k] = DOMAIN rows[k]
    PROVE  /\ SameExcused
           /\ \A k \in Key : Done(k) => Done(k)'
           /\ \A k \in Key :
                 (\A n \in DOMAIN rows[k] : rows'[k][n].open = rows[k][n].open)
                   => (Done(k)' <=> Done(k))
  <1>1. SameExcused
    BY PipelineAssumption DEF SameExcused, Excused, CostKnown, KnownCost, RowsKept
  <1>2. ASSUME NEW k \in Key
        PROVE  rows'[k] = <<>> <=> rows[k] = <<>>
    <2>1. rows[k] \in Seq(Row) /\ rows'[k] \in Seq(Row)
      BY DEF StoreTypeOK
    <2> QED
      BY <2>1
  <1>3. ASSUME NEW k \in Key, Done(k)
        PROVE  Done(k)'
    BY <1>2, <1>3 DEF Done, SameLogged, IsPending, OpenRows, RowsKept
  <1>4. ASSUME NEW k \in Key, Done(k)',
               \A n \in DOMAIN rows[k] : rows'[k][n].open = rows[k][n].open
        PROVE  Done(k)
    BY <1>2, <1>4 DEF Done, SameLogged, IsPending, OpenRows
  <1> QED
    BY <1>1, <1>3, <1>4

LEMMA QuietStep ==
    ASSUME UNCHANGED <<jsonl, rows, submitted, mined, recorded>>
    PROVE  LedgerStep
  <1>1. SameLogged /\ SameDone /\ SameExcused
    BY SameLog, SameTable
  <1>2. SameAccepted
    BY DEF SameAccepted, Accepted
  <1> QED
    BY <1>1, <1>2, Stutter

\* Rows keep their status, and no success is added.
LEMMA OpenStep ==
    ASSUME StoreTypeOK, StoreTypeOK', RowsKept,
           UNCHANGED <<jsonl, mined, recorded>>,
           \A k \in Key : DOMAIN rows'[k] = DOMAIN rows[k],
           \A k \in Key : \A n \in DOMAIN rows[k] : rows'[k][n].open = rows[k][n].open,
           SameAccepted
    PROVE  LedgerStep
  <1>1. SameLogged
    BY SameLog
  <1>2. SameDone /\ SameExcused
    BY <1>1, RewrittenTable DEF SameDone
  <1> QED
    BY <1>1, <1>2, Stutter

----------------------------------------------------------------------------
(* The steps of the main thread.                                           *)

LEMMA QuietSteps ==
    ASSUME \/ World \/ Start \/ Probe \/ Resume \/ Begin
           \/ NetCheck \/ Service \/ MaxRuntime
           \/ HitInTransition \/ HitFiltered \/ HitVerified \/ HitRefresh \/ HitHeld
           \/ Flush \/ Exit \/ Crash \/ Interrupt \/ UNCHANGED vars
    PROVE  LedgerStep
  <1>1. UNCHANGED <<storeVars, mined, recorded>>
    <2>1. CASE \/ World \/ Start \/ Probe \/ Resume \/ Begin
               \/ NetCheck \/ Service \/ MaxRuntime
      BY <2>1 DEF World, PoolRetarget, NetworkFlip, WindowFlip, Poll, TransitionEnds,
            Start, Probe, Resume, Begin, NetCheck, Service, MaxRuntime, poolVars, history
    <2>2. CASE HitInTransition \/ HitFiltered \/ HitVerified \/ HitRefresh \/ HitHeld
      BY <2>2 DEF HitInTransition, HitFiltered, HitVerified, HitRefresh, HitHeld,
            poolVars, history
    <2>3. CASE Flush
      BY <2>3 DEF Flush, TryFlushHeld, TryFlush, BeginFlush, EndFlush, poolVars, history
    <2>4. CASE Exit \/ Crash \/ Interrupt \/ UNCHANGED vars
      BY <2>4 DEF Exit, Crash, Interrupt, Ended, vars, poolVars, history
    <2> QED
      BY <2>1, <2>2, <2>3, <2>4
  <1> QED
    BY <1>1, QuietStep DEF storeVars

\* A block not mined yet has no row that could tell its m=.
LEMMA MineSteps ==
    ASSUME IInv, NEW k \in Key, Mine(k) \/ AbortedBatch(k)
    PROVE  LedgerStep
  <1>1. /\ UNCHANGED <<jsonl, rows, submitted, recorded>>
        /\ mined[k] = NoCost /\ mined' = [mined EXCEPT ![k] = MiningCost]
        /\ mined \in [Key -> Difficulty \cup {NoCost}]
    BY DEF IInv, TypeOK, Mine, AbortedBatch, storeVars, poolVars
  <1>2. rows[k] = <<>> /\ \A j \in Key \ {k} : mined'[j] = mined[j]
    BY <1>1 DEF IInv, MinedOK
  <1>3. SameExcused
    <2>1. \A j \in Key \ {k} : Excused(j)' <=> Excused(j)
      BY <1>1, <1>2, PipelineAssumption DEF Excused, CostKnown, KnownCost
    <2>2. Excused(k)' <=> Excused(k)
      BY <1>1, <1>2, PipelineAssumption DEF Excused
    <2> QED
      BY <2>1, <2>2 DEF SameExcused
  <1>4. SameDone /\ SameLogged
    BY <1>1, SameLog DEF SameDone, SameLogged, Done, IsPending, OpenRows
  <1>5. SameAccepted
    BY <1>1 DEF SameAccepted, Accepted
  <1> QED
    BY <1>1, <1>3, <1>4, <1>5, Stutter

LEMMA ImportLedger ==
    ASSUME IInv, StoreTypeOK', Import
    PROVE  LedgerStep
  <1>1. /\ UNCHANGED <<jsonl, submitted, recorded, mined>>
        /\ ImportPendingFromJsonl /\ StoreTypeOK
    BY DEF IInv, TypeOK, Import, ImportPendingFromJsonl, poolVars, history
  <1> DEFINE K == {k \in Key : Unaccounted(k)}
  <1>2. SameLogged /\ SameAccepted
    BY <1>1, SameLog DEF SameAccepted, Accepted
  <1>3. \A k \in Key \ K : rows'[k] = rows[k]
    BY <1>1 DEF ImportPendingFromJsonl
  <1>4. \A k \in Key \ K : (Done(k)' <=> Done(k)) /\ (Excused(k)' <=> Excused(k))
    BY <1>1, <1>2, <1>3, PipelineAssumption
       DEF SameLogged, Done, Excused, IsPending, OpenRows, CostKnown, KnownCost
  <1>5. ASSUME NEW k \in K
        PROVE  IsLogged(k) /\ ~Done(k)' /\ k \notin AcceptedKeys
               /\ (Excused(k) => Excused(k)')
    <2>1. rows[k] \in Seq(Row) /\ ImportedRow(k).open
          /\ rows'[k] = Append(rows[k], ImportedRow(k))
      BY <1>1 DEF ImportPendingFromJsonl, StoreTypeOK, ImportedRow
    <2> DEFINE new == ImportedRow(k)
    <2>2. new.open /\ rows'[k] = Append(rows[k], new)
      BY <2>1
    <2> HIDE DEF new
    <2>3. /\ Len(rows[k]) + 1 \in DOMAIN rows'[k]
          /\ rows'[k][Len(rows[k]) + 1] = new
          /\ \A n \in DOMAIN rows[k] : n \in DOMAIN rows'[k] /\ rows'[k][n] = rows[k][n]
      BY <2>1, <2>2
    <2>4. ~Done(k)'
      BY <2>2, <2>3 DEF Done, IsPending, OpenRows
    <2>5. Excused(k) => Excused(k)'
      BY <1>1, <2>3, PipelineAssumption DEF Excused, CostKnown, KnownCost
    <2> QED
      BY <2>4, <2>5 DEF Unaccounted
  <1>6. K \in SUBSET Key
    OBVIOUS
  <1> HIDE DEF K
  <1>7. \A k \in Key : Excused(k) => Excused(k)'
    BY <1>4, <1>5
  <1> QED
    BY <1>1, <1>2, <1>4, <1>5, <1>6, <1>7, Requeues

LEMMA ReasonSteps ==
    ASSUME IInv, StoreTypeOK', Migrate \/ Shutdown
    PROVE  LedgerStep
  <1>1. /\ UNCHANGED <<jsonl, submitted, recorded, mined>> /\ StoreTypeOK
        /\ \/ MigrateRejectedPending
           \/ \E reasons \in [Key -> Reason] : MarkAllPending(reasons)
           \/ rows' = rows
    <2>1. CASE Migrate
      BY <2>1 DEF IInv, TypeOK, Migrate, MigrateRejectedPending, poolVars, history
    <2>2. CASE Shutdown
      <3>1. [k \in Key |-> IF ReadyToFlush(k) THEN ShutdownPending
                                              ELSE OutsideXuniWindow]
              \in [Key -> Reason]
        BY ConstantTypes
      <3> QED
        BY <2>2, <3>1 DEF IInv, TypeOK, Shutdown, ShutdownFlush, ShutdownDefer,
                          ShutdownIdle, MarkAllPending, storeVars, poolVars, history
    <2> QED
      BY <2>1, <2>2
  <1>2. /\ RowsKept
        /\ \A k \in Key : DOMAIN rows'[k] = DOMAIN rows[k]
        /\ \A k \in Key : \A n \in DOMAIN rows[k] : rows'[k][n].open = rows[k][n].open
    BY <1>1, MigrateKeeps, MarkAllPendingKeeps, SameRows
  <1>3. SameAccepted
    BY <1>1 DEF SameAccepted, Accepted
  <1> QED
    BY <1>1, <1>2, <1>3, OpenStep

----------------------------------------------------------------------------
(* The steps of handle_hit() that write.                                   *)

LEMMA FailedHitSteps ==
    ASSUME IInv, HitToRetry \/ HitRejected
    PROVE  LedgerStep
  <1>1. pc \in HitLabel
    BY DEF HitToRetry, HitRejected, HitLabel
  <1>2. /\ StoreTypeOK /\ hit.key \in Key /\ rows[hit.key] = <<>>
    BY <1>1, HitFacts
  <1>3. ~IsPending(hit.key)
    BY <1>2 DEF IsPending, OpenRows
  <1>4. /\ UNCHANGED <<jsonl, rows, mined, recorded>>
        /\ submitted' = [submitted EXCEPT ![hit.key] = @ \cup {hit.answer.status}]
        /\ ~SuccessStatus(hit.answer.status)
    BY <1>3 DEF HitToRetry, HitRejected, RecordDirectSubmit, LogRejection,
                SubmitAccepted, poolVars, history
  <1>5. SameAccepted
    BY <1>2, <1>4, NoSuccessAdded DEF StoreTypeOK
  <1> QED
    BY <1>4, <1>5, SameLog, SameTable, Stutter

LEMMA SubmitSteps ==
    ASSUME NEW k \in Key, \E r \in Answers(k) : Submit(k, r),
           UNCHANGED <<jsonl, rows, submitted, mined>>
    PROVE  LedgerStep
  <1>1. recorded' \in {recorded, recorded \cup {k}}
    BY DEF Submit
  <1>2. SameLogged /\ SameDone /\ SameExcused /\ SameAccepted
    BY SameLog, SameTable DEF SameAccepted, Accepted
  <1> QED
    BY <1>1, <1>2, Stutter, Books

LEMMA HitSubmitLedger ==
    ASSUME IInv, HitSubmit
    PROVE  LedgerStep
  <1>1. hit.key \in Key
    BY HitFacts DEF HitSubmit, HitLabel
  <1> QED
    BY <1>1, SubmitSteps DEF HitSubmit, storeVars, history

\* What handle_hit() confirms has no row, and the pool has recorded it.
LEMMA HitAcceptedLedger ==
    ASSUME IInv, HitAccepted
    PROVE  LedgerStep
  <1>1. pc \in HitLabel /\ pc = "answered"
    BY DEF HitAccepted, HitLabel
  <1>2. StoreTypeOK /\ hit.key \in Key /\ HandlesHit
    BY <1>1, HitFacts
  <1>3. hit.key \in recorded
    BY <1>1, <1>2 DEF IInv, HitOK, HitAccepted
  <1>4. /\ UNCHANGED <<jsonl, rows, mined, recorded>>
        /\ submitted' = [submitted EXCEPT ![hit.key] = @ \cup {hit.answer.status}]
    BY DEF HitAccepted, RecordDirectSubmit, poolVars
  <1>5. AcceptedKeys' \in {AcceptedKeys, AcceptedKeys \cup {hit.key}}
    BY <1>2, <1>4 DEF AcceptedKeys, StoreTypeOK
  <1>6. SameLogged /\ SameDone /\ SameExcused
    BY <1>4, SameLog, SameTable
  <1> QED
    BY <1>2, <1>3, <1>4, <1>5, <1>6, Settles DEF SameDone

LEMMA HitAppendLedger ==
    ASSUME IInv, HitAppend
    PROVE  LedgerStep
  <1>1. pc \in HitLabel
    BY DEF HitAppend, HitLabel
  <1>0. PICK k \in Key : k = hit.key
    BY <1>1, HitFacts
  <1>2. StoreTypeOK /\ rows[k] = <<>>
    BY <1>0, <1>1, HitFacts
  <1>3. /\ UNCHANGED <<rows, submitted, mined, recorded>>
        /\ AppendRecord(k, hit.raw, hit.cost, hit.reason)
    BY <1>0 DEF HitAppend, AppendRecord, poolVars, history
  <1>4. /\ jsonl'[k] # <<>>
        /\ \A j \in Key \ {k} : jsonl'[j] = jsonl[j]
    <2> DEFINE new == [raw |-> hit.raw, cost |-> hit.cost, reason |-> hit.reason]
    <2>1. jsonl' = [jsonl EXCEPT ![k] = Append(jsonl[k], new)]
      BY <1>3 DEF AppendRecord
    <2> HIDE DEF new
    <2>2. jsonl[k] \in Seq(Record)
      BY <1>2 DEF StoreTypeOK
    <2>3. Append(jsonl[k], new) # <<>>
      BY <2>2
    <2> QED
      BY <1>2, <2>1, <2>3 DEF StoreTypeOK
  <1>5. IsLogged(k)' /\ \A j \in Key \ {k} : IsLogged(j)' <=> IsLogged(j)
    BY <1>2, <1>4 DEF IsLogged
  <1>6. SameDone
    BY <1>2, <1>3, <1>5 DEF SameDone, Done, IsPending, OpenRows
  <1>7. SameExcused
    BY <1>3, PipelineAssumption DEF SameExcused, Excused, CostKnown, KnownCost
  <1>8. SameAccepted
    BY <1>3 DEF SameAccepted, Accepted
  <1> QED
    BY <1>2, <1>3, <1>5, <1>6, <1>7, <1>8, Logs

\* The row is the first of its block, which the log has already; it may not
\* know the m= of the block.
LEMMA HitInsertLedger ==
    ASSUME IInv, StoreTypeOK', HitInsert
    PROVE  LedgerStep
  <1>1. pc = "insert" /\ pc \in HitLabel
    BY DEF HitInsert, HitLabel
  <1>0. PICK h \in Key : h = hit.key
    BY <1>1, HitFacts
  <1>2. StoreTypeOK /\ HandlesHit /\ rows[h] = <<>> /\ IsLogged(h)
    BY <1>0, <1>1, HitFacts DEF IInv, HitOK, IsLogged
  <1>3. UNCHANGED <<jsonl, submitted, mined, recorded>>
    BY DEF HitInsert, InsertPending, poolVars, history
  <1> DEFINE new == [raw |-> hit.raw, cost |-> hit.cost, reason |-> hit.reason,
                     rejected |-> FALSE, open |-> TRUE]
  <1>4. rows' = [rows EXCEPT ![h] = Append(rows[h], new)] /\ new.open
    BY <1>0 DEF HitInsert, InsertPending
  <1> HIDE DEF new
  <1>5. /\ DOMAIN rows'[h] = {1} /\ rows'[h][1] = new
        /\ \A k \in Key \ {h} : rows'[k] = rows[k]
    <2>1. rows'[h] = Append(<<>>, new)
      BY <1>2, <1>4 DEF StoreTypeOK
    <2> QED
      BY <1>4, <2>1 DEF StoreTypeOK
  <1>6. SameLogged /\ SameAccepted
    BY <1>3, SameLog DEF SameAccepted, Accepted
  <1>7. ~Done(h)' /\ ~Done(h)
    BY <1>2, <1>4, <1>5 DEF Done, IsPending, OpenRows
  <1>8. \A k \in Key \ {h} : (Done(k)' <=> Done(k)) /\ (Excused(k)' <=> Excused(k))
    BY <1>3, <1>5, <1>6, PipelineAssumption
       DEF SameLogged, Done, Excused, IsPending, OpenRows, CostKnown, KnownCost
  <1>9. Excused(h) => Excused(h)'
    BY <1>2, PipelineAssumption DEF Excused
  <1> DEFINE K == {h}
  <1>10. /\ K \in SUBSET Key
         /\ \A k \in K : IsLogged(k) /\ ~Done(k)' /\ ~Done(k)
         /\ \A k \in Key \ K : k \in Key \ {h}
         /\ \A k \in K : k = h
    BY <1>2, <1>7
  <1> HIDE DEF K
  <1>11. \A k \in Key : Excused(k) => Excused(k)'
    BY <1>8, <1>9
  <1> QED
    BY <1>3, <1>6, <1>8, <1>10, <1>11, Requeues

----------------------------------------------------------------------------
(* The steps of a submit worker.                                           *)

LEMMA TaskFacts ==
    ASSUME IInv, NEW t \in tasks
    PROVE  /\ StoreTypeOK /\ t \in Task /\ t.key \in Key
           /\ t.row \in DOMAIN rows[t.key]
           /\ t.answer \in Response /\ t.answer.status \in Nat
  BY DEF IInv, TypeOK, TasksOK, Task, Response

\* A worker marks its row submitted.
LEMMA CloseRow ==
    ASSUME IInv, NEW t \in tasks, NEW status \in Nat,
           MarkSubmitted(t.key, t.row, status), UNCHANGED <<mined, recorded>>,
           \/ t.key \in recorded
           \/ ~SuccessStatus(status) /\ Excused(t.key)
    PROVE  LedgerStep
  <1>1. StoreTypeOK /\ t.key \in Key /\ t.row \in DOMAIN rows[t.key]
    BY TaskFacts
  <1>2. /\ StoreTypeOK' /\ RowsKept
        /\ \A j \in Key : DOMAIN rows'[j] = DOMAIN rows[j]
    BY <1>1, MarkSubmittedKeeps
  <1>3. /\ jsonl' = jsonl
        /\ submitted' = [submitted EXCEPT ![t.key] = @ \cup {status}]
        /\ \A k \in Key \ {t.key} : rows'[k] = rows[k]
    BY <1>1 DEF MarkSubmitted, StoreTypeOK
  <1>4. SameLogged
    BY <1>3, SameLog
  <1>5. /\ SameExcused
        /\ \A k \in Key : Done(k) => Done(k)'
        /\ \A k \in Key \ {t.key} : Done(k)' <=> Done(k)
    BY <1>1, <1>2, <1>3, <1>4, RewrittenTable
  <1>6. AcceptedKeys' \in {AcceptedKeys, AcceptedKeys \cup {t.key}}
        /\ (~SuccessStatus(status) => AcceptedKeys' = AcceptedKeys)
    BY <1>1, <1>3 DEF AcceptedKeys, StoreTypeOK
  <1> QED
    BY <1>1, <1>4, <1>5, <1>6, Settles

LEMMA TaskFiltersLedger ==
    ASSUME IInv, NEW t \in tasks, TaskFilters(t), UNCHANGED <<mined, recorded>>
    PROVE  LedgerStep
  <1>1. StoreTypeOK /\ t.key \in Key /\ t.row \in DOMAIN rows[t.key]
    BY TaskFacts
  <1>2. KnownCost(t.key, RowOf(t)) \in {NoCost, difficulty}
        /\ (t.key \in Bogus \/ mined[t.key] # difficulty)
        /\ MarkSubmitted(t.key, t.row, 0)
    BY DEF TaskFilters, CostMatches, Verifies
  <1>3. mined[t.key] # NoCost
    BY <1>1 DEF IInv, MinedOK
  <1>4. Excused(t.key)
    BY <1>1, <1>2, <1>3 DEF Excused, CostKnown, RowOf
  <1>5. ~SuccessStatus(0)
    BY DEF SuccessStatus
  <1> QED
    BY <1>2, <1>4, <1>5, CloseRow

LEMMA TaskOpenSteps ==
    ASSUME IInv, StoreTypeOK', NEW t \in tasks,
           \/ TaskCheck(t) /\ ~TaskFilters(t)
           \/ TaskNotAccepted(t)
    PROVE  LedgerStep
  <1>1. /\ StoreTypeOK /\ t.key \in Key /\ t.row \in DOMAIN rows[t.key]
        /\ t.answer \in Response
    BY TaskFacts
  <1> DEFINE Marks == \E reason \in Reason : MarkPendingReason(t.key, t.row, reason)
             Rejects == \E reason \in Reason :
                           RejectRow(t.key, t.row, t.answer, reason)
  <1>2. /\ UNCHANGED <<mined, recorded>>
        /\ \/ Marks
           \/ Rejects /\ ~SuccessStatus(t.answer.status)
           \/ UNCHANGED storeVars
    <2>1. CASE TaskCheck(t) /\ ~TaskFilters(t)
      BY <2>1, ConstantTypes DEF TaskCheck, TaskWaits, TaskOutsideWindow, TaskVerified,
                                 poolVars, history
    <2>2. CASE TaskNotAccepted(t)
      BY <2>2, ConstantTypes DEF TaskNotAccepted, TaskHeld, TaskFailed,
                RecordRejectionOfRow, SubmitAccepted, poolVars, history
    <2> QED
      BY <2>1, <2>2
  <1>3. CASE UNCHANGED storeVars
    BY <1>2, <1>3, QuietStep DEF storeVars
  <1>4. CASE Marks
    <2>1. /\ RowsKept /\ UNCHANGED <<jsonl, submitted>>
          /\ \A j \in Key : DOMAIN rows'[j] = DOMAIN rows[j]
          /\ \A j \in Key : \A m \in DOMAIN rows[j] : rows'[j][m].open = rows[j][m].open
      BY <1>1, <1>4, MarkPendingReasonKeeps, ReasonSameOpen DEF MarkPendingReason
    <2>2. SameAccepted
      BY <2>1 DEF SameAccepted, Accepted
    <2> QED
      BY <1>1, <1>2, <2>1, <2>2, OpenStep
  <1>5. CASE Rejects /\ ~SuccessStatus(t.answer.status)
    <2>1. /\ RowsKept /\ jsonl' = jsonl
          /\ \A j \in Key : DOMAIN rows'[j] = DOMAIN rows[j]
          /\ \A j \in Key : \A m \in DOMAIN rows[j] : rows'[j][m].open = rows[j][m].open
      <3>1. jsonl' = jsonl
        BY <1>5 DEF RejectRow
      <3> QED
        BY <1>1, <1>5, <3>1, RejectRowKeeps, ReasonSameOpen
    <2>2. SameAccepted
      BY <1>1, <1>5, NoSuccessAdded DEF RejectRow, StoreTypeOK
    <2> QED
      BY <1>1, <1>2, <2>1, <2>2, OpenStep
  <1> QED
    BY <1>2, <1>3, <1>4, <1>5

LEMMA TaskSteps ==
    ASSUME IInv, StoreTypeOK', NEW t \in tasks, TaskStep(t)
    PROVE  LedgerStep
  <1>1. CASE TaskCheck(t) /\ TaskFilters(t)
    BY <1>1, TaskFiltersLedger DEF TaskCheck, poolVars, history
  <1>2. CASE (TaskCheck(t) /\ ~TaskFilters(t)) \/ TaskNotAccepted(t)
    BY <1>2, TaskOpenSteps
  <1>3. CASE TaskSubmit(t)
    BY <1>3, TaskFacts, SubmitSteps DEF TaskSubmit, storeVars, history
  <1>4. CASE TaskAccepted(t)
    <2>1. t.key \in recorded
      BY <1>4 DEF IInv, TasksOK, TaskAccepted
    <2> QED
      BY <1>4, <2>1, TaskFacts, CloseRow DEF TaskAccepted, poolVars
  <1> QED
    BY <1>1, <1>2, <1>3, <1>4 DEF TaskStep

----------------------------------------------------------------------------
(* The theorem.                                                            *)

LEMMA InitRefines == Init => Ledger!LedgerInit
  <1> SUFFICES ASSUME Init
               PROVE  Ledger!LedgerInit
    OBVIOUS
  <1> QED
    BY PipelineAssumption
       DEF Init, StoreInit, Ledger!LedgerInit, IsLogged, AcceptedKeys

LEMMA StepRefines == IInv /\ [Next]_vars => LedgerStep
  <1> SUFFICES ASSUME IInv, [Next]_vars
               PROVE  LedgerStep
    OBVIOUS
  <1>1. StoreTypeOK'
    BY StepIInv DEF IInv, TypeOK
  <1>2. CASE World \/ Start \/ Flush \/ Exit \/ Crash \/ Interrupt \/ UNCHANGED vars
    BY <1>2, QuietSteps
  <1>3. CASE Boot
    BY <1>1, <1>3, QuietSteps, ImportLedger, ReasonSteps DEF Boot
  <1>4. CASE Loop
    BY <1>4, QuietSteps, MineSteps DEF Loop
  <1>5. CASE HandleHit
    BY <1>1, <1>5, QuietSteps, FailedHitSteps, HitSubmitLedger, HitAcceptedLedger,
       HitAppendLedger, HitInsertLedger DEF HandleHit
  <1>6. CASE \E t \in tasks : TaskStep(t)
    BY <1>1, <1>6, TaskSteps
  <1>7. CASE Shutdown
    BY <1>1, <1>7, ReasonSteps
  <1> QED
    BY <1>2, <1>3, <1>4, <1>5, <1>6, <1>7 DEF Next

\* The store, the flusher and the live path: whatever crashes, restarts,
\* lost answers and interrupted flushes do, every block written to the log
\* stays owed to the pool until the pool has recorded it or it can no longer
\* be proved to it; what the pool confirmed is never taken up again.
THEOREM PipelineImplementsLedger == Spec => ImplementsLedger
  <1>1. IInv /\ [Next]_vars => [Ledger!LedgerNext]_(Ledger!ledgerVars)
    BY StepRefines DEF LedgerStep
  <1> QED
    BY <1>1, InitRefines, Invariance, PTL DEF Spec, ImplementsLedger, Ledger!LedgerSpec

\* Lemma on the ledger: no step of it leaves a block neither owed nor settled.
LEMMA LedgerKeeps ==
    ASSUME Ledger!OwedOrSettled, [Ledger!LedgerNext]_(Ledger!ledgerVars)
    PROVE  Ledger!OwedOrSettled'
  <1> USE DEF Ledger!OwedOrSettled
  <1>1. ASSUME NEW k \in Key, Ledger!Log(k) PROVE Ledger!OwedOrSettled'
    BY <1>1 DEF Ledger!Log
  <1>2. ASSUME NEW k \in Key, Ledger!Book(k) PROVE Ledger!OwedOrSettled'
    BY <1>2 DEF Ledger!Book
  <1>3. ASSUME NEW k \in Key, Ledger!Seal(k) PROVE Ledger!OwedOrSettled'
    BY <1>3 DEF Ledger!Seal
  <1>4. ASSUME NEW k \in Key, Ledger!Close(k) PROVE Ledger!OwedOrSettled'
    BY <1>4 DEF Ledger!Close
  <1>5. ASSUME NEW S, NEW E, Ledger!Requeue(S, E) PROVE Ledger!OwedOrSettled'
    BY <1>5 DEF Ledger!Requeue
  <1>6. CASE UNCHANGED Ledger!ledgerVars
    BY <1>6 DEF Ledger!ledgerVars
  <1> QED
    BY <1>1, <1>2, <1>3, <1>4, <1>5, <1>6 DEF Ledger!LedgerNext

\* A block written to the log is in the queue, with the pool, or one that
\* cannot be proved to it: whatever crashes, restarts and lost answers do,
\* the queue loses none (block_queue/store.py, queue_flusher.py).
THEOREM NoBlockLost == Spec => []Ledger!OwedOrSettled
  <1>1. Init => Ledger!OwedOrSettled
    BY InitRefines DEF Ledger!LedgerInit, Ledger!OwedOrSettled
  <1>2. Ledger!OwedOrSettled /\ [Ledger!LedgerNext]_(Ledger!ledgerVars) => Ledger!OwedOrSettled'
    BY LedgerKeeps
  <1>3. IInv /\ [Next]_vars => [Ledger!LedgerNext]_(Ledger!ledgerVars)
    BY StepRefines DEF LedgerStep
  <1> QED
    BY <1>1, <1>2, <1>3, Invariance, PTL DEF Spec

----------------------------------------------------------------------------
(* An accepted block that is out of the queue stays out of it.             *)

\* Only mined blocks were ever submitted, and the hit in hand has not been
\* accepted: nothing but handle_hit() submits it before it is in the queue.
FreshOK ==
    /\ \A k \in Key : submitted[k] # {} => mined[k] # NoCost
    /\ hit # NoHit => hit.key \notin AcceptedKeys

LEMMA FreshFrame ==
    ASSUME FreshOK, mined' = mined, hit \in Hit \cup {NoHit},
           hit' = NoHit \/ (hit # NoHit /\ hit'.key = hit.key),
           \A k \in Key :
              \/ submitted'[k] = submitted[k]
              \/ /\ mined[k] # NoCost
                 /\ \/ hit' = NoHit
                    \/ hit.key # k
                    \/ \A s \in submitted'[k] : SuccessStatus(s) => s \in submitted[k]
    PROVE  FreshOK'
  <1>1. \A k \in Key : submitted'[k] # {} => mined'[k] # NoCost
    BY DEF FreshOK
  <1>2. ASSUME hit' # NoHit
        PROVE  hit'.key \notin AcceptedKeys'
    <2>1. PICK k \in Key : k = hit.key /\ k = hit'.key
      BY <1>2 DEF Hit
    <2>2. \A s \in submitted[k] : ~SuccessStatus(s)
      BY <1>2, <2>1 DEF FreshOK, AcceptedKeys
    <2>3. \A s \in submitted'[k] : ~SuccessStatus(s)
      BY <1>2, <2>1, <2>2
    <2> QED
      BY <2>1, <2>3 DEF AcceptedKeys
  <1> QED
    BY <1>1, <1>2 DEF FreshOK

LEMMA HitKeyKept ==
    ASSUME hit \in Hit,
           \/ HitInTransition \/ HitVerified \/ HitRefresh \/ HitSubmit \/ HitHeld
           \/ HitToRetry \/ HitRejected
    PROVE  hit' = NoHit \/ hit'.key = hit.key
  BY DEF HitInTransition, HitVerified, Prepared, HitRefresh, HitSubmit, HitHeld,
         HitToRetry, HitRejected, DoneWithHit, QueueHit, Hit

LEMMA QuietFresh ==
    ASSUME IInv, FreshOK,
           \/ World \/ Start \/ Boot \/ NetCheck \/ Service \/ MaxRuntime
           \/ HitInTransition \/ HitFiltered \/ HitVerified \/ HitRefresh \/ HitSubmit
           \/ HitHeld \/ HitAppend \/ HitInsert
           \/ Flush \/ (\E t \in tasks : TaskSubmit(t))
           \/ Shutdown \/ Exit \/ Crash \/ Interrupt \/ UNCHANGED vars
    PROVE  FreshOK'
  <1>1. hit \in Hit \cup {NoHit}
    BY DEF IInv, TypeOK
  <1>2. CASE \/ World \/ Start \/ Boot \/ NetCheck \/ Service \/ MaxRuntime
             \/ UNCHANGED vars
    <2>1. UNCHANGED <<submitted, mined, hit>>
      BY <1>2 DEF World, PoolRetarget, NetworkFlip, WindowFlip, Poll, TransitionEnds,
            Start, Boot, Import, Migrate, Probe, Resume, Begin, NetCheck, Service,
            MaxRuntime, ImportPendingFromJsonl, MigrateRejectedPending, vars,
            storeVars, procVars, history
    <2> QED
      BY <2>1 DEF FreshOK, AcceptedKeys
  <1>3. CASE HitFiltered \/ HitAppend \/ HitInsert
    <2>1. UNCHANGED <<submitted, mined>> /\ hit' \in {hit, NoHit}
      BY <1>3 DEF HitFiltered, HitAppend, HitInsert, AppendRecord, InsertPending,
            DoneWithHit, storeVars, history
    <2> QED
      BY <2>1 DEF FreshOK, AcceptedKeys
  <1>4. CASE Flush \/ (\E t \in tasks : TaskSubmit(t))
    <2>1. UNCHANGED <<submitted, mined, hit>>
      BY <1>4 DEF Flush, TryFlushHeld, TryFlush, BeginFlush, EndFlush, TaskSubmit,
            storeVars, history
    <2> QED
      BY <2>1 DEF FreshOK, AcceptedKeys
  <1>5. CASE Shutdown \/ Exit \/ Crash \/ Interrupt
    <2>1. UNCHANGED <<submitted, mined>> /\ hit' \in {hit, NoHit}
      BY <1>5 DEF Shutdown, ShutdownFlush, ShutdownDefer, ShutdownIdle, Exit, Crash,
            Interrupt, Ended, MarkAllPending, storeVars, history
    <2> QED
      BY <2>1 DEF FreshOK, AcceptedKeys
  <1>6. CASE HitInTransition \/ HitVerified \/ HitRefresh \/ HitSubmit \/ HitHeld
    <2>1. UNCHANGED <<submitted, mined>> /\ pc \in HitLabel
      BY <1>6 DEF HitInTransition, HitVerified, HitRefresh, HitSubmit, HitHeld,
            storeVars, history, HitLabel
    <2>2. hit \in Hit /\ hit # NoHit
      BY <2>1, HitFacts
    <2> QED
      BY <1>6, <2>1, <2>2, HitKeyKept, FreshFrame
  <1> QED
    BY <1>2, <1>3, <1>4, <1>5, <1>6

LEMMA MineFresh ==
    ASSUME IInv, FreshOK, NEW k \in Key, Mine(k) \/ AbortedBatch(k)
    PROVE  FreshOK'
  <1>1. /\ submitted' = submitted /\ mined[k] = NoCost
        /\ mined' = [mined EXCEPT ![k] = MiningCost]
        /\ mined \in [Key -> Difficulty \cup {NoCost}]
        /\ hit' = hit \/ hit'.key = k
    BY DEF IInv, TypeOK, Mine, AbortedBatch, storeVars
  <1>2. MiningCost # NoCost
    BY PipelineAssumption, DifficultyAssumption DEF IInv, TypeOK, MiningCost, NoCost
  <1>3. submitted[k] = {}
    BY <1>1 DEF FreshOK
  <1>4. \A j \in Key : submitted'[j] # {} => mined'[j] # NoCost
    BY <1>1, <1>2 DEF FreshOK
  <1>5. hit' # NoHit => hit'.key \notin AcceptedKeys'
    BY <1>1, <1>3 DEF FreshOK, AcceptedKeys
  <1> QED
    BY <1>4, <1>5 DEF FreshOK

LEMMA AnsweredFresh ==
    ASSUME IInv, FreshOK, HitAccepted \/ HitToRetry \/ HitRejected
    PROVE  FreshOK'
  <1>1. pc \in HitLabel /\ mined' = mined
    BY DEF HitAccepted, HitToRetry, HitRejected, HitLabel, history
  <1>2. /\ StoreTypeOK /\ hit \in Hit /\ hit # NoHit /\ hit.key \in Key
        /\ rows[hit.key] = <<>> /\ mined[hit.key] # NoCost
    BY <1>1, HitFacts
  <1>3. ~IsPending(hit.key)
    BY <1>2 DEF IsPending, OpenRows
  <1>4. submitted' = [submitted EXCEPT ![hit.key] = @ \cup {hit.answer.status}]
    BY <1>3 DEF HitAccepted, HitToRetry, HitRejected, RecordDirectSubmit, LogRejection
  <1>5. hit' = NoHit \/ (hit'.key = hit.key /\ ~SuccessStatus(hit.answer.status))
    BY <1>2, HitKeyKept DEF HitAccepted, DoneWithHit, HitToRetry, HitRejected, SubmitAccepted
  <1> QED
    BY <1>1, <1>2, <1>4, <1>5, FreshFrame DEF StoreTypeOK

\* The rows of a flush are those of other blocks than the hit in hand.
LEMMA TaskFresh ==
    ASSUME IInv, FreshOK, NEW t \in tasks,
           TaskCheck(t) \/ TaskAccepted(t) \/ TaskNotAccepted(t)
    PROVE  FreshOK'
  <1>1. /\ StoreTypeOK /\ t.key \in Key /\ t.row \in DOMAIN rows[t.key]
        /\ hit \in Hit \cup {NoHit}
    BY TaskFacts DEF IInv, TypeOK
  <1>2. rows[t.key] # <<>> /\ mined[t.key] # NoCost
    <2>1. rows[t.key] # <<>>
      BY <1>1
    <2> QED
      BY <1>1, <2>1 DEF IInv, MinedOK
  <1>3. hit # NoHit => hit.key # t.key
    BY <1>2 DEF IInv, HitOK
  <1>4. UNCHANGED <<mined, hit>>
    BY DEF TaskCheck, TaskAccepted, TaskNotAccepted, history
  <1>5. \A k \in Key \ {t.key} : submitted'[k] = submitted[k]
    BY <1>1 DEF TaskCheck, TaskWaits, TaskFilters, TaskOutsideWindow, TaskVerified,
           TaskAccepted, TaskNotAccepted, TaskHeld, TaskFailed, MarkSubmitted,
           MarkPendingReason, RecordRejectionOfRow, RejectRow, storeVars, StoreTypeOK
  <1> QED
    BY <1>1, <1>2, <1>3, <1>4, <1>5, FreshFrame

LEMMA FreshInvariance == Spec => [](IInv /\ FreshOK)
  <1>1. Init => FreshOK
    BY DEF Init, StoreInit, FreshOK
  <1>2. IInv /\ FreshOK /\ [Next]_vars => FreshOK'
    <2> SUFFICES ASSUME IInv, FreshOK, [Next]_vars
                 PROVE  FreshOK'
      OBVIOUS
    <2>1. CASE Loop
      BY <2>1, QuietFresh, MineFresh DEF Loop
    <2>2. CASE HandleHit
      BY <2>2, QuietFresh, AnsweredFresh DEF HandleHit
    <2>3. CASE \E t \in tasks : TaskStep(t)
      BY <2>3, QuietFresh, TaskFresh DEF TaskStep
    <2>4. CASE \/ World \/ Start \/ Boot \/ Flush \/ Shutdown \/ Exit \/ Crash
               \/ Interrupt \/ UNCHANGED vars
      BY <2>4, QuietFresh
    <2> QED
      BY <2>1, <2>2, <2>3, <2>4 DEF Next
  <1> QED
    BY <1>1, <1>2, InitIInv, StepIInv, PTL DEF Spec

\* Every other step rewrites rows at most, and opens none.
LEMMA RowsRewritten ==
    ASSUME IInv, [Next]_vars, ~Import, ~HitInsert
    PROVE  RowsKept /\ \A j \in Key : DOMAIN rows'[j] = DOMAIN rows[j]
  <1>1. StoreTypeOK
    BY DEF IInv, TypeOK
  <1>2. CASE rows' = rows
    BY <1>2, SameRows
  <1>3. CASE World \/ Start \/ Flush \/ Exit \/ Crash \/ Interrupt \/ UNCHANGED vars
    <2>1. rows' = rows
      BY <1>3 DEF World, PoolRetarget, NetworkFlip, WindowFlip, Poll, TransitionEnds,
            Start, Flush, TryFlushHeld, TryFlush, BeginFlush, EndFlush, Exit, Crash,
            Interrupt, Ended, vars, storeVars
    <2> QED
      BY <2>1, <1>2
  <1>4. CASE Loop
    <2>1. rows' = rows
      BY <1>4 DEF Loop, NetCheck, Service, Mine, AbortedBatch, MaxRuntime, storeVars
    <2> QED
      BY <2>1, <1>2
  <1>5. CASE HandleHit
    <2>1. pc \in HitLabel
      BY <1>5 DEF HandleHit, HitInTransition, HitFiltered, HitVerified, HitRefresh,
            HitSubmit, HitAccepted, HitToRetry, HitHeld, HitRejected, HitAppend,
            HitInsert, HitLabel
    <2>2. ~IsPending(hit.key)
      BY <2>1, HitFacts DEF IsPending, OpenRows
    <2>3. rows' = rows
      BY <1>5, <2>2 DEF HandleHit, HitInTransition, HitFiltered, HitVerified, HitRefresh,
            HitSubmit, HitAccepted, HitToRetry, HitHeld, HitRejected, HitAppend,
            RecordDirectSubmit, LogRejection, AppendRecord, storeVars
    <2> QED
      BY <2>3, <1>2
  <1>6. CASE Boot
    <2>1. CASE Migrate
      BY <1>1, <2>1, MigrateKeeps DEF Migrate
    <2>2. CASE Probe \/ Resume \/ Begin
      BY <1>2, <2>2 DEF Probe, Resume, Begin, storeVars
    <2> QED
      BY <1>6, <2>1, <2>2 DEF Boot
  <1>7. CASE Shutdown
    <2>1. CASE ShutdownDefer
      <3> DEFINE reasons == [k \in Key |-> IF ReadyToFlush(k) THEN ShutdownPending
                                                            ELSE OutsideXuniWindow]
      <3>1. reasons \in [Key -> Reason] /\ MarkAllPending(reasons)
        BY <2>1, ConstantTypes DEF ShutdownDefer
      <3> HIDE DEF reasons
      <3> QED
        BY <1>1, <3>1, MarkAllPendingKeeps
    <2>2. CASE ShutdownFlush \/ ShutdownIdle
      BY <1>2, <2>2 DEF ShutdownFlush, ShutdownIdle, storeVars
    <2> QED
      BY <1>7, <2>1, <2>2 DEF Shutdown
  <1>8. CASE \E t \in tasks : TaskStep(t)
    <2>1. PICK t \in tasks : TaskStep(t)
      BY <1>8
    <2>2. /\ t.key \in Key /\ t.row \in DOMAIN rows[t.key]
          /\ t.answer \in Response /\ t.answer.status \in Nat
      BY TaskFacts
    <2>3. \/ rows' = rows
          \/ \E status \in {0, t.answer.status} : MarkSubmitted(t.key, t.row, status)
          \/ \E reason \in Reason : \/ MarkPendingReason(t.key, t.row, reason)
                                    \/ RejectRow(t.key, t.row, t.answer, reason)
      BY <2>1, ConstantTypes
         DEF TaskStep, TaskCheck, TaskWaits, TaskFilters, TaskOutsideWindow,
             TaskVerified, TaskSubmit, TaskAccepted, TaskNotAccepted, TaskHeld,
             TaskFailed, RecordRejectionOfRow, storeVars
    <2> QED
      BY <1>1, <1>2, <2>2, <2>3, MarkSubmittedKeeps, MarkPendingReasonKeeps,
         RejectRowKeeps
  <1> QED
    BY <1>3, <1>4, <1>5, <1>6, <1>7, <1>8 DEF Next

\* A row is opened only by enqueue() and by the import at start.
LEMMA RowsOpened ==
    ASSUME IInv, [Next]_vars, NEW k \in Key, ~IsPending(k), IsPending(k)'
    PROVE  \/ Unaccounted(k)
           \/ hit # NoHit /\ k = hit.key
  <1>1. StoreTypeOK /\ StoreTypeOK'
    BY StepIInv DEF IInv, TypeOK
  <1>2. CASE Import
    BY <1>2 DEF Import, ImportPendingFromJsonl, IsPending, OpenRows
  <1>3. CASE HitInsert
    <2>1. pc \in HitLabel
      BY <1>3 DEF HitInsert, HitLabel
    <2>2. PICK h \in Key : h = hit.key /\ hit # NoHit
      BY <2>1, HitFacts
    <2>3. k # h => rows'[k] = rows[k]
      BY <1>1, <1>3, <2>2 DEF HitInsert, InsertPending, StoreTypeOK
    <2> QED
      BY <2>2, <2>3 DEF IsPending, OpenRows
  <1>4. CASE ~Import /\ ~HitInsert
    <2>1. RowsKept /\ \A j \in Key : DOMAIN rows'[j] = DOMAIN rows[j]
      BY <1>4, RowsRewritten
    <2> QED
      BY <2>1 DEF IsPending, OpenRows, RowsKept
  <1> QED
    BY <1>2, <1>3, <1>4

\* record_direct_submit(), mark_submitted() and the import at start: a block
\* with a success status that is out of the queue is never put into it
\* again, by no session and in no order of its writes.
THEOREM AcceptedBlocksStayOut == Spec => AcceptedNeverRequeued
  <1>1. IInv /\ FreshOK /\ [Next]_vars =>
          [\A k \in Key : (SuccessOnRecord(k) /\ ~IsPending(k)) => ~IsPending(k)']_vars
    <2> SUFFICES ASSUME IInv, FreshOK, [Next]_vars, NEW k \in Key,
                        SuccessOnRecord(k), ~IsPending(k), IsPending(k)'
                 PROVE  FALSE
      OBVIOUS
    <2>1. k \in AcceptedKeys
      BY DEF SuccessOnRecord, AcceptedKeys, SuccessStatus
    <2> QED
      BY <2>1, RowsOpened DEF Unaccounted, FreshOK
  <1> QED
    BY <1>1, FreshInvariance, PTL DEF Spec, AcceptedNeverRequeued
=============================================================================

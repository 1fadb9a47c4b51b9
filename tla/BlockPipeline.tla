--------------------------- MODULE BlockPipeline ---------------------------
(***************************************************************************)
(* From a found block to the pool's ledger: the main thread of             *)
(* core/supervisor.py (handle_hit, refresh_network, the queue service,     *)
(* start-up and graceful shutdown), the worker threads of the submit pool  *)
(* that run QueueFlusher._prepare_row (block_queue/flush.py), the durable  *)
(* store (module BlockStore), and around them the pool, its difficulty,    *)
(* the network, the XUNI window, crashes and Ctrl+C.                       *)
(*                                                                         *)
(* pc is the point the main thread has reached, and stack the points it    *)
(* returns to when a nested flush ends: refresh_network flushes when the   *)
(* network recovers, and it is called by the flush itself.                 *)
(***************************************************************************)
EXTENDS BlockStore

CONSTANTS Xuni,          \* the keys of XUNI blocks; the others are XNM/XBLK
          Bogus,         \* GPU matches the CPU re-hash does not confirm
          MemoryCost,    \* settings.memory_cost, the fallback difficulty
          Native,        \* TRUE: CUDA backend, FALSE: CPU backend
          PoolErrors,    \* answers the pool may give whatever the block is
          MaxSessions,   \* bound: sessions the miner is started for
          NoHit

ASSUME PipelineAssumption ==
    /\ Xuni \subseteq Key
    /\ Bogus \subseteq Key
    /\ MemoryCost \in Difficulty
    /\ Native \in BOOLEAN
    /\ PoolErrors \subseteq {GatewayTimeout, Refused}
    /\ MaxSessions \in Nat
    /\ ~Native => Bogus = {}

VARIABLES
  (* The pool and the world. *)
    poolDiff,    \* the pool's difficulty
    online,      \* the pool can be reached
    inWindow,    \* the clock is in the XUNI window
    recorded,    \* the keys the pool has recorded
  (* The miner process; lost when it ends. *)
    pc, stack,
    difficulty,  \* _network_difficulty, which the CUDA backend mines at
    settling,    \* _in_difficulty_transition()
    netOk,       \* _network_ok
    wasDown,     \* _last_network_log_ok is False
    polled,      \* the difficulty of the poller's last status, NoCost if none
    shutting,    \* _shutting_down
    hit,         \* the hit handle_hit is working on
    tasks,       \* the submit pool's _prepare_row calls
  (* History. *)
    mined,       \* the m= each block was mined at, NoCost before that
    credited,    \* blocks local_stats.record_accept() has counted
    acked,       \* blocks whose acceptance the miner has written down
    lost,        \* hits that went down with the main thread or a batch
    session

poolVars == <<poolDiff, online, inWindow, recorded>>
netVars  == <<difficulty, settling, netOk, wasDown>>
procVars == <<pc, stack, difficulty, settling, netOk, wasDown, polled,
              shutting, hit, tasks>>
history  == <<mined, credited, acked, lost, session>>
vars     == <<storeVars, poolVars, procVars, history>>

BootLabel  == {"import", "migrate", "probe", "resume", "begin"}
HitLabel   == {"hit", "refresh", "send", "answered", "append", "insert"}
FlushLabel == {"tryflush", "flush", "flushing"}
Label == {"off", "loop", "stop", "exit"} \cup BootLabel \cup HitLabel \cup FlushLabel

Hit == [key : Key, raw : BOOLEAN, cost : Difficulty \cup {NoCost},
        reason : Reason, answer : Response]

ASSUME NoHitAssumption == NoHit \notin Hit

\* Of the outcomes of a row, only a flushed one is of any consequence.
Finished == {"flushed", "over"}

\* A _prepare_row call: the row, on_shutdown, and how far it has come.
Task == [key : Key, row : Nat \ {0}, shutdown : BOOLEAN,
         phase : {"queued", "sending", "answered"} \cup Finished,
         answer : Response]

TypeOK ==
    /\ StoreTypeOK
    /\ poolDiff \in Difficulty
    /\ online \in BOOLEAN
    /\ inWindow \in BOOLEAN
    /\ recorded \subseteq Key
    /\ pc \in Label
    /\ stack \in Seq(Label)
    /\ difficulty \in Difficulty
    /\ settling \in BOOLEAN
    /\ netOk \in BOOLEAN
    /\ wasDown \in BOOLEAN
    /\ polled \in Difficulty \cup {NoCost}
    /\ shutting \in BOOLEAN
    /\ hit \in Hit \cup {NoHit}
    /\ tasks \subseteq Task
    /\ mined \in [Key -> Difficulty \cup {NoCost}]
    /\ credited \subseteq Key
    /\ acked \subseteq Key
    /\ lost \subseteq Key
    /\ session \in Nat

----------------------------------------------------------------------------
(* The block itself. *)

\* Mutant: a check that forgets the m= of the hash.
VerifiesAtAnyCost(k, m) == k \notin Bogus

\* prepare_hit_for_submit(): an encoded hash must carry this m=, and a raw
\* hash must be found in the hash computed with it.
Verifies(k, m) == k \notin Bogus /\ mined[k] = m

\* row.get("memory_cost") or memory_cost_from_hash(hash_str)
KnownCost(k, r) == IF r.cost # NoCost THEN r.cost
                   ELSE IF r.raw THEN NoCost ELSE mined[k]

\* ready_to_flush()
ReadyToFlush(k) == k \in Xuni => inWindow

AnyPending == \E k \in Key : IsPending(k)

\* The blocks a start or a shutdown would submit at this minute.
AnyToSend == \E k \in Key : IsPending(k) /\ ReadyToFlush(k)

PoolStatus == IF online THEN poolDiff ELSE NoCost

\* The answers to a submission of k, for which the pool records the block
\* only when it confirms it or when its confirmation is lost on the way.
PoolStores(k) == online /\ k \notin Bogus /\ mined[k] = poolDiff /\ ReadyToFlush(k)

Answers(k) ==
    {NoAnswer}
      \cup (IF online THEN PoolErrors ELSE {})
      \cup (IF online /\ k \in recorded THEN {AlreadyExists} ELSE {})
      \cup (IF online /\ mined[k] # poolDiff THEN {WrongM} ELSE {})
      \cup (IF online /\ k \in Bogus THEN {Refused} ELSE {})
      \cup (IF online /\ ~ReadyToFlush(k) THEN {OutOfWindow} ELSE {})
      \cup (IF PoolStores(k) /\ k \notin recorded THEN {Stored} ELSE {})

\* Submitter.submit(): one POST, with the pool's handling of it.
Submit(k, r) ==
    /\ r \in Answers(k)
    /\ \/ r = Stored /\ recorded' = recorded \cup {k}
       \/ r = NoAnswer /\ PoolStores(k) /\ recorded' = recorded \cup {k}
       \/ r # Stored /\ recorded' = recorded

----------------------------------------------------------------------------
(* The pool, the clock, the network and the poller thread. *)

PoolRetarget ==
    /\ \E d \in Difficulty \ {poolDiff} : poolDiff' = d
    /\ UNCHANGED <<storeVars, online, inWindow, recorded, procVars, history>>

NetworkFlip ==
    /\ online' = ~online
    /\ UNCHANGED <<storeVars, poolDiff, inWindow, recorded, procVars, history>>

\* Without an XUNI block the window decides nothing.
WindowFlip ==
    /\ Xuni # {}
    /\ inWindow' = ~inWindow
    /\ UNCHANGED <<storeVars, poolDiff, online, recorded, procVars, history>>

\* NetworkPoller publishes a new status.
Poll ==
    /\ pc \notin {"off", "import", "migrate"}
    /\ polled # PoolStatus
    /\ polled' = PoolStatus
    /\ UNCHANGED <<storeVars, poolVars, pc, stack, netVars, shutting, hit, tasks,
                   history>>

\* time.time() reaches _defer_submit_until.
TransitionEnds ==
    /\ settling
    /\ settling' = FALSE
    /\ UNCHANGED <<storeVars, poolVars, pc, stack, difficulty, netOk, wasDown,
                   polled, shutting, hit, tasks, history>>

----------------------------------------------------------------------------
(* refresh_network(), up to the flush on recovery that it may run: status  *)
(* is the difficulty of the status it works on.                            *)

NetworkDownSeen(status) ==
    /\ status = NoCost
    /\ netOk' = FALSE
    /\ wasDown' = TRUE
    /\ UNCHANGED <<difficulty, settling>>

\* Mutant: every status begins a transition.
NetworkUpSeenSettles(status) ==
    /\ status # NoCost
    /\ netOk' = TRUE
    /\ wasDown' = FALSE
    /\ difficulty' = status
    /\ settling' = TRUE

\* A difficulty other than the known one begins a transition.
NetworkUpSeen(status) ==
    /\ status # NoCost
    /\ netOk' = TRUE
    /\ wasDown' = FALSE
    /\ difficulty' = status
    /\ settling' = (settling \/ status # difficulty)

Recovers == wasDown /\ AnyPending

\* Return to the caller after a refresh that saw the network up; a recovery
\* runs _try_flush_pending_queue before that.
ContinueAt(label) ==
    IF Recovers THEN pc' = "tryflush" /\ stack' = <<label>> \o stack
                ELSE pc' = label /\ UNCHANGED stack

Return == pc' = Head(stack) /\ stack' = Tail(stack)

----------------------------------------------------------------------------
(* Session start: run() up to its loop. *)

Start ==
    /\ pc = "off"
    /\ session < MaxSessions
    /\ session' = session + 1
    /\ pc' = "import"
    /\ UNCHANGED <<storeVars, poolVars, stack, netVars, polled, shutting, hit,
                   tasks, mined, credited, acked, lost>>

Import ==
    /\ pc = "import"
    /\ ImportPendingFromJsonl
    /\ pc' = "migrate"
    /\ UNCHANGED <<poolVars, stack, netVars, polled, shutting, hit, tasks, history>>

Migrate ==
    /\ pc = "migrate"
    /\ MigrateRejectedPending
    /\ pc' = "probe"
    /\ UNCHANGED <<poolVars, stack, netVars, polled, shutting, hit, tasks, history>>

\* Mutant: no fallback when the poller has nothing yet.
ProbeNoFallback ==
    /\ pc = "probe"
    /\ difficulty' = polled
    /\ netOk' = (polled # NoCost)
    /\ wasDown' = (polled = NoCost)
    /\ pc' = "resume"
    /\ UNCHANGED <<storeVars, poolVars, stack, settling, polled, shutting, hit,
                   tasks, history>>

\* The first status of the poller, or the fallback when none came in time.
\* The first difficulty replaces None, so it begins no transition.
Probe ==
    /\ pc = "probe"
    /\ difficulty' = IF polled # NoCost THEN polled ELSE MemoryCost
    /\ netOk' = (polled # NoCost)
    /\ wasDown' = (polled = NoCost)
    /\ pc' = "resume"
    /\ UNCHANGED <<storeVars, poolVars, stack, settling, polled, shutting, hit,
                   tasks, history>>

\* _resume_queued_blocks() calls the flusher directly.
Resume ==
    /\ pc = "resume"
    /\ IF netOk /\ AnyToSend THEN pc' = "flush" /\ stack' = <<"begin">>
                             ELSE pc' = "begin" /\ UNCHANGED stack
    /\ UNCHANGED <<storeVars, poolVars, netVars, polled, shutting, hit, tasks, history>>

\* The backend starts and the loop is entered.
Begin ==
    /\ pc = "begin"
    /\ pc' = "loop"
    /\ UNCHANGED <<storeVars, poolVars, stack, netVars, polled, shutting, hit,
                   tasks, history>>

Boot == Import \/ Migrate \/ Probe \/ Resume \/ Begin

----------------------------------------------------------------------------
(* The main loop. *)

NetCheck ==
    /\ pc = "loop"
    /\ \/ NetworkDownSeen(polled) /\ UNCHANGED <<pc, stack>>
       \/ NetworkUpSeen(polled) /\ ContinueAt("loop")
    /\ UNCHANGED <<storeVars, poolVars, polled, shutting, hit, tasks, history>>

\* _service_pending_queue() when one of its intervals has elapsed.
Service ==
    /\ pc = "loop"
    /\ AnyPending
    /\ pc' = "tryflush"
    /\ stack' = <<"loop">>
    /\ UNCHANGED <<storeVars, poolVars, netVars, polled, shutting, hit, tasks, history>>

\* The m= a batch is hashed with.
MiningCost == IF Native THEN difficulty ELSE MemoryCost

\* mine_batch() returns a hit; handle_hit attaches the mining difficulty.
Mine(k) ==
    /\ pc = "loop"
    /\ mined[k] = NoCost
    /\ mined' = [mined EXCEPT ![k] = MiningCost]
    /\ hit' = [key |-> k, raw |-> Native, cost |-> difficulty,
               reason |-> NetworkDown, answer |-> NoAnswer]
    /\ pc' = "hit"
    /\ UNCHANGED <<storeVars, poolVars, stack, netVars, polled, shutting, tasks,
                   credited, acked, lost, session>>

\* A batch that found a block and was then aborted at the temperature
\* limit: run() tests batch.aborted before batch.hit and starts over.
AbortedBatch(k) ==
    /\ Native
    /\ pc = "loop"
    /\ mined[k] = NoCost
    /\ mined' = [mined EXCEPT ![k] = MiningCost]
    /\ lost' = lost \cup {k}
    /\ pc' = "tryflush"
    /\ stack' = <<"loop">>
    /\ UNCHANGED <<storeVars, poolVars, netVars, polled, shutting, hit, tasks,
                   credited, acked, session>>

MaxRuntime ==
    /\ pc = "loop"
    /\ pc' = "stop"
    /\ UNCHANGED <<storeVars, poolVars, stack, netVars, polled, shutting, hit,
                   tasks, history>>

----------------------------------------------------------------------------
(* handle_hit(). *)

DoneWithHit == pc' = "loop" /\ hit' = NoHit

\* _queue_hit(): the reason is set here, the two writes of enqueue() follow.
QueueHit(reason) ==
    /\ hit' = [hit EXCEPT !.reason = reason, !.answer = NoAnswer]
    /\ pc' = "append"

HitInTransition ==
    /\ pc = "hit"
    /\ settling
    /\ QueueHit(DifficultyChange)
    /\ UNCHANGED <<storeVars, poolVars, stack, netVars, polled, shutting, tasks, history>>

HitFiltered ==
    /\ pc = "hit"
    /\ ~settling
    /\ ~Verifies(hit.key, difficulty)
    /\ DoneWithHit
    /\ UNCHANGED <<storeVars, poolVars, stack, netVars, polled, shutting, tasks, history>>

\* The prepared hit: an encoded hash is returned as it is, a raw one in a
\* new BlockHit without a memory_cost.
Prepared == [hit EXCEPT !.raw = FALSE, !.cost = IF hit.raw THEN NoCost ELSE @]

HitVerified ==
    /\ pc = "hit"
    /\ ~settling
    /\ Verifies(hit.key, difficulty)
    /\ IF ReadyToFlush(hit.key)
       THEN pc' = "refresh" /\ hit' = Prepared
       ELSE pc' = "append" /\ hit' = [Prepared EXCEPT !.reason = OutsideXuniWindow]
    /\ UNCHANGED <<storeVars, poolVars, stack, netVars, polled, shutting, tasks, history>>

HitRefresh ==
    /\ pc = "refresh"
    /\ \/ /\ NetworkDownSeen(polled)
          /\ QueueHit(NetworkDown)
          /\ UNCHANGED stack
       \/ /\ NetworkUpSeen(polled)
          /\ ContinueAt("send")
          /\ UNCHANGED hit
    /\ UNCHANGED <<storeVars, poolVars, polled, shutting, tasks, history>>

HitSubmit ==
    /\ pc = "send"
    /\ \E r \in Answers(hit.key) :
          /\ Submit(hit.key, r)
          /\ hit' = [hit EXCEPT !.answer = r]
    /\ pc' = "answered"
    /\ UNCHANGED <<storeVars, poolDiff, online, inWindow, stack, netVars, polled,
                   shutting, tasks, history>>

HitAccepted ==
    /\ pc = "answered"
    /\ SubmitAccepted(hit.answer)
    /\ credited' = credited \cup {hit.key}
    /\ acked' = acked \cup {hit.key}
    /\ RecordDirectSubmit(hit.key, hit.answer.status)
    /\ DoneWithHit
    /\ UNCHANGED <<poolVars, stack, netVars, polled, shutting, tasks, mined, lost,
                   session>>

\* status == 0 or not self._network_ok
HitUnanswered == hit.answer.status = 0 \/ ~netOk

\* Mutant: the failed attempt is written down and the hit let go.
HitToRetryDropped ==
    /\ pc = "answered"
    /\ ~SubmitAccepted(hit.answer)
    /\ HitUnanswered
    /\ RecordDirectSubmit(hit.key, hit.answer.status)
    /\ DoneWithHit
    /\ UNCHANGED <<poolVars, stack, netVars, polled, shutting, tasks, history>>

HitToRetry ==
    /\ pc = "answered"
    /\ ~SubmitAccepted(hit.answer)
    /\ HitUnanswered
    /\ RecordDirectSubmit(hit.key, hit.answer.status)
    /\ QueueHit(NetworkDown)
    /\ UNCHANGED <<poolVars, stack, netVars, polled, shutting, tasks, history>>

HitHeld ==
    /\ pc = "answered"
    /\ ~SubmitAccepted(hit.answer)
    /\ ~HitUnanswered
    /\ \/ IsDifficultyMismatch(hit.answer) /\ QueueHit(DifficultyChange)
       \/ /\ ~IsDifficultyMismatch(hit.answer)
          /\ IsXuniWindowReject(hit.answer)
          /\ QueueHit(OutsideXuniWindow)
    /\ UNCHANGED <<storeVars, poolVars, stack, netVars, polled, shutting, tasks, history>>

\* record_rejection(hit, status, body, "live"), whatever the failure was.
HitRejected ==
    /\ pc = "answered"
    /\ ~SubmitAccepted(hit.answer)
    /\ ~HitUnanswered
    /\ ~IsDifficultyMismatch(hit.answer)
    /\ ~IsXuniWindowReject(hit.answer)
    /\ IF IsPending(hit.key)
       THEN /\ \E n \in OpenRows(hit.key) :
                 RejectRow(hit.key, n, hit.answer, Resubmission)
            /\ DoneWithHit
       ELSE /\ LogRejection(hit.key, hit.answer)
            /\ QueueHit(Resubmission)
    /\ UNCHANGED <<poolVars, stack, netVars, polled, shutting, tasks, history>>

HitAppend ==
    /\ pc = "append"
    /\ AppendRecord(hit.key, hit.raw, hit.cost, hit.reason)
    /\ pc' = "insert"
    /\ UNCHANGED <<poolVars, stack, netVars, polled, shutting, hit, tasks, history>>

HitInsert ==
    /\ pc = "insert"
    /\ InsertPending(hit.key, hit.raw, hit.cost, hit.reason)
    /\ DoneWithHit
    /\ UNCHANGED <<poolVars, stack, netVars, polled, shutting, tasks, history>>

HandleHit ==
    \/ HitInTransition \/ HitFiltered \/ HitVerified
    \/ HitRefresh \/ HitSubmit
    \/ HitAccepted \/ HitToRetry \/ HitHeld \/ HitRejected
    \/ HitAppend \/ HitInsert

----------------------------------------------------------------------------
(* _try_flush_pending_queue() and QueueFlusher.flush(). *)

TryFlushHeld ==
    /\ pc = "tryflush"
    /\ ~AnyPending \/ settling
    /\ Return
    /\ UNCHANGED <<storeVars, poolVars, netVars, polled, shutting, hit, tasks, history>>

\* The refresh may flush on recovery, and may begin a transition: the flush
\* that follows tests neither.
TryFlush ==
    /\ pc = "tryflush"
    /\ AnyPending
    /\ ~settling
    /\ \/ NetworkDownSeen(polled) /\ Return
       \/ NetworkUpSeen(polled) /\ ContinueAt("flush")
    /\ UNCHANGED <<storeVars, poolVars, polled, shutting, hit, tasks, history>>

NewTasks(k) == {[key |-> k, row |-> n, shutdown |-> shutting, phase |-> "queued",
                 answer |-> NoAnswer] : n \in OpenRows(k)}

\* The rows are read once; each becomes a task of the submit pool.
BeginFlush ==
    /\ pc = "flush"
    /\ IF AnyPending
       THEN /\ tasks' = tasks \cup UNION {NewTasks(k) : k \in Key}
            /\ pc' = "flushing"
            /\ UNCHANGED stack
       ELSE Return /\ UNCHANGED tasks
    /\ UNCHANGED <<storeVars, poolVars, netVars, polled, shutting, hit, history>>

\* The tasks of the flush the main thread waits for; those of an
\* interrupted flush stay behind in the submit pool.
Awaited == {t \in tasks : t.shutdown = shutting}

\* submit_pool.map() returns when every task has; _apply_outcome() follows.
EndFlush ==
    /\ pc = "flushing"
    /\ \A t \in Awaited : t.phase \in Finished
    /\ credited' = credited \cup {t.key : t \in {u \in Awaited : u.phase = "flushed"}}
    /\ tasks' = tasks \ Awaited
    /\ Return
    /\ UNCHANGED <<storeVars, poolVars, netVars, polled, shutting, hit,
                   mined, acked, lost, session>>

Flush == TryFlushHeld \/ TryFlush \/ BeginFlush \/ EndFlush

----------------------------------------------------------------------------
(* _prepare_row(), in a worker thread. *)

RowOf(t) == rows[t.key][t.row]

\* The answer is of no further use once the row is finished.
Advance(t, phase, answer) ==
    tasks' = (tasks \ {t}) \cup {[t EXCEPT !.phase = phase, !.answer = answer]}

\* The hash was made for another difficulty: keep the row waiting.
TaskWaits(t) ==
    /\ t.phase = "queued"
    /\ KnownCost(t.key, RowOf(t)) \notin {NoCost, difficulty}
    /\ Advance(t, "over", NoAnswer)
    /\ UNCHANGED storeVars

\* Mutant: a row is prepared at the current difficulty whatever its own.
CostMatchesAny(t) == t.phase = "queued"

\* From here the memory cost is the known one, or the current difficulty
\* in its place: it equals the current difficulty either way.
CostMatches(t) ==
    /\ t.phase = "queued"
    /\ KnownCost(t.key, RowOf(t)) \in {NoCost, difficulty}

TaskFilters(t) ==
    /\ CostMatches(t)
    /\ ~Verifies(t.key, difficulty)
    /\ MarkSubmitted(t.key, t.row, 0)
    /\ Advance(t, "over", NoAnswer)

TaskOutsideWindow(t) ==
    /\ CostMatches(t)
    /\ Verifies(t.key, difficulty)
    /\ ~ReadyToFlush(t.key)
    /\ Advance(t, "over", NoAnswer)
    /\ IF t.shutdown THEN MarkPendingReason(t.key, t.row, OutsideXuniWindow)
                     ELSE UNCHANGED storeVars

TaskVerified(t) ==
    /\ CostMatches(t)
    /\ Verifies(t.key, difficulty)
    /\ ReadyToFlush(t.key)
    /\ Advance(t, "sending", NoAnswer)
    /\ UNCHANGED storeVars

TaskCheck(t) ==
    /\ TaskWaits(t) \/ TaskFilters(t) \/ TaskOutsideWindow(t) \/ TaskVerified(t)
    /\ UNCHANGED <<poolVars, pc, stack, netVars, polled, shutting, hit, history>>

TaskSubmit(t) ==
    /\ t.phase = "sending"
    /\ \E r \in Answers(t.key) : Submit(t.key, r) /\ Advance(t, "answered", r)
    /\ UNCHANGED <<storeVars, poolDiff, online, inWindow, pc, stack, netVars,
                   polled, shutting, hit, history>>

TaskAccepted(t) ==
    /\ t.phase = "answered"
    /\ SubmitAccepted(t.answer)
    /\ MarkSubmitted(t.key, t.row, t.answer.status)
    /\ acked' = acked \cup {t.key}
    /\ Advance(t, "flushed", NoAnswer)
    /\ UNCHANGED <<poolVars, pc, stack, netVars, polled, shutting, hit, mined,
                   credited, lost, session>>

\* The pool does not take the block now: hold it until conditions match.
TaskHeld(t) ==
    /\ \/ /\ IsDifficultyMismatch(t.answer)
          /\ MarkPendingReason(t.key, t.row, DifficultyChange)
       \/ /\ ~IsDifficultyMismatch(t.answer)
          /\ IsXuniWindowReject(t.answer)
          /\ MarkPendingReason(t.key, t.row, OutsideXuniWindow)
    /\ Advance(t, "over", NoAnswer)

\* XNM and XBLK rows of a shutdown flush are marked for the next start.
KeepForNextStart(t) == t.shutdown /\ t.key \notin Xuni

\* Mutant: every failed submission is recorded as a rejection.
TaskFailedRecorded(t) ==
    /\ ~IsDifficultyMismatch(t.answer)
    /\ ~IsXuniWindowReject(t.answer)
    /\ RecordRejectionOfRow(t.key, t.row, t.answer,
          IF KeepForNextStart(t) THEN ShutdownPending ELSE Resubmission)
    /\ Advance(t, "over", NoAnswer)

TaskFailed(t) ==
    /\ ~IsDifficultyMismatch(t.answer)
    /\ ~IsXuniWindowReject(t.answer)
    /\ IF CountsAsReject(t.answer)
       THEN RecordRejectionOfRow(t.key, t.row, t.answer,
              IF KeepForNextStart(t) THEN ShutdownPending ELSE Resubmission)
       ELSE IF KeepForNextStart(t)
            THEN MarkPendingReason(t.key, t.row, ShutdownPending)
            ELSE UNCHANGED storeVars
    /\ Advance(t, "over", NoAnswer)

TaskNotAccepted(t) ==
    /\ t.phase = "answered"
    /\ ~SubmitAccepted(t.answer)
    /\ TaskHeld(t) \/ TaskFailed(t)
    /\ UNCHANGED <<poolVars, pc, stack, netVars, polled, shutting, hit, history>>

TaskStep(t) == TaskCheck(t) \/ TaskSubmit(t) \/ TaskAccepted(t) \/ TaskNotAccepted(t)

----------------------------------------------------------------------------
(* The end of a session. *)

\* Mutant: the shutdown flush returns to the loop.
ShutdownFlushToLoop ==
    /\ netOk
    /\ AnyToSend
    /\ polled' = PoolStatus
    /\ NetworkUpSeen(PoolStatus)
    /\ pc' = "flush"
    /\ stack' = <<"loop">>
    /\ UNCHANGED storeVars

\* _graceful_shutdown().  The blocking refresh polls the pool itself.
ShutdownFlush ==
    /\ netOk
    /\ AnyToSend
    /\ polled' = PoolStatus
    /\ NetworkUpSeen(PoolStatus)
    /\ pc' = "flush"
    /\ stack' = <<"exit">>
    /\ UNCHANGED storeVars

ShutdownDefer ==
    /\ AnyToSend
    /\ \/ ~netOk /\ UNCHANGED <<polled, netVars>>
       \/ netOk /\ polled' = PoolStatus /\ NetworkDownSeen(PoolStatus)
    /\ MarkAllPending([k \in Key |-> IF ReadyToFlush(k) THEN ShutdownPending
                                                        ELSE OutsideXuniWindow])
    /\ pc' = "exit"
    /\ stack' = <<>>

ShutdownIdle ==
    /\ ~AnyToSend
    /\ pc' = "exit"
    /\ stack' = <<>>
    /\ UNCHANGED <<storeVars, polled, netVars>>

Shutdown ==
    /\ pc = "stop"
    /\ shutting' = TRUE
    /\ ShutdownFlush \/ ShutdownDefer \/ ShutdownIdle
    /\ UNCHANGED <<poolVars, hit, tasks, history>>

\* Everything the process held in memory is gone.
Ended ==
    /\ pc' = "off"
    /\ stack' = <<>>
    /\ difficulty' = MemoryCost
    /\ settling' = FALSE
    /\ netOk' = FALSE
    /\ wasDown' = FALSE
    /\ polled' = NoCost
    /\ shutting' = FALSE
    /\ hit' = NoHit
    /\ tasks' = {}
    /\ UNCHANGED <<storeVars, poolVars, mined, credited, acked, session>>

\* The interpreter joins the submit pool's threads before it exits.
Exit ==
    /\ pc = "exit"
    /\ \A t \in tasks : t.phase \in Finished
    /\ Ended
    /\ UNCHANGED lost

HitInHand == IF hit = NoHit THEN {} ELSE {hit.key}

Crash ==
    /\ pc # "off"
    /\ Ended
    /\ lost' = lost \cup HitInHand

Booting == pc \in BootLabel \/ \E i \in DOMAIN stack : stack[i] = "begin"

\* Ctrl+C, or an exception (a locked database, a failed batch), unwinds the
\* main thread: out of the loop into _graceful_shutdown(), out of the boot
\* or of the shutdown itself to the end.  The submit pool's threads go on.
Interrupt ==
    /\ pc \notin {"off", "exit"}
    /\ pc' = IF Booting \/ shutting \/ pc = "stop" THEN "exit" ELSE "stop"
    /\ stack' = <<>>
    /\ hit' = NoHit
    /\ lost' = lost \cup HitInHand
    /\ UNCHANGED <<storeVars, poolVars, netVars, polled, shutting, tasks, mined,
                   credited, acked, session>>

----------------------------------------------------------------------------

Init ==
    /\ StoreInit
    /\ poolDiff \in Difficulty
    /\ online \in BOOLEAN
    /\ inWindow \in (IF Xuni = {} THEN {FALSE} ELSE BOOLEAN)
    /\ recorded = {}
    /\ pc = "off"
    /\ stack = <<>>
    /\ difficulty = MemoryCost
    /\ settling = FALSE
    /\ netOk = FALSE
    /\ wasDown = FALSE
    /\ polled = NoCost
    /\ shutting = FALSE
    /\ hit = NoHit
    /\ tasks = {}
    /\ mined = [k \in Key |-> NoCost]
    /\ credited = {}
    /\ acked = {}
    /\ lost = {}
    /\ session = 0

World == PoolRetarget \/ NetworkFlip \/ WindowFlip \/ Poll \/ TransitionEnds

Loop == NetCheck \/ Service \/ (\E k \in Key : Mine(k) \/ AbortedBatch(k)) \/ MaxRuntime

Next ==
    \/ World
    \/ Start \/ Boot \/ Loop \/ HandleHit \/ Flush
    \/ \E t \in tasks : TaskStep(t)
    \/ Shutdown \/ Exit \/ Crash \/ Interrupt

Spec == Init /\ [][Next]_vars

\* The pool confirms, or records without confirming, a submission of k.
PoolTakes(k) == \E t \in tasks : t.key = k /\ TaskSubmit(t) /\ k \in recorded'

\* Every pass of the loop runs the network check and the queue service once
\* their interval is over, so a pass that keeps finding work to do does it.
\* Threads are scheduled, HTTP calls time out, and the poller polls.  The
\* pool does not turn away a block it could record for ever.
Fairness ==
    /\ WF_vars(Start) /\ WF_vars(Boot) /\ WF_vars(HandleHit) /\ WF_vars(Flush)
    /\ WF_vars(Shutdown) /\ WF_vars(Exit)
    /\ SF_vars(NetCheck) /\ SF_vars(Service)
    /\ WF_vars(Poll) /\ WF_vars(TransitionEnds)
    /\ WF_vars(\E t \in tasks : TaskStep(t))
    /\ \A k \in Key : SF_vars(PoolTakes(k))

FairSpec == Spec /\ Fairness

----------------------------------------------------------------------------
(* Safety. *)

\* A row whose memory cost the store knows, and knows rightly.
CostKnown(k, r) == KnownCost(k, r) = mined[k]

\* _prepare_row(): a row leaves the queue only when the pool has the block, or the block is
\* a false positive, or the row no longer says which m= it was mined at.
ClosedRowsSettled ==
    \A k \in Key : \A n \in DOMAIN rows[k] :
        ~rows[k][n].open => \/ k \in recorded
                            \/ k \in Bogus
                            \/ ~CostKnown(k, rows[k][n])

\* enqueue(), record_rejection() and the import at start together never
\* queue a block that is queued already: a flush submits it once.
OneOpenRow == \A k \in Key : \A m, n \in OpenRows(k) : m = n

\* Every acceptance the miner counts or writes down, by the live path, by a
\* flush and by a worker an interrupt left behind, is of a block the pool has.
AcksAreTrue ==
    /\ acked \subseteq recorded
    /\ AcceptedKeys \subseteq recorded
    /\ credited \subseteq recorded

\* handle_hit(): a real block is in the log, at the pool or still in the
\* main thread's hands, unless the process ended while it was.
NoHitVanishes ==
    \A k \in Key \ Bogus :
        mined[k] # NoCost => \/ IsLogged(k)
                             \/ k \in recorded
                             \/ k \in HitInHand
                             \/ k \in lost

\* _prepare_row() checks the difficulty and submits later: in between the
\* difficulty the miner knows never leaves the one of the block's hash.
FlushAtOwnDifficulty ==
    \A t \in Awaited : t.phase = "sending" => mined[t.key] = difficulty

\* flush.py:170-171, "network blips stay pending without polluting
\* rejected.jsonl": whatever a flush or its leftover workers are answered, only
\* a final rejection goes into the log.  (The live path logs blips, too.)
FlushLogsRejectsOnly ==
    [][\A k \in Key : \A r \in rejlog'[k] \ rejlog[k] : CountsAsReject(r) \/ HitRejected]_vars

\* The CPU check keeps GPU false positives from the pool: no answer to one
\* is ever written down, not by the live path nor by a later flush.
FalsePositivesStayLocal ==
    \A k \in Bogus : rejlog[k] = {} /\ submitted[k] \subseteq {0}

\* What is sent or logged is a proved block, at its difficulty: both of these.
SendsProvedBlocks == FlushAtOwnDifficulty /\ FalsePositivesStayLocal

\* submitted_blocks holds a 2xx submission of k.
SuccessOnRecord(k) == \E s \in submitted[k] : s \in 200..299

\* A block with a success status that is out of the queue stays out of it,
\* across the import and the migration of every later session.
AcceptedNeverRequeued ==
    [][\A k \in Key : (SuccessOnRecord(k) /\ ~IsPending(k)) => ~IsPending(k)']_vars

----------------------------------------------------------------------------
(* The ledger this implements. *)

Ledger == INSTANCE BlockLedger WITH
    logged  <- {k \in Key : IsLogged(k)},
    closed  <- {k \in Key : IsLogged(k) /\ rows[k] # <<>> /\ ~IsPending(k)},
    booked  <- recorded,
    sealed  <- AcceptedKeys,
    excused <- Bogus \cup {k \in Key : \E n \in DOMAIN rows[k] :
                                        ~CostKnown(k, rows[k][n])}

\* The store, the flusher and the live path together implement the ledger:
\* a logged block is owed to the pool until the pool has recorded it.
ImplementsLedger == Ledger!LedgerSpec

----------------------------------------------------------------------------
(* Liveness. *)

\* Nothing stands between a queued block and the pool.
Served(k) ==
    /\ online
    /\ poolDiff = mined[k]
    /\ ReadyToFlush(k)
    /\ k \notin Bogus
    /\ \E n \in OpenRows(k) : CostKnown(k, rows[k][n])
    /\ pc \notin {"off", "stop", "exit"}
    /\ ~shutting

\* A block the pool would take does not stay in the queue for ever: the
\* queue service finds it again after every transition and outage.
HeldBlockReachesPool == \A k \in Key : <>[]Served(k) => <>(k \in recorded)

\* _graceful_shutdown() ends: its flush waits for the submit pool, which may
\* still be busy with the rows of an interrupted flush.
ShutdownCompletes == pc = "stop" ~> pc = "off"
===========================================================================

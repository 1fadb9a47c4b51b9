---------------------------- MODULE BlockStore ----------------------------
(***************************************************************************)
(* The durable block queue (block_queue/store.py): the append-only log     *)
(* queue.jsonl, the SQLite tables pending_blocks and submitted_blocks, and *)
(* the append-only log rejected.jsonl.  Each operator is one method, or    *)
(* one of its transactions where the method makes two durable writes a     *)
(* crash can separate.                                                     *)
(*                                                                         *)
(* A block is identified by its key.  The rows of pending_blocks are kept  *)
(* per key, in id order: rows[k][n] is the n-th row ever inserted for k.   *)
(* The order of ids across keys decides nothing (a flush handles its rows  *)
(* concurrently), so it is left out.                                       *)
(***************************************************************************)
EXTENDS Sequences, SubmitResult

CONSTANTS Key,         \* block keys
          Difficulty   \* the Argon2 memory costs m= in play

ASSUME DifficultyAssumption == Difficulty \subseteq Nat \ {0}

VARIABLES jsonl,       \* queue.jsonl: the records of each key, in file order
          rows,        \* pending_blocks: the rows of each key, in id order
          submitted,   \* submitted_blocks: the http_status values of each key
          rejlog       \* rejected.jsonl: the answers logged for each key

storeVars == <<jsonl, rows, submitted, rejlog>>

Resubmission      == "resubmission"
OutsideXuniWindow == "outside_xuni_window"
ShutdownPending   == "shutdown_pending"
DifficultyChange  == "difficulty_change"
NetworkDown       == "network_down"

Reason == {Resubmission, OutsideXuniWindow, ShutdownPending,
           DifficultyChange, NetworkDown}

\* A NULL memory_cost: the code tests it by truth, so NULL is 0.
NoCost == 0

\* raw: hash_str is the bare base64 digest, not the encoded Argon2 string
\* that carries its own m=.
Record == [raw : BOOLEAN, cost : Difficulty \cup {NoCost}, reason : Reason]

\* open: status = 'pending' (else 'submitted'); rejected: reject_count > 0.
Row == [raw : BOOLEAN, cost : Difficulty \cup {NoCost}, reason : Reason,
        rejected : BOOLEAN, open : BOOLEAN]

StoreTypeOK ==
    /\ jsonl \in [Key -> Seq(Record)]
    /\ rows \in [Key -> Seq(Row)]
    /\ submitted \in [Key -> SUBSET Nat]
    /\ rejlog \in [Key -> SUBSET Response]

StoreInit ==
    /\ jsonl = [k \in Key |-> <<>>]
    /\ rows = [k \in Key |-> <<>>]
    /\ submitted = [k \in Key |-> {}]
    /\ rejlog = [k \in Key |-> {}]

----------------------------------------------------------------------------
(* Queries. *)

OpenRows(k) == {n \in DOMAIN rows[k] : rows[k][n].open}

IsPending(k) == OpenRows(k) # {}

IsLogged(k) == jsonl[k] # <<>>

\* Mutant: one failed attempt makes a block unaccepted.
AcceptedKeysUnblemished ==
    {k \in Key : submitted[k] # {} /\ \A s \in submitted[k] : SuccessStatus(s)}

AcceptedKeys == {k \in Key : \E s \in submitted[k] : SuccessStatus(s)}

----------------------------------------------------------------------------
(* enqueue() appends to queue.jsonl first, and then inserts the row in a   *)
(* transaction of its own.                                                 *)

AppendRecord(k, raw, cost, reason) ==
    /\ jsonl' = [jsonl EXCEPT ![k] =
                   Append(@, [raw |-> raw, cost |-> cost, reason |-> reason])]
    /\ UNCHANGED <<rows, submitted, rejlog>>

InsertPending(k, raw, cost, reason) ==
    /\ rows' = [rows EXCEPT ![k] =
                  Append(@, [raw |-> raw, cost |-> cost, reason |-> reason,
                             rejected |-> FALSE, open |-> TRUE])]
    /\ UNCHANGED <<jsonl, submitted, rejlog>>

\* UPDATE ... WHERE id = ? AND status = 'pending'
MarkPendingReason(k, n, reason) ==
    /\ rows' = [rows EXCEPT ![k][n].reason = IF rows[k][n].open THEN reason ELSE @]
    /\ UNCHANGED <<jsonl, submitted, rejlog>>

\* The UPDATE has no status guard, and a row is inserted into
\* submitted_blocks whether or not the block had been submitted before.
MarkSubmitted(k, n, status) ==
    /\ rows' = [rows EXCEPT ![k][n].open = FALSE]
    /\ submitted' = [submitted EXCEPT ![k] = @ \cup {status}]
    /\ UNCHANGED <<jsonl, rejlog>>

RecordDirectSubmit(k, status) ==
    /\ submitted' = [submitted EXCEPT ![k] = @ \cup {status}]
    /\ UNCHANGED <<jsonl, rows, rejlog>>

\* The rejection of a row: reason and reject_count are updated, and only
\* the first rejection of the row is logged.
RejectRow(k, n, r, reason) ==
    LET first == ~rows[k][n].rejected
    IN  /\ rows' = [rows EXCEPT ![k][n] = [@ EXCEPT !.reason = reason, !.rejected = TRUE]]
        /\ rejlog' = [rejlog EXCEPT ![k] = IF first THEN @ \cup {r} ELSE @]
        /\ submitted' = [submitted EXCEPT ![k] =
                           IF first THEN @ \cup {r.status} ELSE @]
        /\ UNCHANGED jsonl

\* record_rejection(pending_id = n): a row no longer pending is left alone.
RecordRejectionOfRow(k, n, r, reason) ==
    IF rows[k][n].open THEN RejectRow(k, n, r, reason) ELSE UNCHANGED storeVars

\* record_rejection() without a row, up to its closing enqueue().
LogRejection(k, r) ==
    /\ rejlog' = [rejlog EXCEPT ![k] = @ \cup {r}]
    /\ submitted' = [submitted EXCEPT ![k] = @ \cup {r.status}]
    /\ UNCHANGED <<jsonl, rows>>

\* mark_pending_reason() over every pending row, as defer_to_next_start()
\* of flush.py calls it.
MarkAllPending(reasons) ==
    /\ rows' = [k \in Key |-> [n \in DOMAIN rows[k] |->
                  [rows[k][n] EXCEPT !.reason = IF rows[k][n].open
                                                THEN reasons[k] ELSE @]]]
    /\ UNCHANGED <<jsonl, submitted, rejlog>>

----------------------------------------------------------------------------
(* Session start. *)

\* Mutant: pending rows are not looked at.
UnaccountedOrPending(k) == IsLogged(k) /\ k \notin AcceptedKeys

\* The key is in the log, has no pending row, and no 2xx submission.
Unaccounted(k) == IsLogged(k) /\ ~IsPending(k) /\ k \notin AcceptedKeys

\* The new row is built from the first record of the key in the log; the
\* INSERT names no memory_cost column, so the cost of the record is lost.
ImportedRow(k) == [raw |-> jsonl[k][1].raw, cost |-> NoCost,
                   reason |-> jsonl[k][1].reason,
                   rejected |-> FALSE, open |-> TRUE]

ImportPendingFromJsonl ==
    /\ rows' = [k \in Key |-> IF Unaccounted(k) THEN Append(rows[k], ImportedRow(k))
                                                ELSE rows[k]]
    /\ UNCHANGED <<jsonl, submitted, rejlog>>

HasFailedSubmit(k) == \E s \in submitted[k] : ~SuccessStatus(s)

MigrateRejectedPending ==
    /\ rows' = [k \in Key |-> [n \in DOMAIN rows[k] |->
                  [rows[k][n] EXCEPT !.reason =
                     IF rows[k][n].open /\ HasFailedSubmit(k)
                     THEN Resubmission ELSE @]]]
    /\ UNCHANGED <<jsonl, submitted, rejlog>>
===========================================================================

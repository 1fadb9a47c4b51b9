----------------------- MODULE BlockPipeline_proofs -----------------------
(***************************************************************************)
(* Proofs about BlockPipeline, for every set of blocks and difficulties    *)
(* and any number of sessions.  What the miner sends, it has proved: a     *)
(* flush submits a block only at the difficulty of its hash, though the    *)
(* difficulty is tested in one step and the block sent in another.         *)
(***************************************************************************)
EXTENDS BlockPipeline, SequenceTheorems, TLAPS

----------------------------------------------------------------------------
(* The operations of the store, whoever calls them: the types, and the     *)
(* rows that exist with the memory cost they were queued with.  No         *)
(* operation opens a closed row again; a block comes back only as a new    *)
(* row.                                                                    *)

RowsKept ==
    \A k \in Key : \A n \in DOMAIN rows[k] :
        /\ n \in DOMAIN rows'[k]
        /\ rows'[k][n].cost = rows[k][n].cost
        /\ rows'[k][n].raw = rows[k][n].raw
        /\ rows'[k][n].open => rows[k][n].open

\* One row of the table rewritten, all the others left alone.
LEMMA RewriteRow ==
    ASSUME StoreTypeOK, NEW k \in Key, NEW n \in DOMAIN rows[k], NEW row \in Row,
           row.cost = rows[k][n].cost, row.raw = rows[k][n].raw,
           row.open => rows[k][n].open,
           rows' = [rows EXCEPT ![k][n] = row]
    PROVE  /\ rows' \in [Key -> Seq(Row)]
           /\ \A j \in Key : DOMAIN rows'[j] = DOMAIN rows[j]
           /\ RowsKept
  <1>1. rows[k] \in Seq(Row)
    BY DEF StoreTypeOK
  <1>2. [rows[k] EXCEPT ![n] = row] \in Seq(Row)
    BY <1>1
  <1>3. rows' = [rows EXCEPT ![k] = [rows[k] EXCEPT ![n] = row]]
    BY DEF StoreTypeOK
  <1>4. rows' \in [Key -> Seq(Row)]
    BY <1>2, <1>3 DEF StoreTypeOK
  <1>5. \A j \in Key : DOMAIN rows'[j] = DOMAIN rows[j]
    BY <1>1, <1>3 DEF StoreTypeOK
  <1>6. RowsKept
    BY <1>1, <1>3, <1>5 DEF StoreTypeOK, RowsKept
  <1> QED
    BY <1>4, <1>5, <1>6

\* enqueue(), first half.
LEMMA AppendRecordKeeps ==
    ASSUME StoreTypeOK, NEW k \in Key, NEW raw \in BOOLEAN,
           NEW cost \in Difficulty \cup {NoCost}, NEW reason \in Reason,
           AppendRecord(k, raw, cost, reason)
    PROVE  StoreTypeOK'
  <1> DEFINE new == [raw |-> raw, cost |-> cost, reason |-> reason]
  <1>1. new \in Record
    BY DEF Record
  <1>2. jsonl' = [jsonl EXCEPT ![k] = Append(jsonl[k], new)]
    BY DEF AppendRecord
  <1> HIDE DEF new
  <1> QED
    BY <1>1, <1>2 DEF AppendRecord, StoreTypeOK

\* enqueue(), second half.
LEMMA InsertPendingKeeps ==
    ASSUME StoreTypeOK, NEW k \in Key, NEW raw \in BOOLEAN,
           NEW cost \in Difficulty \cup {NoCost}, NEW reason \in Reason,
           InsertPending(k, raw, cost, reason)
    PROVE  StoreTypeOK' /\ RowsKept
  <1> DEFINE new == [raw |-> raw, cost |-> cost, reason |-> reason,
                     rejected |-> FALSE, open |-> TRUE]
  <1>1. new \in Row
    BY DEF Row
  <1>2. rows[k] \in Seq(Row) /\ rows' = [rows EXCEPT ![k] = Append(rows[k], new)]
    BY DEF StoreTypeOK, InsertPending
  <1>3. StoreTypeOK'
    BY <1>1, <1>2 DEF StoreTypeOK, InsertPending
  <1>4. \A n \in DOMAIN rows[k] : n \in DOMAIN rows'[k] /\ rows'[k][n] = rows[k][n]
    BY <1>1, <1>2 DEF StoreTypeOK
  <1>5. \A j \in Key \ {k} : rows'[j] = rows[j]
    BY <1>2 DEF StoreTypeOK
  <1> QED
    BY <1>3, <1>4, <1>5 DEF RowsKept

LEMMA MarkPendingReasonKeeps ==
    ASSUME StoreTypeOK, NEW k \in Key, NEW n \in DOMAIN rows[k],
           NEW reason \in Reason, MarkPendingReason(k, n, reason)
    PROVE  /\ StoreTypeOK' /\ RowsKept
           /\ \A j \in Key : DOMAIN rows'[j] = DOMAIN rows[j]
  <1> DEFINE row == [rows[k][n] EXCEPT
                       !.reason = IF rows[k][n].open THEN reason ELSE @]
  <1>1. rows[k][n] \in Row
    BY DEF StoreTypeOK
  <1>2. row \in Row /\ row.cost = rows[k][n].cost /\ row.raw = rows[k][n].raw
        /\ row.open = rows[k][n].open
    BY <1>1 DEF Row
  <1>3. rows' = [rows EXCEPT ![k][n] = row]
    BY <1>1 DEF MarkPendingReason, Row, StoreTypeOK
  <1> HIDE DEF row
  <1>4. /\ rows' \in [Key -> Seq(Row)]
        /\ \A j \in Key : DOMAIN rows'[j] = DOMAIN rows[j]
        /\ RowsKept
    BY <1>2, <1>3, RewriteRow, Zenon
  <1> QED
    BY <1>4 DEF MarkPendingReason, StoreTypeOK

LEMMA MarkSubmittedKeeps ==
    ASSUME StoreTypeOK, NEW k \in Key, NEW n \in DOMAIN rows[k],
           NEW status \in Nat, MarkSubmitted(k, n, status)
    PROVE  /\ StoreTypeOK' /\ RowsKept
           /\ \A j \in Key : DOMAIN rows'[j] = DOMAIN rows[j]
  <1> DEFINE row == [rows[k][n] EXCEPT !.open = FALSE]
  <1>1. rows[k][n] \in Row
    BY DEF StoreTypeOK
  <1>2. row \in Row /\ row.cost = rows[k][n].cost /\ row.raw = rows[k][n].raw
        /\ ~row.open
    BY <1>1 DEF Row
  <1>3. rows' = [rows EXCEPT ![k][n] = row]
    BY <1>1 DEF MarkSubmitted, Row, StoreTypeOK
  <1> HIDE DEF row
  <1>5. /\ rows' \in [Key -> Seq(Row)]
        /\ \A j \in Key : DOMAIN rows'[j] = DOMAIN rows[j]
        /\ RowsKept
    BY <1>2, <1>3, RewriteRow, Zenon
  <1> QED
    BY <1>5 DEF MarkSubmitted, StoreTypeOK

LEMMA RejectRowKeeps ==
    ASSUME StoreTypeOK, NEW k \in Key, NEW n \in DOMAIN rows[k],
           NEW r \in Response, NEW reason \in Reason, RejectRow(k, n, r, reason)
    PROVE  /\ StoreTypeOK' /\ RowsKept
           /\ \A j \in Key : DOMAIN rows'[j] = DOMAIN rows[j]
  <1> DEFINE row == [rows[k][n] EXCEPT !.reason = reason, !.rejected = TRUE]
  <1>1. rows[k][n] \in Row
    BY DEF StoreTypeOK
  <1>2. row \in Row /\ row.cost = rows[k][n].cost /\ row.raw = rows[k][n].raw
        /\ row.open = rows[k][n].open
    BY <1>1 DEF Row
  <1>3. rows' = [rows EXCEPT ![k][n] = row]
    BY <1>1 DEF RejectRow, Row, StoreTypeOK
  <1>4. r.status \in Nat
    BY DEF Response
  <1> HIDE DEF row
  <1>5. /\ rows' \in [Key -> Seq(Row)]
        /\ \A j \in Key : DOMAIN rows'[j] = DOMAIN rows[j]
        /\ RowsKept
    BY <1>2, <1>3, RewriteRow, Zenon
  <1> QED
    BY <1>4, <1>5 DEF RejectRow, StoreTypeOK

\* UPDATEs over the whole table that change nothing but reasons.
LEMMA RewriteReasons ==
    ASSUME StoreTypeOK, rows' = [k \in Key |-> rows'[k]],
           \A k \in Key : rows'[k] = [n \in DOMAIN rows[k] |-> rows'[k][n]],
           \A k \in Key : \A n \in DOMAIN rows[k] : \E reason \in Reason :
              rows'[k][n] = [rows[k][n] EXCEPT !.reason = reason]
    PROVE  /\ rows' \in [Key -> Seq(Row)] /\ RowsKept
           /\ \A k \in Key : DOMAIN rows'[k] = DOMAIN rows[k]
           /\ \A k \in Key : \A n \in DOMAIN rows[k] :
                 rows'[k][n].open = rows[k][n].open
  <1>1. ASSUME NEW k \in Key
        PROVE  rows[k] \in Seq(Row) /\ Len(rows[k]) \in Nat
               /\ DOMAIN rows[k] = 1 .. Len(rows[k])
    BY DEF StoreTypeOK
  <1>2. ASSUME NEW k \in Key, NEW n \in DOMAIN rows[k]
        PROVE  /\ rows'[k][n] \in Row
               /\ rows'[k][n].cost = rows[k][n].cost
               /\ rows'[k][n].raw = rows[k][n].raw
               /\ rows'[k][n].open = rows[k][n].open
    <2>1. rows[k][n] \in Row
      BY <1>1
    <2>2. PICK reason \in Reason : rows'[k][n] = [rows[k][n] EXCEPT !.reason = reason]
      OBVIOUS
    <2> QED
      BY <2>1, <2>2 DEF Row
  <1>3. ASSUME NEW k \in Key
        PROVE  rows'[k] \in [1 .. Len(rows[k]) -> Row]
    BY <1>1, <1>2
  <1>4. ASSUME NEW k \in Key
        PROVE  rows'[k] \in Seq(Row)
    <2>1. Len(rows[k]) \in Nat
      BY <1>1
    <2>2. rows'[k] \in UNION {[1 .. n -> Row] : n \in Nat}
      BY <1>3, <2>1
    <2>3. Seq(Row) = UNION {[1 .. n -> Row] : n \in Nat}
      BY SeqDef, Zenon
    <2> QED
      BY <2>2, <2>3, Zenon
  <1>5. rows' \in [Key -> Seq(Row)]
    BY <1>4, Zenon
  <1>6. \A k \in Key : DOMAIN rows'[k] = DOMAIN rows[k]
    BY Zenon
  <1> QED
    BY <1>2, <1>5, <1>6 DEF RowsKept

LEMMA MigrateKeeps ==
    ASSUME StoreTypeOK, MigrateRejectedPending
    PROVE  /\ StoreTypeOK' /\ RowsKept
           /\ \A k \in Key : DOMAIN rows'[k] = DOMAIN rows[k]
           /\ \A k \in Key : \A n \in DOMAIN rows[k] :
                 rows'[k][n].open = rows[k][n].open
  <1>1. ASSUME NEW k \in Key, NEW n \in DOMAIN rows[k]
        PROVE  \E reason \in Reason :
                  rows'[k][n] = [rows[k][n] EXCEPT !.reason = reason]
    <2>1. rows[k][n] \in Row /\ rows[k][n].reason \in Reason
      <3>1. rows[k] \in Seq(Row)
        BY DEF StoreTypeOK
      <3>2. rows[k][n] \in Row
        BY <3>1
      <3> QED
        BY <3>2 DEF Row
    <2>2. Resubmission \in Reason
      BY DEF Reason
    <2> QED
      BY <2>1, <2>2 DEF MigrateRejectedPending
  <1>2. rows' = [k \in Key |-> rows'[k]]
    BY DEF MigrateRejectedPending
  <1>3. \A k \in Key : rows'[k] = [n \in DOMAIN rows[k] |-> rows'[k][n]]
    BY DEF MigrateRejectedPending
  <1>4. /\ rows' \in [Key -> Seq(Row)] /\ RowsKept
        /\ \A k \in Key : DOMAIN rows'[k] = DOMAIN rows[k]
        /\ \A k \in Key : \A n \in DOMAIN rows[k] :
              rows'[k][n].open = rows[k][n].open
    BY <1>1, <1>2, <1>3, RewriteReasons, Zenon
  <1> QED
    BY <1>4 DEF MigrateRejectedPending, StoreTypeOK

LEMMA MarkAllPendingKeeps ==
    ASSUME StoreTypeOK, NEW STATE reasons, reasons \in [Key -> Reason], MarkAllPending(reasons)
    PROVE  /\ StoreTypeOK' /\ RowsKept
           /\ \A k \in Key : DOMAIN rows'[k] = DOMAIN rows[k]
           /\ \A k \in Key : \A n \in DOMAIN rows[k] :
                 rows'[k][n].open = rows[k][n].open
  <1>1. ASSUME NEW k \in Key, NEW n \in DOMAIN rows[k]
        PROVE  \E reason \in Reason :
                  rows'[k][n] = [rows[k][n] EXCEPT !.reason = reason]
    <2>1. rows[k][n] \in Row /\ rows[k][n].reason \in Reason
      <3>1. rows[k] \in Seq(Row)
        BY DEF StoreTypeOK
      <3>2. rows[k][n] \in Row
        BY <3>1
      <3> QED
        BY <3>2 DEF Row
    <2> QED
      BY <2>1 DEF MarkAllPending
  <1>2. rows' = [k \in Key |-> rows'[k]]
    BY DEF MarkAllPending
  <1>3. \A k \in Key : rows'[k] = [n \in DOMAIN rows[k] |-> rows'[k][n]]
    BY DEF MarkAllPending
  <1>4. /\ rows' \in [Key -> Seq(Row)] /\ RowsKept
        /\ \A k \in Key : DOMAIN rows'[k] = DOMAIN rows[k]
        /\ \A k \in Key : \A n \in DOMAIN rows[k] :
              rows'[k][n].open = rows[k][n].open
    BY <1>1, <1>2, <1>3, RewriteReasons, Zenon
  <1> QED
    BY <1>4 DEF MarkAllPending, StoreTypeOK

\* The import only appends; a key with a pending row is left alone.
LEMMA ImportKeeps ==
    ASSUME StoreTypeOK, ImportPendingFromJsonl
    PROVE  /\ StoreTypeOK' /\ RowsKept
           /\ \A k \in Key : \/ rows'[k] = rows[k]
                             \/ /\ IsLogged(k) /\ ~IsPending(k)
                                /\ rows'[k] = Append(rows[k], ImportedRow(k))
  <1>1. ASSUME NEW k \in Key
        PROVE  \/ rows'[k] = rows[k]
               \/ /\ IsLogged(k) /\ ~IsPending(k)
                  /\ rows'[k] = Append(rows[k], ImportedRow(k))
    BY DEF ImportPendingFromJsonl, Unaccounted
  <1>2. ASSUME NEW k \in Key, IsLogged(k)
        PROVE  ImportedRow(k) \in Row
    <2>1. jsonl[k] \in Seq(Record) /\ jsonl[k] # <<>>
      BY <1>2 DEF StoreTypeOK, IsLogged
    <2>2. jsonl[k][1] \in Record
      BY <2>1
    <2> QED
      BY <2>2 DEF ImportedRow, Record, Row
  <1>3. ASSUME NEW k \in Key
        PROVE  /\ rows'[k] \in Seq(Row)
               /\ \A n \in DOMAIN rows[k] : /\ n \in DOMAIN rows'[k]
                                            /\ rows'[k][n] = rows[k][n]
    <2>1. rows[k] \in Seq(Row)
      BY DEF StoreTypeOK
    <2>2. CASE rows'[k] = rows[k]
      BY <2>1, <2>2
    <2>3. CASE IsLogged(k) /\ rows'[k] = Append(rows[k], ImportedRow(k))
      <3>1. ImportedRow(k) \in Row
        BY <1>2, <2>3
      <3> HIDE DEF ImportedRow
      <3> QED
        BY <2>1, <2>3, <3>1
    <2> QED
      BY <1>1, <2>2, <2>3
  <1>4. rows' \in [Key -> Seq(Row)]
    BY <1>3 DEF ImportPendingFromJsonl
  <1> QED
    BY <1>1, <1>3, <1>4 DEF RowsKept, ImportPendingFromJsonl, StoreTypeOK

----------------------------------------------------------------------------
USE DEF NoCost

----------------------------------------------------------------------------
(* The inductive invariant.                                                *)

\* What is on the stack is where a nested flush returns to; the outermost
\* caller comes last and is no flush itself.
StackOK ==
    /\ pc \in FlushLabel <=> stack # <<>>
    /\ \A i \in DOMAIN stack :
          /\ stack[i] \in {"flush", "loop", "send", "begin", "exit"}
          /\ stack[i] = "flush" <=> i < Len(stack)

HandlesHit == pc \in HitLabel \/ \E i \in DOMAIN stack : stack[i] = "send"

\* The hit in hand was just mined: nothing of it is in the queue before
\* enqueue() inserts it, and what the pool accepted it has recorded.
HitOK ==
    /\ HandlesHit <=> hit # NoHit
    /\ HandlesHit =>
         /\ mined[hit.key] # NoCost
         /\ rows[hit.key] = <<>>
         /\ pc = "insert" => jsonl[hit.key] # <<>>
         /\ pc = "answered" /\ SubmitAccepted(hit.answer) => hit.key \in recorded
         /\ Native /\ pc = "hit" => mined[hit.key] = difficulty

\* A task works on a row that exists, and likewise.
TasksOK ==
    \A t \in tasks :
        /\ t.row \in DOMAIN rows[t.key]
        /\ t.phase = "answered" /\ SubmitAccepted(t.answer) => t.key \in recorded
        /\ t.phase = "flushed" => t.key \in recorded

\* Only mined blocks are in the store: the m= of a row never changes.
MinedOK ==
    \A k \in Key : jsonl[k] # <<>> \/ rows[k] # <<>> => mined[k] # NoCost

\* The CPU backend mines at the configured memory cost, whatever the
\* difficulty: its hits can be filtered though they are real.
NativeHitsKept == Native => NoHitVanishes

IInv ==
    /\ TypeOK /\ StackOK /\ HitOK /\ TasksOK /\ MinedOK
    /\ ClosedRowsSettled /\ OneOpenRow /\ AcksAreTrue /\ NativeHitsKept

----------------------------------------------------------------------------
(* Types of the helpers. *)

LEMMA ConstantTypes ==
    /\ {NoAnswer, Stored, AlreadyExists, WrongM, OutOfWindow, GatewayTimeout,
        Refused} \subseteq Response
    /\ {Resubmission, OutsideXuniWindow, ShutdownPending, DifficultyChange,
        NetworkDown} \subseteq Reason
  BY DEF NoAnswer, Stored, AlreadyExists, WrongM, OutOfWindow, GatewayTimeout,
         Refused, Response, Phrase, Reason

LEMMA AnswerTypes == \A k \in Key : Answers(k) \subseteq Response
  BY ConstantTypes, PipelineAssumption DEF Answers

LEMMA SubmitTypes ==
    ASSUME TypeOK, NEW k \in Key, NEW r \in Answers(k), Submit(k, r)
    PROVE  /\ recorded' \subseteq Key /\ recorded \subseteq recorded'
           /\ r \in Response
           /\ SubmitAccepted(r) => k \in recorded'
  <1>1. /\ recorded' \subseteq Key /\ recorded \subseteq recorded' /\ r \in Response
    BY AnswerTypes DEF Submit, TypeOK
  <1>2. ASSUME SubmitAccepted(r)
        PROVE  k \in recorded'
    <2>1. ~SubmitAccepted(NoAnswer) /\ ~SubmitAccepted(WrongM)
          /\ ~SubmitAccepted(OutOfWindow) /\ ~SubmitAccepted(GatewayTimeout)
          /\ ~SubmitAccepted(Refused)
      BY DEF SubmitAccepted, SuccessStatus, NoAnswer, WrongM, OutOfWindow,
             GatewayTimeout, Refused
    <2>2. r = Stored \/ (r = AlreadyExists /\ k \in recorded)
      BY <1>2, <2>1, PipelineAssumption DEF Answers
    <2>3. Stored # AlreadyExists /\ Stored # NoAnswer
      BY DEF Stored, AlreadyExists, NoAnswer
    <2> QED
      BY <1>1, <2>2, <2>3 DEF Submit
  <1> QED
    BY <1>1, <1>2

\* The typing of the stack is kept by a call, and a return ends where the
\* caller was.
LEMMA CallTypes ==
    ASSUME TypeOK, StackOK, NEW label \in {"loop", "send", "flush"},
           label = "flush" <=> pc \in FlushLabel,
           pc \in HitLabel => label = "send",
           ContinueAt(label)
    PROVE  /\ pc' \in Label /\ stack' \in Seq(Label) /\ StackOK'
           /\ HandlesHit' <=> (HandlesHit \/ label = "send")
           /\ pc' \in {label, "tryflush"}
  <1>1. stack \in Seq(Label) /\ Len(stack) \in Nat /\ DOMAIN stack = 1 .. Len(stack)
        /\ label \in Label /\ "tryflush" \in Label
    BY DEF TypeOK, Label, BootLabel, HitLabel, FlushLabel
  <1>2. CASE ~Recovers
    <2>1. pc' = label /\ stack' = stack
      BY <1>2 DEF ContinueAt
    <2> QED
      BY <1>1, <2>1 DEF StackOK, HandlesHit, HitLabel, FlushLabel
  <1>3. CASE Recovers
    <2>1. pc' = "tryflush" /\ stack' = <<label>> \o stack
      BY <1>3 DEF ContinueAt
    <2>2. /\ stack' \in Seq(Label)
          /\ Len(stack') = Len(stack) + 1
          /\ stack'[1] = label
          /\ \A i \in 2 .. Len(stack') : stack'[i] = stack[i - 1]
      BY <1>1, <2>1
    <2>3. DOMAIN stack' = 1 .. Len(stack')
      BY <2>2
    <2>4. stack = <<>> <=> Len(stack) = 0
      BY <1>1
    <2>5. ASSUME NEW i \in DOMAIN stack'
          PROVE  /\ stack'[i] \in {"flush", "loop", "send", "begin", "exit"}
                 /\ stack'[i] = "flush" <=> i < Len(stack')
      <3>1. CASE i = 1
        BY <1>1, <2>2, <2>4, <3>1 DEF StackOK
      <3>2. CASE i # 1
        <4>1. i - 1 \in DOMAIN stack /\ stack'[i] = stack[i - 1]
          BY <1>1, <2>2, <2>3, <3>2
        <4> QED
          BY <1>1, <2>2, <2>3, <4>1 DEF StackOK
      <3> QED
        BY <3>1, <3>2
    <2>6. StackOK'
      <3>1. stack' # <<>>
        BY <2>1, <1>1
      <3> QED
        BY <2>1, <2>5, <3>1 DEF StackOK, FlushLabel
    <2>7. ASSUME HandlesHit', label # "send"
          PROVE  HandlesHit
      <3>1. PICK i \in DOMAIN stack' : stack'[i] = "send"
        BY <2>1, <2>7 DEF HandlesHit, HitLabel
      <3>2. i - 1 \in DOMAIN stack /\ stack[i - 1] = "send"
        BY <1>1, <2>2, <2>3, <2>7, <3>1
      <3> QED
        BY <3>2 DEF HandlesHit
    <2>8. ASSUME HandlesHit \/ label = "send"
          PROVE  HandlesHit'
      <3>1. CASE label = "send"
        BY <2>2, <2>3, <3>1 DEF HandlesHit
      <3>2. CASE label # "send"
        <4>1. PICK i \in DOMAIN stack : stack[i] = "send"
          BY <2>8, <3>2 DEF HandlesHit
        <4>2. i + 1 \in DOMAIN stack' /\ stack'[i + 1] = "send"
          BY <1>1, <2>2, <2>3, <4>1
        <4> QED
          BY <4>2 DEF HandlesHit
      <3> QED
        BY <3>1, <3>2
    <2> QED
      BY <1>1, <2>1, <2>2, <2>6, <2>7, <2>8
  <1> QED
    BY <1>2, <1>3

LEMMA ReturnTypes ==
    ASSUME TypeOK, StackOK, pc \in FlushLabel, Return
    PROVE  /\ pc' \in Label /\ stack' \in Seq(Label) /\ StackOK'
           /\ HandlesHit' <=> HandlesHit
           /\ pc' \notin {"hit", "answered", "insert"}
  <1>1. stack \in Seq(Label) /\ stack # <<>> /\ Len(stack) \in Nat
        /\ DOMAIN stack = 1 .. Len(stack) /\ Len(stack) > 0
    BY DEF TypeOK, StackOK
  <1>2. /\ pc' = stack[1]
        /\ stack' \in Seq(Label)
        /\ Len(stack') = Len(stack) - 1
        /\ \A i \in 1 .. Len(stack') : stack'[i] = stack[i + 1]
    BY <1>1 DEF Return
  <1>3. DOMAIN stack' = 1 .. Len(stack')
    BY <1>2
  <1>4. \A i \in DOMAIN stack' : i + 1 \in DOMAIN stack /\ stack'[i] = stack[i + 1]
    BY <1>1, <1>2, <1>3
  <1>5. stack' # <<>> <=> Len(stack) > 1
    BY <1>1, <1>2
  <1>6. \A i \in DOMAIN stack' :
          /\ stack'[i] \in {"flush", "loop", "send", "begin", "exit"}
          /\ stack'[i] = "flush" <=> i < Len(stack')
    BY <1>1, <1>2, <1>3, <1>4 DEF StackOK
  <1>7. /\ pc' \in {"flush", "loop", "send", "begin", "exit"}
        /\ pc' = "flush" <=> 1 < Len(stack)
    BY <1>1, <1>2 DEF StackOK
  <1>8. StackOK'
    BY <1>5, <1>6, <1>7, <1>1 DEF StackOK, FlushLabel
  <1>9. pc' \in Label
    BY <1>7 DEF Label, BootLabel, HitLabel, FlushLabel
  <1>10. ASSUME HandlesHit'
         PROVE  HandlesHit
    <2>1. CASE pc' \in HitLabel
      <3>1. stack[1] = "send" /\ 1 \in DOMAIN stack
        BY <1>1, <1>2, <1>7, <2>1 DEF HitLabel
      <3> QED
        BY <3>1 DEF HandlesHit
    <2>2. CASE \E i \in DOMAIN stack' : stack'[i] = "send"
      BY <1>4, <2>2 DEF HandlesHit
    <2> QED
      BY <1>10, <2>1, <2>2 DEF HandlesHit
  <1>11. ASSUME HandlesHit
         PROVE  HandlesHit'
    <2>1. PICK i \in DOMAIN stack : stack[i] = "send"
      BY <1>11 DEF HandlesHit, HitLabel, FlushLabel
    <2>2. CASE i = 1
      BY <1>2, <2>1, <2>2 DEF HandlesHit, HitLabel
    <2>3. CASE i # 1
      <3>1. i - 1 \in DOMAIN stack' /\ stack'[i - 1] = "send"
        BY <1>1, <1>2, <1>3, <2>1, <2>3
      <3> QED
        BY <3>1 DEF HandlesHit
    <2> QED
      BY <2>2, <2>3
  <1> QED
    BY <1>2, <1>7, <1>8, <1>9, <1>10, <1>11

----------------------------------------------------------------------------
(* Frames: what a step that leaves some variables alone cannot disturb.    *)

LEMMA StoreFrame ==
    ASSUME MinedOK, ClosedRowsSettled, OneOpenRow,
           rows' = rows, jsonl' = jsonl, mined' = mined, recorded \subseteq recorded'
    PROVE  MinedOK' /\ ClosedRowsSettled' /\ OneOpenRow'
  BY DEF MinedOK, ClosedRowsSettled, CostKnown, KnownCost, OneOpenRow, OpenRows

LEMMA TasksFrame ==
    ASSUME TypeOK, TasksOK, tasks' \subseteq tasks, recorded \subseteq recorded',
           \A k \in Key : DOMAIN rows[k] \subseteq DOMAIN rows'[k]
    PROVE  TasksOK'
  BY DEF TypeOK, Task, TasksOK

LEMMA HitFrame ==
    ASSUME HitOK, hit' = hit, HandlesHit' <=> HandlesHit,
           mined' = mined, recorded \subseteq recorded',
           HandlesHit => rows'[hit.key] = rows[hit.key],
           HandlesHit => jsonl'[hit.key] = jsonl[hit.key],
           \/ pc' = pc /\ difficulty' = difficulty
           \/ pc' \notin {"hit", "answered", "insert"}
    PROVE  HitOK'
  BY DEF HitOK

\* A hit may leave the main thread's hands once it is in the log, at the
\* pool, a false positive or written off.
VanishFrame ==
    /\ mined' = mined
    /\ \A k \in Key : IsLogged(k) => IsLogged(k)'
    /\ recorded \subseteq recorded'
    /\ lost \subseteq lost'
    /\ \A k \in HitInHand : \/ k \in HitInHand' \/ IsLogged(k)'
                            \/ k \in recorded' \cup lost' \cup Bogus

LEMMA VanishFrameKeeps ==
    ASSUME NativeHitsKept, Native => VanishFrame
    PROVE  NativeHitsKept'
  BY DEF NativeHitsKept, NoHitVanishes, VanishFrame

LEMMA AcksFrame ==
    ASSUME AcksAreTrue, acked' = acked, credited' = credited,
           submitted' = submitted, recorded \subseteq recorded'
    PROVE  AcksAreTrue'
  BY DEF AcksAreTrue, AcceptedKeys

\* A step that changes neither the store, nor the hit, nor the tasks.
LEMMA QuietFrame ==
    ASSUME IInv, UNCHANGED <<storeVars, hit, history, tasks>>,
           recorded \subseteq recorded', HandlesHit' <=> HandlesHit,
           \/ pc' = pc /\ difficulty' = difficulty
           \/ pc' \notin {"hit", "answered", "insert"},
           TypeOK', StackOK'
    PROVE  IInv'
  <1>1. UNCHANGED <<jsonl, rows, submitted, mined, acked, credited, lost>>
    BY DEF storeVars, history
  <1>2. MinedOK' /\ ClosedRowsSettled' /\ OneOpenRow'
    BY <1>1, StoreFrame DEF IInv
  <1>3. TasksOK'
    BY <1>1, TasksFrame DEF IInv
  <1>4. HitOK'
    BY <1>1, HitFrame DEF IInv
  <1>5. AcksAreTrue'
    BY <1>1, AcksFrame DEF IInv
  <1>6. NativeHitsKept'
    <2>1. VanishFrame
      BY <1>1 DEF VanishFrame, IsLogged, HitInHand
    <2> QED
      BY <2>1, VanishFrameKeeps DEF IInv
  <1> QED
    BY <1>2, <1>3, <1>4, <1>5, <1>6 DEF IInv

----------------------------------------------------------------------------
(* The steps that keep the store, the hit and the tasks as they are.       *)

LEMMA LabelTypes ==
    /\ {"off", "loop", "stop", "exit"} \subseteq Label
    /\ BootLabel \subseteq Label /\ HitLabel \subseteq Label /\ FlushLabel \subseteq Label
    /\ {"off", "loop", "stop", "exit"} \cap (HitLabel \cup FlushLabel) = {}
    /\ BootLabel \cap (HitLabel \cup FlushLabel) = {}
    /\ HitLabel \cap FlushLabel = {}
  BY DEF Label, BootLabel, HitLabel, FlushLabel

LEMMA WorldStep ==
    ASSUME IInv, World
    PROVE  IInv'
  <1>1. UNCHANGED <<storeVars, hit, history, tasks, recorded, pc, stack, difficulty>>
    BY DEF World, PoolRetarget, NetworkFlip, WindowFlip, Poll, TransitionEnds,
           procVars, netVars, poolVars, history
  <1>2. TypeOK'
    BY <1>1 DEF IInv, World, PoolRetarget, NetworkFlip, WindowFlip, Poll,
                TransitionEnds, procVars, netVars, poolVars, history, storeVars,
                TypeOK, StoreTypeOK, PoolStatus
  <1>3. StackOK' /\ (HandlesHit' <=> HandlesHit)
    BY <1>1 DEF IInv, StackOK, HandlesHit
  <1> QED
    BY <1>1, <1>2, <1>3, QuietFrame

\* A step that moves the main thread between points outside any flush.
LEMMA MoveFrame ==
    ASSUME IInv, pc \notin FlushLabel \cup HitLabel,
           pc' \notin FlushLabel \cup HitLabel, stack' = stack
    PROVE  StackOK' /\ (HandlesHit' <=> HandlesHit) /\ pc' \notin {"hit", "answered", "insert"}
  BY DEF IInv, StackOK, HandlesHit, HitLabel

\* A step that empties the stack, or puts one caller on an empty one.
LEMMA EmptyStack ==
    ASSUME stack' = <<>>, pc' \notin FlushLabel \cup HitLabel
    PROVE  StackOK' /\ ~HandlesHit' /\ stack' \in Seq(Label)
  BY DEF StackOK, HandlesHit

LEMMA OneCaller ==
    ASSUME NEW label \in {"loop", "begin", "exit"},
           stack' = <<label>>, pc' \in FlushLabel
    PROVE  StackOK' /\ ~HandlesHit' /\ stack' \in Seq(Label)
  <1>1. label \in Label /\ label # "flush" /\ label # "send"
    BY DEF Label, BootLabel
  <1>2. stack' \in Seq(Label) /\ stack' # <<>> /\ Len(stack') = 1
        /\ DOMAIN stack' = {1} /\ stack'[1] = label
    BY <1>1
  <1> QED
    BY <1>1, <1>2, LabelTypes DEF StackOK, HandlesHit

LEMMA StartStep ==
    ASSUME IInv, Start
    PROVE  IInv'
  <1>1. UNCHANGED <<storeVars, hit, mined, acked, credited, lost, tasks, recorded, stack>>
        /\ pc = "off" /\ pc' = "import" /\ session' = session + 1
    BY DEF Start, poolVars
  <1>2. TypeOK'
    BY <1>1, LabelTypes DEF IInv, Start, netVars, poolVars, storeVars, TypeOK,
                            StoreTypeOK, BootLabel
  <1>3. StackOK' /\ (HandlesHit' <=> HandlesHit) /\ pc' \notin {"hit", "answered", "insert"}
    BY <1>1, LabelTypes, MoveFrame DEF BootLabel
  <1>4. UNCHANGED <<jsonl, rows, submitted>>
    BY <1>1 DEF storeVars
  <1>5. MinedOK' /\ ClosedRowsSettled' /\ OneOpenRow'
    BY <1>1, <1>4, StoreFrame DEF IInv
  <1>6. TasksOK'
    BY <1>1, <1>4, TasksFrame DEF IInv
  <1>7. HitOK'
    BY <1>1, <1>3, <1>4, HitFrame DEF IInv
  <1>8. AcksAreTrue'
    BY <1>1, <1>4, AcksFrame DEF IInv
  <1>9. NativeHitsKept'
    <2>1. VanishFrame
      BY <1>1, <1>4 DEF VanishFrame, IsLogged, HitInHand
    <2> QED
      BY <2>1, VanishFrameKeeps DEF IInv
  <1> QED
    BY <1>2, <1>3, <1>5, <1>6, <1>7, <1>8, <1>9 DEF IInv

LEMMA NetworkTypes ==
    ASSUME TypeOK, NEW STATE status, status \in Difficulty \cup {NoCost},
           NetworkDownSeen(status) \/ NetworkUpSeen(status)
    PROVE  /\ difficulty' \in Difficulty
           /\ settling' \in BOOLEAN /\ netOk' \in BOOLEAN /\ wasDown' \in BOOLEAN
  BY DEF TypeOK, NetworkDownSeen, NetworkUpSeen

LEMMA QuietBootStep ==
    ASSUME IInv, Probe \/ Resume \/ Begin
    PROVE  IInv'
  <1>1. UNCHANGED <<storeVars, hit, history, tasks, recorded>>
    BY DEF Probe, Resume, Begin, poolVars, netVars
  <1>2. CASE Probe
    <2>1. pc = "probe" /\ pc' = "resume" /\ stack' = stack
      BY <1>2 DEF Probe
    <2>2. TypeOK'
      BY <1>1, <1>2, LabelTypes, PipelineAssumption
         DEF IInv, Probe, poolVars, storeVars, history, TypeOK, StoreTypeOK, BootLabel
    <2> QED
      BY <1>1, <2>1, <2>2, LabelTypes, MoveFrame, QuietFrame DEF BootLabel
  <1>3. CASE Begin
    <2>1. pc = "begin" /\ pc' = "loop" /\ stack' = stack
      BY <1>3 DEF Begin
    <2>2. TypeOK'
      BY <1>1, <1>3, LabelTypes
         DEF IInv, Begin, poolVars, netVars, storeVars, history, TypeOK, StoreTypeOK
    <2> QED
      BY <1>1, <2>1, <2>2, LabelTypes, MoveFrame, QuietFrame DEF BootLabel
  <1>4. CASE Resume
    <2>1. pc = "resume" /\ stack = <<>> /\ ~HandlesHit
      BY <1>4 DEF IInv, Resume, StackOK, FlushLabel, HandlesHit, HitLabel
    <2>2. \/ pc' = "begin" /\ stack' = <<>>
          \/ pc' = "flush" /\ stack' = <<"begin">>
      BY <1>4, <2>1 DEF Resume
    <2>3. pc' \in Label /\ stack' \in Seq(Label) /\ StackOK' /\ ~HandlesHit'
      BY <2>2, LabelTypes, EmptyStack, OneCaller DEF BootLabel, FlushLabel
    <2>4. TypeOK'
      BY <1>1, <1>4, <2>3
         DEF IInv, Resume, poolVars, netVars, storeVars, history, TypeOK, StoreTypeOK
    <2> QED
      BY <1>1, <2>1, <2>2, <2>3, <2>4, QuietFrame
  <1> QED
    BY <1>2, <1>3, <1>4

LEMMA PolledType == ASSUME TypeOK PROVE polled \in Difficulty \cup {NoCost}
  BY DEF TypeOK

LEMMA NetCheckStep ==
    ASSUME IInv, NetCheck
    PROVE  IInv'
  <1>1. UNCHANGED <<storeVars, hit, history, tasks, recorded>> /\ pc = "loop"
    BY DEF NetCheck, poolVars
  <1>2. TypeOK /\ StackOK /\ pc \notin FlushLabel \cup HitLabel
    BY <1>1, LabelTypes DEF IInv
  <1>3. /\ difficulty' \in Difficulty
        /\ settling' \in BOOLEAN /\ netOk' \in BOOLEAN /\ wasDown' \in BOOLEAN
    BY <1>2, PolledType, NetworkTypes DEF NetCheck
  <1>4. CASE UNCHANGED <<pc, stack>>
    <2>1. StackOK' /\ (HandlesHit' <=> HandlesHit) /\ pc' \notin {"hit", "answered", "insert"}
      BY <1>1, <1>2, <1>4, MoveFrame
    <2>2. TypeOK'
      BY <1>1, <1>2, <1>3, <1>4
         DEF NetCheck, poolVars, storeVars, history, TypeOK, StoreTypeOK
    <2> QED
      BY <1>1, <2>1, <2>2, QuietFrame
  <1>5. CASE ContinueAt("loop")
    <2>1. /\ pc' \in Label /\ stack' \in Seq(Label) /\ StackOK'
          /\ HandlesHit' <=> HandlesHit
          /\ pc' \in {"loop", "tryflush"}
      BY <1>2, <1>5, LabelTypes, CallTypes DEF FlushLabel
    <2>2. TypeOK'
      BY <1>1, <1>2, <1>3, <2>1
         DEF NetCheck, poolVars, storeVars, history, TypeOK, StoreTypeOK
    <2> QED
      BY <1>1, <2>1, <2>2, QuietFrame
  <1> QED
    BY <1>4, <1>5 DEF NetCheck

LEMMA ServiceStep ==
    ASSUME IInv, Service \/ MaxRuntime
    PROVE  IInv'
  <1>1. UNCHANGED <<storeVars, hit, history, tasks, recorded, difficulty>> /\ pc = "loop"
    BY DEF Service, MaxRuntime, poolVars, netVars
  <1>2. stack = <<>> /\ ~HandlesHit
    BY <1>1 DEF IInv, StackOK, FlushLabel, HandlesHit, HitLabel
  <1>3. \/ pc' = "tryflush" /\ stack' = <<"loop">>
        \/ pc' = "stop" /\ stack' = <<>>
    BY <1>2 DEF Service, MaxRuntime
  <1>4. pc' \in Label /\ stack' \in Seq(Label) /\ StackOK' /\ ~HandlesHit'
    BY <1>3, LabelTypes, EmptyStack, OneCaller DEF FlushLabel
  <1>5. TypeOK'
    BY <1>1, <1>4 DEF IInv, Service, MaxRuntime, poolVars, netVars, storeVars,
                      history, TypeOK, StoreTypeOK
  <1> QED
    BY <1>1, <1>2, <1>3, <1>4, <1>5, QuietFrame

LEMMA QuietFlushStep ==
    ASSUME IInv, TryFlushHeld \/ TryFlush \/ (BeginFlush /\ tasks' = tasks)
    PROVE  IInv'
  <1>1. UNCHANGED <<storeVars, hit, history, tasks, recorded>>
    BY DEF TryFlushHeld, TryFlush, BeginFlush, poolVars, netVars
  <1>2. TypeOK /\ StackOK /\ pc \in {"tryflush", "flush"} /\ pc \in FlushLabel
    BY DEF IInv, TryFlushHeld, TryFlush, BeginFlush, FlushLabel
  <1>3. /\ difficulty' \in Difficulty
        /\ settling' \in BOOLEAN /\ netOk' \in BOOLEAN /\ wasDown' \in BOOLEAN
    <2>1. CASE UNCHANGED netVars
      BY <1>2, <2>1 DEF netVars, TypeOK
    <2>2. CASE TryFlush
      BY <1>2, <2>2, PolledType, NetworkTypes DEF TryFlush
    <2> QED
      BY <2>1, <2>2 DEF TryFlushHeld, BeginFlush
  <1>4. CASE Return
    <2>1. /\ pc' \in Label /\ stack' \in Seq(Label) /\ StackOK'
          /\ HandlesHit' <=> HandlesHit
          /\ pc' \notin {"hit", "answered", "insert"}
      BY <1>2, <1>4, ReturnTypes
    <2>2. TypeOK'
      BY <1>1, <1>2, <1>3, <2>1
         DEF TryFlushHeld, TryFlush, BeginFlush, poolVars, netVars, storeVars,
             history, TypeOK, StoreTypeOK
    <2> QED
      BY <1>1, <2>1, <2>2, QuietFrame
  <1>5. CASE TryFlush /\ ContinueAt("flush")
    <2>1. /\ pc' \in Label /\ stack' \in Seq(Label) /\ StackOK'
          /\ HandlesHit' <=> HandlesHit
          /\ pc' \in {"flush", "tryflush"}
      BY <1>2, <1>5, LabelTypes, CallTypes
    <2>2. TypeOK'
      BY <1>1, <1>2, <1>3, <1>5, <2>1
         DEF TryFlush, poolVars, storeVars, history, TypeOK, StoreTypeOK
    <2> QED
      BY <1>1, <2>1, <2>2, QuietFrame
  <1>6. CASE BeginFlush /\ pc' = "flushing" /\ stack' = stack
    <2>1. pc' \in Label /\ StackOK' /\ (HandlesHit' <=> HandlesHit)
      BY <1>2, <1>6, LabelTypes DEF StackOK, HandlesHit, FlushLabel, HitLabel
    <2>2. TypeOK'
      BY <1>1, <1>2, <1>3, <1>6, <2>1
         DEF BeginFlush, poolVars, storeVars, history, TypeOK, StoreTypeOK
    <2> QED
      BY <1>1, <1>6, <2>1, <2>2, QuietFrame
  <1> QED
    BY <1>4, <1>5, <1>6 DEF TryFlushHeld, TryFlush, BeginFlush

----------------------------------------------------------------------------
(* Steps of the main thread that write to the store, mine or run a flush.  *)

LEMMA SettledFrame ==
    ASSUME StoreTypeOK, ClosedRowsSettled, RowsKept, mined' = mined,
           recorded \subseteq recorded',
           \A k \in Key : \A n \in DOMAIN rows'[k] :
              ~rows'[k][n].open =>
                 /\ n \in DOMAIN rows[k]
                 /\ \/ ~rows[k][n].open \/ k \in recorded' \cup Bogus
                    \/ ~CostKnown(k, rows[k][n])
    PROVE  ClosedRowsSettled'
  <1>1. ASSUME NEW k \in Key, NEW n \in DOMAIN rows'[k], ~rows'[k][n].open
        PROVE  k \in recorded' \cup Bogus \/ ~CostKnown(k, rows[k][n])
    BY <1>1 DEF ClosedRowsSettled
  <1>2. ASSUME NEW k \in Key, NEW n \in DOMAIN rows'[k], ~rows'[k][n].open
        PROVE  CostKnown(k, rows[k][n])' <=> CostKnown(k, rows[k][n])
    <2>1. n \in DOMAIN rows[k]
      BY <1>2
    <2>2. rows'[k][n].cost = rows[k][n].cost /\ rows'[k][n].raw = rows[k][n].raw
      BY <2>1 DEF RowsKept
    <2> QED
      BY <2>2 DEF CostKnown, KnownCost
  <1>3. ASSUME NEW k \in Key, NEW n \in DOMAIN rows'[k], ~rows'[k][n].open
        PROVE  k \in recorded' \/ k \in Bogus \/ ~CostKnown(k, rows[k][n])'
    BY <1>1, <1>2, <1>3
  <1> QED
    BY <1>3 DEF ClosedRowsSettled

LEMMA OneOpenFrame ==
    ASSUME StoreTypeOK, OneOpenRow, RowsKept,
           \A k \in Key :
              \/ DOMAIN rows'[k] = DOMAIN rows[k]
              \/ OpenRows(k) = {} /\ \E row : rows'[k] = Append(rows[k], row)
    PROVE  OneOpenRow'
  <1>1. ASSUME NEW k \in Key, NEW m \in OpenRows(k)', NEW n \in OpenRows(k)'
        PROVE  m = n
    <2>1. rows[k] \in Seq(Row)
      BY DEF StoreTypeOK
    <2>2. CASE DOMAIN rows'[k] = DOMAIN rows[k]
      BY <2>2 DEF OneOpenRow, OpenRows, RowsKept
    <2>3. CASE OpenRows(k) = {} /\ \E row : rows'[k] = Append(rows[k], row)
      <3>1. PICK row : rows'[k] = Append(rows[k], row)
        BY <2>3
      <3>2. DOMAIN rows'[k] = DOMAIN rows[k] \cup {Len(rows[k]) + 1}
        BY <2>1, <3>1
      <3>3. \A i \in DOMAIN rows[k] : ~rows'[k][i].open
        BY <2>3 DEF OpenRows, RowsKept
      <3> QED
        BY <3>2, <3>3 DEF OpenRows
    <2> QED
      BY <2>2, <2>3
  <1> QED
    BY <1>1 DEF OneOpenRow

LEMMA KeptDomains ==
    ASSUME RowsKept
    PROVE  \A k \in Key : DOMAIN rows[k] \subseteq DOMAIN rows'[k]
  BY DEF RowsKept

LEMMA ImportStep ==
    ASSUME IInv, Import
    PROVE  IInv'
  <1>1. UNCHANGED <<jsonl, submitted, rejlog, mined, acked, credited, lost, session,
                    recorded, hit, tasks, stack>>
    BY DEF Import, ImportPendingFromJsonl, poolVars, history
  <1>2. TypeOK /\ StoreTypeOK /\ pc = "import" /\ pc' = "migrate" /\ stack' = stack
    BY DEF IInv, TypeOK, Import
  <1>3. /\ StoreTypeOK' /\ RowsKept
        /\ \A k \in Key : \/ rows'[k] = rows[k]
                          \/ /\ IsLogged(k) /\ ~IsPending(k)
                             /\ rows'[k] = Append(rows[k], ImportedRow(k))
    BY <1>2, ImportKeeps DEF Import
  <1>4. TypeOK'
    BY <1>1, <1>2, <1>3, LabelTypes DEF Import, poolVars, netVars, TypeOK, BootLabel
  <1>5. StackOK' /\ (HandlesHit' <=> HandlesHit) /\ ~HandlesHit
        /\ pc' \notin {"hit", "answered", "insert"}
    <2>1. pc \notin FlushLabel \cup HitLabel /\ pc' \notin FlushLabel \cup HitLabel
      BY <1>2, LabelTypes DEF BootLabel
    <2>2. ~HandlesHit
      BY <2>1 DEF IInv, StackOK, HandlesHit
    <2> QED
      BY <1>2, <2>1, <2>2, MoveFrame
  <1>6. HitOK'
    BY <1>1, <1>5, HitFrame DEF IInv
  <1>7. TasksOK'
    BY <1>1, <1>2, <1>3, KeptDomains, TasksFrame DEF IInv
  <1>8. MinedOK'
    BY <1>1, <1>3 DEF IInv, MinedOK, IsLogged
  <1>9. ClosedRowsSettled'
    <2>1. ASSUME NEW k \in Key, NEW n \in DOMAIN rows'[k], ~rows'[k][n].open
          PROVE  n \in DOMAIN rows[k] /\ ~rows[k][n].open
      <3>1. rows[k] \in Seq(Row)
        BY <1>2 DEF StoreTypeOK
      <3>2. CASE rows'[k] = rows[k]
        BY <2>1, <3>2
      <3>3. CASE rows'[k] = Append(rows[k], ImportedRow(k))
        <4>1. ImportedRow(k).open
          BY DEF ImportedRow
        <4> HIDE DEF ImportedRow
        <4>2. n \in DOMAIN rows[k] \/ rows'[k][n] = ImportedRow(k)
          BY <3>1, <3>3
        <4>3. n \in DOMAIN rows[k] => rows'[k][n] = rows[k][n]
          BY <3>1, <3>3
        <4> QED
          BY <2>1, <4>1, <4>2, <4>3
      <3> QED
        BY <1>3, <3>2, <3>3
    <2> QED
      BY <1>1, <1>2, <1>3, <2>1, SettledFrame DEF IInv
  <1>10. OneOpenRow'
    BY <1>2, <1>3, OneOpenFrame DEF IInv, IsPending
  <1>11. AcksAreTrue'
    BY <1>1, AcksFrame DEF IInv
  <1>12. NativeHitsKept'
    <2>1. VanishFrame
      BY <1>1 DEF VanishFrame, IsLogged, HitInHand
    <2> QED
      BY <2>1, VanishFrameKeeps DEF IInv
  <1> QED
    BY <1>4, <1>5, <1>6, <1>7, <1>8, <1>9, <1>10, <1>11, <1>12 DEF IInv

\* Updates of reasons close no row and open none.
LEMMA ReasonsFrame ==
    ASSUME IInv, RowsKept, UNCHANGED <<jsonl, submitted, mined, acked, credited, lost>>,
           hit' = hit, tasks' = tasks, recorded \subseteq recorded',
           \A k \in Key : DOMAIN rows'[k] = DOMAIN rows[k],
           \A k \in Key : \A n \in DOMAIN rows[k] : rows'[k][n].open = rows[k][n].open,
           rows' \in [Key -> Seq(Row)],
           ~HandlesHit, ~HandlesHit'
    PROVE  /\ HitOK' /\ TasksOK' /\ MinedOK' /\ ClosedRowsSettled' /\ OneOpenRow'
           /\ AcksAreTrue' /\ NativeHitsKept'
  <1>1. TypeOK /\ StoreTypeOK
    BY DEF IInv, TypeOK
  <1>2. HitOK'
    BY DEF IInv, HitOK
  <1>3. TasksOK'
    BY <1>1, KeptDomains, TasksFrame DEF IInv
  <1>4. MinedOK'
    <2>1. ASSUME NEW k \in Key, rows'[k] # <<>>
          PROVE  rows[k] # <<>>
      <3>1. rows[k] \in Seq(Row) /\ rows'[k] \in Seq(Row)
            /\ DOMAIN rows'[k] = DOMAIN rows[k]
        BY <1>1 DEF StoreTypeOK
      <3> QED
        BY <2>1, <3>1
    <2> QED
      BY <2>1 DEF IInv, MinedOK
  <1>5. ClosedRowsSettled'
    BY <1>1, SettledFrame DEF IInv
  <1>6. OneOpenRow'
    BY <1>1, OneOpenFrame DEF IInv
  <1>7. AcksAreTrue'
    BY AcksFrame DEF IInv
  <1>8. NativeHitsKept'
    <2>1. VanishFrame
      BY DEF VanishFrame, IsLogged, HitInHand
    <2> QED
      BY <2>1, VanishFrameKeeps DEF IInv
  <1> QED
    BY <1>2, <1>3, <1>4, <1>5, <1>6, <1>7, <1>8

LEMMA MigrateStep ==
    ASSUME IInv, Migrate
    PROVE  IInv'
  <1>1. UNCHANGED <<jsonl, submitted, mined, acked, credited, lost, session,
                    recorded, hit, tasks, stack>>
        /\ pc = "migrate" /\ pc' = "probe" /\ TypeOK /\ StoreTypeOK
    BY DEF IInv, TypeOK, Migrate, MigrateRejectedPending, poolVars, history
  <1>2. /\ StoreTypeOK' /\ RowsKept
        /\ \A k \in Key : DOMAIN rows'[k] = DOMAIN rows[k]
        /\ \A k \in Key : \A n \in DOMAIN rows[k] : rows'[k][n].open = rows[k][n].open
    BY <1>1, MigrateKeeps DEF Migrate
  <1>3. TypeOK'
    BY <1>1, <1>2, LabelTypes DEF Migrate, poolVars, netVars, TypeOK, BootLabel
  <1>4. pc \notin FlushLabel \cup HitLabel /\ pc' \notin FlushLabel \cup HitLabel
    BY <1>1, LabelTypes DEF BootLabel
  <1>5. ~HandlesHit /\ ~HandlesHit' /\ StackOK'
    <2>1. ~HandlesHit
      BY <1>4 DEF IInv, StackOK, HandlesHit
    <2> QED
      BY <1>1, <1>4, <2>1, MoveFrame
  <1>6. /\ HitOK' /\ TasksOK' /\ MinedOK' /\ ClosedRowsSettled' /\ OneOpenRow'
        /\ AcksAreTrue' /\ NativeHitsKept'
    BY <1>1, <1>2, <1>5, ReasonsFrame DEF StoreTypeOK
  <1> QED
    BY <1>3, <1>5, <1>6 DEF IInv

\* A block is mined once, before anything of it is in the store.
LEMMA MinedFrame ==
    ASSUME IInv, NEW k \in Key, mined[k] = NoCost, NEW m \in Difficulty,
           mined' = [mined EXCEPT ![k] = m],
           UNCHANGED <<jsonl, rows, recorded>>
    PROVE  /\ MinedOK' /\ ClosedRowsSettled' /\ OneOpenRow'
           /\ rows[k] = <<>> /\ mined' \in [Key -> Difficulty \cup {NoCost}]
           /\ mined'[k] = m /\ \A j \in Key \ {k} : mined'[j] = mined[j]
           /\ m # NoCost
  <1>1. /\ mined' \in [Key -> Difficulty \cup {NoCost}]
        /\ mined'[k] = m /\ \A j \in Key \ {k} : mined'[j] = mined[j]
        /\ m # NoCost
    BY DifficultyAssumption DEF IInv, TypeOK
  <1>2. rows[k] = <<>>
    BY DEF IInv, MinedOK
  <1>3. MinedOK'
    BY <1>1 DEF IInv, MinedOK
  <1>4. OneOpenRow'
    BY DEF IInv, OneOpenRow, OpenRows
  <1>5. ClosedRowsSettled'
    <2>1. ASSUME NEW j \in Key, NEW n \in DOMAIN rows[j], ~rows[j][n].open
          PROVE  j \in recorded \/ j \in Bogus \/ ~CostKnown(j, rows[j][n])'
      <3>1. j # k
        BY <1>2
      <3>2. CostKnown(j, rows[j][n])' <=> CostKnown(j, rows[j][n])
        BY <1>1, <3>1 DEF CostKnown, KnownCost
      <3> QED
        BY <2>1, <3>2 DEF IInv, ClosedRowsSettled
    <2> QED
      BY <2>1 DEF ClosedRowsSettled
  <1> QED
    BY <1>1, <1>2, <1>3, <1>4, <1>5

LEMMA MineStep ==
    ASSUME IInv, NEW k \in Key, Mine(k)
    PROVE  IInv'
  <1>1. UNCHANGED <<jsonl, rows, submitted, rejlog, recorded, difficulty, stack, tasks,
                    acked, credited, lost, session>>
        /\ pc = "loop" /\ pc' = "hit" /\ mined[k] = NoCost
        /\ TypeOK /\ StoreTypeOK
    BY DEF IInv, TypeOK, Mine, storeVars, poolVars, netVars
  <1>2. MiningCost \in Difficulty
    BY <1>1, PipelineAssumption DEF TypeOK, MiningCost
  <1>3. /\ MinedOK' /\ ClosedRowsSettled' /\ OneOpenRow'
        /\ rows[k] = <<>> /\ mined' \in [Key -> Difficulty \cup {NoCost}]
        /\ mined'[k] = MiningCost /\ \A j \in Key \ {k} : mined'[j] = mined[j]
        /\ MiningCost # NoCost
    <2> DEFINE m == MiningCost
    <2>1. m \in Difficulty /\ mined' = [mined EXCEPT ![k] = m]
      BY <1>2 DEF Mine
    <2> HIDE DEF m
    <2>2. /\ MinedOK' /\ ClosedRowsSettled' /\ OneOpenRow'
          /\ rows[k] = <<>> /\ mined' \in [Key -> Difficulty \cup {NoCost}]
          /\ mined'[k] = m /\ \A j \in Key \ {k} : mined'[j] = mined[j]
          /\ m # NoCost
      BY <1>1, <2>1, MinedFrame
    <2> QED
      BY <2>2 DEF m
  <1>4. hit' \in Hit /\ hit'.key = k /\ hit' # NoHit
    BY <1>1, PipelineAssumption, ConstantTypes, NoHitAssumption DEF Mine, Hit, TypeOK
  <1>5. TypeOK'
    BY <1>1, <1>3, <1>4, LabelTypes
       DEF Mine, poolVars, netVars, TypeOK, StoreTypeOK, HitLabel
  <1>6. StackOK' /\ stack = <<>> /\ ~HandlesHit
    BY <1>1 DEF IInv, StackOK, HandlesHit, FlushLabel, HitLabel
  <1>7. HandlesHit'
    BY <1>1 DEF HandlesHit, HitLabel
  <1>8. HitOK'
    BY <1>1, <1>3, <1>4, <1>7 DEF HitOK, MiningCost
  <1>9. TasksOK'
    BY <1>1, TasksFrame DEF IInv
  <1>10. AcksAreTrue'
    BY <1>1, AcksFrame DEF IInv
  <1>11. NativeHitsKept'
    <2>1. hit = NoHit
      BY <1>6 DEF IInv, HitOK
    <2> QED
      BY <1>1, <1>3, <1>4, <2>1 DEF IInv, NativeHitsKept, NoHitVanishes, HitInHand, IsLogged
  <1> QED
    BY <1>3, <1>5, <1>6, <1>8, <1>9, <1>10, <1>11 DEF IInv

LEMMA AbortedBatchStep ==
    ASSUME IInv, NEW k \in Key, AbortedBatch(k)
    PROVE  IInv'
  <1>1. UNCHANGED <<jsonl, rows, submitted, rejlog, recorded, difficulty, hit, tasks,
                    acked, credited, session>>
        /\ pc = "loop" /\ pc' = "tryflush" /\ stack' = <<"loop">> /\ mined[k] = NoCost
        /\ lost' = lost \cup {k} /\ TypeOK /\ StoreTypeOK
    BY DEF IInv, TypeOK, AbortedBatch, storeVars, poolVars, netVars
  <1>2. MiningCost \in Difficulty
    BY <1>1, PipelineAssumption DEF TypeOK, MiningCost
  <1>3. /\ MinedOK' /\ ClosedRowsSettled' /\ OneOpenRow'
        /\ mined' \in [Key -> Difficulty \cup {NoCost}]
        /\ \A j \in Key \ {k} : mined'[j] = mined[j]
    <2> DEFINE m == MiningCost
    <2>1. m \in Difficulty /\ mined' = [mined EXCEPT ![k] = m]
      BY <1>2 DEF AbortedBatch
    <2> HIDE DEF m
    <2> QED
      BY <1>1, <2>1, MinedFrame
  <1>4. StackOK' /\ ~HandlesHit' /\ stack' \in Seq(Label)
    BY <1>1, OneCaller DEF FlushLabel
  <1>5. TypeOK'
    BY <1>1, <1>3, <1>4, LabelTypes
       DEF AbortedBatch, poolVars, netVars, TypeOK, StoreTypeOK, FlushLabel
  <1>6. ~HandlesHit
    BY <1>1 DEF IInv, StackOK, HandlesHit, FlushLabel, HitLabel
  <1>7. HitOK'
    BY <1>1, <1>4, <1>6 DEF IInv, HitOK
  <1>8. TasksOK'
    BY <1>1, TasksFrame DEF IInv
  <1>9. AcksAreTrue'
    BY <1>1, AcksFrame DEF IInv
  <1>10. NativeHitsKept'
    BY <1>1, <1>3 DEF IInv, NativeHitsKept, NoHitVanishes, HitInHand, IsLogged
  <1> QED
    BY <1>3, <1>4, <1>5, <1>7, <1>8, <1>9, <1>10 DEF IInv

\* A step of a flush that leaves the store and the hit alone.
LEMMA FlushFrame ==
    ASSUME IInv, TypeOK', StackOK', TasksOK', AcksAreTrue',
           UNCHANGED <<jsonl, rows, mined, hit, lost>>, recorded \subseteq recorded',
           HandlesHit' <=> HandlesHit,
           \/ pc' = pc /\ difficulty' = difficulty
           \/ pc' \notin {"hit", "answered", "insert"}
    PROVE  IInv'
  <1>1. MinedOK' /\ ClosedRowsSettled' /\ OneOpenRow'
    BY StoreFrame DEF IInv
  <1>2. HitOK'
    BY HitFrame DEF IInv
  <1>3. NativeHitsKept'
    <2>1. VanishFrame
      BY DEF VanishFrame, IsLogged, HitInHand
    <2> QED
      BY <2>1, VanishFrameKeeps DEF IInv
  <1> QED
    BY <1>1, <1>2, <1>3 DEF IInv

LEMMA NewTaskTypes ==
    ASSUME TypeOK
    PROVE  \A k \in Key : \A t \in NewTasks(k) :
             /\ t \in Task /\ t.row \in DOMAIN rows[t.key] /\ t.phase = "queued"
  <1> SUFFICES ASSUME NEW k \in Key, NEW n \in OpenRows(k)
               PROVE  LET t == [key |-> k, row |-> n, shutdown |-> shutting,
                                phase |-> "queued", answer |-> NoAnswer]
                      IN  t \in Task /\ t.row \in DOMAIN rows[t.key] /\ t.phase = "queued"
    BY DEF NewTasks
  <1>1. rows[k] \in Seq(Row)
    BY DEF TypeOK, StoreTypeOK
  <1>2. n \in Nat \ {0} /\ n \in DOMAIN rows[k]
    BY <1>1 DEF OpenRows
  <1> QED
    BY <1>2, ConstantTypes DEF TypeOK, Task

LEMMA BeginFlushStep ==
    ASSUME IInv, BeginFlush
    PROVE  IInv'
  <1>1. CASE ~AnyPending
    <2>1. tasks' = tasks
      BY <1>1 DEF BeginFlush
    <2> QED
      BY <2>1, QuietFlushStep
  <1>2. CASE AnyPending
    <2>1. /\ tasks' = tasks \cup UNION {NewTasks(k) : k \in Key}
          /\ pc = "flush" /\ pc' = "flushing" /\ stack' = stack
          /\ UNCHANGED <<jsonl, rows, submitted, rejlog, mined, hit, lost, recorded,
                         difficulty, acked, credited, session>>
          /\ TypeOK /\ StoreTypeOK
      BY <1>2 DEF IInv, TypeOK, BeginFlush, storeVars, poolVars, netVars, history
    <2>2. tasks' \subseteq Task
      BY <2>1, NewTaskTypes DEF TypeOK
    <2>3. TypeOK'
      BY <2>1, <2>2, LabelTypes
         DEF BeginFlush, poolVars, netVars, TypeOK, StoreTypeOK, FlushLabel
    <2>4. TasksOK'
      BY <2>1, NewTaskTypes DEF IInv, TasksOK
    <2>5. StackOK' /\ (HandlesHit' <=> HandlesHit)
      BY <2>1 DEF IInv, StackOK, HandlesHit, FlushLabel, HitLabel
    <2>6. AcksAreTrue'
      BY <2>1, AcksFrame DEF IInv
    <2> QED
      BY <2>1, <2>3, <2>4, <2>5, <2>6, FlushFrame
  <1> QED
    BY <1>1, <1>2

LEMMA EndFlushStep ==
    ASSUME IInv, EndFlush
    PROVE  IInv'
  <1>1. /\ UNCHANGED <<jsonl, rows, submitted, rejlog, mined, hit, lost, recorded,
                       difficulty, acked, session>>
        /\ pc = "flushing" /\ Return /\ tasks' \subseteq tasks
        /\ TypeOK /\ StoreTypeOK /\ StackOK
    BY DEF IInv, TypeOK, EndFlush, storeVars, poolVars, netVars
  <1>2. /\ pc' \in Label /\ stack' \in Seq(Label) /\ StackOK'
        /\ HandlesHit' <=> HandlesHit
        /\ pc' \notin {"hit", "answered", "insert"}
    BY <1>1, ReturnTypes DEF FlushLabel
  <1>3. credited' \subseteq credited \cup recorded
    <2>1. \A t \in Awaited : t.phase = "flushed" => t.key \in recorded
      BY DEF IInv, TasksOK, Awaited
    <2> QED
      BY <2>1 DEF EndFlush
  <1>4. TypeOK'
    BY <1>1, <1>2, <1>3 DEF EndFlush, poolVars, netVars, TypeOK, StoreTypeOK
  <1>5. TasksOK'
    BY <1>1, TasksFrame DEF IInv
  <1>6. AcksAreTrue'
    BY <1>1, <1>3 DEF IInv, AcksAreTrue, AcceptedKeys
  <1> QED
    BY <1>1, <1>2, <1>4, <1>5, <1>6, FlushFrame

----------------------------------------------------------------------------
(* Steps of a submit worker.                                               *)

LEMMA AdvanceFrame ==
    ASSUME IInv, StoreTypeOK', RowsKept, NEW t \in tasks,
           NEW phase \in {"sending", "answered"} \cup Finished,
           NEW answer \in Response, Advance(t, phase, answer),
           UNCHANGED <<jsonl, mined, hit, pc, stack, difficulty, lost>>,
           \A k \in Key : DOMAIN rows'[k] = DOMAIN rows[k],
           recorded \subseteq recorded',
           phase = "answered" /\ SubmitAccepted(answer) => t.key \in recorded',
           phase = "flushed" => t.key \in recorded'
    PROVE  /\ tasks' \subseteq Task
           /\ StackOK' /\ HitOK' /\ TasksOK' /\ MinedOK' /\ OneOpenRow'
           /\ NativeHitsKept'
  <1>1. TypeOK /\ StoreTypeOK /\ t \in Task
    BY DEF IInv, TypeOK
  <1> DEFINE u == [t EXCEPT !.phase = phase, !.answer = answer]
  <1>2. /\ u \in Task /\ u.key = t.key /\ u.row = t.row
        /\ u.phase = phase /\ u.answer = answer
    BY <1>1 DEF Task
  <1>3. tasks' = (tasks \ {t}) \cup {u}
    BY DEF Advance
  <1> HIDE DEF u
  <1>4. tasks' \subseteq Task
    BY <1>1, <1>2, <1>3 DEF TypeOK
  <1>5. TasksOK'
    <2>1. ASSUME NEW v \in tasks \ {t}
          PROVE  /\ v.row \in DOMAIN rows'[v.key]
                 /\ v.phase = "answered" /\ SubmitAccepted(v.answer) => v.key \in recorded'
                 /\ v.phase = "flushed" => v.key \in recorded'
      BY <1>1 DEF IInv, TypeOK, TasksOK, Task
    <2>2. u.row \in DOMAIN rows'[u.key]
      BY <1>1, <1>2 DEF IInv, TasksOK, Task
    <2> QED
      BY <1>2, <1>3, <2>1, <2>2 DEF TasksOK
  <1>6. \A k \in Key : rows[k] \in Seq(Row) /\ rows'[k] \in Seq(Row)
    BY <1>1 DEF StoreTypeOK
  <1>7. \A k \in Key : rows'[k] = <<>> <=> rows[k] = <<>>
    BY <1>6
  <1>8. StackOK' /\ (HandlesHit' <=> HandlesHit)
    BY DEF IInv, StackOK, HandlesHit
  <1>9. HitOK'
    <2>1. HandlesHit => hit.key \in Key
      BY <1>1 DEF IInv, HitOK, TypeOK, Hit
    <2> QED
      BY <1>7, <1>8, <2>1 DEF IInv, HitOK
  <1>10. MinedOK'
    BY <1>7 DEF IInv, MinedOK
  <1>11. OneOpenRow'
    BY <1>1, OneOpenFrame DEF IInv
  <1>12. NativeHitsKept'
    <2>1. VanishFrame
      BY DEF VanishFrame, IsLogged, HitInHand
    <2> QED
      BY <2>1, VanishFrameKeeps DEF IInv
  <1> QED
    BY <1>4, <1>5, <1>8, <1>9, <1>10, <1>11, <1>12

\* A worker that closes no row and has nothing accepted.
LEMMA OpenFrame ==
    ASSUME IInv, RowsKept, mined' = mined, recorded \subseteq recorded',
           UNCHANGED <<acked, credited>>,
           \A k \in Key : DOMAIN rows'[k] = DOMAIN rows[k],
           \A k \in Key : \A n \in DOMAIN rows[k] : rows'[k][n].open = rows[k][n].open,
           \A k \in Key : \A s \in submitted'[k] :
              SuccessStatus(s) => s \in submitted[k]
    PROVE  ClosedRowsSettled' /\ AcksAreTrue'
  <1>1. StoreTypeOK
    BY DEF IInv, TypeOK
  <1>2. ClosedRowsSettled'
    BY <1>1, SettledFrame DEF IInv
  <1>3. AcksAreTrue'
    BY DEF IInv, AcksAreTrue, AcceptedKeys
  <1> QED
    BY <1>2, <1>3

LEMMA SameRows ==
    ASSUME rows' = rows
    PROVE  /\ RowsKept
           /\ \A k \in Key : DOMAIN rows'[k] = DOMAIN rows[k]
           /\ \A k \in Key : \A n \in DOMAIN rows[k] : rows'[k][n].open = rows[k][n].open
  BY DEF RowsKept

LEMMA ReasonSameOpen ==
    ASSUME StoreTypeOK, NEW k \in Key, NEW n \in DOMAIN rows[k],
           NEW reason \in Reason,
           \/ MarkPendingReason(k, n, reason)
           \/ \E r \in Response : RejectRow(k, n, r, reason)
    PROVE  \A j \in Key : \A m \in DOMAIN rows[j] : rows'[j][m].open = rows[j][m].open
  <1> TAKE j \in Key
  <1> TAKE m \in DOMAIN rows[j]
  <1>1. rows[j] \in Seq(Row) /\ rows[k] \in Seq(Row)
    BY DEF StoreTypeOK
  <1>2. rows[j][m] \in Row /\ rows[k][n] \in Row
    BY <1>1
  <1>3. CASE MarkPendingReason(k, n, reason)
    BY <1>1, <1>2, <1>3 DEF MarkPendingReason, Row, StoreTypeOK
  <1>4. CASE \E r \in Response : RejectRow(k, n, r, reason)
    BY <1>1, <1>2, <1>4 DEF RejectRow, Row, StoreTypeOK
  <1> QED
    BY <1>3, <1>4

LEMMA TaskCheckStep ==
    ASSUME IInv, NEW t \in tasks, TaskCheck(t)
    PROVE  IInv'
  <1>1. UNCHANGED <<jsonl, rejlog, recorded, pc, stack, difficulty, hit, mined, acked,
                    credited, lost, session>>
        /\ TypeOK /\ StoreTypeOK /\ t \in Task /\ t.key \in Key
        /\ t.row \in DOMAIN rows[t.key] /\ NoAnswer \in Response
    BY ConstantTypes
       DEF IInv, TypeOK, TasksOK, Task, TaskCheck, TaskWaits, TaskFilters,
           TaskOutsideWindow, TaskVerified, MarkSubmitted, MarkPendingReason,
           storeVars, poolVars, netVars, history
  <1>2. ASSUME StoreTypeOK', tasks' \subseteq Task
        PROVE  TypeOK'
    BY <1>1, <1>2 DEF TaskCheck, poolVars, netVars, TypeOK
  <1>3. CASE TaskFilters(t)
    <2>1. MarkSubmitted(t.key, t.row, 0) /\ Advance(t, "over", NoAnswer)
      BY <1>3 DEF TaskFilters
    <2>2. /\ StoreTypeOK' /\ RowsKept
          /\ \A j \in Key : DOMAIN rows'[j] = DOMAIN rows[j]
      BY <1>1, <2>1, MarkSubmittedKeeps
    <2>3. /\ tasks' \subseteq Task
          /\ StackOK' /\ HitOK' /\ TasksOK' /\ MinedOK' /\ OneOpenRow'
          /\ NativeHitsKept'
      BY <1>1, <2>1, <2>2, AdvanceFrame DEF Finished
    <2>4. t.key \in Bogus \/ ~CostKnown(t.key, RowOf(t))
      <3>1. KnownCost(t.key, RowOf(t)) \in {NoCost, difficulty}
        BY <1>3 DEF TaskFilters, CostMatches
      <3>2. t.key \in Bogus \/ mined[t.key] # difficulty
        BY <1>3 DEF TaskFilters, Verifies
      <3>3. mined[t.key] # NoCost
        BY <1>1 DEF IInv, MinedOK
      <3> QED
        BY <3>1, <3>2, <3>3 DEF CostKnown
    <2>5. ClosedRowsSettled'
      <3>1. ASSUME NEW k \in Key, NEW n \in DOMAIN rows[k], ~rows'[k][n].open
            PROVE  ~rows[k][n].open \/ (k = t.key /\ n = t.row)
        <4>1. rows[k] \in Seq(Row)
          BY <1>1 DEF StoreTypeOK
        <4> QED
          BY <1>1, <2>1, <3>1, <4>1 DEF MarkSubmitted, StoreTypeOK
      <3> QED
        BY <1>1, <2>2, <2>4, <3>1, SettledFrame DEF IInv, RowOf
    <2>6. AcksAreTrue'
      <3>1. ~SuccessStatus(0)
        BY DEF SuccessStatus
      <3> QED
        BY <1>1, <2>1, <3>1 DEF IInv, AcksAreTrue, AcceptedKeys, MarkSubmitted,
                                StoreTypeOK
    <2> QED
      BY <1>2, <2>2, <2>3, <2>5, <2>6 DEF IInv
  <1>4. CASE TaskWaits(t) \/ TaskVerified(t)
    <2>1. rows' = rows /\ submitted' = submitted
          /\ \E phase \in {"over", "sending"} : Advance(t, phase, NoAnswer)
      BY <1>4 DEF TaskWaits, TaskVerified, storeVars
    <2>2. StoreTypeOK'
      BY <1>1, <2>1 DEF StoreTypeOK
    <2>3. /\ tasks' \subseteq Task
          /\ StackOK' /\ HitOK' /\ TasksOK' /\ MinedOK' /\ OneOpenRow'
          /\ NativeHitsKept'
      <3>1. PICK phase \in {"over", "sending"} : Advance(t, phase, NoAnswer)
        BY <2>1
      <3>2. phase \in {"sending", "answered"} \cup Finished
            /\ phase # "answered" /\ phase # "flushed"
        BY DEF Finished
      <3> QED
        BY <1>1, <2>1, <2>2, <3>1, <3>2, SameRows, AdvanceFrame
    <2>4. ClosedRowsSettled' /\ AcksAreTrue'
      BY <1>1, <2>1, SameRows, OpenFrame
    <2> QED
      BY <1>2, <2>2, <2>3, <2>4 DEF IInv
  <1>5. CASE TaskOutsideWindow(t)
    <2>1. Advance(t, "over", NoAnswer) /\ submitted' = submitted
      BY <1>5 DEF TaskOutsideWindow, MarkPendingReason, storeVars
    <2>2. /\ StoreTypeOK' /\ RowsKept
          /\ \A j \in Key : DOMAIN rows'[j] = DOMAIN rows[j]
          /\ \A j \in Key : \A m \in DOMAIN rows[j] : rows'[j][m].open = rows[j][m].open
      <3>1. CASE MarkPendingReason(t.key, t.row, OutsideXuniWindow)
        BY <1>1, <3>1, ConstantTypes, MarkPendingReasonKeeps, ReasonSameOpen
      <3>2. CASE UNCHANGED storeVars
        BY <1>1, <3>2, SameRows DEF storeVars, StoreTypeOK
      <3> QED
        BY <1>5, <3>1, <3>2 DEF TaskOutsideWindow
    <2>3. /\ tasks' \subseteq Task
          /\ StackOK' /\ HitOK' /\ TasksOK' /\ MinedOK' /\ OneOpenRow'
          /\ NativeHitsKept'
      BY <1>1, <2>1, <2>2, AdvanceFrame DEF Finished
    <2>4. ClosedRowsSettled' /\ AcksAreTrue'
      BY <1>1, <2>1, <2>2, OpenFrame
    <2> QED
      BY <1>2, <2>2, <2>3, <2>4 DEF IInv
  <1> QED
    BY <1>3, <1>4, <1>5 DEF TaskCheck

LEMMA TaskSubmitStep ==
    ASSUME IInv, NEW t \in tasks, TaskSubmit(t)
    PROVE  IInv'
  <1>1. UNCHANGED <<jsonl, rows, submitted, rejlog, pc, stack, difficulty, hit, mined,
                    acked, credited, lost, session>>
        /\ TypeOK /\ StoreTypeOK /\ t \in Task /\ t.key \in Key
    BY DEF IInv, TypeOK, Task, TaskSubmit, storeVars, netVars, history
  <1>2. PICK r \in Answers(t.key) : Submit(t.key, r) /\ Advance(t, "answered", r)
    BY DEF TaskSubmit
  <1>3. /\ recorded' \subseteq Key /\ recorded \subseteq recorded'
        /\ r \in Response
        /\ SubmitAccepted(r) => t.key \in recorded'
    BY <1>1, <1>2, SubmitTypes
  <1>4. StoreTypeOK'
    BY <1>1 DEF StoreTypeOK
  <1>5. /\ tasks' \subseteq Task
        /\ StackOK' /\ HitOK' /\ TasksOK' /\ MinedOK' /\ OneOpenRow'
        /\ NativeHitsKept'
    BY <1>1, <1>2, <1>3, <1>4, SameRows, AdvanceFrame
  <1>6. ClosedRowsSettled' /\ AcksAreTrue'
    BY <1>1, <1>3, SameRows, OpenFrame
  <1>7. TypeOK'
    BY <1>1, <1>3, <1>4, <1>5 DEF TaskSubmit, netVars, TypeOK
  <1> QED
    BY <1>5, <1>6, <1>7 DEF IInv

LEMMA TaskAcceptedStep ==
    ASSUME IInv, NEW t \in tasks, TaskAccepted(t)
    PROVE  IInv'
  <1>1. UNCHANGED <<jsonl, rejlog, recorded, pc, stack, difficulty, hit, mined,
                    credited, lost, session>>
        /\ TypeOK /\ StoreTypeOK /\ t \in Task /\ t.key \in Key
        /\ t.row \in DOMAIN rows[t.key] /\ NoAnswer \in Response
        /\ t.answer.status \in Nat /\ t.key \in recorded
    BY ConstantTypes
       DEF IInv, TypeOK, TasksOK, Task, Response, TaskAccepted, MarkSubmitted,
           storeVars, poolVars, netVars
  <1>2. /\ MarkSubmitted(t.key, t.row, t.answer.status)
        /\ Advance(t, "flushed", NoAnswer) /\ acked' = acked \cup {t.key}
    BY DEF TaskAccepted
  <1>3. /\ StoreTypeOK' /\ RowsKept
        /\ \A j \in Key : DOMAIN rows'[j] = DOMAIN rows[j]
    BY <1>1, <1>2, MarkSubmittedKeeps
  <1>4. /\ tasks' \subseteq Task
        /\ StackOK' /\ HitOK' /\ TasksOK' /\ MinedOK' /\ OneOpenRow'
        /\ NativeHitsKept'
    BY <1>1, <1>2, <1>3, AdvanceFrame DEF Finished
  <1>5. ClosedRowsSettled'
    <2>1. ASSUME NEW k \in Key, NEW n \in DOMAIN rows[k], ~rows'[k][n].open
          PROVE  ~rows[k][n].open \/ k = t.key
      BY <1>1, <1>2, <2>1 DEF MarkSubmitted, StoreTypeOK
    <2> QED
      BY <1>1, <1>3, <2>1, SettledFrame DEF IInv
  <1>6. AcksAreTrue'
    <2>1. \A k \in Key \ {t.key} : submitted'[k] = submitted[k]
      BY <1>1, <1>2 DEF MarkSubmitted, StoreTypeOK
    <2> QED
      BY <1>1, <1>2, <2>1 DEF IInv, AcksAreTrue, AcceptedKeys
  <1>7. TypeOK'
    BY <1>1, <1>2, <1>3, <1>4 DEF TaskAccepted, poolVars, netVars, TypeOK
  <1> QED
    BY <1>4, <1>5, <1>6, <1>7 DEF IInv

LEMMA TaskNotAcceptedStep ==
    ASSUME IInv, NEW t \in tasks, TaskNotAccepted(t)
    PROVE  IInv'
  <1>1. UNCHANGED <<jsonl, recorded, pc, stack, difficulty, hit, mined, acked,
                    credited, lost, session>>
        /\ TypeOK /\ StoreTypeOK /\ t \in Task /\ t.key \in Key
        /\ t.row \in DOMAIN rows[t.key] /\ NoAnswer \in Response
        /\ t.answer \in Response
    BY ConstantTypes
       DEF IInv, TypeOK, TasksOK, Task, TaskNotAccepted, TaskHeld, TaskFailed,
           MarkPendingReason, RecordRejectionOfRow, RejectRow,
           storeVars, poolVars, netVars, history
  <1> DEFINE Marks == \E reason \in Reason : MarkPendingReason(t.key, t.row, reason)
             Rejects == \E reason \in Reason :
                           RejectRow(t.key, t.row, t.answer, reason)
  <1>2. /\ Advance(t, "over", NoAnswer)
        /\ Marks \/ Rejects \/ UNCHANGED storeVars
    BY ConstantTypes DEF TaskNotAccepted, TaskHeld, TaskFailed, RecordRejectionOfRow
  <1>3. /\ StoreTypeOK' /\ RowsKept
        /\ \A j \in Key : DOMAIN rows'[j] = DOMAIN rows[j]
        /\ \A j \in Key : \A m \in DOMAIN rows[j] : rows'[j][m].open = rows[j][m].open
    <2>1. CASE Marks
      BY <1>1, <2>1, MarkPendingReasonKeeps, ReasonSameOpen
    <2>2. CASE Rejects
      BY <1>1, <2>2, RejectRowKeeps, ReasonSameOpen
    <2>3. CASE UNCHANGED storeVars
      BY <1>1, <2>3, SameRows DEF storeVars, StoreTypeOK
    <2> QED
      BY <1>2, <2>1, <2>2, <2>3
  <1>4. \A k \in Key : \A s \in submitted'[k] : SuccessStatus(s) => s \in submitted[k]
    <2>1. ~SuccessStatus(t.answer.status)
      BY DEF TaskNotAccepted, SubmitAccepted
    <2>2. CASE Marks \/ UNCHANGED storeVars
      BY <2>2 DEF MarkPendingReason, storeVars
    <2>3. CASE Rejects
      BY <1>1, <2>1, <2>3 DEF RejectRow, StoreTypeOK
    <2> QED
      BY <1>2, <2>2, <2>3
  <1>5. /\ tasks' \subseteq Task
        /\ StackOK' /\ HitOK' /\ TasksOK' /\ MinedOK' /\ OneOpenRow'
        /\ NativeHitsKept'
    <2>1. "over" \in Finished /\ "over" # "answered" /\ "over" # "flushed"
      BY DEF Finished
    <2> QED
      BY <1>1, <1>2, <1>3, <2>1, AdvanceFrame
  <1>6. ClosedRowsSettled' /\ AcksAreTrue'
    BY <1>1, <1>3, <1>4, OpenFrame
  <1>7. TypeOK'
    BY <1>1, <1>3, <1>5 DEF TaskNotAccepted, poolVars, netVars, TypeOK
  <1> QED
    BY <1>5, <1>6, <1>7 DEF IInv

----------------------------------------------------------------------------
(* Steps of handle_hit().                                                  *)

LEMMA HitFacts ==
    ASSUME IInv, pc \in HitLabel
    PROVE  /\ TypeOK /\ StoreTypeOK /\ StackOK /\ HandlesHit /\ stack = <<>>
           /\ hit \in Hit /\ hit # NoHit /\ hit.key \in Key
           /\ mined[hit.key] # NoCost /\ rows[hit.key] = <<>>
  <1>1. HandlesHit /\ stack = <<>>
    BY LabelTypes DEF IInv, StackOK, HandlesHit
  <1> QED
    BY <1>1 DEF IInv, TypeOK, HitOK, Hit

\* handle_hit goes on to another of its points, with the same block in hand.
LEMMA HitOnFrame ==
    ASSUME IInv, pc \in HitLabel, pc' \in {"refresh", "send", "append"}, stack' = stack,
           hit' \in Hit, hit'.key = hit.key,
           UNCHANGED <<rows, jsonl, mined, tasks, recorded, acked, credited, lost>>,
           \A k \in Key : \A s \in submitted'[k] : SuccessStatus(s) => s \in submitted[k]
    PROVE  /\ StackOK' /\ HitOK' /\ TasksOK' /\ MinedOK'
           /\ ClosedRowsSettled' /\ OneOpenRow' /\ AcksAreTrue' /\ NativeHitsKept'
  <1>1. /\ TypeOK /\ HandlesHit /\ stack = <<>> /\ hit # NoHit
        /\ hit.key \in Key /\ mined[hit.key] # NoCost /\ rows[hit.key] = <<>>
    BY HitFacts
  <1>2. hit' # NoHit
    BY NoHitAssumption
  <1>3. StackOK' /\ HandlesHit'
    BY <1>1 DEF StackOK, HandlesHit, HitLabel, FlushLabel
  <1>4. HitOK'
    BY <1>1, <1>2, <1>3 DEF HitOK
  <1>5. TasksOK'
    BY <1>1, TasksFrame DEF IInv
  <1>6. MinedOK' /\ ClosedRowsSettled' /\ OneOpenRow'
    BY StoreFrame DEF IInv
  <1>7. AcksAreTrue'
    BY DEF IInv, AcksAreTrue, AcceptedKeys
  <1>8. NativeHitsKept'
    <2>1. VanishFrame
      BY <1>1, <1>2 DEF VanishFrame, IsLogged, HitInHand
    <2> QED
      BY <2>1, VanishFrameKeeps DEF IInv
  <1> QED
    BY <1>3, <1>4, <1>5, <1>6, <1>7, <1>8

\* handle_hit ends.
LEMMA HitDoneFrame ==
    ASSUME IInv, pc \in HitLabel, DoneWithHit, stack' = stack,
           UNCHANGED <<jsonl, mined, tasks, recorded, lost>>,
           \A k \in Key : DOMAIN rows[k] \subseteq DOMAIN rows'[k],
           Native => hit.key \in Bogus \cup recorded \/ IsLogged(hit.key)
    PROVE  StackOK' /\ HitOK' /\ TasksOK' /\ NativeHitsKept'
  <1>1. TypeOK /\ stack = <<>> /\ pc' = "loop" /\ hit' = NoHit
    BY HitFacts DEF DoneWithHit
  <1>2. StackOK' /\ HitOK'
    BY <1>1 DEF StackOK, HitOK, HandlesHit, HitLabel, FlushLabel
  <1>3. TasksOK'
    BY <1>1, TasksFrame DEF IInv
  <1>4. NativeHitsKept'
    <2>1. Native => VanishFrame
      BY HitFacts DEF VanishFrame, IsLogged, HitInHand
    <2> QED
      BY <2>1, VanishFrameKeeps DEF IInv
  <1> QED
    BY <1>2, <1>3, <1>4

LEMMA RequeueTypes ==
    ASSUME hit \in Hit, NEW reason \in Reason, QueueHit(reason)
    PROVE  hit' \in Hit /\ hit'.key = hit.key /\ pc' = "append"
  BY ConstantTypes DEF QueueHit, Hit

LEMMA HitQueuedStep ==
    ASSUME IInv, HitInTransition \/ HitVerified \/ HitToRetry \/ HitHeld
    PROVE  IInv'
  <1>1. pc \in HitLabel
    BY DEF HitInTransition, HitVerified, HitToRetry, HitHeld, HitLabel
  <1>2. /\ TypeOK /\ StoreTypeOK /\ hit \in Hit /\ hit.key \in Key
        /\ hit.answer \in Response /\ hit.answer.status \in Nat
    BY <1>1, HitFacts DEF Hit, Response
  <1>3. UNCHANGED <<jsonl, rows, rejlog, recorded, stack, tasks, mined, acked, credited,
                    lost, session>>
    BY DEF HitInTransition, HitVerified, HitToRetry, HitHeld, RecordDirectSubmit,
           storeVars, poolVars, history
  <1>4. hit' \in Hit /\ hit'.key = hit.key /\ pc' \in {"refresh", "send", "append"}
    <2>1. CASE HitVerified
      <3>1. Prepared \in Hit /\ Prepared.key = hit.key
        BY <1>2 DEF Prepared, Hit
      <3>2. hit' \in {Prepared, [Prepared EXCEPT !.reason = OutsideXuniWindow]}
            /\ pc' \in {"refresh", "append"}
        BY <2>1 DEF HitVerified
      <3> HIDE DEF Prepared
      <3> QED
        BY <3>1, <3>2, ConstantTypes DEF Hit
    <2>2. CASE \E reason \in Reason : QueueHit(reason)
      BY <1>2, <2>2, RequeueTypes
    <2> QED
      BY <2>1, <2>2, ConstantTypes DEF HitInTransition, HitToRetry, HitHeld
  <1>5. /\ StoreTypeOK'
        /\ \A k \in Key : \A s \in submitted'[k] : SuccessStatus(s) => s \in submitted[k]
    <2>1. CASE submitted' = submitted
      BY <1>2, <1>3, <2>1 DEF StoreTypeOK
    <2>2. CASE HitToRetry
      <3>1. ~SuccessStatus(hit.answer.status)
        BY <2>2 DEF HitToRetry, SubmitAccepted
      <3>2. submitted' = [submitted EXCEPT ![hit.key] = @ \cup {hit.answer.status}]
        BY <2>2 DEF HitToRetry, RecordDirectSubmit
      <3> QED
        BY <1>2, <1>3, <3>1, <3>2 DEF StoreTypeOK
    <2> QED
      BY <2>1, <2>2 DEF HitInTransition, HitVerified, HitHeld, storeVars
  <1>6. TypeOK'
    BY <1>2, <1>3, <1>4, <1>5, LabelTypes
       DEF HitInTransition, HitVerified, HitToRetry, HitHeld, poolVars, netVars,
           TypeOK, HitLabel
  <1>7. /\ StackOK' /\ HitOK' /\ TasksOK' /\ MinedOK'
        /\ ClosedRowsSettled' /\ OneOpenRow' /\ AcksAreTrue' /\ NativeHitsKept'
    BY <1>1, <1>3, <1>4, <1>5, HitOnFrame
  <1> QED
    BY <1>6, <1>7 DEF IInv

\* No row of the block can be pending here: the rejection is enqueued.
LEMMA HitRejectedStep ==
    ASSUME IInv, HitRejected
    PROVE  IInv'
  <1>1. pc \in HitLabel
    BY DEF HitRejected, HitLabel
  <1>2. /\ TypeOK /\ StoreTypeOK /\ hit \in Hit /\ hit.key \in Key
        /\ rows[hit.key] = <<>> /\ hit.answer \in Response /\ hit.answer.status \in Nat
    BY <1>1, HitFacts DEF Hit, Response
  <1>3. ~IsPending(hit.key)
    BY <1>2 DEF IsPending, OpenRows
  <1>4. /\ LogRejection(hit.key, hit.answer) /\ QueueHit(Resubmission)
        /\ UNCHANGED <<jsonl, rows, recorded, stack, tasks, mined, acked, credited,
                       lost, session>>
    BY <1>3 DEF HitRejected, LogRejection, poolVars, history
  <1>5. hit' \in Hit /\ hit'.key = hit.key /\ pc' = "append"
    BY <1>2, <1>4, ConstantTypes, RequeueTypes
  <1>6. /\ StoreTypeOK'
        /\ \A k \in Key : \A s \in submitted'[k] : SuccessStatus(s) => s \in submitted[k]
    <2>1. ~SuccessStatus(hit.answer.status)
      BY DEF HitRejected, SubmitAccepted
    <2> QED
      BY <1>2, <1>4, <2>1 DEF LogRejection, StoreTypeOK
  <1>7. TypeOK'
    BY <1>2, <1>4, <1>5, <1>6, LabelTypes
       DEF HitRejected, poolVars, netVars, TypeOK, HitLabel
  <1>8. /\ StackOK' /\ HitOK' /\ TasksOK' /\ MinedOK'
        /\ ClosedRowsSettled' /\ OneOpenRow' /\ AcksAreTrue' /\ NativeHitsKept'
    BY <1>1, <1>4, <1>5, <1>6, HitOnFrame
  <1> QED
    BY <1>7, <1>8 DEF IInv

LEMMA HitRefreshStep ==
    ASSUME IInv, HitRefresh
    PROVE  IInv'
  <1>1. pc = "refresh" /\ pc \in HitLabel
    BY DEF HitRefresh, HitLabel
  <1>2. /\ TypeOK /\ StoreTypeOK /\ StackOK /\ hit \in Hit /\ HandlesHit
        /\ UNCHANGED <<jsonl, rows, submitted, rejlog, recorded, tasks, mined, acked,
                       credited, lost, session>>
    BY <1>1, HitFacts DEF HitRefresh, storeVars, poolVars, history
  <1>3. /\ difficulty' \in Difficulty
        /\ settling' \in BOOLEAN /\ netOk' \in BOOLEAN /\ wasDown' \in BOOLEAN
    BY <1>2, PolledType, NetworkTypes DEF HitRefresh
  <1>4. CASE QueueHit(NetworkDown) /\ UNCHANGED stack
    <2>1. hit' \in Hit /\ hit'.key = hit.key /\ pc' = "append"
      BY <1>2, <1>4, ConstantTypes, RequeueTypes
    <2>2. TypeOK'
      BY <1>2, <1>3, <1>4, <2>1, LabelTypes
         DEF HitRefresh, poolVars, TypeOK, StoreTypeOK, HitLabel
    <2>3. /\ StackOK' /\ HitOK' /\ TasksOK' /\ MinedOK'
          /\ ClosedRowsSettled' /\ OneOpenRow' /\ AcksAreTrue' /\ NativeHitsKept'
      BY <1>1, <1>2, <1>4, <2>1, HitOnFrame
    <2> QED
      BY <2>2, <2>3 DEF IInv
  <1>5. CASE ContinueAt("send") /\ UNCHANGED hit
    <2>1. /\ pc' \in Label /\ stack' \in Seq(Label) /\ StackOK' /\ HandlesHit'
          /\ pc' \in {"send", "tryflush"}
      BY <1>1, <1>2, <1>5, LabelTypes, CallTypes
    <2>2. TypeOK'
      BY <1>2, <1>3, <1>5, <2>1 DEF HitRefresh, poolVars, TypeOK, StoreTypeOK
    <2>3. UNCHANGED <<storeVars, hit, history, tasks>>
      BY <1>2, <1>5 DEF storeVars, history
    <2> QED
      BY <1>2, <2>1, <2>2, <2>3, QuietFrame
  <1> QED
    BY <1>4, <1>5 DEF HitRefresh

LEMMA HitSubmitStep ==
    ASSUME IInv, HitSubmit
    PROVE  IInv'
  <1>1. pc \in HitLabel /\ pc' = "answered" /\ stack' = stack
    BY DEF HitSubmit, HitLabel
  <1>2. /\ TypeOK /\ StoreTypeOK /\ StackOK /\ HandlesHit /\ stack = <<>>
        /\ hit \in Hit /\ hit # NoHit /\ hit.key \in Key
        /\ mined[hit.key] # NoCost /\ rows[hit.key] = <<>>
    BY <1>1, HitFacts
  <1>3. PICK r \in Answers(hit.key) :
          Submit(hit.key, r) /\ hit' = [hit EXCEPT !.answer = r]
    BY DEF HitSubmit
  <1>4. /\ recorded' \subseteq Key /\ recorded \subseteq recorded'
        /\ r \in Response
        /\ SubmitAccepted(r) => hit.key \in recorded'
    BY <1>2, <1>3, SubmitTypes
  <1>5. hit' \in Hit /\ hit'.key = hit.key /\ hit'.answer = r /\ hit' # NoHit
    BY <1>2, <1>3, <1>4, NoHitAssumption DEF Hit
  <1>6. UNCHANGED <<jsonl, rows, submitted, rejlog, tasks, mined, acked, credited,
                    lost, session>>
    BY DEF HitSubmit, storeVars, history
  <1>7. TypeOK'
    BY <1>1, <1>2, <1>4, <1>5, <1>6, LabelTypes
       DEF HitSubmit, netVars, TypeOK, StoreTypeOK, HitLabel
  <1>8. StackOK' /\ HandlesHit'
    BY <1>1, <1>2 DEF StackOK, HandlesHit, HitLabel, FlushLabel
  <1>9. HitOK'
    BY <1>1, <1>2, <1>4, <1>5, <1>6, <1>8 DEF HitOK
  <1>10. TasksOK'
    BY <1>2, <1>4, <1>6, TasksFrame DEF IInv
  <1>11. MinedOK' /\ ClosedRowsSettled' /\ OneOpenRow'
    BY <1>4, <1>6, StoreFrame DEF IInv
  <1>12. AcksAreTrue'
    BY <1>4, <1>6, AcksFrame DEF IInv
  <1>13. NativeHitsKept'
    <2>1. VanishFrame
      BY <1>2, <1>4, <1>5, <1>6 DEF VanishFrame, IsLogged, HitInHand
    <2> QED
      BY <2>1, VanishFrameKeeps DEF IInv
  <1> QED
    BY <1>7, <1>8, <1>9, <1>10, <1>11, <1>12, <1>13 DEF IInv

LEMMA HitFilteredStep ==
    ASSUME IInv, HitFiltered
    PROVE  IInv'
  <1>1. /\ pc = "hit" /\ pc \in HitLabel /\ DoneWithHit /\ stack' = stack
        /\ UNCHANGED <<jsonl, rows, submitted, rejlog, recorded, tasks, mined, acked,
                       credited, lost, session>>
    BY DEF HitFiltered, HitLabel, storeVars, poolVars, history
  <1>2. TypeOK /\ StoreTypeOK /\ HandlesHit
    BY <1>1, HitFacts
  <1>3. Native => hit.key \in Bogus
    BY <1>1, <1>2 DEF IInv, HitOK, HitFiltered, Verifies
  <1>4. StackOK' /\ HitOK' /\ TasksOK' /\ NativeHitsKept'
    BY <1>1, <1>3, HitDoneFrame
  <1>5. MinedOK' /\ ClosedRowsSettled' /\ OneOpenRow'
    BY <1>1, StoreFrame DEF IInv
  <1>6. AcksAreTrue'
    BY <1>1, AcksFrame DEF IInv
  <1>7. TypeOK'
    BY <1>1, <1>2, LabelTypes
       DEF HitFiltered, DoneWithHit, poolVars, netVars, TypeOK, StoreTypeOK
  <1> QED
    BY <1>4, <1>5, <1>6, <1>7 DEF IInv

LEMMA HitAcceptedStep ==
    ASSUME IInv, HitAccepted
    PROVE  IInv'
  <1>1. /\ pc = "answered" /\ pc \in HitLabel /\ DoneWithHit /\ stack' = stack
        /\ SubmitAccepted(hit.answer)
        /\ submitted' = [submitted EXCEPT ![hit.key] = @ \cup {hit.answer.status}]
        /\ acked' = acked \cup {hit.key} /\ credited' = credited \cup {hit.key}
        /\ UNCHANGED <<jsonl, rows, rejlog, recorded, tasks, mined, lost, session>>
    BY DEF HitAccepted, HitLabel, RecordDirectSubmit, poolVars
  <1>2. /\ TypeOK /\ StoreTypeOK /\ HandlesHit /\ hit.key \in Key
        /\ hit.answer.status \in Nat
    BY <1>1, HitFacts DEF Hit, Response
  <1>3. hit.key \in recorded
    BY <1>1, <1>2 DEF IInv, HitOK
  <1>4. StackOK' /\ HitOK' /\ TasksOK' /\ NativeHitsKept'
    BY <1>1, <1>3, HitDoneFrame
  <1>5. MinedOK' /\ ClosedRowsSettled' /\ OneOpenRow'
    BY <1>1, StoreFrame DEF IInv
  <1>6. AcksAreTrue'
    <2>1. \A k \in Key \ {hit.key} : submitted'[k] = submitted[k]
      BY <1>1, <1>2 DEF StoreTypeOK
    <2> QED
      BY <1>1, <1>3, <2>1 DEF IInv, AcksAreTrue, AcceptedKeys
  <1>7. TypeOK'
    BY <1>1, <1>2, LabelTypes
       DEF HitAccepted, DoneWithHit, poolVars, netVars, TypeOK, StoreTypeOK
  <1> QED
    BY <1>4, <1>5, <1>6, <1>7 DEF IInv

LEMMA HitAppendStep ==
    ASSUME IInv, HitAppend
    PROVE  IInv'
  <1>1. /\ pc = "append" /\ pc \in HitLabel /\ pc' = "insert" /\ stack' = stack
        /\ AppendRecord(hit.key, hit.raw, hit.cost, hit.reason)
        /\ UNCHANGED <<rows, submitted, rejlog, recorded, hit, tasks, mined, acked,
                       credited, lost, session>>
    BY DEF HitAppend, HitLabel, AppendRecord, poolVars, history
  <1>2. /\ TypeOK /\ StoreTypeOK /\ StackOK /\ HandlesHit /\ stack = <<>>
        /\ hit \in Hit /\ hit # NoHit /\ hit.key \in Key
        /\ mined[hit.key] # NoCost /\ rows[hit.key] = <<>>
    BY <1>1, HitFacts
  <1>3. StoreTypeOK'
    BY <1>1, <1>2, AppendRecordKeeps DEF Hit
  <1>4. /\ jsonl'[hit.key] # <<>>
        /\ \A k \in Key \ {hit.key} : jsonl'[k] = jsonl[k]
    <2> DEFINE new == [raw |-> hit.raw, cost |-> hit.cost, reason |-> hit.reason]
    <2>1. jsonl' = [jsonl EXCEPT ![hit.key] = Append(jsonl[hit.key], new)]
          /\ new \in Record
      BY <1>1, <1>2 DEF AppendRecord, Hit, Record
    <2> HIDE DEF new
    <2>2. jsonl[hit.key] \in Seq(Record)
      BY <1>2 DEF StoreTypeOK
    <2>3. Append(jsonl[hit.key], new) # <<>>
      BY <2>1, <2>2
    <2> QED
      BY <1>2, <2>1, <2>3 DEF StoreTypeOK
  <1>5. StackOK' /\ HandlesHit'
    BY <1>1, <1>2 DEF StackOK, HandlesHit, HitLabel, FlushLabel
  <1>6. HitOK'
    BY <1>1, <1>2, <1>4, <1>5 DEF HitOK
  <1>7. TasksOK'
    BY <1>1, <1>2, TasksFrame DEF IInv
  <1>8. MinedOK'
    BY <1>1, <1>2, <1>4 DEF IInv, MinedOK
  <1>9. ClosedRowsSettled'
    BY <1>1, <1>2, SameRows, SettledFrame DEF IInv
  <1>10. OneOpenRow'
    BY <1>1, <1>2, SameRows, OneOpenFrame DEF IInv
  <1>11. AcksAreTrue'
    BY <1>1, AcksFrame DEF IInv
  <1>12. NativeHitsKept'
    <2>1. VanishFrame
      BY <1>1, <1>4 DEF VanishFrame, IsLogged, HitInHand
    <2> QED
      BY <2>1, VanishFrameKeeps DEF IInv
  <1>13. TypeOK'
    BY <1>1, <1>2, <1>3, LabelTypes DEF HitAppend, poolVars, netVars, TypeOK, HitLabel
  <1> QED
    BY <1>5, <1>6, <1>7, <1>8, <1>9, <1>10, <1>11, <1>12, <1>13 DEF IInv

LEMMA HitInsertStep ==
    ASSUME IInv, HitInsert
    PROVE  IInv'
  <1>1. /\ pc = "insert" /\ pc \in HitLabel /\ DoneWithHit /\ stack' = stack
        /\ InsertPending(hit.key, hit.raw, hit.cost, hit.reason)
        /\ UNCHANGED <<jsonl, submitted, rejlog, recorded, tasks, mined, acked,
                       credited, lost, session>>
    BY DEF HitInsert, HitLabel, InsertPending, poolVars, history
  <1>2. /\ TypeOK /\ StoreTypeOK /\ HandlesHit /\ hit \in Hit /\ hit.key \in Key
        /\ mined[hit.key] # NoCost /\ rows[hit.key] = <<>>
        /\ jsonl[hit.key] # <<>>
    BY <1>1, HitFacts DEF IInv, HitOK
  <1>3. StoreTypeOK' /\ RowsKept
    BY <1>1, <1>2, InsertPendingKeeps DEF Hit
  <1> DEFINE new == [raw |-> hit.raw, cost |-> hit.cost, reason |-> hit.reason,
                     rejected |-> FALSE, open |-> TRUE]
  <1>4. rows' = [rows EXCEPT ![hit.key] = Append(rows[hit.key], new)] /\ new.open
    BY <1>1 DEF InsertPending
  <1> HIDE DEF new
  <1>5. /\ rows'[hit.key] = Append(rows[hit.key], new)
        /\ \A k \in Key \ {hit.key} : rows'[k] = rows[k]
    BY <1>2, <1>4 DEF StoreTypeOK
  <1>6. StackOK' /\ HitOK' /\ TasksOK' /\ NativeHitsKept'
    BY <1>1, <1>2, <1>3, KeptDomains, HitDoneFrame DEF IsLogged
  <1>7. MinedOK'
    BY <1>1, <1>2, <1>5 DEF IInv, MinedOK
  <1>8. ClosedRowsSettled'
    <2>1. ASSUME NEW k \in Key, NEW n \in DOMAIN rows'[k], ~rows'[k][n].open
          PROVE  n \in DOMAIN rows[k] /\ ~rows[k][n].open
      <3>1. CASE k = hit.key
        <4>1. DOMAIN rows'[k] = {1} /\ rows'[k][1] = new
          BY <1>2, <1>5, <3>1
        <4> QED
          BY <1>4, <2>1, <4>1
      <3>2. CASE k # hit.key
        BY <1>5, <2>1, <3>2
      <3> QED
        BY <3>1, <3>2
    <2> QED
      BY <1>1, <1>2, <1>3, <2>1, SettledFrame DEF IInv
  <1>9. OneOpenRow'
    <2>1. OpenRows(hit.key) = {}
      BY <1>2 DEF OpenRows
    <2>2. \A k \in Key : \/ DOMAIN rows'[k] = DOMAIN rows[k]
                         \/ OpenRows(k) = {} /\ \E row : rows'[k] = Append(rows[k], row)
      BY <1>5, <2>1
    <2> QED
      BY <1>2, <1>3, <2>2, OneOpenFrame DEF IInv
  <1>10. AcksAreTrue'
    BY <1>1, AcksFrame DEF IInv
  <1>11. TypeOK'
    BY <1>1, <1>2, <1>3, LabelTypes DEF HitInsert, DoneWithHit, poolVars, netVars, TypeOK
  <1> QED
    BY <1>3, <1>6, <1>7, <1>8, <1>9, <1>10, <1>11 DEF IInv

----------------------------------------------------------------------------
(* The end of a session.                                                   *)

LEMMA ShutdownStep ==
    ASSUME IInv, Shutdown
    PROVE  IInv'
  <1>1. /\ pc = "stop" /\ TypeOK /\ StoreTypeOK /\ shutting' = TRUE
        /\ UNCHANGED <<jsonl, submitted, rejlog, recorded, hit, tasks, mined, acked,
                       credited, lost, session>>
    BY DEF IInv, TypeOK, Shutdown, ShutdownFlush, ShutdownDefer, ShutdownIdle,
           MarkAllPending, storeVars, poolVars, history
  <1>2. ~HandlesHit
    BY <1>1, LabelTypes DEF IInv, StackOK, HandlesHit
  <1>3. /\ pc' \in Label /\ stack' \in Seq(Label) /\ StackOK' /\ ~HandlesHit'
    <2>1. \/ pc' = "flush" /\ stack' = <<"exit">>
          \/ pc' = "exit" /\ stack' = <<>>
      BY DEF Shutdown, ShutdownFlush, ShutdownDefer, ShutdownIdle
    <2> QED
      BY <2>1, LabelTypes, EmptyStack, OneCaller DEF FlushLabel
  <1>4. /\ StoreTypeOK' /\ RowsKept
        /\ \A k \in Key : DOMAIN rows'[k] = DOMAIN rows[k]
        /\ \A k \in Key : \A n \in DOMAIN rows[k] : rows'[k][n].open = rows[k][n].open
    <2>1. CASE UNCHANGED storeVars
      BY <1>1, <2>1, SameRows DEF storeVars, StoreTypeOK
    <2>2. CASE ShutdownDefer
      <3> DEFINE reasons == [k \in Key |-> IF ReadyToFlush(k) THEN ShutdownPending
                                                            ELSE OutsideXuniWindow]
      <3>1. reasons \in [Key -> Reason]
        BY ConstantTypes
      <3>2. MarkAllPending(reasons)
        BY <2>2 DEF ShutdownDefer
      <3> HIDE DEF reasons
      <3> QED
        BY <1>1, <3>1, <3>2, MarkAllPendingKeeps
    <2> QED
      BY <2>1, <2>2 DEF Shutdown, ShutdownFlush, ShutdownIdle
  <1>5. /\ HitOK' /\ TasksOK' /\ MinedOK' /\ ClosedRowsSettled' /\ OneOpenRow'
        /\ AcksAreTrue' /\ NativeHitsKept'
    BY <1>1, <1>2, <1>3, <1>4, ReasonsFrame DEF StoreTypeOK
  <1>6. /\ polled' \in Difficulty \cup {NoCost} /\ difficulty' \in Difficulty
        /\ settling' \in BOOLEAN /\ netOk' \in BOOLEAN /\ wasDown' \in BOOLEAN
    <2>1. PoolStatus \in Difficulty \cup {NoCost}
      BY <1>1 DEF TypeOK, PoolStatus
    <2>2. CASE UNCHANGED <<polled, netVars>>
      BY <1>1, <2>2 DEF TypeOK, netVars
    <2>3. CASE polled' = PoolStatus
               /\ (NetworkUpSeen(PoolStatus) \/ NetworkDownSeen(PoolStatus))
      BY <1>1, <2>1, <2>3, NetworkTypes
    <2> QED
      BY <2>2, <2>3 DEF Shutdown, ShutdownFlush, ShutdownDefer, ShutdownIdle
  <1>7. TypeOK'
    BY <1>1, <1>3, <1>4, <1>6 DEF Shutdown, poolVars, TypeOK
  <1> QED
    BY <1>3, <1>5, <1>7 DEF IInv

LEMMA EndStep ==
    ASSUME IInv, Exit \/ Crash \/ Interrupt
    PROVE  IInv'
  <1>1. /\ TypeOK /\ StoreTypeOK
        /\ UNCHANGED <<jsonl, rows, submitted, rejlog, recorded, mined, acked,
                       credited, session>>
        /\ hit' = NoHit /\ tasks' \subseteq tasks /\ stack' = <<>>
        /\ pc' \in {"off", "exit", "stop"}
    BY DEF IInv, TypeOK, Exit, Crash, Interrupt, Ended, storeVars, poolVars
  <1>2. pc' \in Label /\ stack' \in Seq(Label) /\ StackOK' /\ ~HandlesHit'
    BY <1>1, LabelTypes, EmptyStack
  <1>3. HitOK'
    BY <1>1, <1>2 DEF HitOK
  <1>4. TasksOK'
    BY <1>1, TasksFrame DEF IInv
  <1>5. MinedOK' /\ ClosedRowsSettled' /\ OneOpenRow'
    BY <1>1, StoreFrame DEF IInv
  <1>6. AcksAreTrue'
    BY <1>1, AcksFrame DEF IInv
  <1>7. HitInHand \subseteq Key
    BY <1>1 DEF TypeOK, HitInHand, Hit
  <1>8. NativeHitsKept'
    <2>1. CASE Exit
      <3>1. HitInHand = {} /\ lost' = lost
        BY <2>1, LabelTypes DEF IInv, Exit, StackOK, HandlesHit, HitOK, HitInHand
      <3>2. VanishFrame
        BY <1>1, <3>1 DEF VanishFrame, IsLogged
      <3> QED
        BY <3>2, VanishFrameKeeps DEF IInv
    <2>2. CASE Crash \/ Interrupt
      <3>1. lost' = lost \cup HitInHand
        BY <2>2 DEF Crash, Interrupt
      <3>2. VanishFrame
        BY <1>1, <3>1 DEF VanishFrame, IsLogged
      <3> QED
        BY <3>2, VanishFrameKeeps DEF IInv
    <2> QED
      BY <2>1, <2>2
  <1>9. TypeOK'
    BY <1>1, <1>2, <1>7, PipelineAssumption
       DEF Exit, Crash, Interrupt, Ended, poolVars, netVars, TypeOK, StoreTypeOK
  <1> QED
    BY <1>2, <1>3, <1>4, <1>5, <1>6, <1>8, <1>9 DEF IInv

----------------------------------------------------------------------------
(* The theorems.                                                           *)

LEMMA InitIInv == Init => IInv
  <1> SUFFICES ASSUME Init
               PROVE  IInv
    OBVIOUS
  <1> USE DEF Init, StoreInit
  <1>1. TypeOK
    <2>1. StoreTypeOK
      BY DEF StoreTypeOK
    <2>2. inWindow \in BOOLEAN
      OBVIOUS
    <2>3. stack \in Seq(Label) /\ pc \in Label
      BY LabelTypes
    <2> QED
      BY <2>1, <2>2, <2>3, PipelineAssumption DEF TypeOK
  <1>2. StackOK /\ HitOK
    BY LabelTypes DEF StackOK, HitOK, HandlesHit
  <1>3. TasksOK /\ MinedOK /\ ClosedRowsSettled /\ OneOpenRow
    BY DEF TasksOK, MinedOK, ClosedRowsSettled, OneOpenRow, OpenRows
  <1>4. AcksAreTrue /\ NativeHitsKept
    BY DEF AcksAreTrue, AcceptedKeys, NativeHitsKept, NoHitVanishes
  <1> QED
    BY <1>1, <1>2, <1>3, <1>4 DEF IInv

LEMMA StepIInv == IInv /\ [Next]_vars => IInv'
  <1> SUFFICES ASSUME IInv, [Next]_vars
               PROVE  IInv'
    OBVIOUS
  <1>1. CASE World
    BY <1>1, WorldStep
  <1>2. CASE Start
    BY <1>2, StartStep
  <1>3. CASE Boot
    BY <1>3, ImportStep, MigrateStep, QuietBootStep DEF Boot
  <1>4. CASE Loop
    BY <1>4, NetCheckStep, ServiceStep, MineStep, AbortedBatchStep DEF Loop
  <1>5. CASE HandleHit
    BY <1>5, HitQueuedStep, HitFilteredStep, HitRefreshStep, HitSubmitStep,
       HitAcceptedStep, HitRejectedStep, HitAppendStep, HitInsertStep DEF HandleHit
  <1>6. CASE Flush
    BY <1>6, QuietFlushStep, BeginFlushStep, EndFlushStep DEF Flush
  <1>7. CASE \E t \in tasks : TaskStep(t)
    BY <1>7, TaskCheckStep, TaskSubmitStep, TaskAcceptedStep, TaskNotAcceptedStep
       DEF TaskStep
  <1>8. CASE Shutdown
    BY <1>8, ShutdownStep
  <1>9. CASE Exit \/ Crash \/ Interrupt
    BY <1>9, EndStep
  <1>10. CASE UNCHANGED vars
    <2>1. UNCHANGED <<storeVars, hit, history, tasks, recorded, pc, stack, difficulty>>
      BY <1>10 DEF vars, procVars, poolVars, history
    <2>2. TypeOK' /\ StackOK' /\ (HandlesHit' <=> HandlesHit)
      BY <1>10, <2>1 DEF IInv, vars, procVars, poolVars, history, storeVars, TypeOK,
                         StoreTypeOK, StackOK, HandlesHit
    <2> QED
      BY <2>1, <2>2, QuietFrame
  <1> QED
    BY <1>1, <1>2, <1>3, <1>4, <1>5, <1>6, <1>7, <1>8, <1>9, <1>10 DEF Next

\* The inductive invariant holds in every state of every behaviour.
LEMMA Invariance == Spec => []IInv
  <1> QED
    BY InitIInv, StepIInv, PTL DEF Spec

\* Every variable of the pipeline keeps its type.
THEOREM TypeCorrect == Spec => []TypeOK
  <1>1. IInv => TypeOK
    BY DEF IInv
  <1> QED
    BY <1>1, Invariance, PTL

\* _prepare_row() and the store: a row is closed only when the pool has the
\* block, the block is a false positive, or its m= was lost on the import.
THEOREM ClosedRowsAreSettled == Spec => []ClosedRowsSettled
  <1>1. IInv => ClosedRowsSettled
    BY DEF IInv
  <1> QED
    BY <1>1, Invariance, PTL

\* enqueue(), record_rejection() and the import: one pending row per block.
THEOREM OneOpenRowAtATime == Spec => []OneOpenRow
  <1>1. IInv => OneOpenRow
    BY DEF IInv
  <1> QED
    BY <1>1, Invariance, PTL

\* handle_hit(), _prepare_row() and _apply_outcome(): no acceptance is
\* written down or counted for a block the pool has not recorded.
THEOREM AcknowledgementsAreTrue == Spec => []AcksAreTrue
  <1>1. IInv => AcksAreTrue
    BY DEF IInv
  <1> QED
    BY <1>1, Invariance, PTL

\* handle_hit() on the CUDA backend: no real block vanishes between being
\* found and being durable, unless the process goes down with it.
THEOREM NativeHitsAreKept ==
    ASSUME Native
    PROVE  Spec => []NoHitVanishes
  <1>1. IInv => NoHitVanishes
    BY DEF IInv, NativeHitsKept
  <1> QED
    BY <1>1, Invariance, PTL

----------------------------------------------------------------------------
(* What is sent, with an inductive invariant of its own beside IInv.       *)

\* From the shutdown flush there is no way back into the loop.
ShutOK ==
    shutting => \/ pc = "exit"
                \/ pc \in {"flush", "flushing"} /\ stack = <<"exit">>

\* The main thread waits for the rows it has handed out, unless Ctrl+C took
\* it away from them: the difficulty cannot change under them.
AwaitOK ==
    /\ \A t \in tasks : t.shutdown => shutting
    /\ Awaited # {} => pc \in {"flushing", "stop", "exit"}
    /\ FlushAtOwnDifficulty

\* What is past the CPU check is no false positive.
ProvedOK ==
    /\ \A t \in tasks : t.phase \in {"sending", "answered"} => t.key \notin Bogus
    /\ HandlesHit /\ pc \notin {"hit", "append", "insert"} => hit.key \notin Bogus

SendInv == ShutOK /\ AwaitOK /\ ProvedOK /\ FalsePositivesStayLocal

----------------------------------------------------------------------------
(* Frames.                                                                 *)

LEMMA LocalFrame ==
    ASSUME FalsePositivesStayLocal, UNCHANGED <<submitted, rejlog>>
    PROVE  FalsePositivesStayLocal'
  BY PipelineAssumption DEF FalsePositivesStayLocal

\* The rows handed out stay as they are, where the difficulty does or where
\* nobody waits for them.
LEMMA AwaitFrame ==
    ASSUME AwaitOK, UNCHANGED <<tasks, shutting>>,
           \A t \in tasks : mined'[t.key] = mined[t.key],
           \/ UNCHANGED <<pc, difficulty>>
           \/ pc \notin {"flushing", "stop", "exit"}
           \/ difficulty' = difficulty /\ pc' \in {"flushing", "stop", "exit"}
    PROVE  AwaitOK'
  BY DEF AwaitOK, Awaited, FlushAtOwnDifficulty

\* A step of the main thread while it holds no proved hit, or keeps it.
LEMMA ProvedFrame ==
    ASSUME ProvedOK, tasks' \subseteq tasks,
           \/ UNCHANGED hit /\ (HandlesHit' => HandlesHit)
              /\ (pc \in {"hit", "append", "insert"} => pc' \in {"hit", "append", "insert"})
           \/ HandlesHit' => pc' \in {"hit", "append", "insert"} \/ hit'.key \notin Bogus
    PROVE  ProvedOK'
  BY DEF ProvedOK

\* The key of a task is a mined block.
LEMMA TaskMined ==
    ASSUME IInv, NEW t \in tasks
    PROVE  /\ t \in Task /\ t.key \in Key /\ t.row \in DOMAIN rows[t.key]
           /\ rows[t.key] # <<>> /\ mined[t.key] # NoCost
  <1>1. t \in Task /\ t.key \in Key /\ t.row \in DOMAIN rows[t.key]
    BY DEF IInv, TypeOK, TasksOK, Task
  <1>2. rows[t.key] # <<>>
    BY <1>1
  <1> QED
    BY <1>1, <1>2 DEF IInv, MinedOK

----------------------------------------------------------------------------
(* The steps of the main thread.                                           *)

LEMMA WorldSends ==
    ASSUME SendInv, World \/ UNCHANGED vars
    PROVE  SendInv'
  <1>1. UNCHANGED <<submitted, rejlog, pc, stack, difficulty, shutting, hit, tasks, mined>>
    BY DEF World, PoolRetarget, NetworkFlip, WindowFlip, Poll, TransitionEnds, vars,
           storeVars, procVars, netVars, history
  <1>2. ShutOK' /\ AwaitOK'
    BY <1>1, AwaitFrame DEF SendInv, ShutOK
  <1>3. ProvedOK' /\ FalsePositivesStayLocal'
    BY <1>1, ProvedFrame, LocalFrame DEF SendInv, HandlesHit
  <1> QED
    BY <1>2, <1>3 DEF SendInv

\* Steps outside handle_hit() and the flushes.
LEMMA LoopSends ==
    ASSUME IInv, SendInv,
           \/ Start \/ Import \/ Migrate \/ Probe \/ Resume \/ Begin
           \/ NetCheck \/ Service \/ MaxRuntime
    PROVE  SendInv'
  <1>1. /\ UNCHANGED <<submitted, rejlog, shutting, hit, tasks, mined>>
        /\ pc \in {"off", "loop"} \cup BootLabel
    BY DEF Start, Import, Migrate, Probe, Resume, Begin, NetCheck, Service, MaxRuntime,
           ImportPendingFromJsonl, MigrateRejectedPending, storeVars, history, BootLabel
  <1>2. TypeOK /\ StackOK /\ stack = <<>> /\ pc \notin FlushLabel \cup HitLabel
        /\ pc \notin {"flushing", "stop", "exit", "flush"} /\ ~HandlesHit
    BY <1>1, LabelTypes DEF IInv, StackOK, HandlesHit, FlushLabel, BootLabel
  <1>3. ~HandlesHit'
    <2>1. CASE NetCheck /\ ContinueAt("loop")
      BY <1>2, <2>1, CallTypes DEF FlushLabel
    <2>2. CASE ~(NetCheck /\ ContinueAt("loop"))
      <3>1. \/ pc' \in {"import", "migrate", "probe", "resume", "begin", "loop", "stop"}
               /\ stack' = <<>>
            \/ pc' \in {"flush", "tryflush"} /\ stack' \in {<<"begin">>, <<"loop">>}
        BY <1>2, <2>2 DEF Start, Import, Migrate, Probe, Resume, Begin, NetCheck, Service,
                          MaxRuntime
      <3> QED
        BY <3>1, EmptyStack, OneCaller DEF FlushLabel, HitLabel
    <2> QED
      BY <2>1, <2>2
  <1>4. ShutOK' /\ AwaitOK'
    BY <1>1, <1>2, AwaitFrame DEF SendInv, ShutOK
  <1>5. ProvedOK' /\ FalsePositivesStayLocal'
    BY <1>1, <1>3, ProvedFrame, LocalFrame DEF SendInv
  <1> QED
    BY <1>4, <1>5 DEF SendInv

LEMMA MineSends ==
    ASSUME IInv, SendInv, NEW k \in Key, Mine(k) \/ AbortedBatch(k)
    PROVE  SendInv'
  <1>1. /\ UNCHANGED <<submitted, rejlog, shutting, tasks>>
        /\ pc = "loop" /\ mined[k] = NoCost
        /\ mined' = [mined EXCEPT ![k] = MiningCost]
        /\ mined \in [Key -> Difficulty \cup {NoCost}]
    BY DEF IInv, TypeOK, Mine, AbortedBatch, storeVars
  <1>2. \A t \in tasks : mined'[t.key] = mined[t.key]
    BY <1>1, TaskMined
  <1>3. stack = <<>> /\ ~HandlesHit
    BY <1>1 DEF IInv, StackOK, HandlesHit, FlushLabel, HitLabel
  <1>4. HandlesHit' => pc' = "hit"
    <2>1. CASE Mine(k)
      BY <2>1 DEF Mine
    <2>2. CASE AbortedBatch(k)
      BY <2>2, OneCaller DEF AbortedBatch, FlushLabel
    <2> QED
      BY <2>1, <2>2
  <1>5. ShutOK' /\ AwaitOK'
    BY <1>1, <1>2, AwaitFrame DEF SendInv, ShutOK
  <1>6. ProvedOK' /\ FalsePositivesStayLocal'
    BY <1>1, <1>4, ProvedFrame, LocalFrame DEF SendInv
  <1> QED
    BY <1>5, <1>6 DEF SendInv

\* handle_hit() runs while no flush does.
LEMMA HitFrames ==
    ASSUME IInv, SendInv, pc \in HitLabel, UNCHANGED <<tasks, shutting, mined>>
    PROVE  ShutOK' /\ AwaitOK'
  <1>1. pc \notin {"flushing", "stop", "exit", "flush"}
    BY DEF HitLabel
  <1> QED
    BY <1>1, AwaitFrame DEF SendInv, ShutOK

LEMMA QuietHitSends ==
    ASSUME IInv, SendInv,
           \/ HitInTransition \/ HitFiltered \/ HitVerified \/ HitRefresh \/ HitSubmit
           \/ HitHeld \/ HitAppend \/ HitInsert
    PROVE  SendInv'
  <1>1. pc \in HitLabel /\ UNCHANGED <<submitted, rejlog, shutting, tasks, mined>>
    BY DEF HitInTransition, HitFiltered, HitVerified, HitRefresh, HitSubmit, HitHeld,
           HitAppend, HitInsert, AppendRecord, InsertPending, HitLabel, storeVars,
           history
  <1>2. /\ TypeOK /\ StackOK /\ HandlesHit /\ stack = <<>> /\ hit \in Hit
    BY <1>1, HitFacts
  <1>3. ProvedOK'
    <2>1. CASE HitInTransition \/ HitHeld \/ HitAppend
      BY <2>1, ProvedFrame, <1>1
         DEF HitInTransition, HitHeld, HitAppend, QueueHit, SendInv
    <2>2. CASE HitFiltered \/ HitInsert
      <3>1. pc' = "loop" /\ stack' = <<>>
        BY <1>2, <2>2 DEF HitFiltered, HitInsert, DoneWithHit
      <3>2. ~HandlesHit'
        BY <3>1, LabelTypes, EmptyStack
      <3> QED
        BY <1>1, <3>2, ProvedFrame DEF SendInv
    <2>3. CASE HitVerified
      <3>1. hit.key \notin Bogus /\ hit'.key = hit.key
        <4>1. Prepared \in Hit /\ Prepared.key = hit.key
          BY <1>2 DEF Prepared, Hit
        <4>2. hit' \in {Prepared, [Prepared EXCEPT !.reason = OutsideXuniWindow]}
          BY <2>3 DEF HitVerified
        <4> HIDE DEF Prepared
        <4> QED
          BY <2>3, <4>1, <4>2 DEF HitVerified, Verifies, Hit
      <3> QED
        BY <1>1, <3>1, ProvedFrame DEF SendInv
    <2>4. CASE HitRefresh
      <3>1. hit.key \notin Bogus
        BY <1>2, <2>4 DEF SendInv, ProvedOK, HitRefresh
      <3>2. hit'.key = hit.key
        BY <1>2, <2>4 DEF HitRefresh, QueueHit, Hit
      <3> QED
        BY <1>1, <3>1, <3>2, ProvedFrame DEF SendInv
    <2>5. CASE HitSubmit
      <3>1. hit.key \notin Bogus
        BY <1>2, <2>5 DEF SendInv, ProvedOK, HitSubmit
      <3>2. hit'.key = hit.key
        BY <1>2, <2>5 DEF HitSubmit, Hit
      <3> QED
        BY <1>1, <3>1, <3>2, ProvedFrame DEF SendInv
    <2> QED
      BY <2>1, <2>2, <2>3, <2>4, <2>5
  <1> QED
    BY <1>1, <1>3, HitFrames, LocalFrame DEF SendInv

\* What is written down of an answer is about a proved block.
LEMMA AnsweredSends ==
    ASSUME IInv, SendInv, HitAccepted \/ HitToRetry \/ HitRejected
    PROVE  SendInv'
  <1>1. /\ pc = "answered" /\ pc \in HitLabel /\ UNCHANGED <<shutting, tasks, mined>>
        /\ pc' = "append" \/ (DoneWithHit /\ stack' = stack)
    BY DEF HitAccepted, HitToRetry, HitRejected, QueueHit, HitLabel, history
  <1>2. /\ TypeOK /\ StoreTypeOK /\ HandlesHit /\ stack = <<>> /\ hit.key \in Key
        /\ rows[hit.key] = <<>>
    BY <1>1, HitFacts
  <1>3. hit.key \notin Bogus
    BY <1>1, <1>2 DEF SendInv, ProvedOK
  <1>4. ~IsPending(hit.key)
    BY <1>2 DEF IsPending, OpenRows
  <1>5. \A k \in Key \ {hit.key} : submitted'[k] = submitted[k] /\ rejlog'[k] = rejlog[k]
    BY <1>2, <1>4 DEF HitAccepted, HitToRetry, HitRejected, RecordDirectSubmit,
                      LogRejection, StoreTypeOK
  <1>6. FalsePositivesStayLocal'
    BY <1>3, <1>5, PipelineAssumption DEF SendInv, FalsePositivesStayLocal
  <1>7. ProvedOK'
    <2>1. CASE pc' = "append"
      BY <1>1, <2>1, ProvedFrame DEF SendInv
    <2>2. CASE DoneWithHit /\ stack' = stack
      <3>1. ~HandlesHit'
        BY <1>2, <2>2, LabelTypes, EmptyStack DEF DoneWithHit
      <3> QED
        BY <1>1, <3>1, ProvedFrame DEF SendInv
    <2> QED
      BY <1>1, <2>1, <2>2
  <1> QED
    BY <1>1, <1>6, <1>7, HitFrames DEF SendInv

----------------------------------------------------------------------------
(* The flushes.                                                            *)

LEMMA TryFlushSends ==
    ASSUME IInv, SendInv, TryFlushHeld \/ TryFlush
    PROVE  SendInv'
  <1>1. /\ UNCHANGED <<submitted, rejlog, shutting, hit, tasks, mined>>
        /\ pc = "tryflush" /\ pc \in FlushLabel
    BY DEF TryFlushHeld, TryFlush, storeVars, history, FlushLabel
  <1>2. TypeOK /\ StackOK
    BY DEF IInv
  <1>3. HandlesHit' <=> HandlesHit
    <2>1. CASE Return
      BY <1>1, <1>2, <2>1, ReturnTypes
    <2>2. CASE ContinueAt("flush")
      BY <1>1, <1>2, <2>2, CallTypes DEF HitLabel
    <2> QED
      BY <2>1, <2>2 DEF TryFlushHeld, TryFlush
  <1>4. ShutOK' /\ AwaitOK'
    BY <1>1, AwaitFrame DEF SendInv, ShutOK
  <1>5. ProvedOK' /\ FalsePositivesStayLocal'
    BY <1>1, <1>3, ProvedFrame, LocalFrame DEF SendInv
  <1> QED
    BY <1>4, <1>5 DEF SendInv

LEMMA BeginFlushSends ==
    ASSUME IInv, SendInv, BeginFlush
    PROVE  SendInv'
  <1>1. /\ UNCHANGED <<submitted, rejlog, shutting, hit, mined, difficulty>>
        /\ pc = "flush" /\ pc \in FlushLabel /\ TypeOK /\ StackOK
    BY DEF IInv, BeginFlush, storeVars, netVars, history, FlushLabel
  <1>2. CASE AnyPending
    <2>1. /\ tasks' = tasks \cup UNION {NewTasks(k) : k \in Key}
          /\ pc' = "flushing" /\ stack' = stack
      BY <1>2 DEF BeginFlush
    <2>2. \A t \in tasks' : \/ t \in tasks
                            \/ t.shutdown = shutting /\ t.phase = "queued"
      BY <2>1 DEF NewTasks
    <2>3. HandlesHit' <=> HandlesHit
      BY <1>1, <2>1 DEF HandlesHit, HitLabel
    <2>4. ShutOK'
      BY <1>1, <2>1 DEF SendInv, ShutOK
    <2>5. AwaitOK'
      BY <1>1, <2>1, <2>2 DEF SendInv, AwaitOK, Awaited, FlushAtOwnDifficulty
    <2>6. ProvedOK'
      BY <1>1, <2>1, <2>2, <2>3 DEF SendInv, ProvedOK
    <2> QED
      BY <1>1, <2>4, <2>5, <2>6, LocalFrame DEF SendInv
  <1>3. CASE ~AnyPending
    <2>1. Return /\ tasks' = tasks
      BY <1>3 DEF BeginFlush
    <2>2. HandlesHit' <=> HandlesHit
      BY <1>1, <2>1, ReturnTypes
    <2>3. ShutOK'
      BY <1>1, <2>1 DEF SendInv, ShutOK, Return
    <2>4. AwaitOK'
      BY <1>1, <2>1, AwaitFrame DEF SendInv
    <2> QED
      BY <1>1, <2>1, <2>2, <2>3, <2>4, ProvedFrame, LocalFrame DEF SendInv
  <1> QED
    BY <1>2, <1>3

LEMMA EndFlushSends ==
    ASSUME IInv, SendInv, EndFlush
    PROVE  SendInv'
  <1>1. /\ UNCHANGED <<submitted, rejlog, shutting, hit, mined, difficulty>>
        /\ pc = "flushing" /\ pc \in FlushLabel /\ TypeOK /\ StackOK
        /\ Return /\ tasks' = tasks \ Awaited
    BY DEF IInv, EndFlush, storeVars, netVars, FlushLabel
  <1>2. HandlesHit' <=> HandlesHit
    BY <1>1, ReturnTypes
  <1>3. ShutOK'
    BY <1>1 DEF SendInv, ShutOK, Return
  <1>4. AwaitOK'
    BY <1>1 DEF SendInv, AwaitOK, Awaited, FlushAtOwnDifficulty
  <1> QED
    BY <1>1, <1>2, <1>3, <1>4, ProvedFrame, LocalFrame DEF SendInv

----------------------------------------------------------------------------
(* The submit workers.                                                     *)

LEMMA AdvanceSends ==
    ASSUME IInv, SendInv, NEW t \in tasks,
           NEW phase \in {"sending", "answered"} \cup Finished,
           NEW answer \in Response, Advance(t, phase, answer),
           UNCHANGED <<pc, stack, difficulty, shutting, hit, mined>>,
           phase = "sending" => mined[t.key] = difficulty,
           phase \in {"sending", "answered"} => t.key \notin Bogus
    PROVE  ShutOK' /\ AwaitOK' /\ ProvedOK'
  <1>1. t \in Task
    BY TaskMined
  <1> DEFINE u == [t EXCEPT !.phase = phase, !.answer = answer]
  <1>2. u.key = t.key /\ u.phase = phase /\ u.shutdown = t.shutdown
    BY <1>1 DEF Task
  <1>3. tasks' = (tasks \ {t}) \cup {u}
    BY DEF Advance
  <1> HIDE DEF u
  <1>4. ShutOK'
    BY DEF SendInv, ShutOK
  <1>5. AwaitOK'
    BY <1>2, <1>3 DEF SendInv, AwaitOK, Awaited, FlushAtOwnDifficulty
  <1>6. ProvedOK'
    BY <1>2, <1>3 DEF SendInv, ProvedOK, HandlesHit
  <1> QED
    BY <1>4, <1>5, <1>6

LEMMA CheckSends ==
    ASSUME IInv, SendInv, NEW t \in tasks, TaskCheck(t)
    PROVE  SendInv'
  <1>1. /\ UNCHANGED <<rejlog, pc, stack, difficulty, shutting, hit, mined>>
        /\ StoreTypeOK /\ t.key \in Key /\ NoAnswer \in Response
    BY TaskMined, ConstantTypes
       DEF IInv, TypeOK, TaskCheck, TaskWaits, TaskFilters, TaskOutsideWindow,
           TaskVerified, MarkSubmitted, MarkPendingReason, storeVars, netVars, history
  <1>2. FalsePositivesStayLocal'
    <2>1. CASE TaskFilters(t)
      <3>1. submitted' = [submitted EXCEPT ![t.key] = @ \cup {0}]
        BY <2>1 DEF TaskFilters, MarkSubmitted
      <3> QED
        BY <1>1, <3>1, PipelineAssumption DEF SendInv, FalsePositivesStayLocal, StoreTypeOK
    <2>2. CASE ~TaskFilters(t)
      <3>1. submitted' = submitted
        BY <2>2 DEF TaskCheck, TaskWaits, TaskOutsideWindow, TaskVerified,
                    MarkPendingReason, storeVars
      <3> QED
        BY <1>1, <3>1, LocalFrame DEF SendInv
    <2> QED
      BY <2>1, <2>2
  <1>3. PICK phase \in {"sending", "over"} :
          /\ Advance(t, phase, NoAnswer)
          /\ phase = "sending" => Verifies(t.key, difficulty)
    BY DEF TaskCheck, TaskWaits, TaskFilters, TaskOutsideWindow, TaskVerified
  <1>4. ShutOK' /\ AwaitOK' /\ ProvedOK'
    BY <1>1, <1>3, AdvanceSends DEF Verifies, Finished
  <1> QED
    BY <1>2, <1>4 DEF SendInv

LEMMA TaskSends ==
    ASSUME IInv, SendInv, NEW t \in tasks,
           TaskSubmit(t) \/ TaskAccepted(t) \/ TaskNotAccepted(t)
    PROVE  SendInv'
  <1>1. /\ UNCHANGED <<pc, stack, difficulty, shutting, hit, mined>>
        /\ StoreTypeOK /\ t.key \in Key /\ NoAnswer \in Response
        /\ t.phase \in {"sending", "answered"}
    BY TaskMined, ConstantTypes
       DEF IInv, TypeOK, TaskSubmit, TaskAccepted, TaskNotAccepted, netVars, history
  <1>2. t.key \notin Bogus
    BY <1>1 DEF SendInv, ProvedOK
  <1>3. \A k \in Key \ {t.key} : submitted'[k] = submitted[k] /\ rejlog'[k] = rejlog[k]
    <2>1. CASE TaskSubmit(t)
      BY <2>1 DEF TaskSubmit, storeVars
    <2>2. CASE TaskAccepted(t)
      BY <1>1, <2>2 DEF TaskAccepted, MarkSubmitted, StoreTypeOK
    <2>3. CASE TaskNotAccepted(t)
      BY <1>1, <2>3 DEF TaskNotAccepted, TaskHeld, TaskFailed, MarkPendingReason,
                        RecordRejectionOfRow, RejectRow, storeVars, StoreTypeOK
    <2> QED
      BY <2>1, <2>2, <2>3
  <1>4. FalsePositivesStayLocal'
    BY <1>2, <1>3, PipelineAssumption DEF SendInv, FalsePositivesStayLocal
  <1>5. \E phase \in {"answered", "flushed", "over"}, r \in Response :
          Advance(t, phase, r)
    BY <1>1, AnswerTypes DEF TaskSubmit, TaskAccepted, TaskNotAccepted, TaskHeld, TaskFailed
  <1>6. ShutOK' /\ AwaitOK' /\ ProvedOK'
    BY <1>1, <1>2, <1>5, AdvanceSends DEF Finished
  <1> QED
    BY <1>4, <1>6 DEF SendInv

----------------------------------------------------------------------------
(* The end of a session.                                                   *)

LEMMA ShutdownSends ==
    ASSUME IInv, SendInv, Shutdown
    PROVE  SendInv'
  <1>1. /\ UNCHANGED <<submitted, rejlog, hit, tasks, mined>>
        /\ pc = "stop" /\ ~shutting /\ shutting' = TRUE
        /\ \/ pc' = "flush" /\ stack' = <<"exit">>
           \/ pc' = "exit" /\ stack' = <<>>
    BY DEF SendInv, ShutOK, IInv, TypeOK, Shutdown, ShutdownFlush, ShutdownDefer,
           ShutdownIdle, MarkAllPending, storeVars, history
  <1>2. ~HandlesHit'
    BY <1>1, LabelTypes, EmptyStack, OneCaller DEF FlushLabel
  <1>3. Awaited' = {}
    BY <1>1 DEF SendInv, AwaitOK, Awaited
  <1>4. ShutOK' /\ AwaitOK'
    BY <1>1, <1>3 DEF SendInv, ShutOK, AwaitOK, FlushAtOwnDifficulty
  <1>5. ProvedOK' /\ FalsePositivesStayLocal'
    BY <1>1, <1>2, ProvedFrame, LocalFrame DEF SendInv
  <1> QED
    BY <1>4, <1>5 DEF SendInv

LEMMA EndSends ==
    ASSUME IInv, SendInv, Exit \/ Crash \/ Interrupt
    PROVE  SendInv'
  <1>1. /\ UNCHANGED <<submitted, rejlog, mined>>
        /\ hit' = NoHit /\ stack' = <<>> /\ pc' \in {"off", "exit", "stop"}
    BY DEF Exit, Crash, Interrupt, Ended, storeVars
  <1>2. ~HandlesHit'
    BY <1>1, LabelTypes, EmptyStack
  <1>3. CASE Exit \/ Crash
    <2>1. tasks' = {} /\ shutting' = FALSE
      BY <1>3 DEF Exit, Crash, Ended
    <2>2. ShutOK' /\ AwaitOK'
      BY <2>1 DEF ShutOK, AwaitOK, Awaited, FlushAtOwnDifficulty
    <2> QED
      BY <1>1, <1>2, <2>1, <2>2, ProvedFrame, LocalFrame DEF SendInv
  <1>4. CASE Interrupt
    <2>1. UNCHANGED <<shutting, tasks, difficulty>> /\ pc' \in {"stop", "exit"}
      BY <1>4 DEF Interrupt, netVars
    <2>2. ShutOK'
      BY <1>4, <2>1 DEF SendInv, ShutOK, Interrupt
    <2>3. AwaitOK'
      BY <1>1, <2>1, AwaitFrame DEF SendInv
    <2> QED
      BY <1>1, <1>2, <2>1, <2>2, <2>3, ProvedFrame, LocalFrame DEF SendInv
  <1> QED
    BY <1>3, <1>4

----------------------------------------------------------------------------
(* The theorem.                                                            *)

LEMMA InitSends == Init => SendInv
  <1> SUFFICES ASSUME Init
               PROVE  SendInv
    OBVIOUS
  <1>1. shutting = FALSE /\ tasks = {} /\ ~HandlesHit
    BY LabelTypes DEF Init, HandlesHit
  <1>2. FalsePositivesStayLocal
    BY PipelineAssumption DEF Init, StoreInit, FalsePositivesStayLocal
  <1> QED
    BY <1>1, <1>2 DEF SendInv, ShutOK, AwaitOK, ProvedOK, Awaited, FlushAtOwnDifficulty

LEMMA StepSends == IInv /\ SendInv /\ [Next]_vars => SendInv'
  <1> SUFFICES ASSUME IInv, SendInv, [Next]_vars
               PROVE  SendInv'
    OBVIOUS
  <1>1. CASE World \/ UNCHANGED vars
    BY <1>1, WorldSends
  <1>2. CASE Start \/ Boot
    BY <1>2, LoopSends DEF Boot
  <1>3. CASE Loop
    BY <1>3, LoopSends, MineSends DEF Loop
  <1>4. CASE HandleHit
    BY <1>4, QuietHitSends, AnsweredSends DEF HandleHit
  <1>5. CASE Flush
    BY <1>5, TryFlushSends, BeginFlushSends, EndFlushSends DEF Flush
  <1>6. CASE \E t \in tasks : TaskStep(t)
    BY <1>6, CheckSends, TaskSends DEF TaskStep
  <1>7. CASE Shutdown
    BY <1>7, ShutdownSends
  <1>8. CASE Exit \/ Crash \/ Interrupt
    BY <1>8, EndSends
  <1> QED
    BY <1>1, <1>2, <1>3, <1>4, <1>5, <1>6, <1>7, <1>8 DEF Next

\* _prepare_row() and handle_hit(): the difficulty a flush has tested is still
\* the miner's when the block is sent, and no answer to a false positive is
\* ever written down, for none was sent.
THEOREM ProvedBlocksAreSent == Spec => []SendsProvedBlocks
  <1>1. Spec => [](IInv /\ SendInv)
    <2>1. Init => IInv /\ SendInv
      BY InitIInv, InitSends
    <2>2. IInv /\ SendInv /\ [Next]_vars => (IInv /\ SendInv)'
      BY StepIInv, StepSends
    <2> QED
      BY <2>1, <2>2, PTL DEF Spec
  <1>2. SendInv => SendsProvedBlocks
    BY DEF SendInv, AwaitOK, SendsProvedBlocks
  <1> QED
    BY <1>1, <1>2, PTL

----------------------------------------------------------------------------
(* What is logged as rejected.                                             *)

LEMMA LoggedByRejection ==
    ASSUME IInv, [Next]_vars, NEW k \in Key, NEW r \in rejlog'[k] \ rejlog[k]
    PROVE  CountsAsReject(r) \/ HitRejected
  <1>1. CASE rejlog' = rejlog
    BY <1>1
  <1>2. CASE World \/ Start \/ Boot \/ Flush \/ Shutdown \/ Exit \/ Crash \/ Interrupt
             \/ UNCHANGED vars
    <2>1. rejlog' = rejlog
      BY <1>2 DEF World, PoolRetarget, NetworkFlip, WindowFlip, Poll, TransitionEnds,
            Start, Boot, Import, Migrate, Probe, Resume, Begin, ImportPendingFromJsonl,
            MigrateRejectedPending, Flush, TryFlushHeld, TryFlush, BeginFlush, EndFlush,
            Shutdown, ShutdownFlush, ShutdownDefer, ShutdownIdle, MarkAllPending, Exit,
            Crash, Interrupt, Ended, vars, storeVars
    <2> QED
      BY <1>1, <2>1
  <1>3. CASE Loop
    BY <1>1, <1>3 DEF Loop, NetCheck, Service, Mine, AbortedBatch, MaxRuntime, storeVars
  <1>4. CASE HandleHit /\ ~HitRejected
    <2>1. rejlog' = rejlog
      BY <1>4 DEF HandleHit, HitInTransition, HitFiltered, HitVerified, HitRefresh,
            HitSubmit, HitAccepted, HitToRetry, HitHeld, HitAppend, HitInsert,
            RecordDirectSubmit, AppendRecord, InsertPending, storeVars
    <2> QED
      BY <1>1, <2>1
  <1>5. CASE \E t \in tasks : TaskStep(t)
    <2>1. PICK t \in tasks : TaskStep(t)
      BY <1>5
    <2>2. t.key \in Key /\ StoreTypeOK
      BY TaskMined DEF IInv, TypeOK
    <2>3. \/ rejlog' = rejlog
          \/ /\ CountsAsReject(t.answer)
             /\ \E reason : RejectRow(t.key, t.row, t.answer, reason)
      BY <2>1 DEF TaskStep, TaskCheck, TaskWaits, TaskFilters, TaskOutsideWindow,
            TaskVerified, TaskSubmit, TaskAccepted, TaskNotAccepted, TaskHeld,
            TaskFailed, MarkSubmitted, MarkPendingReason, RecordRejectionOfRow, storeVars
    <2>4. CASE /\ CountsAsReject(t.answer)
               /\ \E reason : RejectRow(t.key, t.row, t.answer, reason)
      <3>1. \E set \in {rejlog[t.key], rejlog[t.key] \cup {t.answer}} :
              rejlog' = [rejlog EXCEPT ![t.key] = set]
        BY <2>4 DEF RejectRow
      <3>2. /\ k # t.key => rejlog'[k] = rejlog[k]
            /\ k = t.key => rejlog'[k] \subseteq rejlog[k] \cup {t.answer}
        BY <2>2, <3>1 DEF StoreTypeOK
      <3>3. r = t.answer
        BY <3>2
      <3> QED
        BY <2>4, <3>3
    <2> QED
      BY <1>1, <2>3, <2>4
  <1> QED
    BY <1>2, <1>3, <1>4, <1>5 DEF Next

\* flush.py:170-171, "network blips stay pending without polluting
\* rejected.jsonl": whatever a flush, or a worker an interrupt left behind,
\* is answered, it logs final rejections only.
THEOREM FlushesLogRejections == Spec => FlushLogsRejectsOnly
  <1>1. IInv /\ [Next]_vars =>
          [\A k \in Key : \A r \in rejlog'[k] \ rejlog[k] :
              CountsAsReject(r) \/ HitRejected]_vars
    BY LoggedByRejection
  <1> QED
    BY <1>1, Invariance, PTL DEF Spec, FlushLogsRejectsOnly
===========================================================================

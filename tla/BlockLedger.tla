---------------------------- MODULE BlockLedger ----------------------------
(***************************************************************************)
(* What the block queue promises, without saying how: a block written to   *)
(* the log stays owed to the pool until the pool has recorded it.  Only a  *)
(* block that cannot be proved to the pool any more is given up.           *)
(***************************************************************************)
CONSTANT Key

VARIABLES logged,   \* blocks written to the durable log
          closed,   \* logged blocks the queue no longer holds
          booked,   \* blocks the pool has recorded
          sealed,   \* blocks the miner holds a success status for
          excused   \* blocks that need not reach the pool

ledgerVars == <<logged, closed, booked, sealed, excused>>

LedgerTypeOK ==
    /\ logged \subseteq Key
    /\ closed \subseteq logged
    /\ booked \subseteq Key
    /\ sealed \subseteq booked
    /\ excused \subseteq Key

LedgerInit ==
    /\ logged = {}
    /\ closed = {}
    /\ booked = {}
    /\ sealed = {}
    /\ excused \subseteq Key

\* The block becomes durable.
Log(k) ==
    /\ logged' = logged \cup {k}
    /\ UNCHANGED <<closed, booked, sealed, excused>>

\* The pool records the block, whether or not its answer arrives.
Book(k) ==
    /\ booked' = booked \cup {k}
    /\ UNCHANGED <<logged, closed, sealed, excused>>

\* A block submitted without ever being queued is confirmed.
Seal(k) ==
    /\ k \in booked
    /\ sealed' = sealed \cup {k}
    /\ UNCHANGED <<logged, closed, booked, excused>>

\* The queue lets a block go; with a confirmation it is sealed as well.
Close(k) ==
    /\ k \in logged \ closed
    /\ closed' = closed \cup {k}
    /\ \/ /\ k \in booked
          /\ sealed' \in {sealed, sealed \cup {k}}
       \/ /\ k \in excused
          /\ UNCHANGED sealed
    /\ UNCHANGED <<logged, booked, excused>>

\* A new session takes blocks up again, never a sealed one; blocks can lose
\* what it takes to prove them on the way into the queue.
Requeue(S, E) ==
    /\ S \cap sealed = {}
    /\ closed' = closed \ S
    /\ excused' = excused \cup E
    /\ UNCHANGED <<logged, booked, sealed>>

LedgerNext ==
    \/ \E k \in Key : Log(k) \/ Book(k) \/ Seal(k) \/ Close(k)
    \/ \E S \in SUBSET closed, E \in SUBSET logged : Requeue(S, E)

LedgerSpec == LedgerInit /\ [][LedgerNext]_ledgerVars

\* What the queue has let go of is at the pool, or cannot be proved to it;
\* what the miner holds a success status for is at the pool.
OwedOrSettled ==
    /\ closed \subseteq logged \cap (booked \cup excused)
    /\ sealed \subseteq booked
===========================================================================

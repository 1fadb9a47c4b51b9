-------------------------- MODULE WalletSnapshots --------------------------
(***************************************************************************)
(* What the rental server records of the miners for the charts of their    *)
(* owners: WalletSnapshotService adds a row for every wallet each hour     *)
(* (server/wallet_snapshot.py, server/storage/wallet_snapshots.py) from    *)
(* the rows of the workers (server/storage/workers.py) and from what it    *)
(* remembers of the last one, in memory only.  Workers register, find      *)
(* blocks, fall silent and change wallets in between, and while a round of *)
(* records waits for the database.                                         *)
(*                                                                         *)
(* All coroutines share one connection: a statement shows to everyone when *)
(* it is executed, is kept with the next commit of anyone, and is undone   *)
(* by a ROLLBACK of settle_lease(), which is Marketplace's and comes here  *)
(* at any time.  Hash rates, times and payouts are left out: nothing is    *)
(* decided by them.                                                        *)
(***************************************************************************)
EXTENDS Integers, FiniteSets, FiniteSetsExt

CONSTANTS
    Worker, Wallet, NoWallet,
    Keep,         \* rounds within hourly_retain_hours
    MaxRounds,    \* bound: rounds of records
    MaxEvents     \* bound: what workers do, failures, rollbacks, restarts

VARIABLES
    row,        \* the rows of the workers, as the connection shows them
    chart,      \* the rows of wallet_snapshots, as the connection shows them
    committed,  \* the rows of both as they are kept
    last,       \* _last_blocks
    round,      \* the round of records: its number, what it read, what is left
    session,    \* history: restarts, and wallets whose chart may jump since
    events      \* the bound used up

vars == <<row, chart, committed, last, round, session, events>>

Known == DOMAIN row
Event == events < MaxEvents /\ events' = events + 1

\* No statement on the chart waits for its commit.
ChartCommitted == chart = committed.chart

----------------------------------------------------------------------------
(* The rows of the workers: statements before their commits *)

\* upsert() of a worker that registers, for the first time or again: what it
\* found stays with it when its wallet changes.
Register(w, a) ==
    /\ Event
    /\ row' = [v \in Known \cup {w} |->
                 IF v # w THEN row[v]
                 ELSE [wallet |-> a, online |-> TRUE,
                       blocks |-> IF w \in Known THEN row[w].blocks ELSE 0]]
    /\ session' = IF w \in Known /\ row[w].wallet # a
                  THEN [session EXCEPT !.jumps = @ \cup {row[w].wallet}] ELSE session
    /\ UNCHANGED <<chart, committed, last, round>>

\* update_heartbeat()
Hear(w) ==
    /\ Event /\ w \in Known /\ ~row[w].online
    /\ row' = [row EXCEPT ![w].online = TRUE]
    /\ UNCHANGED <<chart, committed, last, round, session>>

\* increment_self_blocks(), from _handle_self_mined_block()
FindBlock(w) ==
    /\ Event /\ w \in Known
    /\ row' = [row EXCEPT ![w].blocks = @ + 1]
    /\ UNCHANGED <<chart, committed, last, round, session>>

Silenced(table, w) ==
    [v \in DOMAIN table |-> IF v = w THEN [table[v] EXCEPT !.online = FALSE] ELSE table[v]]

\* OFFLINE_THRESHOLD passes since the last heartbeat; the row stays as it is.
FallSilent(w) ==
    /\ Event /\ w \in Known /\ row[w].online
    /\ row' = Silenced(row, w)
    /\ committed' = [committed EXCEPT !.row = Silenced(@, w)]
    /\ UNCHANGED <<chart, last, round, session>>

----------------------------------------------------------------------------
(* A round of records *)

Over == [round EXCEPT !.open = FALSE, !.left = {}, !.seen = <<>>]

\* create_snapshots() reads the workers, whoever's commits are still to come,
\* and groups them by their wallets.
Begin ==
    /\ ~round.open /\ ChartCommitted /\ round.nth < MaxRounds
    /\ round' = [nth |-> round.nth + 1, open |-> TRUE, seen |-> row,
                 left |-> {row[w].wallet : w \in Known} \ {NoWallet}]
    /\ UNCHANGED <<row, chart, committed, last, session, events>>

\* Mutant: the blocks of the workers online only.
FoundOnline(seen, a) ==
    MapThenSumSet(LAMBDA w : seen[w].blocks,
                  {w \in DOMAIN seen : seen[w].wallet = a /\ seen[w].online})

\* cumulative_blocks of a wallet
Found(seen, a) ==
    MapThenSumSet(LAMBDA w : seen[w].blocks, {w \in DOMAIN seen : seen[w].wallet = a})

Record(a) ==
    LET found == Found(round.seen, a)
    IN  [wallet |-> a, nth |-> round.nth, session |-> session.nth, found |-> found,
         blocks |-> IF found < last[a] THEN 0 ELSE found - last[a],
         online |-> Cardinality({w \in DOMAIN round.seen :
                                   round.seen[w].wallet = a /\ round.seen[w].online})]

\* What was found is remembered before the record is inserted.
Remember(a) == last' = [last EXCEPT ![a] = Found(round.seen, a)]

\* insert() of the record of a wallet, when the commit of the one before was
\* awaited.
Insert(a) ==
    /\ a \in round.left /\ ChartCommitted
    /\ Remember(a)
    /\ chart' = chart \cup {Record(a)}
    /\ round' = [round EXCEPT !.left = @ \ {a}]
    /\ UNCHANGED <<row, committed, session, events>>

\* An insert that fails ends the round for all wallets that are left.
InsertFails(a) ==
    /\ Event /\ a \in round.left /\ ChartCommitted
    /\ Remember(a)
    /\ round' = Over
    /\ session' = [session EXCEPT !.jumps = @ \cup {a}]
    /\ UNCHANGED <<row, chart, committed>>

\* cleanup() ends a round that got to all wallets.
Clean ==
    /\ round.open /\ round.left = {} /\ ChartCommitted
    /\ chart' = {r \in chart : r.nth >= round.nth - Keep}
    /\ round' = Over
    /\ UNCHANGED <<row, committed, last, session, events>>

----------------------------------------------------------------------------
(* The connection *)

\* A commit, of whomever, keeps the statements of all.
Commit ==
    /\ committed # [row |-> row, chart |-> chart]
    /\ committed' = [row |-> row, chart |-> chart]
    /\ UNCHANGED <<row, chart, last, round, session, events>>

\* What is counted of a wallet, or about to be by the round that runs.
Counted(a) == IF a \in round.left THEN Found(round.seen, a) ELSE last[a]

\* settle_lease() rolls back (settlement.py:60, :99), as it does too when its
\* BEGIN is refused over the statement of another coroutine.  No one is told
\* whose record is gone, or whose blocks were counted that are gone.
Rollback ==
    /\ Event /\ committed # [row |-> row, chart |-> chart]
    /\ row' = committed.row /\ chart' = committed.chart
    /\ session' = [session EXCEPT !.jumps = @
                     \cup {r.wallet : r \in chart \ committed.chart}
                     \cup {a \in Wallet : Found(committed.row, a) < Counted(a)}]
    /\ UNCHANGED <<committed, last, round>>

\* The server goes down, in a round or not, and up.
Restart ==
    /\ Event
    /\ row' = committed.row /\ chart' = committed.chart
    /\ last' = [a \in Wallet |-> 0]
    /\ round' = Over
    /\ session' = [nth |-> session.nth + 1, jumps |-> {}]
    /\ UNCHANGED committed

----------------------------------------------------------------------------

Init ==
    /\ row = <<>> /\ chart = {} /\ committed = [row |-> <<>>, chart |-> {}]
    /\ last = [a \in Wallet |-> 0]
    /\ round = [nth |-> 0, open |-> FALSE, seen |-> <<>>, left |-> {}]
    /\ session = [nth |-> 0, jumps |-> {}] /\ events = 0

Next ==
    \/ Begin \/ Clean \/ Commit \/ Rollback \/ Restart
    \/ \E w \in Worker : Hear(w) \/ FindBlock(w) \/ FallSilent(w)
    \/ \E w \in Worker, a \in Wallet \cup {NoWallet} : Register(w, a)
    \/ \E a \in Wallet : Insert(a) \/ InsertFails(a)

Spec == Init /\ [][Next]_vars

----------------------------------------------------------------------------

TypeOK ==
    /\ \A table \in {row, committed.row} :
          /\ DOMAIN table \subseteq Worker
          /\ \A w \in DOMAIN table : table[w].wallet \in Wallet \cup {NoWallet}
    /\ DOMAIN last = Wallet /\ \A a \in Wallet : last[a] \in 0..MaxEvents
    /\ round.left \subseteq Wallet /\ round.nth \in 0..MaxRounds

\* As long as the server runs, the chart of a wallet shows between two of its
\* records just the blocks its workers found between them: in every round that
\* read them, whether the workers were heard of lately or not, and whichever
\* wallets' records a round did not get to; except for a wallet that a worker
\* left for another one, a record of which failed (wallet_snapshot.py:97), or
\* of which a settlement's ROLLBACK took back a record or blocks that were
\* counted (settlement.py:60, :99).
ChartAddsUp ==
    \A r, s \in {r \in chart : r.session = session.nth /\ r.wallet \notin session.jumps} :
        r.wallet = s.wallet /\ r.nth < s.nth =>
            MapThenSumSet(LAMBDA t : t.blocks,
                {t \in chart : t.wallet = r.wallet /\ t.nth \in (r.nth + 1)..s.nth})
              = s.found - r.found
=============================================================================

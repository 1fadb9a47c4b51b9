---------------------------- MODULE Marketplace ----------------------------
(***************************************************************************)
(* The rental server of the vendored mining platform                       *)
(* (src/native/XenblocksMiner-main/server): the coroutines that rent, stop, *)
(* expire and settle leases and move the consumer's money.  All of them    *)
(* work on one SQLite connection, so a transaction belongs to the          *)
(* connection and not to the coroutine that opened it: whoever commits,    *)
(* commits everybody's statements, and whoever rolls back, undoes them.    *)
(*                                                                         *)
(* view is what every coroutine reads, disk what a restart finds; a step   *)
(* is one statement or one commit, as each is awaited on its own.  Reads   *)
(* that follow a step of the same coroutine without deciding anything are  *)
(* part of that step.                                                      *)
(***************************************************************************)
EXTENDS Integers, FiniteSets

CONSTANTS
  Worker, Lease,      \* rentable workers; lease ids, each granted at most once
  Handler, Watchdog,  \* coroutines serving HTTP or MQTT; the watchdog's own
  None,
  Price,              \* what a lease costs, in twentieths of the unit
  Funds, Amount,      \* the consumer's opening balance; what a deposit moves
  MaxRequests,        \* requests served in a behaviour
  MaxCrashes          \* ends of the server's process

ASSUME PricesAssumption ==
  /\ Price \in Nat /\ Funds \in Nat /\ Amount \in Nat
  /\ MaxRequests \in Nat /\ MaxCrashes \in Nat
ASSUME CoroutineAssumption ==
  Watchdog \notin Handler /\ None \notin Handler \cup {Watchdog}

Coroutine == Handler \cup {Watchdog}

(* The six statements of a settlement, in the order of settle_lease(): the *)
(* three balances, then the three rows of the audit trail.                 *)
Leg == 1..6

(* A worker can be rented or not: its other states are as good as LEASED.  *)
WorkerState == {"AVAILABLE", "LEASED"}

VARIABLES
  disk, view,  \* the tables as committed, and as the connection shows them
  open,        \* the connection is inside a transaction
  proc,        \* where every coroutine is, and what it holds
  lock,        \* MatchingEngine._lock
  requests, crashes,
  refused,     \* an INSERT into leases hit the unique index
  disturbed,   \* a statement of another coroutine fell into a settlement
  undone,      \* a ROLLBACK took away a statement of another coroutine
  stale,       \* a deposit or withdrawal overwrote a newer balance
  raced        \* leases the watchdog had listed when they were stopped

tables == <<disk, view, open>>
history == <<refused, disturbed, undone, stale, raced>>
bounds == <<requests, crashes>>
vars == <<tables, proc, lock, bounds, history>>

----------------------------------------------------------------------------
(* Tables *)

(* legs[l][k]: how often statement k of a settlement of l has taken        *)
(* effect; banked: what deposits and withdrawals have put on the balance.  *)
Tables ==
  [state: [Lease -> {"none", "active", "completed"}], on: [Lease -> Worker \cup {None}],
   worker: [Worker -> WorkerState], cash: Int, paid: Int, fees: Int,
   banked: Int, legs: [Lease -> [Leg -> Nat]], settled: SUBSET Lease]

ActiveOn(t, w) == {l \in Lease : t.state[l] = "active" /\ t.on[l] = w}

(* The provider has 95 % and the platform the rest.                        *)
Fee(cost) == cost \div 20
Payout(cost) == cost - Fee(cost)

(* The balance of the consumer caps the cost. *)
Affordable(t) == IF t.cash < Price THEN (IF t.cash > 0 THEN t.cash ELSE 0)
                                   ELSE Price

\* Mutant: the provider is paid before the cap.
SettlementUncapped(t, l, k, cost) ==
  [t EXCEPT !.legs[l][k] = @ + 1,
            !.cash = IF k = 1 THEN @ - cost ELSE @,
            !.paid = IF k = 2 THEN @ + Payout(Price) ELSE @,
            !.fees = IF k = 3 THEN @ + Fee(cost) ELSE @]

Settlement(t, l, k, cost) ==
  [t EXCEPT !.legs[l][k] = @ + 1,
            !.cash = IF k = 1 THEN @ - cost ELSE @,
            !.paid = IF k = 2 THEN @ + Payout(cost) ELSE @,
            !.fees = IF k = 3 THEN @ + Fee(cost) ELSE @]

----------------------------------------------------------------------------
(* Coroutines *)

Idle == [at |-> "idle", then |-> "idle", w |-> None, l |-> None, cash |-> 0,
         leg |-> 1, todo |-> {}, due |-> {}]

At(p, label) == proc[p].at = label
Goto(p, label) ==
  proc' = [proc EXCEPT ![p] = [@ EXCEPT !.at = label, !.then = "idle"]]

(* p awaits a commit and goes on at label. *)
ThenCommit(p, label) ==
  proc' = [proc EXCEPT ![p] = [@ EXCEPT !.at = "commit", !.then = label]]

Settling(p) == proc[p].at = "legs" \/ (proc[p].at = "commit" /\ proc[p].then = "record")

Disturbs(p) == disturbed' = (disturbed \/ \E q \in Coroutine \ {p} : Settling(q))

(* A statement that changes a row: it opens a transaction if none is open. *)
Execute(p, t) == view' = t /\ open' = TRUE /\ Disturbs(p) /\ UNCHANGED disk

(* One that is refused leaves the transaction open and changes no row. *)
Refuse(p) == Execute(p, view)

Unlock(p) == lock' = IF lock = p THEN None ELSE lock

(* The lock is given up after the last commit made under it. *)
Commit(p) ==
  /\ At(p, "commit")
  /\ disk' = view /\ open' = FALSE /\ UNCHANGED view
  /\ Disturbs(p)
  /\ IF proc[p].then = "idle"
     THEN proc' = [proc EXCEPT ![p] = Idle]
     ELSE Goto(p, proc[p].then)
  /\ IF proc[p].then \in {"idle", "begin"} THEN Unlock(p) ELSE UNCHANGED lock
  /\ UNCHANGED <<bounds, refused, undone, stale, raced>>

Arrive(h) ==
  At(h, "idle") /\ requests < MaxRequests /\ requests' = requests + 1
  /\ UNCHANGED crashes

----------------------------------------------------------------------------
(* rent_hashpower(): under the lock, choose a worker that was listed       *)
(* AVAILABLE, see that it has no active lease, insert the lease, mark the  *)
(* worker.                                                                 *)

\* Mutant: the matcher has no lock.
TakesNoLock(h) == UNCHANGED lock

TakesLock(h) == lock = None /\ lock' = h

Rent(h) ==
  /\ Arrive(h) /\ TakesLock(h)
  /\ \E w \in Worker, l \in Lease :
       /\ view.worker[w] = "AVAILABLE" /\ view.state[l] = "none"
       /\ proc' = [proc EXCEPT ![h] = [Idle EXCEPT !.at = "check", !.w = w, !.l = l]]
  /\ UNCHANGED <<tables, history>>

Check(h) ==
  /\ At(h, "check")
  /\ IF ActiveOn(view, proc[h].w) = {}
     THEN Goto(h, "insert") /\ UNCHANGED lock
     ELSE proc' = [proc EXCEPT ![h] = Idle] /\ Unlock(h)
  /\ UNCHANGED <<tables, bounds, history>>

(* The unique index over the active leases of a worker refuses a second.   *)
Insert(h) ==
  LET w == proc[h].w  l == proc[h].l IN
  /\ At(h, "insert")
  /\ IF ActiveOn(view, w) = {}
     THEN /\ Execute(h, [view EXCEPT !.state[l] = "active", !.on[l] = w])
          /\ ThenCommit(h, "mark") /\ UNCHANGED <<lock, refused>>
     ELSE /\ Refuse(h) /\ refused' = TRUE
          /\ proc' = [proc EXCEPT ![h] = Idle] /\ Unlock(h)
  /\ UNCHANGED <<bounds, undone, stale, raced>>

Mark(h) ==
  /\ At(h, "mark")
  /\ Execute(h, [view EXCEPT !.worker[proc[h].w] = "LEASED"])
  /\ ThenCommit(h, "idle")
  /\ UNCHANGED <<lock, bounds, refused, undone, stale, raced>>

----------------------------------------------------------------------------
(* stop_lease() and check_expired_leases(): complete the lease, free the   *)
(* worker; the first under the lock, the second without it, over a list    *)
(* made beforehand.                                                        *)

\* Mutant: a lease that has ended is stopped again.
StopAny(h) ==
  /\ Arrive(h) /\ TakesLock(h)
  /\ \E l \in Lease :
       /\ disk.state[l] # "none"
       /\ proc' = [proc EXCEPT ![h] = [Idle EXCEPT !.at = "complete", !.todo = {l}]]
       /\ raced' = IF l \in proc[Watchdog].todo THEN raced \cup {l} ELSE raced
  /\ UNCHANGED <<tables, refused, disturbed, undone, stale>>

Stop(h) ==
  /\ Arrive(h) /\ TakesLock(h)
  /\ \E l \in Lease :
       /\ disk.state[l] # "none" /\ view.state[l] = "active"
       /\ proc' = [proc EXCEPT ![h] = [Idle EXCEPT !.at = "complete", !.todo = {l}]]
       /\ raced' = IF l \in proc[Watchdog].todo THEN raced \cup {l} ELSE raced
  /\ UNCHANGED <<tables, refused, disturbed, undone, stale>>

(* Any lease may have run out by the time the watchdog looks, except one   *)
(* whose insertion still awaits its commit.                                *)
FindExpired(found) ==
  /\ At(Watchdog, "idle") /\ found # {}
  /\ \A l \in found : view.state[l] = "active" /\ disk.state[l] # "none"
  /\ proc' = [proc EXCEPT ![Watchdog] = [@ EXCEPT !.at = "complete", !.todo = found]]
  /\ raced' = raced \cup {l \in found : \E h \in Handler : l \in proc[h].todo}
  /\ UNCHANGED <<tables, lock, bounds, refused, disturbed, undone, stale>>

Complete(p) ==
  \E l \in proc[p].todo :
    /\ At(p, "complete")
    /\ Execute(p, [view EXCEPT !.state[l] = "completed"])
    /\ proc' = [proc EXCEPT ![p] = [proc[p] EXCEPT !.at = "commit", !.then = "free", !.l = l,
                                   !.todo = @ \ {l}, !.due = @ \cup {l}]]
    /\ UNCHANGED <<lock, bounds, refused, undone, stale, raced>>

Free(p) ==
  /\ At(p, "free")
  /\ Execute(p, [view EXCEPT !.worker[view.on[proc[p].l]] = "AVAILABLE"])
  /\ ThenCommit(p, IF proc[p].todo = {} THEN "begin" ELSE "complete")
  /\ UNCHANGED <<lock, bounds, refused, undone, stale, raced>>

----------------------------------------------------------------------------
(* settle_lease() *)

(* Inside a transaction of another coroutine BEGIN is an error, and the    *)
(* handler of the error rolls that transaction back.                       *)
Begin(p) ==
  \E l \in proc[p].due :
    /\ At(p, "begin")
    /\ proc' = [proc EXCEPT ![p] = [proc[p] EXCEPT !.at = IF open THEN "rollback" ELSE "balance",
                                   !.l = l, !.due = @ \ {l}]]
    /\ open' = TRUE
    /\ UNCHANGED <<disk, view, lock, bounds, history>>

(* /api/stop looks at the caller after the lease has been stopped: one who *)
(* may not stop it is answered 403 and the lease stays unsettled.          *)
Forbid(h) ==
  /\ At(h, "begin")
  /\ proc' = [proc EXCEPT ![h] = Idle]
  /\ UNCHANGED <<tables, lock, bounds, history>>

(* The watchdog goes on with the next of its leases. *)
Following(p) == IF proc[p].due = {} THEN "idle" ELSE "begin"

Rollback(p) ==
  /\ At(p, "rollback")
  /\ view' = disk /\ open' = FALSE /\ UNCHANGED disk
  /\ Disturbs(p) /\ undone' = (undone \/ view # disk)
  /\ IF Following(p) = "idle" THEN proc' = [proc EXCEPT ![p] = Idle]
                              ELSE Goto(p, "begin")
  /\ UNCHANGED <<lock, bounds, refused, stale, raced>>

ReadBalance(p) ==
  /\ At(p, "balance")
  /\ proc' = [proc EXCEPT ![p] = [@ EXCEPT !.at = "legs", !.leg = 1,
                                                    !.cash = Affordable(view)]]
  /\ UNCHANGED <<tables, lock, bounds, history>>

(* A lease is granted to any consumer id, and the id may have no account    *)
(* when the lease is settled; an account that has paid for it stays.        *)
NoAccount(p) ==
  /\ At(p, "balance") /\ view.legs[proc[p].l][1] = 0
  /\ Goto(p, "rollback")
  /\ UNCHANGED <<tables, lock, bounds, history>>

\* Mutant: every statement is committed by itself, as in the repositories.
PayCommitting(p) ==
  LET me == proc[p] IN
  /\ At(p, "legs")
  /\ view' = Settlement(view, me.l, me.leg, me.cash)
  /\ disk' = view' /\ open' = FALSE /\ Disturbs(p)
  /\ IF me.leg = 6
     THEN proc' = [proc EXCEPT ![p] = [@ EXCEPT !.at = "commit", !.then = "record",
                                          !.leg = 1, !.cash = 0]]
     ELSE proc' = [proc EXCEPT ![p].leg = @ + 1]
  /\ UNCHANGED <<lock, bounds, refused, undone, stale, raced>>

Pay(p) ==
  LET me == proc[p] IN
  /\ At(p, "legs")
  /\ Execute(p, Settlement(view, me.l, me.leg, me.cash))
  /\ IF me.leg = 6
     THEN proc' = [proc EXCEPT ![p] = [@ EXCEPT !.at = "commit", !.then = "record",
                                          !.leg = 1, !.cash = 0]]
     ELSE proc' = [proc EXCEPT ![p].leg = @ + 1]
  /\ UNCHANGED <<lock, bounds, refused, undone, stale, raced>>

(* A second record of a lease is refused; the exception ends the request,  *)
(* and the watchdog's whole round.                                         *)
Record(p) ==
  LET l == proc[p].l IN
  /\ At(p, "record")
  /\ IF l \in view.settled
     THEN Refuse(p) /\ proc' = [proc EXCEPT ![p] = Idle]
     ELSE /\ Execute(p, [view EXCEPT !.settled = @ \cup {l}])
          /\ ThenCommit(p, Following(p))
  /\ UNCHANGED <<lock, bounds, refused, undone, stale, raced>>

----------------------------------------------------------------------------
(* AccountRepo.deposit() and withdraw(): read the balance, write the new   *)
(* one, commit, add the row, commit.                                       *)

Bank(h) ==
  /\ Arrive(h)
  /\ \/ proc' = [proc EXCEPT ![h] = [Idle EXCEPT !.at = "deposit", !.cash = view.cash]]
     \/ /\ view.cash >= Amount
        /\ proc' = [proc EXCEPT ![h] = [Idle EXCEPT !.at = "withdraw", !.cash = view.cash]]
  /\ UNCHANGED <<tables, lock, history>>

WriteBalance(h) ==
  LET moved == IF At(h, "deposit") THEN Amount ELSE -Amount IN
  /\ At(h, "deposit") \/ At(h, "withdraw")
  /\ Execute(h, [view EXCEPT !.cash = proc[h].cash + moved, !.banked = @ + moved])
  /\ ThenCommit(h, "log")
  /\ stale' = (stale \/ view.cash # proc[h].cash)
  /\ UNCHANGED <<lock, bounds, refused, undone, raced>>

LogBalance(h) ==
  /\ At(h, "log")
  /\ Execute(h, view) /\ ThenCommit(h, "idle")
  /\ UNCHANGED <<lock, bounds, refused, undone, stale, raced>>

(* A registration, status message or heartbeat of a worker. *)
Report(h) ==
  /\ Arrive(h)
  /\ \E w \in Worker, s \in WorkerState :
       Execute(h, [view EXCEPT !.worker[w] = s])
  /\ ThenCommit(h, "idle")
  /\ UNCHANGED <<lock, refused, undone, stale, raced>>

----------------------------------------------------------------------------

Crash ==
  /\ \E p \in Coroutine : ~At(p, "idle")
  /\ crashes < MaxCrashes /\ crashes' = crashes + 1
  /\ view' = disk /\ open' = FALSE
  /\ proc' = [p \in Coroutine |-> Idle] /\ lock' = None
  /\ UNCHANGED <<disk, requests, history>>

Opening(granted, on) ==
  [state |-> [l \in Lease |-> IF l \in granted THEN "active" ELSE "none"],
   on |-> on,
   worker |-> [w \in Worker |-> IF \E l \in granted : on[l] = w
                                 THEN "LEASED" ELSE "AVAILABLE"],
   cash |-> Funds, paid |-> 0, fees |-> 0, banked |-> 0,
   legs |-> [l \in Lease |-> [k \in Leg |-> 0]], settled |-> {}]

(* The server starts over a database in which some leases are running.     *)
Init ==
  /\ \E granted \in SUBSET Lease, on \in [Lease -> Worker \cup {None}] :
       /\ \A l \in Lease : l \in granted <=> on[l] # None
       /\ \A l, m \in granted : on[l] = on[m] => l = m
       /\ disk = Opening(granted, on)
  /\ view = disk /\ open = FALSE
  /\ proc = [p \in Coroutine |-> Idle] /\ lock = None
  /\ requests = 0 /\ crashes = 0
  /\ refused = FALSE /\ disturbed = FALSE /\ undone = FALSE
  /\ stale = FALSE /\ raced = {}

Serve(h) ==
  \/ Rent(h) \/ Check(h) \/ Insert(h) \/ Mark(h) \/ Stop(h) \/ Forbid(h)
  \/ Bank(h) \/ WriteBalance(h) \/ LogBalance(h) \/ Report(h)

Shared(p) ==
  \/ Commit(p) \/ Complete(p) \/ Free(p) \/ Begin(p) \/ Rollback(p)
  \/ ReadBalance(p) \/ NoAccount(p) \/ Pay(p) \/ Record(p)

Next ==
  \/ \E h \in Handler : Serve(h)
  \/ \E found \in SUBSET Lease : FindExpired(found)
  \/ \E p \in Coroutine : Shared(p)
  \/ Crash

Spec == Init /\ [][Next]_vars

----------------------------------------------------------------------------
(* Properties *)

Label == {"idle", "check", "insert", "mark", "complete", "free",
          "begin", "rollback", "balance", "legs",
          "record", "deposit", "withdraw", "log", "commit"}

(* Every table, coroutine and flag has its type. *)
TypeOK ==
  /\ disk \in Tables /\ view \in Tables /\ open \in BOOLEAN
  /\ proc \in [Coroutine -> [at : Label, then : Label, w : Worker \cup {None},
                 l : Lease \cup {None}, cash : Int, leg : Leg,
                 todo : SUBSET Lease, due : SUBSET Lease]]
  /\ lock \in Coroutine \cup {None}
  /\ requests \in 0..MaxRequests /\ crashes \in 0..MaxCrashes
  /\ {refused, disturbed, undone, stale} \subseteq BOOLEAN /\ raced \subseteq Lease

(* settle_lease(): "All balance changes and transaction records commit     *)
(* atomically - no partial state on crash or concurrent access."           *)
SettlementAtomic ==
  \A l \in Lease : \A j, k \in Leg : disk.legs[l][j] = disk.legs[l][k]

(* Whatever crashes, is stopped, expires or fails, a settlement is on disk *)
(* as a whole or not at all, and a lease has its record only if its money  *)
(* has moved: the only thing that can part the statements of settle_lease()*)
(* is a statement of another coroutine between them.                       *)
PartedOnlyByOthers ==
  ~disturbed => /\ SettlementAtomic
                /\ \A l \in disk.settled : disk.legs[l][1] > 0

(* The consumer, the providers and the platform together have what was     *)
(* deposited: money is lost or made only when a coroutine gets between the *)
(* statements of a settlement or between the read and the write of deposit *)
(* or withdraw.                                                            *)
MoneyConserved ==
  ~disturbed /\ ~stale =>
    disk.cash + disk.paid + disk.fees = Funds + disk.banked

(* Under the same proviso the cap of settle_lease() keeps the consumer's   *)
(* balance from becoming negative, however many leases are charged.        *)
NeverOverdrawn == ~disturbed /\ ~stale => disk.cash >= 0

(* The books are well-formed and balance, and nobody owes: all three.      *)
BooksBalance == TypeOK /\ MoneyConserved /\ NeverOverdrawn

(* A lease is charged twice only if it was stopped while the watchdog had  *)
(* it in its list of expired leases, or if a refused BEGIN rolled back the *)
(* statement that completed it.                                            *)
ChargedOnce ==
  \A l \in Lease : disk.legs[l][4] > 1 => l \in raced \/ undone

(* The matcher's lock makes the check of rent_hashpower() as good as the   *)
(* unique index: its INSERT is refused only after such a rollback.         *)
RentNotRefused == refused => undone

=============================================================================

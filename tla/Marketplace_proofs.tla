------------------------- MODULE Marketplace_proofs -------------------------
(***************************************************************************)
(* The properties of Marketplace for any number of leases, workers and     *)
(* handlers, any price and any number of requests and crashes.             *)
(***************************************************************************)
EXTENDS Marketplace, TLAPS

(* A coroutine that is idle holds nothing; one that needs a lease has one. *)
NeedsLease(p) ==
  \/ proc[p].at \in {"check", "insert", "free", "rollback", "balance", "legs", "record"}
  \/ proc[p].at = "commit" /\ proc[p].then \in {"free", "record"}

AfterCommit == {"idle", "mark", "free", "complete", "begin", "record", "log"}

Placed ==
  \A p \in Coroutine :
    /\ At(p, "idle") => proc[p] = Idle
    /\ NeedsLease(p) => proc[p].l \in Lease
    /\ At(p, "commit") => proc[p].then \in AfterCommit

----------------------------------------------------------------------------
(* rent_hashpower() and stop_lease() *)

Renting(p) ==
  \/ proc[p].at \in {"check", "insert", "mark"}
  \/ proc[p].at = "commit" /\ proc[p].then = "mark"

(* A request to stop is for one lease. *)
Stopping(h) ==
  proc[h].todo # {} =>
    lock = h /\ At(h, "complete") /\ \A l, m \in proc[h].todo : l = m

(* Who chooses a worker or is about to complete a lease on request holds   *)
(* the matcher's lock.                                                     *)
LockHeld ==
  /\ \A p \in Coroutine : Renting(p) => lock = p
  /\ \A h \in Handler : Stopping(h)

Unused(t, w) == \A l \in Lease : t.state[l] = "active" => t.on[l] # w

(* What the matcher has found out about the worker stays true.             *)
ChoiceStands ==
  ~undone =>
    \A p \in Coroutine :
      /\ proc[p].at \in {"check", "insert"} => view.state[proc[p].l] = "none"
      /\ At(p, "insert") => Unused(view, proc[p].w)
      /\ \A l \in proc[p].todo : view.state[l] # "none"

----------------------------------------------------------------------------
(* One settlement to a lease *)

Charged(t, l) == t.legs[l][4]

(* p is going to charge l without deciding anew. *)
Charging(p, l) ==
  /\ proc[p].l = l
  /\ At(p, "balance") \/ (At(p, "legs") /\ proc[p].leg <= 4)

Owes(p, l) == l \in proc[p].due \/ Charging(p, l)

(* A lease is charged once it has been completed, and at most once.        *)
ChargeSound(t, l) ==
  /\ Charged(t, l) <= 1
  /\ t.state[l] # "completed" => Charged(t, l) = 0

(* A lease on its way to a settlement is one coroutine's, on its way once. *)
ChargeWay(l) ==
  \A p \in Coroutine :
    /\ l \in proc[p].todo => view.state[l] = "active"
    /\ Owes(p, l) => view.state[l] = "completed" /\ Charged(view, l) = 0
    /\ Charging(p, l) => l \notin proc[p].due
    /\ \A q \in Coroutine \ {p} :
         /\ l \in proc[p].todo => l \notin proc[q].todo
         /\ Owes(p, l) => ~Owes(q, l)

ChargeInv ==
  ~undone =>
    \A l \in Lease \ raced :
      ChargeSound(disk, l) /\ ChargeSound(view, l) /\ ChargeWay(l)

----------------------------------------------------------------------------
(* A settlement as a whole *)

Alone(p) == \A q \in Coroutine \ {p} : ~Settling(q)

Whole(t) == \A l \in Lease : \A j, k \in Leg : t.legs[l][j] = t.legs[l][k]

Moved(t) == \A l \in t.settled : t.legs[l][1] > 0

(* The statements of p's settlement before the next have taken effect.     *)
Underway(p) ==
  /\ \A l \in Lease \ {proc[p].l} : \A j, k \in Leg : view.legs[l][j] = view.legs[l][k]
  /\ \A k \in Leg : view.legs[proc[p].l][k] =
        view.legs[proc[p].l][6] + (IF k < proc[p].leg THEN 1 ELSE 0)

(* p is between the first statement of its settlement and the record.      *)
Midway(p) ==
  /\ At(p, "legs") /\ Alone(p) => Underway(p)
  /\ At(p, "commit") /\ proc[p].then = "record" /\ Alone(p) =>
       Whole(view) /\ view.legs[proc[p].l][1] > 0
  /\ At(p, "record") =>
       disk.legs[proc[p].l][1] > 0 /\ view.legs[proc[p].l][1] > 0

Parts ==
  /\ Whole(disk) /\ Moved(disk) /\ Moved(view)
  /\ (\A q \in Coroutine : ~Settling(q)) => Whole(view)
  /\ \A p \in Coroutine : Midway(p)

PartInv == ~disturbed => Parts

----------------------------------------------------------------------------
(* Money *)

Surplus(t) == t.cash + t.paid + t.fees - t.banked - Funds

Balanced(t) == Surplus(t) = 0 /\ t.cash >= 0

(* What has left the consumer and not arrived yet. *)
InTransit(leg, cost) ==
  IF leg = 2 THEN cost ELSE IF leg = 3 THEN Fee(cost) ELSE 0

(* p's settlement has taken from the consumer what it has not paid out yet,*)
(* and not more than there was.                                            *)
Paying(p) ==
  /\ At(p, "legs") /\ Alone(p) =>
       /\ Surplus(view) = -InTransit(proc[p].leg, proc[p].cash)
       /\ proc[p].cash >= 0 /\ view.cash >= 0
       /\ proc[p].leg = 1 => view.cash >= proc[p].cash
  /\ At(p, "commit") /\ proc[p].then = "record" /\ Alone(p) => Balanced(view)
  /\ At(p, "withdraw") => proc[p].cash >= Amount

Books ==
  /\ Balanced(disk)
  /\ (\A q \in Coroutine : ~Settling(q)) => Balanced(view)
  /\ \A p \in Coroutine : Paying(p)

MoneyInv == ~disturbed /\ ~stale => Books

----------------------------------------------------------------------------
(* Types *)

Proc == [at : Label, then : Label, w : Worker \cup {None},
         l : Lease \cup {None}, cash : Int, leg : Leg,
         todo : SUBSET Lease, due : SUBSET Lease]

LEMMA Labels ==
  /\ "idle" \in Label /\ "check" \in Label /\ "insert" \in Label /\ "mark" \in Label
  /\ "complete" \in Label /\ "free" \in Label /\ "begin" \in Label
  /\ "rollback" \in Label /\ "balance" \in Label /\ "legs" \in Label
  /\ "record" \in Label /\ "deposit" \in Label /\ "withdraw" \in Label
  /\ "log" \in Label /\ "commit" \in Label
  /\ 1 \in Leg
BY DEF Label, Leg

LEMMA IdleTyped == Idle \in Proc
BY Labels DEF Idle, Proc

LEMMA OpeningTyped ==
  ASSUME NEW granted \in SUBSET Lease, NEW on \in [Lease -> Worker \cup {None}]
  PROVE  Opening(granted, on) \in Tables
<1> DEFINE o == Opening(granted, on)
<1>1. o.state \in [Lease -> {"none", "active", "completed"}]
    BY DEF Opening
<1>2. o.worker \in [Worker -> WorkerState]
    BY DEF Opening, WorkerState
<1>3. o.legs \in [Lease -> [Leg -> Nat]]
    BY DEF Opening, Leg
<1> QED BY <1>1, <1>2, <1>3, PricesAssumption DEF Opening, Tables

LEMMA InitTyped == Init => TypeOK
<1> SUFFICES ASSUME Init PROVE TypeOK
    OBVIOUS
<1>1. disk \in Tables
    BY OpeningTyped DEF Init
<1>2. proc \in [Coroutine -> Proc]
    BY IdleTyped DEF Init
<1>3. requests \in 0..MaxRequests /\ crashes \in 0..MaxCrashes
    BY PricesAssumption DEF Init
<1>4. /\ view \in Tables /\ open \in BOOLEAN /\ lock \in Coroutine \cup {None}
      /\ {refused, disturbed, undone, stale} \subseteq BOOLEAN /\ raced \subseteq Lease
    BY <1>1 DEF Init
<1> QED BY <1>1, <1>2, <1>3, <1>4 DEF TypeOK, Proc

LEMMA TableColumns ==
  ASSUME NEW t \in Tables
  PROVE  /\ t.cash \in Int /\ t.paid \in Int /\ t.fees \in Int /\ t.banked \in Int
         /\ t.legs \in [Lease -> [Leg -> Nat]] /\ t.settled \in SUBSET Lease
         /\ t.state \in [Lease -> {"none", "active", "completed"}]
         /\ t.on \in [Lease -> Worker \cup {None}] /\ t.worker \in [Worker -> WorkerState]
BY DEF Tables

LEMMA BalanceTyped ==
  ASSUME NEW t \in Tables, NEW c \in Int, NEW b \in Int
  PROVE  [t EXCEPT !.cash = c, !.banked = b] \in Tables
BY DEF Tables

LEMMA MoneyTyped ==
  ASSUME NEW t \in Tables, NEW f \in [Lease -> [Leg -> Nat]],
         NEW c \in Int, NEW d \in Int, NEW e \in Int
  PROVE  [t EXCEPT !.legs = f, !.cash = c, !.paid = d, !.fees = e] \in Tables
BY DEF Tables

(* What a statement of a settlement leaves is well-formed, and what it     *)
(* changes column by column.                                               *)
LEMMA SettlementTyped ==
  ASSUME NEW t \in Tables, NEW l \in Lease, NEW k \in Leg, NEW cost \in Int
  PROVE  Settlement(t, l, k, cost) \in Tables
<1> DEFINE s == Settlement(t, l, k, cost)
<1>1. Payout(cost) \in Int /\ Fee(cost) \in Int
    BY DEF Payout, Fee
<1>2. s.legs = [t.legs EXCEPT ![l][k] = @ + 1]
    BY DEF Settlement, Tables
<1>3. s.legs \in [Lease -> [Leg -> Nat]]
    <2>1. t.legs \in [Lease -> [Leg -> Nat]]
        BY DEF Tables
    <2>2. [t.legs[l] EXCEPT ![k] = @ + 1] \in [Leg -> Nat]
        BY <2>1
    <2>3. [t.legs EXCEPT ![l] = [t.legs[l] EXCEPT ![k] = @ + 1]] \in [Lease -> [Leg -> Nat]]
        BY <2>1, <2>2
    <2> QED BY <1>2, <2>3
<1>4. /\ s.cash = IF k = 1 THEN t.cash - cost ELSE t.cash
      /\ s.paid = IF k = 2 THEN t.paid + Payout(cost) ELSE t.paid
      /\ s.fees = IF k = 3 THEN t.fees + Fee(cost) ELSE t.fees
      /\ s.state = t.state /\ s.on = t.on /\ s.worker = t.worker
      /\ s.settled = t.settled /\ s.banked = t.banked
    BY DEF Settlement, Tables
<1>5. /\ s.cash \in Int /\ s.paid \in Int /\ s.fees \in Int
    BY <1>1, <1>4 DEF Tables
<1>6. s \in Tables
    <2> DEFINE f == [t.legs EXCEPT ![l][k] = @ + 1]
               c == IF k = 1 THEN t.cash - cost ELSE t.cash
               d == IF k = 2 THEN t.paid + Payout(cost) ELSE t.paid
               e == IF k = 3 THEN t.fees + Fee(cost) ELSE t.fees
    <2>1. s = [t EXCEPT !.legs = f, !.cash = c, !.paid = d, !.fees = e]
        BY DEF Settlement, Tables
    <2>2. f \in [Lease -> [Leg -> Nat]] /\ c \in Int /\ d \in Int /\ e \in Int
        BY <1>2, <1>3, <1>4, <1>5
    <2> HIDE DEF f, c, d, e, s
    <2> QED BY <2>1, <2>2, MoneyTyped
<1> QED BY <1>6

LEMMA SettlementKeeps ==
  ASSUME NEW t \in Tables, NEW l, NEW k, NEW cost
  PROVE  /\ Settlement(t, l, k, cost).state = t.state
         /\ Settlement(t, l, k, cost).on = t.on
         /\ Settlement(t, l, k, cost).settled = t.settled
         /\ Settlement(t, l, k, cost).banked = t.banked
BY DEF Settlement, Tables

(* The same for one row of the audit trail, and for the money alone.       *)
LEMMA SettlementLegs ==
  ASSUME NEW t \in Tables, NEW l \in Lease, NEW k \in Leg, NEW cost \in Int,
         NEW m \in Lease, NEW j \in Leg
  PROVE  Settlement(t, l, k, cost).legs[m][j] =
           IF m = l /\ j = k THEN t.legs[m][j] + 1 ELSE t.legs[m][j]
<1>1. t.legs \in [Lease -> [Leg -> Nat]]
    BY TableColumns
<1>2. Settlement(t, l, k, cost).legs = [t.legs EXCEPT ![l] = [t.legs[l] EXCEPT ![k] = @ + 1]]
    BY <1>1 DEF Settlement, Tables
<1>3. CASE m = l
    <2>1. Settlement(t, l, k, cost).legs[m] = [t.legs[l] EXCEPT ![k] = @ + 1]
        BY <1>1, <1>2, <1>3
    <2> QED BY <1>1, <1>3, <2>1
<1>4. CASE m # l
    BY <1>1, <1>2, <1>4
<1> QED BY <1>3, <1>4

LEMMA SettlementMoney ==
  ASSUME NEW t \in Tables, NEW l, NEW k, NEW cost
  PROVE  /\ Settlement(t, l, k, cost).banked = t.banked
         /\ Settlement(t, l, k, cost).cash = IF k = 1 THEN t.cash - cost ELSE t.cash
         /\ Settlement(t, l, k, cost).paid =
               IF k = 2 THEN t.paid + Payout(cost) ELSE t.paid
         /\ Settlement(t, l, k, cost).fees =
               IF k = 3 THEN t.fees + Fee(cost) ELSE t.fees
BY DEF Settlement, Tables

LEMMA AffordableTyped ==
  ASSUME NEW t \in Tables
  PROVE  Affordable(t) \in Int
BY PricesAssumption DEF Affordable, Tables

----------------------------------------------------------------------------
(* What a step does to the coroutine that takes it *)

Rest(p) == \A q \in Coroutine \ {p} : proc'[q] = proc[q]

Keeps(p) ==
  /\ proc'[p].w = proc[p].w /\ proc'[p].l = proc[p].l
  /\ proc'[p].cash = proc[p].cash /\ proc'[p].leg = proc[p].leg
  /\ proc'[p].todo = proc[p].todo /\ proc'[p].due = proc[p].due

LEMMA GotoMoves ==
  ASSUME TypeOK, NEW p \in Coroutine, NEW label, Goto(p, label)
  PROVE  Rest(p) /\ proc'[p].at = label /\ proc'[p].then = "idle" /\ Keeps(p)
<1>1. proc \in [Coroutine -> Proc] /\ proc[p] \in Proc
    BY DEF TypeOK, Proc
<1>2. proc'[p] = [proc[p] EXCEPT !.at = label, !.then = "idle"] /\ Rest(p)
    BY <1>1 DEF Goto, Rest
<1> QED BY <1>1, <1>2 DEF Proc, Keeps

LEMMA ThenCommitMoves ==
  ASSUME TypeOK, NEW p \in Coroutine, NEW label, ThenCommit(p, label)
  PROVE  Rest(p) /\ proc'[p].at = "commit" /\ proc'[p].then = label /\ Keeps(p)
<1>1. proc \in [Coroutine -> Proc] /\ proc[p] \in Proc
    BY DEF TypeOK, Proc
<1>2. proc'[p] = [proc[p] EXCEPT !.at = "commit", !.then = label] /\ Rest(p)
    BY <1>1 DEF ThenCommit, Rest
<1> QED BY <1>1, <1>2 DEF Proc, Keeps

(* The end of a request. *)
LEMMA IdleMoves ==
  ASSUME TypeOK, NEW p \in Coroutine, proc' = [proc EXCEPT ![p] = Idle]
  PROVE  Rest(p) /\ proc'[p] = Idle
BY DEF TypeOK, Rest

LEMMA IdleColumns ==
  /\ Idle.at = "idle" /\ Idle.then = "idle" /\ Idle.w = None /\ Idle.l = None
  /\ Idle.cash = 0 /\ Idle.leg = 1 /\ Idle.todo = {} /\ Idle.due = {}
BY DEF Idle

LEMMA RentMoves ==
  ASSUME TypeOK, NEW h \in Handler, Rent(h)
  PROVE  /\ Rest(h) /\ proc'[h].at = "check" /\ proc'[h].then = "idle"
         /\ proc'[h].l \in Lease /\ view.state[proc'[h].l] = "none"
         /\ proc'[h].todo = {} /\ proc'[h].due = {}
         /\ At(h, "idle") /\ lock = None /\ lock' = h /\ UNCHANGED <<tables, history>>
<1>1. PICK w \in Worker, l \in Lease :
        /\ view.state[l] = "none"
        /\ proc' = [proc EXCEPT ![h] = [Idle EXCEPT !.at = "check", !.w = w, !.l = l]]
    BY DEF Rent
<1>2. proc'[h] = [Idle EXCEPT !.at = "check", !.w = w, !.l = l] /\ Rest(h)
    BY <1>1 DEF TypeOK, Rest, Coroutine
<1>3. /\ proc'[h].at = "check" /\ proc'[h].then = "idle" /\ proc'[h].l = l
      /\ proc'[h].todo = {} /\ proc'[h].due = {}
    BY <1>2 DEF Idle
<1>4. At(h, "idle") /\ lock = None /\ lock' = h /\ UNCHANGED <<tables, history>>
    BY DEF Rent, Arrive, TakesLock
<1> QED BY <1>1, <1>2, <1>3, <1>4

LEMMA StopMoves ==
  ASSUME TypeOK, NEW h \in Handler, Stop(h)
  PROVE  /\ At(h, "idle") /\ lock = None /\ lock' = h
         /\ UNCHANGED <<tables, refused, disturbed, undone, stale>>
         /\ \E l \in Lease :
           /\ view.state[l] = "active"
           /\ Rest(h) /\ proc'[h].at = "complete" /\ proc'[h].then = "idle"
           /\ proc'[h].todo = {l} /\ proc'[h].due = {}
           /\ raced' = IF l \in proc[Watchdog].todo THEN raced \cup {l} ELSE raced
<1>1. PICK l \in Lease :
        /\ view.state[l] = "active"
        /\ proc' = [proc EXCEPT ![h] = [Idle EXCEPT !.at = "complete", !.todo = {l}]]
        /\ raced' = IF l \in proc[Watchdog].todo THEN raced \cup {l} ELSE raced
    BY DEF Stop
<1>2. proc'[h] = [Idle EXCEPT !.at = "complete", !.todo = {l}] /\ Rest(h)
    BY <1>1 DEF TypeOK, Rest, Coroutine
<1>3. /\ proc'[h].at = "complete" /\ proc'[h].then = "idle"
      /\ proc'[h].todo = {l} /\ proc'[h].due = {}
    BY <1>2 DEF Idle
<1>4. /\ At(h, "idle") /\ lock = None /\ lock' = h
      /\ UNCHANGED <<tables, refused, disturbed, undone, stale>>
    BY DEF Stop, Arrive, TakesLock
<1> QED BY <1>1, <1>2, <1>3, <1>4

LEMMA ExpireMoves ==
  ASSUME TypeOK, NEW found \in SUBSET Lease, FindExpired(found)
  PROVE  /\ Rest(Watchdog) /\ proc'[Watchdog].at = "complete"
         /\ proc'[Watchdog].then = proc[Watchdog].then
         /\ proc'[Watchdog].todo = found /\ proc'[Watchdog].due = proc[Watchdog].due
         /\ proc'[Watchdog].l = proc[Watchdog].l
         /\ At(Watchdog, "idle") /\ \A l \in found : view.state[l] = "active"
         /\ raced' = raced \cup {l \in found : \E h \in Handler : l \in proc[h].todo}
         /\ UNCHANGED <<tables, lock, refused, disturbed, undone, stale>>
<1>1. proc \in [Coroutine -> Proc] /\ proc[Watchdog] \in Proc /\ Watchdog \in Coroutine
    BY DEF TypeOK, Proc, Coroutine
<1>2. proc'[Watchdog] = [proc[Watchdog] EXCEPT !.at = "complete", !.todo = found]
    BY <1>1 DEF FindExpired
<1>3. Rest(Watchdog)
    BY <1>1 DEF FindExpired, Rest
<1>4. /\ At(Watchdog, "idle") /\ \A l \in found : view.state[l] = "active"
      /\ raced' = raced \cup {l \in found : \E h \in Handler : l \in proc[h].todo}
      /\ UNCHANGED <<tables, lock, refused, disturbed, undone, stale>>
    BY DEF FindExpired
<1>5. /\ proc'[Watchdog].at = "complete" /\ proc'[Watchdog].todo = found
      /\ proc'[Watchdog].then = proc[Watchdog].then /\ proc'[Watchdog].l = proc[Watchdog].l
      /\ proc'[Watchdog].due = proc[Watchdog].due
    BY <1>1, <1>2 DEF Proc
<1> QED BY <1>3, <1>4, <1>5

LEMMA BankMoves ==
  ASSUME TypeOK, NEW h \in Handler, Bank(h)
  PROVE  /\ Rest(h) /\ proc'[h].then = "idle" /\ proc'[h].cash = view.cash
         /\ \/ proc'[h].at = "deposit"
            \/ proc'[h].at = "withdraw" /\ view.cash >= Amount
         /\ proc'[h].todo = {} /\ proc'[h].due = {}
         /\ At(h, "idle") /\ UNCHANGED <<tables, lock, history>>
<1>1. PICK at \in {"deposit", "withdraw"} :
        /\ proc' = [proc EXCEPT ![h] = [Idle EXCEPT !.at = at, !.cash = view.cash]]
        /\ at = "withdraw" => view.cash >= Amount
    BY DEF Bank
<1>2. proc'[h] = [Idle EXCEPT !.at = at, !.cash = view.cash] /\ Rest(h)
    BY <1>1 DEF TypeOK, Rest, Coroutine
<1>3. /\ proc'[h].at = at /\ proc'[h].then = "idle" /\ proc'[h].cash = view.cash
      /\ proc'[h].todo = {} /\ proc'[h].due = {}
    BY <1>2 DEF Idle
<1>4. At(h, "idle") /\ UNCHANGED <<tables, lock, history>>
    BY DEF Bank, Arrive
<1> QED BY <1>1, <1>2, <1>3, <1>4

(* p completes l. *)
Completes(p, l) ==
  /\ l \in Lease /\ l \in proc[p].todo /\ At(p, "complete")
  /\ Execute(p, [view EXCEPT !.state[l] = "completed"])
  /\ Rest(p) /\ proc'[p].at = "commit" /\ proc'[p].then = "free" /\ proc'[p].l = l
  /\ proc'[p].todo = proc[p].todo \ {l} /\ proc'[p].due = proc[p].due \cup {l}
  /\ proc'[p].w = proc[p].w /\ proc'[p].cash = proc[p].cash
  /\ proc'[p].leg = proc[p].leg
  /\ UNCHANGED <<lock, refused, undone, stale, raced>>

LEMMA CompleteMoves ==
  ASSUME TypeOK, NEW p \in Coroutine, Complete(p)
  PROVE  \E l \in proc[p].todo : Completes(p, l)
<1>1. PICK l \in proc[p].todo :
        /\ Execute(p, [view EXCEPT !.state[l] = "completed"])
        /\ proc' = [proc EXCEPT ![p] = [proc[p] EXCEPT !.at = "commit", !.then = "free", !.l = l,
                                          !.todo = @ \ {l}, !.due = @ \cup {l}]]
    BY DEF Complete
<1>2. proc \in [Coroutine -> Proc] /\ proc[p] \in Proc
    BY DEF TypeOK, Proc
<1> DEFINE me == [proc[p] EXCEPT !.at = "commit", !.then = "free", !.l = l,
                            !.todo = @ \ {l}, !.due = @ \cup {l}]
<1>3. proc'[p] = me /\ Rest(p)
    <2>1. proc' = [proc EXCEPT ![p] = me]
        BY <1>1
    <2> HIDE DEF me
    <2> QED BY <1>2, <2>1 DEF Rest
<1>4. /\ proc'[p].at = "commit" /\ proc'[p].then = "free" /\ proc'[p].l = l
      /\ proc'[p].todo = proc[p].todo \ {l} /\ proc'[p].due = proc[p].due \cup {l}
      /\ proc'[p].w = proc[p].w /\ proc'[p].cash = proc[p].cash /\ proc'[p].leg = proc[p].leg
    BY <1>2, <1>3 DEF Proc
<1>5. l \in Lease
    BY <1>2 DEF Proc
<1>6. At(p, "complete") /\ UNCHANGED <<lock, refused, undone, stale, raced>>
    BY DEF Complete
<1> QED BY <1>1, <1>3, <1>4, <1>5, <1>6 DEF Completes

(* p opens the settlement of l, or fails to. *)
Begins(p, l) ==
  /\ l \in Lease /\ l \in proc[p].due /\ At(p, "begin")
  /\ Rest(p) /\ proc'[p].at = (IF open THEN "rollback" ELSE "balance")
  /\ proc'[p].then = proc[p].then /\ proc'[p].l = l
  /\ proc'[p].todo = proc[p].todo /\ proc'[p].due = proc[p].due \ {l}
  /\ proc'[p].w = proc[p].w /\ proc'[p].cash = proc[p].cash
  /\ proc'[p].leg = proc[p].leg
  /\ open' = TRUE /\ UNCHANGED <<disk, view, lock, history>>

LEMMA BeginMoves ==
  ASSUME TypeOK, NEW p \in Coroutine, Begin(p)
  PROVE  \E l \in proc[p].due : Begins(p, l)
<1>1. PICK l \in proc[p].due :
        proc' = [proc EXCEPT ![p] = [proc[p] EXCEPT !.at = IF open THEN "rollback" ELSE "balance",
                                        !.l = l, !.due = @ \ {l}]]
    BY DEF Begin
<1>2. proc \in [Coroutine -> Proc] /\ proc[p] \in Proc
    BY DEF TypeOK, Proc
<1> DEFINE me == [proc[p] EXCEPT !.at = IF open THEN "rollback" ELSE "balance",
                                !.l = l, !.due = @ \ {l}]
<1>3. proc'[p] = me /\ Rest(p)
    <2>1. proc' = [proc EXCEPT ![p] = me]
        BY <1>1
    <2> HIDE DEF me
    <2> QED BY <1>2, <2>1 DEF Rest
<1>4. /\ proc'[p].at = (IF open THEN "rollback" ELSE "balance") /\ proc'[p].then = proc[p].then /\ proc'[p].l = l
      /\ proc'[p].todo = proc[p].todo /\ proc'[p].due = proc[p].due \ {l}
      /\ proc'[p].w = proc[p].w /\ proc'[p].cash = proc[p].cash /\ proc'[p].leg = proc[p].leg
    BY <1>2, <1>3 DEF Proc
<1>5. l \in Lease
    BY <1>2 DEF Proc
<1>6. At(p, "begin") /\ open' = TRUE /\ UNCHANGED <<disk, view, lock, history>>
    BY DEF Begin
<1> QED BY <1>3, <1>4, <1>5, <1>6 DEF Begins

LEMMA ReadBalanceMoves ==
  ASSUME TypeOK, NEW p \in Coroutine, ReadBalance(p)
  PROVE  /\ Rest(p) /\ proc'[p].at = "legs" /\ proc'[p].then = proc[p].then
         /\ proc'[p].leg = 1 /\ proc'[p].cash = Affordable(view)
         /\ proc'[p].l = proc[p].l /\ proc'[p].w = proc[p].w
         /\ proc'[p].todo = proc[p].todo /\ proc'[p].due = proc[p].due
         /\ At(p, "balance") /\ UNCHANGED <<tables, lock, history>>
<1>1. proc \in [Coroutine -> Proc] /\ proc[p] \in Proc
    BY DEF TypeOK, Proc
<1>2. /\ proc'[p] = [proc[p] EXCEPT !.at = "legs", !.leg = 1, !.cash = Affordable(view)]
      /\ Rest(p)
    BY <1>1 DEF ReadBalance, Rest
<1>3. At(p, "balance") /\ UNCHANGED <<tables, lock, history>>
    BY DEF ReadBalance
<1> QED BY <1>1, <1>2, <1>3 DEF Proc

LEMMA NoAccountMoves ==
  ASSUME TypeOK, NEW p \in Coroutine, NoAccount(p)
  PROVE  /\ Rest(p) /\ proc'[p].at = "rollback" /\ proc'[p].then = "idle"
         /\ proc'[p].l = proc[p].l /\ proc'[p].w = proc[p].w
         /\ proc'[p].todo = proc[p].todo /\ proc'[p].due = proc[p].due
         /\ At(p, "balance") /\ UNCHANGED <<tables, lock, history>>
<1>1. Rest(p) /\ proc'[p].at = "rollback" /\ proc'[p].then = "idle" /\ Keeps(p)
    BY GotoMoves DEF NoAccount
<1> QED BY <1>1 DEF NoAccount, Keeps

LEMMA PayMoves ==
  ASSUME TypeOK, NEW p \in Coroutine, Pay(p)
  PROVE  /\ Rest(p)
         /\ IF proc[p].leg = 6
            THEN /\ proc'[p].at = "commit" /\ proc'[p].then = "record"
                 /\ proc'[p].leg = 1 /\ proc'[p].cash = 0
            ELSE /\ proc'[p].at = proc[p].at /\ proc'[p].then = proc[p].then
                 /\ proc'[p].leg = proc[p].leg + 1 /\ proc'[p].cash = proc[p].cash
         /\ proc'[p].l = proc[p].l /\ proc'[p].w = proc[p].w
         /\ proc'[p].todo = proc[p].todo /\ proc'[p].due = proc[p].due
         /\ At(p, "legs") /\ UNCHANGED <<lock, refused, undone, stale, raced>>
         /\ Execute(p, Settlement(view, proc[p].l, proc[p].leg, proc[p].cash))
<1>1. /\ proc \in [Coroutine -> Proc] /\ proc[p] \in Proc
      /\ At(p, "legs") /\ UNCHANGED <<lock, refused, undone, stale, raced>>
      /\ Execute(p, Settlement(view, proc[p].l, proc[p].leg, proc[p].cash))
    BY DEF TypeOK, Proc, Pay
<1>2. CASE proc[p].leg = 6
    <2>1. /\ proc'[p] = [proc[p] EXCEPT !.at = "commit", !.then = "record",
                                        !.leg = 1, !.cash = 0]
          /\ Rest(p)
        BY <1>1, <1>2 DEF Pay, Rest
    <2> QED BY <1>1, <1>2, <2>1 DEF Proc
<1>3. CASE proc[p].leg # 6
    <2>1. proc'[p] = [proc[p] EXCEPT !.leg = proc[p].leg + 1] /\ Rest(p)
        BY <1>1, <1>3 DEF Pay, Rest
    <2> QED BY <1>1, <1>3, <2>1 DEF Proc
<1> QED BY <1>2, <1>3

----------------------------------------------------------------------------
(* Types and places *)

(* A commit, or the end of a request, is the same for every coroutine.     *)
LEMMA StepTyped == TypeOK /\ Placed /\ [Next]_vars => TypeOK'
<1> SUFFICES ASSUME TypeOK, Placed, [Next]_vars PROVE TypeOK'
    OBVIOUS
<1> USE PricesAssumption, CoroutineAssumption
<1>a. /\ disk \in Tables /\ view \in Tables /\ open \in BOOLEAN
      /\ proc \in [Coroutine -> Proc]
      /\ lock \in Coroutine \cup {None}
      /\ requests \in 0..MaxRequests /\ crashes \in 0..MaxCrashes
      /\ refused \in BOOLEAN /\ disturbed \in BOOLEAN /\ undone \in BOOLEAN
      /\ stale \in BOOLEAN /\ raced \subseteq Lease
    BY DEF TypeOK, Proc
<1>b. \A h \in Handler : h \in Coroutine
    BY DEF Coroutine
<1>c. Watchdog \in Coroutine
    BY DEF Coroutine
<1>d. ASSUME NEW p \in Coroutine, NEW t \in Tables, Execute(p, t)
      PROVE  disk' \in Tables /\ view' \in Tables /\ open' \in BOOLEAN /\ disturbed' \in BOOLEAN
    BY <1>a, <1>d DEF Execute, Disturbs
<1>e. ASSUME NEW p \in Coroutine PROVE proc[p] \in Proc
    BY <1>a
<1>f. ASSUME NEW p \in Coroutine, NEW then \in Label, ThenCommit(p, then)
      PROVE  proc' \in [Coroutine -> Proc]
    <2>1. [proc[p] EXCEPT !.at = "commit", !.then = then] \in Proc
        BY <1>e, Labels DEF Proc
    <2> QED BY <1>a, <1>f, <2>1 DEF ThenCommit
<1>g. ASSUME NEW p \in Coroutine, NEW at \in Label, Goto(p, at)
      PROVE  proc' \in [Coroutine -> Proc]
    <2>1. [proc[p] EXCEPT !.at = at, !.then = "idle"] \in Proc
        BY <1>e, Labels DEF Proc
    <2> QED BY <1>a, <1>g, <2>1 DEF Goto
<1>h. ASSUME NEW p \in Coroutine, proc' = [proc EXCEPT ![p] = Idle]
      PROVE  proc' \in [Coroutine -> Proc]
    BY <1>a, <1>h, IdleTyped
<1>i. ASSUME NEW p \in Coroutine, Unlock(p) PROVE lock' \in Coroutine \cup {None}
    BY <1>a, <1>i DEF Unlock
<1>j. ASSUME NEW h \in Handler, Arrive(h)
      PROVE  requests' \in 0..MaxRequests /\ crashes' \in 0..MaxCrashes
    BY <1>a, <1>j DEF Arrive
<1>z. SUFFICES /\ disk' \in Tables /\ view' \in Tables /\ open' \in BOOLEAN
               /\ proc' \in [Coroutine -> Proc]
               /\ lock' \in Coroutine \cup {None}
               /\ requests' \in 0..MaxRequests /\ crashes' \in 0..MaxCrashes
               /\ refused' \in BOOLEAN /\ disturbed' \in BOOLEAN /\ undone' \in BOOLEAN
               /\ stale' \in BOOLEAN /\ raced' \subseteq Lease
    BY DEF TypeOK, Proc
<1> DEFINE Goal ==
      /\ disk' \in Tables /\ view' \in Tables /\ open' \in BOOLEAN
      /\ proc' \in [Coroutine -> Proc]
      /\ lock' \in Coroutine \cup {None}
      /\ requests' \in 0..MaxRequests /\ crashes' \in 0..MaxCrashes
      /\ refused' \in BOOLEAN /\ disturbed' \in BOOLEAN /\ undone' \in BOOLEAN
      /\ stale' \in BOOLEAN /\ raced' \subseteq Lease
<1> USE DEF tables, history, bounds
<1>1. ASSUME NEW h \in Handler, Rent(h) PROVE Goal
    <2>1. PICK w \in Worker, l \in Lease :
            proc' = [proc EXCEPT ![h] = [Idle EXCEPT !.at = "check", !.w = w, !.l = l]]
        BY <1>1 DEF Rent
    <2>2. [Idle EXCEPT !.at = "check", !.w = w, !.l = l] \in Proc
        BY IdleTyped, Labels DEF Proc
    <2> QED BY <1>1, <1>a, <1>b, <1>j, <2>1, <2>2 DEF Rent, TakesLock
<1>2. ASSUME NEW h \in Handler, Check(h) PROVE Goal
    BY <1>2, <1>a, <1>b, <1>g, <1>h, <1>i DEF Check, Label
<1>3. ASSUME NEW h \in Handler, Insert(h) PROVE Goal
    <2>1. [view EXCEPT !.state[proc[h].l] = "active", !.on[proc[h].l] = proc[h].w] \in Tables
        BY <1>a, <1>b, <1>e DEF Tables, Proc
    <2> QED BY <1>3, <1>a, <1>b, <1>d, <1>f, <1>h, <1>i, <2>1 DEF Insert, Refuse, Label
<1>4. ASSUME NEW h \in Handler, Mark(h) PROVE Goal
    <2>1. [view EXCEPT !.worker[proc[h].w] = "LEASED"] \in Tables
        BY <1>a DEF Tables, WorkerState
    <2> QED BY <1>4, <1>a, <1>b, <1>d, <1>f, <2>1 DEF Mark, Label
<1>5. ASSUME NEW h \in Handler, Stop(h) PROVE Goal
    <2>1. PICK l \in Lease :
            /\ proc' = [proc EXCEPT ![h] = [Idle EXCEPT !.at = "complete", !.todo = {l}]]
            /\ raced' = IF l \in proc[Watchdog].todo THEN raced \cup {l} ELSE raced
        BY <1>5 DEF Stop
    <2>2. [Idle EXCEPT !.at = "complete", !.todo = {l}] \in Proc
        BY IdleTyped, Labels DEF Proc
    <2> QED BY <1>5, <1>a, <1>b, <1>j, <2>1, <2>2 DEF Stop, TakesLock
<1>6. ASSUME NEW h \in Handler, Forbid(h) PROVE Goal
    BY <1>6, <1>a, <1>b, <1>h DEF Forbid
<1>7. ASSUME NEW h \in Handler, Bank(h) PROVE Goal
    <2>1. view.cash \in Int
        BY <1>a, TableColumns
    <2>2. [Idle EXCEPT !.at = "deposit", !.cash = view.cash] \in Proc
        BY <2>1, IdleTyped, Labels DEF Proc
    <2>3. [Idle EXCEPT !.at = "withdraw", !.cash = view.cash] \in Proc
        BY <2>1, IdleTyped, Labels DEF Proc
    <2> QED BY <1>7, <1>a, <1>b, <1>j, <2>2, <2>3 DEF Bank
<1>8. ASSUME NEW h \in Handler, WriteBalance(h) PROVE Goal
    <2> DEFINE moved == IF At(h, "deposit") THEN Amount ELSE -Amount
    <2>1. [view EXCEPT !.cash = proc[h].cash + moved, !.banked = @ + moved] \in Tables
        <3>1. proc[h].cash \in Int
            BY <1>b, <1>e DEF Proc
        <3>2. view.cash \in Int /\ view.banked \in Int /\ moved \in Int
            BY <1>a, TableColumns
        <3>3. proc[h].cash + moved \in Int /\ view.banked + moved \in Int
            BY <3>1, <3>2
        <3> HIDE DEF moved
        <3> QED BY <1>a, <3>3, BalanceTyped
    <2> QED BY <1>8, <1>a, <1>b, <1>d, <1>f, <2>1 DEF WriteBalance, Label
<1>9. ASSUME NEW h \in Handler, LogBalance(h) PROVE Goal
    BY <1>9, <1>a, <1>b, <1>d, <1>f DEF LogBalance, Label
<1>10. ASSUME NEW h \in Handler, Report(h) PROVE Goal
    <2>1. \A w \in Worker, s \in WorkerState : [view EXCEPT !.worker[w] = s] \in Tables
        BY <1>a DEF Tables
    <2> QED BY <1>10, <1>a, <1>b, <1>d, <1>f, <1>j, <2>1 DEF Report, Label
<1>11. ASSUME NEW found \in SUBSET Lease, FindExpired(found) PROVE Goal
    <2>1. [proc[Watchdog] EXCEPT !.at = "complete", !.todo = found] \in Proc
        BY <1>c, <1>e DEF Proc, Label
    <2> QED BY <1>11, <1>a, <1>c, <2>1 DEF FindExpired
<1>12. ASSUME NEW p \in Coroutine, Commit(p) PROVE Goal
    BY <1>12, <1>a, <1>e, <1>g, <1>h, <1>i DEF Commit, Disturbs, Proc
<1>13. ASSUME NEW p \in Coroutine, Complete(p) PROVE Goal
    <2>1. PICK l \in proc[p].todo :
            /\ Execute(p, [view EXCEPT !.state[l] = "completed"])
            /\ proc' = [proc EXCEPT ![p] = [proc[p] EXCEPT !.at = "commit", !.then = "free",
                                  !.l = l, !.todo = @ \ {l}, !.due = @ \cup {l}]]
            /\ UNCHANGED <<lock, bounds, refused, undone, stale, raced>>
        BY <1>13 DEF Complete
    <2>2. [view EXCEPT !.state[l] = "completed"] \in Tables
        BY <1>a DEF Tables
    <2>3. proc' \in [Coroutine -> Proc]
        <3> DEFINE me == [proc[p] EXCEPT !.at = "commit", !.then = "free",
                            !.l = l, !.todo = @ \ {l}, !.due = @ \cup {l}]
        <3>1. proc[p].todo \ {l} \in SUBSET Lease /\ proc[p].due \cup {l} \in SUBSET Lease
              /\ l \in Lease
            BY <1>e DEF Proc
        <3>2. me \in Proc
            BY <1>e, <3>1, Labels DEF Proc
        <3>3. proc' = [proc EXCEPT ![p] = me]
            BY <2>1
        <3> HIDE DEF me
        <3> QED BY <1>a, <3>2, <3>3
    <2> QED BY <1>a, <1>d, <2>1, <2>2, <2>3
<1>14. ASSUME NEW p \in Coroutine, Free(p) PROVE Goal
    <2>1. [view EXCEPT !.worker[view.on[proc[p].l]] = "AVAILABLE"] \in Tables
        BY <1>a DEF Tables, WorkerState
    <2> QED BY <1>14, <1>a, <1>d, <1>f, <2>1 DEF Free, Label
<1>15. ASSUME NEW p \in Coroutine, Begin(p) PROVE Goal
    <2>1. PICK l \in proc[p].due :
            proc' = [proc EXCEPT ![p] = [proc[p] EXCEPT
                       !.at = IF open THEN "rollback" ELSE "balance",
                       !.l = l, !.due = @ \ {l}]]
        BY <1>15 DEF Begin
    <2>2. proc' \in [Coroutine -> Proc]
        <3> DEFINE me == [proc[p] EXCEPT !.at = IF open THEN "rollback" ELSE "balance",
                            !.l = l, !.due = @ \ {l}]
        <3>1. proc[p].due \ {l} \in SUBSET Lease /\ l \in Lease
            BY <1>e DEF Proc
        <3>2. me \in Proc
            BY <1>e, <3>1, Labels DEF Proc
        <3>3. proc' = [proc EXCEPT ![p] = me]
            BY <2>1
        <3> HIDE DEF me
        <3> QED BY <1>a, <3>2, <3>3
    <2> QED BY <1>15, <1>a, <2>2 DEF Begin
<1>16. ASSUME NEW p \in Coroutine, Rollback(p) PROVE Goal
    BY <1>16, <1>a, <1>g, <1>h DEF Rollback, Disturbs, Label
<1>17. ASSUME NEW p \in Coroutine, ReadBalance(p) PROVE Goal
    <2>1. [proc[p] EXCEPT !.at = "legs", !.leg = 1, !.cash = Affordable(view)] \in Proc
        BY <1>a, <1>e, AffordableTyped, Labels DEF Proc
    <2> QED BY <1>17, <1>a, <2>1 DEF ReadBalance
<1>22. ASSUME NEW p \in Coroutine, NoAccount(p) PROVE Goal
    BY <1>22, <1>a, <1>g DEF NoAccount, Label
<1>18. ASSUME NEW p \in Coroutine, Pay(p) PROVE Goal
    <2> DEFINE me == proc[p]
    <2>1. me \in Proc /\ me.leg \in Leg /\ me.cash \in Int
        BY <1>e DEF Proc
    <2>2. Settlement(view, me.l, me.leg, me.cash) \in Tables
        BY <1>a, <1>18, <2>1, SettlementTyped DEF Placed, NeedsLease, Pay, At
    <2>3. [me EXCEPT !.at = "commit", !.then = "record", !.leg = 1, !.cash = 0] \in Proc
        <3>1. [me EXCEPT !.at = "commit", !.then = "record", !.leg = 1] \in Proc
            BY <2>1, Labels DEF Proc
        <3>2. \A q \in Proc : [q EXCEPT !.cash = 0] \in Proc
            BY DEF Proc
        <3> QED BY <3>1, <3>2
    <2>4. me.leg # 6 => [me EXCEPT !.leg = me.leg + 1] \in Proc
        <3>1. me.leg # 6 => me.leg + 1 \in Leg
            BY <2>1 DEF Leg
        <3> QED BY <2>1, <3>1 DEF Proc
    <2>5. proc' \in [Coroutine -> Proc]
        BY <1>18, <1>a, <2>3, <2>4 DEF Pay
    <2> QED BY <1>18, <1>a, <1>d, <2>2, <2>5 DEF Pay
<1>19. ASSUME NEW p \in Coroutine, Record(p) PROVE Goal
    <2>1. proc[p].l \in Lease
        BY <1>19 DEF Record, Placed, NeedsLease, At
    <2>2. [view EXCEPT !.settled = @ \cup {proc[p].l}] \in Tables
        BY <1>a, <2>1 DEF Tables
    <2>3. Following(p) \in Label
        BY DEF Following, Label
    <2> QED BY <1>19, <1>a, <1>d, <1>f, <1>h, <2>2, <2>3 DEF Record, Refuse
<1>20. CASE Crash
    <2>1. proc' \in [Coroutine -> Proc]
        BY <1>20, IdleTyped DEF Crash
    <2>2. crashes' \in 0..MaxCrashes
        BY <1>20, <1>a DEF Crash
    <2> QED BY <1>20, <1>a, <2>1, <2>2 DEF Crash
<1>21. CASE UNCHANGED vars
    BY <1>21, <1>a DEF vars
<1> QED
    BY <1>1, <1>2, <1>3, <1>4, <1>5, <1>6, <1>7, <1>8, <1>9, <1>10, <1>11, <1>12, <1>13,
       <1>14, <1>15, <1>16, <1>17, <1>18, <1>19, <1>20, <1>21, <1>22
    DEF Next, Serve, Shared

LEMMA InitPlaced == Init => Placed
BY DEF Init, Placed, NeedsLease, At, Idle, AfterCommit

LEMMA StepPlaced == TypeOK /\ Placed /\ [Next]_vars => Placed'
<1> SUFFICES ASSUME TypeOK, Placed, [Next]_vars, NEW q \in Coroutine
             PROVE  /\ At(q, "idle")' => proc'[q] = Idle
                    /\ NeedsLease(q)' => proc'[q].l \in Lease
                    /\ At(q, "commit")' => proc'[q].then \in AfterCommit
    BY DEF Placed
<1> DEFINE Goal == /\ At(q, "idle")' => proc'[q] = Idle
                   /\ NeedsLease(q)' => proc'[q].l \in Lease
                   /\ At(q, "commit")' => proc'[q].then \in AfterCommit
<1>b. \A p \in Coroutine : /\ At(p, "idle") => proc[p] = Idle
                           /\ NeedsLease(p) => proc[p].l \in Lease
                           /\ At(p, "commit") => proc[p].then \in AfterCommit
    BY DEF Placed
<1>c. Handler \subseteq Coroutine /\ Watchdog \in Coroutine
    BY DEF Coroutine
<1> USE <1>b, <1>c, IdleColumns DEF At, NeedsLease, AfterCommit, Keeps, Rest
<1>1. ASSUME NEW h \in Handler, Rent(h) PROVE Goal
    BY <1>1, RentMoves
<1>2. ASSUME NEW h \in Handler, Check(h) PROVE Goal
    BY <1>2, GotoMoves, IdleMoves DEF Check
<1>3. ASSUME NEW h \in Handler, Insert(h) PROVE Goal
    BY <1>3, ThenCommitMoves, IdleMoves DEF Insert
<1>4. ASSUME NEW h \in Handler, Mark(h) PROVE Goal
    BY <1>4, ThenCommitMoves DEF Mark
<1>5. ASSUME NEW h \in Handler, Stop(h) PROVE Goal
    BY <1>5, StopMoves
<1>6. ASSUME NEW h \in Handler, Forbid(h) PROVE Goal
    BY <1>6, IdleMoves DEF Forbid
<1>7. ASSUME NEW h \in Handler, Bank(h) PROVE Goal
    BY <1>7, BankMoves
<1>8. ASSUME NEW h \in Handler, WriteBalance(h) PROVE Goal
    BY <1>8, ThenCommitMoves DEF WriteBalance
<1>9. ASSUME NEW h \in Handler, LogBalance(h) PROVE Goal
    BY <1>9, ThenCommitMoves DEF LogBalance
<1>10. ASSUME NEW h \in Handler, Report(h) PROVE Goal
    BY <1>10, ThenCommitMoves DEF Report
<1>11. ASSUME NEW found \in SUBSET Lease, FindExpired(found) PROVE Goal
    BY <1>11, ExpireMoves
<1>12. ASSUME NEW p \in Coroutine, Commit(p) PROVE Goal
    BY <1>12, GotoMoves, IdleMoves DEF Commit
<1>13. ASSUME NEW p \in Coroutine, Complete(p) PROVE Goal
    <2>1. PICK l \in proc[p].todo : Completes(p, l)
        BY <1>13, CompleteMoves
    <2> QED BY <2>1 DEF Completes
<1>14. ASSUME NEW p \in Coroutine, Free(p) PROVE Goal
    BY <1>14, ThenCommitMoves DEF Free
<1>15. ASSUME NEW p \in Coroutine, Begin(p) PROVE Goal
    <2>1. PICK l \in proc[p].due : Begins(p, l)
        BY <1>15, BeginMoves
    <2> QED BY <2>1 DEF Begins
<1>16. ASSUME NEW p \in Coroutine, Rollback(p) PROVE Goal
    BY <1>16, GotoMoves, IdleMoves DEF Rollback
<1>17. ASSUME NEW p \in Coroutine, ReadBalance(p) PROVE Goal
    BY <1>17, ReadBalanceMoves
<1>22. ASSUME NEW p \in Coroutine, NoAccount(p) PROVE Goal
    BY <1>22, NoAccountMoves
<1>18. ASSUME NEW p \in Coroutine, Pay(p) PROVE Goal
    BY <1>18, PayMoves
<1>19. ASSUME NEW p \in Coroutine, Record(p) PROVE Goal
    BY <1>19, ThenCommitMoves, IdleMoves DEF Record, Following
<1>20. CASE Crash
    BY <1>20 DEF Crash
<1>21. CASE UNCHANGED vars
    BY <1>21 DEF vars
<1> QED
    BY <1>1, <1>2, <1>3, <1>4, <1>5, <1>6, <1>7, <1>8, <1>9, <1>10, <1>11, <1>12, <1>13,
       <1>14, <1>15, <1>16, <1>17, <1>18, <1>19, <1>20, <1>21, <1>22
    DEF Next, Serve, Shared

(* Every table, coroutine and flag of the server has its type, and a       *)
(* coroutine that works on a lease has one.                                *)
LEMMA MarketTyped == Spec => [](TypeOK /\ Placed)
<1>1. Init => TypeOK /\ Placed
    BY InitTyped, InitPlaced
<1>2. TypeOK /\ Placed /\ [Next]_vars => (TypeOK /\ Placed)'
    BY StepTyped, StepPlaced
<1> QED BY <1>1, <1>2, PTL DEF Spec

----------------------------------------------------------------------------
(* The matcher's lock *)

LEMMA InitLockHeld == Init => LockHeld
BY DEF Init, LockHeld, Renting, Stopping, Idle, Coroutine

LEMMA StepLockHeld == TypeOK /\ Placed /\ LockHeld /\ [Next]_vars => LockHeld'
<1> SUFFICES ASSUME TypeOK, Placed, LockHeld, [Next]_vars, NEW q \in Coroutine
             PROVE  /\ Renting(q)' => lock' = q
                    /\ q \in Handler => Stopping(q)'
    BY DEF LockHeld, Coroutine
<1> DEFINE Goal == /\ Renting(q)' => lock' = q
                   /\ q \in Handler => Stopping(q)'
<1>b. /\ At(q, "idle") => proc[q] = Idle
      /\ Renting(q) => lock = q
      /\ q \in Handler => Stopping(q)
      /\ At(q, "commit") => proc[q].then \in AfterCommit
    BY DEF LockHeld, Placed
<1>c. Handler \subseteq Coroutine /\ Watchdog \in Coroutine /\ None \notin Coroutine
      /\ Watchdog \notin Handler
    BY CoroutineAssumption DEF Coroutine
<1> USE <1>b, <1>c, IdleColumns DEF At, Renting, Unlock, AfterCommit, Keeps, Rest, Stopping
<1>1. ASSUME NEW h \in Handler, Rent(h) PROVE Goal
    BY <1>1, RentMoves
<1>2. ASSUME NEW h \in Handler, Check(h) PROVE Goal
    BY <1>2, GotoMoves, IdleMoves DEF Check
<1>3. ASSUME NEW h \in Handler, Insert(h) PROVE Goal
    BY <1>3, ThenCommitMoves, IdleMoves DEF Insert
<1>4. ASSUME NEW h \in Handler, Mark(h) PROVE Goal
    BY <1>4, ThenCommitMoves DEF Mark
<1>5. ASSUME NEW h \in Handler, Stop(h) PROVE Goal
    BY <1>5, StopMoves
<1>6. ASSUME NEW h \in Handler, Forbid(h) PROVE Goal
    BY <1>6, IdleMoves DEF Forbid
<1>7. ASSUME NEW h \in Handler, Bank(h) PROVE Goal
    BY <1>7, BankMoves
<1>8. ASSUME NEW h \in Handler, WriteBalance(h) PROVE Goal
    BY <1>8, ThenCommitMoves DEF WriteBalance
<1>9. ASSUME NEW h \in Handler, LogBalance(h) PROVE Goal
    BY <1>9, ThenCommitMoves DEF LogBalance
<1>10. ASSUME NEW h \in Handler, Report(h) PROVE Goal
    BY <1>10, ThenCommitMoves DEF Report, Arrive
<1>11. ASSUME NEW found \in SUBSET Lease, FindExpired(found) PROVE Goal
    BY <1>11, ExpireMoves
<1>12. ASSUME NEW p \in Coroutine, Commit(p) PROVE Goal
    BY <1>12, GotoMoves, IdleMoves DEF Commit
<1>13. ASSUME NEW p \in Coroutine, Complete(p) PROVE Goal
    <2>1. PICK l \in proc[p].todo : Completes(p, l)
        BY <1>13, CompleteMoves
    <2> QED BY <2>1 DEF Completes
<1>14. ASSUME NEW p \in Coroutine, Free(p) PROVE Goal
    BY <1>14, ThenCommitMoves DEF Free
<1>15. ASSUME NEW p \in Coroutine, Begin(p) PROVE Goal
    <2>1. PICK l \in proc[p].due : Begins(p, l)
        BY <1>15, BeginMoves
    <2> QED BY <2>1 DEF Begins
<1>16. ASSUME NEW p \in Coroutine, Rollback(p) PROVE Goal
    BY <1>16, GotoMoves, IdleMoves DEF Rollback
<1>17. ASSUME NEW p \in Coroutine, ReadBalance(p) PROVE Goal
    BY <1>17, ReadBalanceMoves
<1>22. ASSUME NEW p \in Coroutine, NoAccount(p) PROVE Goal
    BY <1>22, NoAccountMoves
<1>18. ASSUME NEW p \in Coroutine, Pay(p) PROVE Goal
    BY <1>18, PayMoves
<1>19. ASSUME NEW p \in Coroutine, Record(p) PROVE Goal
    BY <1>19, ThenCommitMoves, IdleMoves DEF Record, Following
<1>20. CASE Crash
    BY <1>20 DEF Crash
<1>21. CASE UNCHANGED vars
    BY <1>21 DEF vars
<1> QED
    BY <1>1, <1>2, <1>3, <1>4, <1>5, <1>6, <1>7, <1>8, <1>9, <1>10, <1>11, <1>12, <1>13,
       <1>14, <1>15, <1>16, <1>17, <1>18, <1>19, <1>20, <1>21, <1>22
    DEF Next, Serve, Shared

----------------------------------------------------------------------------
(* What the matcher has found out *)

(* Which steps leave the leases as they are. *)
LEMMA LeasesStay ==
  ASSUME TypeOK, Placed, NEW p \in Coroutine,
         \/ Mark(p) \/ WriteBalance(p) \/ LogBalance(p) \/ Report(p) \/ Commit(p)
         \/ Free(p) \/ Pay(p) \/ Record(p)
  PROVE  view'.state = view.state /\ view'.on = view.on
<1>1. view \in Tables
    BY DEF TypeOK
<1>2. CASE Mark(p) \/ Free(p)
    BY <1>1, <1>2 DEF Mark, Free, Execute, Tables
<1>3. CASE Report(p)
    BY <1>1, <1>3 DEF Report, Execute, Tables
<1>4. CASE WriteBalance(p)
    BY <1>1, <1>4 DEF WriteBalance, Execute, Tables
<1>5. CASE LogBalance(p) \/ Commit(p)
    BY <1>1, <1>5 DEF LogBalance, Commit, Execute
<1>6. CASE Pay(p)
    <2>1. view' = Settlement(view, proc[p].l, proc[p].leg, proc[p].cash)
        BY <1>6 DEF Pay, Execute
    <2> QED BY <1>1, <2>1, SettlementKeeps
<1>7. CASE Record(p)
    <2>1. view' = view \/ view' = [view EXCEPT !.settled = @ \cup {proc[p].l}]
        BY <1>7 DEF Record, Refuse, Execute
    <2> QED BY <1>1, <2>1 DEF Tables
<1> QED BY <1>2, <1>3, <1>4, <1>5, <1>6, <1>7

LEMMA InitChoice == Init => ChoiceStands
BY DEF Init, ChoiceStands, Idle, At

LEMMA StepChoice ==
  TypeOK /\ Placed /\ LockHeld /\ ChoiceStands /\ [Next]_vars => ChoiceStands'
<1> SUFFICES ASSUME TypeOK, Placed, LockHeld, ChoiceStands, [Next]_vars,
                    ~undone', NEW q \in Coroutine
             PROVE  /\ proc'[q].at \in {"check", "insert"} => view'.state[proc'[q].l] = "none"
                    /\ At(q, "insert")' => Unused(view', proc'[q].w)
                    /\ \A l \in proc'[q].todo : view'.state[l] # "none"
    BY DEF ChoiceStands
<1> DEFINE Goal == /\ proc'[q].at \in {"check", "insert"} => view'.state[proc'[q].l] = "none"
                   /\ At(q, "insert")' => Unused(view', proc'[q].w)
                   /\ \A l \in proc'[q].todo : view'.state[l] # "none"
<1>c. Handler \subseteq Coroutine /\ Watchdog \in Coroutine
    BY DEF Coroutine
<1>d. \A p \in Coroutine : Renting(p) => lock = p
    BY DEF LockHeld
<1>e. ~undone => /\ proc[q].at \in {"check", "insert"} => view.state[proc[q].l] = "none"
                 /\ At(q, "insert") => Unused(view, proc[q].w)
                 /\ \A p \in Coroutine : \A l \in proc[p].todo : view.state[l] # "none"
    BY DEF ChoiceStands
<1>f. \A p \in Coroutine : /\ NeedsLease(p) => proc[p].l \in Lease
                           /\ At(p, "commit") => proc[p].then \in AfterCommit
    BY DEF Placed
<1>g. view \in Tables /\ view.state \in [Lease -> {"none", "active", "completed"}]
    BY TableColumns DEF TypeOK
<1> USE <1>c, <1>d, <1>e, <1>f, <1>g, IdleColumns DEF At, Keeps, Rest, Renting, Unused
<1>1. ASSUME NEW h \in Handler, Rent(h) PROVE Goal
    BY <1>1, RentMoves DEF tables, history
<1>2. ASSUME NEW h \in Handler, Check(h) PROVE Goal
    BY <1>2, GotoMoves, IdleMoves DEF Check, ActiveOn, tables, history
<1>3. ASSUME NEW h \in Handler, Insert(h) PROVE Goal
    <2>1. /\ Rest(h) /\ proc'[h].at \notin {"check", "insert"}
          /\ proc'[h].todo \in {proc[h].todo, {}}
        BY <1>3, ThenCommitMoves, IdleMoves DEF Insert
    <2>2. undone' = undone /\ Renting(h)
        BY <1>3 DEF Insert
    <2>3. \A l \in Lease : view'.state[l] = view.state[l] \/ view'.state[l] = "active"
        <3>1. CASE view' = view
            BY <3>1
        <3>2. CASE view' = [view EXCEPT !.state[proc[h].l] = "active", !.on[proc[h].l] = proc[h].w]
            <4>1. view'.state = [view.state EXCEPT ![proc[h].l] = "active"]
                BY <3>2 DEF Tables
            <4> QED BY <4>1
        <3> QED BY <1>3, <3>1, <3>2 DEF Insert, Refuse, Execute
    <2>4. proc[q].todo \subseteq Lease
        BY DEF TypeOK
    <2>5. CASE q = h
        BY <2>1, <2>2, <2>3, <2>4, <2>5
    <2>6. CASE q # h
        <3>1. proc'[q] = proc[q] /\ proc[q].at \notin {"check", "insert"}
            BY <2>1, <2>2, <2>6
        <3> QED BY <2>2, <2>3, <2>4, <3>1
    <2> QED BY <2>5, <2>6
<1>4. ASSUME NEW h \in Handler, Mark(h) PROVE Goal
    BY <1>4, ThenCommitMoves, LeasesStay DEF Mark
<1>5. ASSUME NEW h \in Handler, Stop(h) PROVE Goal
    BY <1>5, StopMoves DEF tables
<1>6. ASSUME NEW h \in Handler, Forbid(h) PROVE Goal
    BY <1>6, IdleMoves DEF Forbid, tables, history
<1>7. ASSUME NEW h \in Handler, Bank(h) PROVE Goal
    <2>1. /\ view' = view /\ undone' = undone /\ Rest(h)
          /\ proc'[h].at \in {"deposit", "withdraw"} /\ proc'[h].todo = {}
        BY <1>7, BankMoves DEF tables, history
    <2>8. CASE q = h
        BY <2>1, <2>8
    <2>9. CASE q # h
        <3>1. proc'[q] = proc[q]
            BY <2>1, <2>9
        <3> QED BY <2>1, <3>1
    <2> QED BY <2>8, <2>9
<1>8. ASSUME NEW h \in Handler, WriteBalance(h) PROVE Goal
    <2>1. Rest(h) /\ proc'[h].at = "commit" /\ Keeps(h) /\ undone' = undone
        BY <1>8, ThenCommitMoves DEF WriteBalance
    <2>2. view'.state = view.state /\ view'.on = view.on
        BY <1>8, LeasesStay
    <2> QED BY <2>1, <2>2
<1>9. ASSUME NEW h \in Handler, LogBalance(h) PROVE Goal
    BY <1>9, ThenCommitMoves, LeasesStay DEF LogBalance
<1>10. ASSUME NEW h \in Handler, Report(h) PROVE Goal
    BY <1>10, ThenCommitMoves, LeasesStay DEF Report
<1>11. ASSUME NEW found \in SUBSET Lease, FindExpired(found) PROVE Goal
    BY <1>11, ExpireMoves DEF tables
<1>12. ASSUME NEW p \in Coroutine, Commit(p) PROVE Goal
    BY <1>12, GotoMoves, IdleMoves, LeasesStay DEF Commit, AfterCommit
<1>13. ASSUME NEW p \in Coroutine, Complete(p) PROVE Goal
    <2>1. PICK l \in proc[p].todo : Completes(p, l)
        BY <1>13, CompleteMoves
    <2>2. /\ view'.state = [view.state EXCEPT ![l] = "completed"]
          /\ view'.on = view.on /\ undone' = undone
        BY <2>1 DEF Completes, Execute, Tables
    <2>3. CASE q = p
        BY <2>1, <2>2, <2>3 DEF Completes
    <2>4. CASE q # p
        <3>1. proc'[q] = proc[q]
            BY <2>1, <2>4 DEF Completes
        <3>2. l \in Lease /\ view.state[l] # "none"
            BY <2>1, <2>2 DEF Completes
        <3>3. proc[q].at \in {"check", "insert"} =>
                view'.state[proc[q].l] = "none"
            BY <2>2, <3>2
        <3> QED BY <2>2, <3>1, <3>3
    <2> QED BY <2>3, <2>4
<1>14. ASSUME NEW p \in Coroutine, Free(p) PROVE Goal
    BY <1>14, ThenCommitMoves, LeasesStay DEF Free
<1>15. ASSUME NEW p \in Coroutine, Begin(p) PROVE Goal
    <2>1. PICK l \in proc[p].due : Begins(p, l)
        BY <1>15, BeginMoves
    <2>2. /\ view' = view /\ undone' = undone /\ Rest(p)
          /\ proc'[p].at \in {"rollback", "balance"} /\ proc'[p].todo = proc[p].todo
        BY <2>1 DEF Begins, history
    <2>8. CASE q = p
        BY <2>2, <2>8
    <2>9. CASE q # p
        <3>1. proc'[q] = proc[q]
            BY <2>2, <2>9
        <3> QED BY <2>2, <3>1
    <2> QED BY <2>8, <2>9
<1>16. ASSUME NEW p \in Coroutine, Rollback(p) PROVE Goal
    <2>1. Rest(p) /\ proc'[p].at \in {"idle", "begin"} /\ proc'[p].todo \in {proc[p].todo, {}}
        BY <1>16, GotoMoves, IdleMoves DEF Rollback
    <2>2. view' = view /\ ~undone
        BY <1>16 DEF Rollback, TypeOK
    <2> QED BY <2>1, <2>2
<1>17. ASSUME NEW p \in Coroutine, ReadBalance(p) PROVE Goal
    BY <1>17, ReadBalanceMoves DEF tables, history
<1>22. ASSUME NEW p \in Coroutine, NoAccount(p) PROVE Goal
    BY <1>22, NoAccountMoves DEF tables, history
<1>18. ASSUME NEW p \in Coroutine, Pay(p) PROVE Goal
    BY <1>18, PayMoves, LeasesStay
<1>19. ASSUME NEW p \in Coroutine, Record(p) PROVE Goal
    BY <1>19, ThenCommitMoves, IdleMoves, LeasesStay DEF Record, Following
<1>20. CASE Crash
    BY <1>20 DEF Crash
<1>21. CASE UNCHANGED vars
    BY <1>21 DEF vars, tables, history
<1> QED
    BY <1>1, <1>2, <1>3, <1>4, <1>5, <1>6, <1>7, <1>8, <1>9, <1>10, <1>11, <1>12, <1>13,
       <1>14, <1>15, <1>16, <1>17, <1>18, <1>19, <1>20, <1>21, <1>22
    DEF Next, Serve, Shared

LEMMA StepRefused ==
  TypeOK /\ LockHeld /\ ChoiceStands /\ RentNotRefused /\ [Next]_vars => RentNotRefused'
<1> SUFFICES ASSUME TypeOK, LockHeld, ChoiceStands, RentNotRefused, [Next]_vars
             PROVE  RentNotRefused'
    OBVIOUS
<1>1. undone => undone'
    BY DEF Next, Serve, Shared, Rent, Check, Insert, Mark, Stop, Forbid, Bank, WriteBalance,
           LogBalance, Report, FindExpired, Commit, Complete, Free, Begin, Rollback,
           ReadBalance, NoAccount, Pay, Record, Crash, vars, history
<1>2. CASE refused' = refused
    BY <1>1, <1>2 DEF RentNotRefused
<1>3. ASSUME NEW h \in Handler, Insert(h), refused' # refused PROVE RentNotRefused'
    BY <1>1, <1>3 DEF Insert, ChoiceStands, Unused, ActiveOn, At, Coroutine, RentNotRefused
<1> QED
    BY <1>2, <1>3 DEF Next, Serve, Shared, Rent, Check, Mark, Stop, Forbid, Bank,
         WriteBalance, LogBalance, Report, FindExpired, Commit, Complete, Free, Begin,
         Rollback, ReadBalance, NoAccount, Pay, Record, Crash, vars, history

(* The matcher's lock makes the check of rent_hashpower() as good as the   *)
(* unique index: its INSERT is refused only after a ROLLBACK of a refused  *)
(* settlement took away another coroutine's statement.                     *)
THEOREM RentIsNotRefused == Spec => []RentNotRefused
<1>1. Init => LockHeld /\ ChoiceStands /\ RentNotRefused
    BY InitLockHeld, InitChoice DEF Init, RentNotRefused
<1>2. TypeOK /\ Placed /\ LockHeld /\ ChoiceStands /\ RentNotRefused /\ [Next]_vars =>
        (LockHeld /\ ChoiceStands /\ RentNotRefused)'
    BY StepLockHeld, StepChoice, StepRefused
<1> QED BY <1>1, <1>2, MarketTyped, PTL DEF Spec

----------------------------------------------------------------------------
(* One settlement to a lease *)

(* Disk changes by a commit only. *)
LEMMA DiskMoves ==
  [Next]_vars => disk' = disk \/ disk' = view
BY DEF Next, Serve, Shared, Rent, Check, Insert, Mark, Stop, Forbid, Bank, WriteBalance,
       LogBalance, Report, FindExpired, Commit, Complete, Free, Begin, Rollback,
       ReadBalance, NoAccount, Pay, Record, Crash, Refuse, Execute, vars, tables

(* Which steps leave the trail of the settlements as it is. *)
LEMMA LegsStay ==
  ASSUME TypeOK, NEW p \in Coroutine,
         \/ Insert(p) \/ Mark(p) \/ WriteBalance(p) \/ LogBalance(p) \/ Report(p)
         \/ Commit(p) \/ Complete(p) \/ Free(p) \/ Record(p)
  PROVE  view'.legs = view.legs
<1>1. view \in Tables
    BY DEF TypeOK
<1>2. CASE Mark(p) \/ Free(p)
    BY <1>1, <1>2 DEF Mark, Free, Execute, Tables
<1>3. CASE Report(p)
    BY <1>1, <1>3 DEF Report, Execute, Tables
<1>4. CASE WriteBalance(p)
    BY <1>1, <1>4 DEF WriteBalance, Execute, Tables
<1>5. CASE LogBalance(p) \/ Commit(p)
    BY <1>1, <1>5 DEF LogBalance, Commit, Execute
<1>6. CASE Insert(p)
    BY <1>1, <1>6 DEF Insert, Refuse, Execute, Tables
<1>7. CASE Record(p)
    BY <1>1, <1>7 DEF Record, Refuse, Execute, Tables
<1>8. CASE Complete(p)
    BY <1>1, <1>8 DEF Complete, Execute, Tables
<1> QED BY <1>2, <1>3, <1>4, <1>5, <1>6, <1>7, <1>8

(* A step of p that neither takes on nor moves the settlement of l. *)
Quiet(p, l) ==
  /\ Rest(p)
  /\ view'.state[l] = view.state[l] /\ Charged(view', l) = Charged(view, l)
  /\ l \in proc'[p].todo => l \in proc[p].todo
  /\ l \in proc'[p].due => l \in proc[p].due
  /\ Charging(p, l)' => Charging(p, l)

LEMMA QuietWay ==
  ASSUME NEW p \in Coroutine, NEW l, Quiet(p, l), ChargeWay(l)
  PROVE  ChargeWay(l)'
<1>1. \A q \in Coroutine : /\ l \in proc'[q].todo => l \in proc[q].todo
                           /\ l \in proc'[q].due => l \in proc[q].due
                           /\ Charging(q, l)' => Charging(q, l)
    BY DEF Quiet, Rest, Charging, At
<1>2. \A q \in Coroutine : Owes(q, l)' => Owes(q, l)
    BY <1>1 DEF Owes
<1> HIDE DEF Owes, Charging
<1> QED BY <1>1, <1>2 DEF ChargeWay, Quiet

LEMMA InitCharge == Init => ChargeInv
<1> SUFFICES ASSUME Init, NEW l \in Lease
             PROVE  ChargeSound(disk, l) /\ ChargeSound(view, l) /\ ChargeWay(l)
    BY DEF ChargeInv
<1>1. Charged(disk, l) = 0 /\ view = disk
    BY DEF Init, Opening, Charged, Leg
<1>2. ChargeWay(l)
    BY DEF Init, ChargeWay, Owes, Charging, Idle, At
<1> QED BY <1>1, <1>2 DEF ChargeSound

LEMMA FlagsGrow ==
  [Next]_vars => /\ undone => undone'
                 /\ disturbed => disturbed'
                 /\ stale => stale'
                 /\ raced \subseteq raced'
<1>1. [Next]_vars => (undone => undone')
    BY DEF Next, Serve, Shared, Rent, Check, Insert, Mark, Stop, Forbid, Bank, WriteBalance,
         LogBalance, Report, FindExpired, Commit, Complete, Free, Begin, Rollback,
         ReadBalance, NoAccount, Pay, Record, Crash, Refuse, Execute, Disturbs, vars, history
<1>2. [Next]_vars => (disturbed => disturbed')
    BY DEF Next, Serve, Shared, Rent, Check, Insert, Mark, Stop, Forbid, Bank, WriteBalance,
         LogBalance, Report, FindExpired, Commit, Complete, Free, Begin, Rollback,
         ReadBalance, NoAccount, Pay, Record, Crash, Refuse, Execute, Disturbs, vars, history
<1>3. [Next]_vars => (stale => stale')
    BY DEF Next, Serve, Shared, Rent, Check, Insert, Mark, Stop, Forbid, Bank, WriteBalance,
         LogBalance, Report, FindExpired, Commit, Complete, Free, Begin, Rollback,
         ReadBalance, NoAccount, Pay, Record, Crash, Refuse, Execute, Disturbs, vars, history
<1>4. [Next]_vars => (raced \subseteq raced')
    BY DEF Next, Serve, Shared, Rent, Check, Insert, Mark, Stop, Forbid, Bank, WriteBalance,
         LogBalance, Report, FindExpired, Commit, Complete, Free, Begin, Rollback,
         ReadBalance, NoAccount, Pay, Record, Crash, Refuse, Execute, Disturbs, vars, history
<1> QED BY <1>1, <1>2, <1>3, <1>4

(* The statement of the audit trail that says that a lease was charged.    *)
LEMMA PayCharges ==
  ASSUME TypeOK, Placed, NEW p \in Coroutine, Pay(p), NEW l \in Lease
  PROVE  /\ view'.state = view.state
         /\ Charged(view', l) =
              IF l = proc[p].l /\ proc[p].leg = 4 THEN Charged(view, l) + 1 ELSE Charged(view, l)
<1>1. /\ view \in Tables /\ proc[p].l \in Lease /\ proc[p].leg \in Leg /\ proc[p].cash \in Int
      /\ 4 \in Leg
    BY DEF TypeOK, Placed, NeedsLease, Pay, At, Leg
<1>2. view' = Settlement(view, proc[p].l, proc[p].leg, proc[p].cash)
    BY PayMoves DEF Execute
<1>3. Settlement(view, proc[p].l, proc[p].leg, proc[p].cash).legs[l][4] =
        IF l = proc[p].l /\ 4 = proc[p].leg THEN view.legs[l][4] + 1 ELSE view.legs[l][4]
    BY <1>1, SettlementLegs
<1> QED BY <1>2, <1>3, LeasesStay DEF Charged

LEMMA StepCharge ==
  TypeOK /\ Placed /\ LockHeld /\ ChoiceStands /\ ChargeInv /\ [Next]_vars => ChargeInv'
<1> SUFFICES ASSUME TypeOK, Placed, LockHeld, ChoiceStands, ChargeInv, [Next]_vars,
                    ~undone', NEW l \in Lease, l \notin raced'
             PROVE  ChargeSound(disk, l)' /\ ChargeSound(view, l)' /\ ChargeWay(l)'
    BY DEF ChargeInv
<1> DEFINE Goal == ChargeSound(view, l)' /\ ChargeWay(l)'
<1>a. ~undone /\ l \notin raced
    BY FlagsGrow
<1>b. ChargeSound(disk, l) /\ ChargeSound(view, l) /\ ChargeWay(l)
    BY <1>a DEF ChargeInv
<1>c. Handler \subseteq Coroutine /\ Watchdog \in Coroutine
    BY DEF Coroutine
<1>d. ASSUME NEW p \in Coroutine, Quiet(p, l) PROVE Goal
    <2>1. ChargeWay(l)'
        BY <1>b, <1>d, QuietWay
    <2>2. ChargeSound(view, l)'
        BY <1>b, <1>d DEF Quiet, ChargeSound, Charged
    <2> QED BY <2>1, <2>2
<1>e. /\ view \in Tables /\ view.state \in [Lease -> {"none", "active", "completed"}]
      /\ view.legs \in [Lease -> [Leg -> Nat]] /\ Charged(view, l) \in Nat
    BY TableColumns DEF TypeOK, Charged, Leg
<1>f. ASSUME NEW p \in Coroutine, Rest(p), view'.state = view.state, view'.legs = view.legs,
             proc'[p].todo \in {proc[p].todo, {}}, proc'[p].due \in {proc[p].due, {}},
             proc'[p].at \notin {"balance", "legs"}
      PROVE  Goal
    <2>1. Quiet(p, l)
        BY <1>f DEF Quiet, Charging, Charged, At
    <2> QED BY <1>d, <2>1
<1> USE <1>c, IdleColumns DEF Keeps
<1>20. ASSUME Crash PROVE Goal
    <2>1. view' = disk /\ \A q \in Coroutine : proc'[q] = Idle
        BY <1>20 DEF Crash
    <2>2. ChargeSound(view, l)'
        BY <1>b, <2>1 DEF ChargeSound, Charged
    <2>3. ChargeWay(l)'
        BY <2>1 DEF ChargeWay, Owes, Charging, At
    <2> QED BY <2>2, <2>3
<1>21. ASSUME UNCHANGED vars PROVE Goal
    <2>1. proc' = proc /\ view' = view
        BY <1>21 DEF vars, tables
    <2> QED BY <1>b, <2>1 DEF ChargeSound, ChargeWay, Owes, Charging, Charged, At
<1> HIDE DEF Goal
<1>1. ASSUME NEW h \in Handler, Rent(h) PROVE Goal
    BY <1>1, <1>f, RentMoves DEF tables
<1>2. ASSUME NEW h \in Handler, Check(h) PROVE Goal
    <2>1. Rest(h) /\ view' = view /\ proc'[h].at \notin {"balance", "legs"}
        BY <1>2, GotoMoves, IdleMoves DEF Check, tables
    <2>2. proc'[h].todo \in {proc[h].todo, {}} /\ proc'[h].due \in {proc[h].due, {}}
        BY <1>2, GotoMoves, IdleMoves DEF Check
    <2> QED BY <2>1, <2>2, <1>f
<1>4. ASSUME NEW h \in Handler, Mark(h) PROVE Goal
    BY <1>4, <1>f, ThenCommitMoves, LeasesStay, LegsStay DEF Mark
<1>6. ASSUME NEW h \in Handler, Forbid(h) PROVE Goal
    BY <1>6, <1>f, IdleMoves DEF Forbid, tables
<1>7. ASSUME NEW h \in Handler, Bank(h) PROVE Goal
    BY <1>7, <1>f, BankMoves DEF tables
<1>8. ASSUME NEW h \in Handler, WriteBalance(h) PROVE Goal
    BY <1>8, <1>f, ThenCommitMoves, LeasesStay, LegsStay DEF WriteBalance
<1>9. ASSUME NEW h \in Handler, LogBalance(h) PROVE Goal
    BY <1>9, <1>f, ThenCommitMoves, LeasesStay, LegsStay DEF LogBalance
<1>10. ASSUME NEW h \in Handler, Report(h) PROVE Goal
    BY <1>10, <1>f, ThenCommitMoves, LeasesStay, LegsStay DEF Report
<1>12. ASSUME NEW p \in Coroutine, Commit(p) PROVE Goal
    <2>1. Rest(p) /\ proc'[p].at \notin {"balance", "legs"}
        BY <1>12, GotoMoves, IdleMoves DEF Commit, Placed, AfterCommit
    <2>2. proc'[p].todo \in {proc[p].todo, {}} /\ proc'[p].due \in {proc[p].due, {}}
        BY <1>12, GotoMoves, IdleMoves DEF Commit
    <2>3. view' = view
        BY <1>12 DEF Commit
    <2> QED BY <2>1, <2>2, <2>3, <1>f
<1>14. ASSUME NEW p \in Coroutine, Free(p) PROVE Goal
    BY <1>14, <1>f, ThenCommitMoves, LeasesStay, LegsStay DEF Free
<1>16. ASSUME NEW p \in Coroutine, Rollback(p) PROVE Goal
    <2>1. Rest(p) /\ proc'[p].at \notin {"balance", "legs"}
        BY <1>16, GotoMoves, IdleMoves DEF Rollback
    <2>2. proc'[p].todo \in {proc[p].todo, {}} /\ proc'[p].due \in {proc[p].due, {}}
        BY <1>16, GotoMoves, IdleMoves DEF Rollback
    <2>3. view' = view
        BY <1>16 DEF Rollback, TypeOK
    <2> QED BY <2>1, <2>2, <2>3, <1>f
<1>19. ASSUME NEW p \in Coroutine, Record(p) PROVE Goal
    <2>1. Rest(p) /\ proc'[p].at \notin {"balance", "legs"}
        BY <1>19, ThenCommitMoves, IdleMoves DEF Record
    <2>2. proc'[p].todo \in {proc[p].todo, {}} /\ proc'[p].due \in {proc[p].due, {}}
        BY <1>19, ThenCommitMoves, IdleMoves DEF Record
    <2>3. view'.state = view.state /\ view'.legs = view.legs
        BY <1>19, LeasesStay, LegsStay
    <2> QED BY <2>1, <2>2, <2>3, <1>f
<1>3. ASSUME NEW h \in Handler, Insert(h) PROVE Goal
    <2>1. CASE ActiveOn(view, proc[h].w) # {}
        <3>1. view' = view /\ proc' = [proc EXCEPT ![h] = Idle]
            BY <1>3, <2>1 DEF Insert, Refuse, Execute
        <3> QED BY <3>1, <1>f, IdleMoves
    <2>2. CASE ActiveOn(view, proc[h].w) = {}
        <3>1. /\ Rest(h) /\ Keeps(h) /\ proc'[h].at = "commit"
              /\ view'.state = [view.state EXCEPT ![proc[h].l] = "active"]
              /\ view'.legs = view.legs
            <4>1. view' = [view EXCEPT !.state[proc[h].l] = "active", !.on[proc[h].l] = proc[h].w]
                BY <1>3, <2>2 DEF Insert, Execute
            <4>2. view'.state = [view.state EXCEPT ![proc[h].l] = "active"]
                BY <1>e, <4>1 DEF Tables
            <4> QED BY <1>3, <2>2, <4>2, ThenCommitMoves, LegsStay DEF Insert
        <3>2. view.state[proc[h].l] = "none"
            BY <1>3, <1>a DEF ChoiceStands, Insert, At
        <3>3. CASE l # proc[h].l
            <4>1. view'.state[l] = view.state[l] /\ Charged(view', l) = Charged(view, l)
                BY <1>e, <3>1, <3>3 DEF Charged
            <4>2. Quiet(h, l)
                BY <3>1, <4>1 DEF Quiet, Charging, At
            <4> QED BY <1>d, <4>2
        <3>4. CASE l = proc[h].l
            <4>1. \A q \in Coroutine : l \notin proc[q].todo /\ ~Owes(q, l)
                BY <1>b, <3>2, <3>4 DEF ChargeWay
            <4>2. \A q \in Coroutine : l \notin proc'[q].todo /\ ~Owes(q, l)'
                BY <3>1, <4>1 DEF Owes, Charging, At, Rest
            <4>3. ChargeWay(l)'
                BY <4>2 DEF ChargeWay, Owes
            <4>4. ChargeSound(view, l)'
                BY <1>b, <1>e, <3>1, <3>2, <3>4 DEF ChargeSound, Charged
            <4> QED BY <4>3, <4>4 DEF Goal
        <3> QED BY <3>3, <3>4
    <2> QED BY <2>1, <2>2
<1>5. ASSUME NEW h \in Handler, Stop(h) PROVE Goal
    <2>1. PICK m \in Lease :
            /\ view.state[m] = "active"
            /\ Rest(h) /\ proc'[h].at = "complete"
            /\ proc'[h].todo = {m} /\ proc'[h].due = {}
            /\ raced' = IF m \in proc[Watchdog].todo THEN raced \cup {m} ELSE raced
        BY <1>5, StopMoves
    <2>2. view' = view /\ lock = None
        BY <1>5, StopMoves DEF tables
    <2>3. CASE m # l
        <3>1. Quiet(h, l)
            BY <2>1, <2>2, <2>3 DEF Quiet, Charging, At
        <3> QED BY <1>d, <3>1
    <2>4. CASE m = l
        <3>1. \A q \in Coroutine : ~Owes(q, l)
            BY <1>b, <2>1, <2>4 DEF ChargeWay
        <3>2. \A q \in Coroutine : ~Owes(q, l)'
            BY <2>1, <3>1 DEF Owes, Charging, At, Rest
        <3>3. \A q \in Coroutine : l \notin proc[q].todo
            <4>1. l \notin proc[Watchdog].todo
                BY <2>1, <2>4
            <4>2. \A q \in Handler : l \notin proc[q].todo
                BY <2>2, CoroutineAssumption DEF LockHeld, Stopping
            <4> QED BY <4>1, <4>2 DEF Coroutine
        <3>4. ChargeWay(l)'
            BY <2>1, <2>2, <2>4, <3>2, <3>3 DEF ChargeWay, Owes, Rest
        <3> QED BY <1>b, <2>2, <3>4 DEF Goal, ChargeSound, Charged
    <2> QED BY <2>3, <2>4
<1>11. ASSUME NEW found \in SUBSET Lease, FindExpired(found) PROVE Goal
    <2>1. /\ Rest(Watchdog) /\ proc'[Watchdog].at = "complete"
          /\ proc'[Watchdog].todo = found /\ proc'[Watchdog].due = proc[Watchdog].due
          /\ \A m \in found : view.state[m] = "active"
          /\ raced' = raced \cup {m \in found : \E h \in Handler : m \in proc[h].todo}
          /\ view' = view
        BY <1>11, ExpireMoves DEF tables
    <2>2. CASE l \notin found
        <3>1. Quiet(Watchdog, l)
            BY <2>1, <2>2 DEF Quiet, Charging, At
        <3> QED BY <1>d, <3>1
    <2>3. CASE l \in found
        <3>1. \A q \in Coroutine : ~Owes(q, l)
            BY <1>b, <2>1, <2>3 DEF ChargeWay
        <3>2. \A q \in Coroutine : ~Owes(q, l)'
            BY <2>1, <3>1 DEF Owes, Charging, At, Rest
        <3>3. \A q \in Coroutine \ {Watchdog} : l \notin proc[q].todo
            BY <2>1, <2>3 DEF Coroutine
        <3>4. ChargeWay(l)'
            BY <2>1, <2>3, <3>2, <3>3 DEF ChargeWay, Owes, Rest
        <3> QED BY <1>b, <2>1, <3>4 DEF Goal, ChargeSound, Charged
    <2> QED BY <2>2, <2>3
<1>13. ASSUME NEW p \in Coroutine, Complete(p) PROVE Goal
    <2>1. PICK m \in proc[p].todo : Completes(p, m)
        BY <1>13, CompleteMoves
    <2>2. /\ view'.state = [view.state EXCEPT ![m] = "completed"]
          /\ view'.legs = view.legs /\ m \in Lease /\ Rest(p)
          /\ proc'[p].at = "commit"
          /\ proc'[p].todo = proc[p].todo \ {m} /\ proc'[p].due = proc[p].due \cup {m}
        BY <1>e, <2>1 DEF Completes, Execute, Tables
    <2>3. CASE m # l
        <3>1. view'.state[l] = view.state[l] /\ Charged(view', l) = Charged(view, l)
            BY <1>e, <2>2, <2>3 DEF Charged
        <3>2. Quiet(p, l)
            BY <2>2, <2>3, <3>1 DEF Quiet, Charging, At
        <3> QED BY <1>d, <3>2
    <2>4. CASE m = l
        <3>1. /\ view.state[l] = "active" /\ Charged(view, l) = 0
              /\ view'.state[l] = "completed" /\ Charged(view', l) = 0
            BY <1>b, <1>e, <2>1, <2>2, <2>4 DEF ChargeWay, ChargeSound, Charged
        <3>2. \A q \in Coroutine : ~Owes(q, l)
            BY <1>b, <3>1 DEF ChargeWay
        <3>3. \A q \in Coroutine \ {p} : ~Owes(q, l)'
            BY <2>2, <3>2 DEF Owes, Charging, At, Rest
        <3>4. \A q \in Coroutine : l \notin proc'[q].todo
            BY <1>b, <2>1, <2>2, <2>4 DEF ChargeWay, Rest
        <3>5. ~Charging(p, l)'
            BY <2>2 DEF Charging, At
        <3>6. ChargeWay(l)'
            BY <3>1, <3>3, <3>4, <3>5 DEF ChargeWay, Owes
        <3> QED BY <3>1, <3>6 DEF Goal, ChargeSound
    <2> QED BY <2>3, <2>4
<1>15. ASSUME NEW p \in Coroutine, Begin(p) PROVE Goal
    <2>1. PICK m \in proc[p].due : Begins(p, m)
        BY <1>15, BeginMoves
    <2>2. /\ view' = view /\ Rest(p) /\ proc'[p].l = m
          /\ proc'[p].todo = proc[p].todo /\ proc'[p].due = proc[p].due \ {m}
        BY <2>1 DEF Begins
    <2>3. CASE m # l
        <3>1. Quiet(p, l)
            BY <2>2, <2>3 DEF Quiet, Charging, At
        <3> QED BY <1>d, <3>1
    <2>4. CASE m = l
        <3>1. Owes(p, l)
            BY <2>1, <2>4 DEF Owes
        <3>2. /\ view.state[l] = "completed" /\ Charged(view, l) = 0
              /\ \A q \in Coroutine \ {p} : ~Owes(q, l)
            BY <1>b, <3>1 DEF ChargeWay
        <3>3. \A q \in Coroutine : l \notin proc'[q].todo
            BY <1>b, <2>2, <3>2 DEF ChargeWay, Rest
        <3>4. \A q \in Coroutine \ {p} : ~Owes(q, l)'
            BY <2>2, <3>2 DEF Owes, Charging, At, Rest
        <3>5. ChargeWay(l)'
            BY <2>2, <2>4, <3>2, <3>3, <3>4 DEF ChargeWay, Owes, Charging, Rest
        <3> QED BY <1>b, <2>2, <3>5 DEF Goal, ChargeSound, Charged
    <2> QED BY <2>3, <2>4
<1>17. ASSUME NEW p \in Coroutine, ReadBalance(p) PROVE Goal
    <2>1. Quiet(p, l)
        BY <1>17, ReadBalanceMoves DEF Quiet, Charging, At, tables
    <2> QED BY <1>d, <2>1
<1>22. ASSUME NEW p \in Coroutine, NoAccount(p) PROVE Goal
    <2>1. Quiet(p, l)
        BY <1>22, NoAccountMoves DEF Quiet, Charging, At, tables
    <2> QED BY <1>d, <2>1
<1>18. ASSUME NEW p \in Coroutine, Pay(p) PROVE Goal
    <2>1. /\ Rest(p) /\ proc'[p].l = proc[p].l
          /\ proc'[p].todo = proc[p].todo /\ proc'[p].due = proc[p].due
          /\ At(p, "legs") /\ proc[p].leg \in Leg
          /\ IF proc[p].leg = 6 THEN proc'[p].at = "commit"
             ELSE proc'[p].at = "legs" /\ proc'[p].leg = proc[p].leg + 1
        BY <1>18, PayMoves DEF TypeOK, At
    <2>2. view'.state = view.state
        BY <1>18, PayCharges
    <2>3. CASE l = proc[p].l /\ proc[p].leg = 4
        <3>1. Charging(p, l) /\ Owes(p, l)
            BY <2>1, <2>3 DEF Charging, Owes
        <3>2. /\ view.state[l] = "completed" /\ Charged(view, l) = 0 /\ l \notin proc[p].due
              /\ \A q \in Coroutine \ {p} : ~Owes(q, l)
            BY <1>b, <3>1 DEF ChargeWay
        <3>3. Charged(view', l) = 1
            BY <1>18, <2>3, <3>2, PayCharges
        <3>4. \A q \in Coroutine : l \notin proc'[q].todo
            BY <1>b, <2>1, <3>2 DEF ChargeWay, Rest
        <3>5. \A q \in Coroutine : ~Owes(q, l)'
            <4>1. ~Owes(p, l)'
                BY <2>1, <2>3, <3>2 DEF Owes, Charging, At
            <4>2. \A q \in Coroutine \ {p} : ~Owes(q, l)'
                BY <2>1, <3>2 DEF Owes, Charging, At, Rest
            <4> QED BY <4>1, <4>2
        <3>6. ChargeWay(l)'
            BY <3>4, <3>5 DEF ChargeWay, Owes
        <3> QED BY <2>2, <3>2, <3>3, <3>6 DEF Goal, ChargeSound
    <2>4. CASE ~(l = proc[p].l /\ proc[p].leg = 4)
        <3>1. Charged(view', l) = Charged(view, l)
            BY <1>18, <2>4, PayCharges
        <3>2. Charging(p, l)' => Charging(p, l)
            BY <2>1, <2>4 DEF Charging, At, Leg
        <3>3. Quiet(p, l)
            BY <2>1, <2>2, <3>1, <3>2 DEF Quiet
        <3> QED BY <1>d, <3>3
    <2> QED BY <2>3, <2>4
<1>x. Goal
    BY <1>1, <1>2, <1>3, <1>4, <1>5, <1>6, <1>7, <1>8, <1>9, <1>10, <1>11, <1>12, <1>13,
       <1>14, <1>15, <1>16, <1>17, <1>18, <1>19, <1>20, <1>21, <1>22
    DEF Next, Serve, Shared
<1>y. ChargeSound(disk, l)'
    <2>1. disk' = disk \/ disk' = view
        BY DiskMoves
    <2> QED BY <1>b, <2>1 DEF ChargeSound, Charged
<1> QED BY <1>x, <1>y DEF Goal

(* A lease is charged twice only if it was stopped while the watchdog had  *)
(* it in its list of expired leases, or if a refused BEGIN rolled back the *)
(* statement that completed it: settle_lease() itself looks at neither.    *)
THEOREM LeaseChargedOnce == Spec => []ChargedOnce
<1>1. Init => LockHeld /\ ChoiceStands /\ ChargeInv
    BY InitLockHeld, InitChoice, InitCharge
<1>2. TypeOK /\ Placed /\ LockHeld /\ ChoiceStands /\ ChargeInv /\ [Next]_vars =>
        (LockHeld /\ ChoiceStands /\ ChargeInv)'
    BY StepLockHeld, StepChoice, StepCharge
<1>3. TypeOK /\ ChargeInv => ChargedOnce
    <2> SUFFICES ASSUME TypeOK, ChargeInv, NEW l \in Lease, disk.legs[l][4] > 1,
                        l \notin raced, ~undone
                 PROVE  FALSE
        BY DEF ChargedOnce
    <2>1. Charged(disk, l) <= 1
        BY DEF ChargeInv, ChargeSound
    <2>2. Charged(disk, l) \in Nat
        BY TableColumns DEF TypeOK, Charged, Leg
    <2> QED BY <2>1, <2>2 DEF Charged
<1> QED BY <1>1, <1>2, <1>3, MarketTyped, PTL DEF Spec

----------------------------------------------------------------------------
(* A settlement as a whole *)

(* Which steps move no money and write nothing of a settlement.            *)
LEMMA MoneyStays ==
  ASSUME TypeOK, NEW p \in Coroutine,
         \/ Insert(p) \/ Mark(p) \/ LogBalance(p) \/ Report(p) \/ Complete(p) \/ Free(p)
  PROVE  /\ view'.legs = view.legs /\ view'.settled = view.settled
         /\ view'.cash = view.cash /\ view'.paid = view.paid
         /\ view'.fees = view.fees /\ view'.banked = view.banked
         /\ disk' = disk
<1>1. view \in Tables
    BY DEF TypeOK
<1>2. CASE Mark(p) \/ Free(p)
    BY <1>1, <1>2 DEF Mark, Free, Execute, Tables
<1>3. CASE Report(p)
    BY <1>1, <1>3 DEF Report, Execute, Tables
<1>4. CASE LogBalance(p)
    BY <1>1, <1>4 DEF LogBalance, Execute
<1>5. CASE Insert(p)
    BY <1>1, <1>5 DEF Insert, Refuse, Execute, Tables
<1>6. CASE Complete(p)
    BY <1>1, <1>6 DEF Complete, Execute, Tables
<1> QED BY <1>2, <1>3, <1>4, <1>5, <1>6

(* Whoever executes, commits or rolls back undisturbed is the only one     *)
(* with a settlement.                                                      *)
LEMMA ActsAlone ==
  ASSUME TypeOK, NEW p \in Coroutine, Disturbs(p), ~disturbed'
  PROVE  Alone(p)
BY DEF Disturbs, Alone, TypeOK

(* p is not in a settlement, before or after the step.                     *)
Aside(p) == Rest(p) /\ ~Settling(p) /\ ~Settling(p)'

LEMMA AsideAlone ==
  ASSUME NEW p \in Coroutine, Aside(p)
  PROVE  /\ \A q \in Coroutine \ {p} : Alone(q)' <=> Alone(q)
         /\ (\A q \in Coroutine : ~Settling(q))' <=> (\A q \in Coroutine : ~Settling(q))
<1>1. \A q \in Coroutine : Settling(q)' <=> Settling(q)
    BY DEF Aside, Rest, Settling, At
<1> HIDE DEF Settling
<1> QED BY <1>1 DEF Alone

LEMMA AsideParts ==
  ASSUME NEW p \in Coroutine, Aside(p), Parts, disk' = disk,
         view'.legs = view.legs, Moved(view'), proc'[p].at # "record"
  PROVE  Parts'
<1>1. /\ Whole(disk)' /\ Moved(disk)' /\ Moved(view)'
      /\ Whole(view)' <=> Whole(view)
    BY DEF Parts, Whole, Moved
<1>2. (\A q \in Coroutine : ~Settling(q))' => Whole(view)'
    BY <1>1, AsideAlone DEF Parts
<1>3. Midway(p)'
    BY DEF Midway, Aside, Settling, At
<1>4. ASSUME NEW q \in Coroutine, q # p PROVE Midway(q)'
    <2>1. proc'[q] = proc[q] /\ (Alone(q)' <=> Alone(q)) /\ Midway(q)
        BY <1>4, AsideAlone DEF Aside, Rest, Parts
    <2>2. Underway(q)' <=> Underway(q)
        BY <2>1 DEF Underway
    <2> HIDE DEF Alone, Underway
    <2> QED BY <1>1, <2>1, <2>2 DEF Midway, At
<1> QED BY <1>1, <1>2, <1>3, <1>4 DEF Parts

LEMMA InitParts == Init => Parts
<1> SUFFICES ASSUME Init PROVE Parts
    OBVIOUS
<1>1. /\ \A l \in Lease : \A k \in Leg : disk.legs[l][k] = 0
      /\ disk.settled = {} /\ view = disk
    BY DEF Init, Opening
<1>2. \A q \in Coroutine : proc[q].at = "idle"
    BY DEF Init, Idle
<1> QED BY <1>1, <1>2 DEF Parts, Whole, Moved, Midway, At

(* The statements of p's settlement, one by one. *)
LEMMA PayLegs ==
  ASSUME TypeOK, Placed, NEW p \in Coroutine, Pay(p)
  PROVE  /\ view'.settled = view.settled
         /\ \A m \in Lease, k \in Leg : view'.legs[m][k] =
              IF m = proc[p].l /\ k = proc[p].leg THEN view.legs[m][k] + 1
                                                 ELSE view.legs[m][k]
<1>1. view \in Tables /\ proc[p].l \in Lease /\ proc[p].leg \in Leg /\ proc[p].cash \in Int
    BY DEF TypeOK, Placed, NeedsLease, Pay, At
<1>2. view' = Settlement(view, proc[p].l, proc[p].leg, proc[p].cash)
    BY PayMoves DEF Execute
<1>3. Settlement(view, proc[p].l, proc[p].leg, proc[p].cash).settled = view.settled
    BY <1>1, SettlementKeeps
<1>4. ASSUME NEW m \in Lease, NEW k \in Leg
      PROVE  Settlement(view, proc[p].l, proc[p].leg, proc[p].cash).legs[m][k] =
               IF m = proc[p].l /\ k = proc[p].leg THEN view.legs[m][k] + 1
                                                  ELSE view.legs[m][k]
    BY <1>1, SettlementLegs
<1> QED BY <1>2, <1>3, <1>4

(* What a statement of p's settlement leaves to be shown. *)
LEMMA PartsPaid ==
  ASSUME TypeOK, Placed, Parts, NEW p \in Coroutine, Alone(p), Rest(p), disk' = disk,
         \A m \in Lease, k \in Leg :
            /\ view.legs[m][k] \in Nat /\ view'.legs[m][k] \in Nat
            /\ view'.legs[m][k] >= view.legs[m][k],
         Settling(p)', \A q \in Coroutine \ {p} : ~Settling(q)', Moved(view)', Midway(p)'
  PROVE  Parts'
<1>1. ASSUME NEW q \in Coroutine, q # p PROVE Midway(q)'
    <2>1. ~Settling(q)' /\ Midway(q) /\ proc'[q] = proc[q]
        BY <1>1 DEF Parts, Rest
    <2>2. At(q, "record") => proc[q].l \in Lease
        BY DEF Placed, NeedsLease, At
    <2>3. At(q, "record") => view'.legs[proc[q].l][1] > 0
        BY <2>1, <2>2 DEF Midway, Leg
    <2> QED BY <2>1, <2>3 DEF Midway, Settling, At
<1> QED BY <1>1 DEF Parts, Whole, Moved

LEMMA StepParts ==
  TypeOK /\ Placed /\ PartInv /\ [Next]_vars => PartInv'
<1> SUFFICES ASSUME TypeOK, Placed, PartInv, [Next]_vars, ~disturbed'
             PROVE  Parts'
    BY DEF PartInv
<1>a. ~disturbed /\ Parts
    BY FlagsGrow DEF PartInv
<1>b. Handler \subseteq Coroutine /\ Watchdog \in Coroutine
    BY DEF Coroutine
<1>c. \A q \in Coroutine : /\ At(q, "idle") => proc[q] = Idle
                           /\ NeedsLease(q) => proc[q].l \in Lease
                           /\ At(q, "commit") => proc[q].then \in AfterCommit
    BY DEF Placed
<1>d. /\ view \in Tables /\ disk \in Tables
      /\ view.legs \in [Lease -> [Leg -> Nat]] /\ disk.legs \in [Lease -> [Leg -> Nat]]
      /\ 1 \in Leg
    BY TableColumns DEF TypeOK, Leg
<1>e. ASSUME NEW p \in Coroutine, Aside(p), disk' = disk, view'.legs = view.legs,
             view'.settled = view.settled, proc'[p].at # "record"
      PROVE  Parts'
    <2>1. Moved(view')
        BY <1>a, <1>e DEF Parts, Moved
    <2> QED BY <1>a, <1>e, <2>1, AsideParts
<1> HIDE DEF Parts
<1> USE <1>b, IdleColumns DEF Keeps
<1>1. ASSUME NEW h \in Handler, Rent(h) PROVE Parts'
    BY <1>1, <1>e, RentMoves DEF tables, Aside, Settling, At
<1>2. ASSUME NEW h \in Handler, Check(h) PROVE Parts'
    <2>1. Aside(h) /\ proc'[h].at # "record"
        BY <1>2, GotoMoves, IdleMoves DEF Check, Aside, Settling, At
    <2> QED BY <1>2, <1>e, <2>1 DEF Check, tables
<1>3. ASSUME NEW h \in Handler, Insert(h) PROVE Parts'
    <2>1. Aside(h) /\ proc'[h].at # "record"
        BY <1>3, ThenCommitMoves, IdleMoves DEF Insert, Aside, Settling, At
    <2> QED BY <1>3, <1>e, <2>1, MoneyStays
<1>4. ASSUME NEW h \in Handler, Mark(h) PROVE Parts'
    <2>1. Aside(h) /\ proc'[h].at # "record"
        BY <1>4, ThenCommitMoves DEF Mark, Aside, Settling, At
    <2> QED BY <1>4, <1>e, <2>1, MoneyStays
<1>5. ASSUME NEW h \in Handler, Stop(h) PROVE Parts'
    BY <1>5, <1>e, StopMoves DEF tables, Aside, Settling, At
<1>6. ASSUME NEW h \in Handler, Forbid(h) PROVE Parts'
    BY <1>6, <1>e, IdleMoves DEF Forbid, tables, Aside, Settling, At
<1>7. ASSUME NEW h \in Handler, Bank(h) PROVE Parts'
    BY <1>7, <1>e, BankMoves DEF tables, Aside, Settling, At
<1>8. ASSUME NEW h \in Handler, WriteBalance(h) PROVE Parts'
    <2>1. Aside(h) /\ proc'[h].at # "record"
        BY <1>8, ThenCommitMoves DEF WriteBalance, Aside, Settling, At
    <2>2. view'.legs = view.legs /\ view'.settled = view.settled /\ disk' = disk
        BY <1>8, <1>d DEF WriteBalance, Execute, Tables
    <2> QED BY <1>e, <2>1, <2>2
<1>9. ASSUME NEW h \in Handler, LogBalance(h) PROVE Parts'
    <2>1. Aside(h) /\ proc'[h].at # "record"
        BY <1>9, ThenCommitMoves DEF LogBalance, Aside, Settling, At
    <2> QED BY <1>9, <1>e, <2>1, MoneyStays
<1>10. ASSUME NEW h \in Handler, Report(h) PROVE Parts'
    <2>1. Aside(h) /\ proc'[h].at # "record"
        BY <1>10, ThenCommitMoves DEF Report, Arrive, Aside, Settling, At
    <2> QED BY <1>10, <1>e, <2>1, MoneyStays
<1>11. ASSUME NEW found \in SUBSET Lease, FindExpired(found) PROVE Parts'
    BY <1>11, <1>e, ExpireMoves DEF tables, Aside, Settling, At
<1>12. ASSUME NEW p \in Coroutine, Commit(p) PROVE Parts'
    <2>1. /\ Alone(p) /\ disk' = view /\ view' = view /\ At(p, "commit")
          /\ proc[p].then \in AfterCommit
        BY <1>12, <1>c, ActsAlone DEF Commit
    <2>2. /\ Rest(p) /\ proc'[p].at = proc[p].then
          /\ proc[p].then # "idle" => proc'[p].l = proc[p].l
        BY <1>12, GotoMoves, IdleMoves DEF Commit
    <2>3. ~Settling(p)'
        BY <2>1, <2>2 DEF Settling, At, AfterCommit
    <2>4. \A q \in Coroutine \ {p} : ~Settling(q) /\ ~Settling(q)'
        BY <2>1, <2>2 DEF Alone, Settling, At, Rest
    <2>5. Whole(view) /\ (proc[p].then = "record" => view.legs[proc[p].l][1] > 0)
        <3>1. CASE proc[p].then = "record"
            BY <1>a, <2>1, <3>1 DEF Parts, Midway
        <3>2. CASE proc[p].then # "record"
            <4>1. \A q \in Coroutine : ~Settling(q)
                BY <2>1, <2>4, <3>2 DEF Settling, At
            <4> QED BY <1>a, <4>1, <3>2 DEF Parts
        <3> QED BY <3>1, <3>2
    <2>6. \A q \in Coroutine : Midway(q)'
        <3>1. Midway(p)'
            BY <2>1, <2>2, <2>3, <2>5 DEF Midway, Settling, At
        <3>2. ASSUME NEW q \in Coroutine, q # p PROVE Midway(q)'
            <4>1. ~Settling(q)' /\ Midway(q) /\ proc'[q] = proc[q]
                BY <1>a, <2>2, <2>4, <3>2 DEF Parts, Rest
            <4> QED BY <2>1, <4>1 DEF Midway, Settling, At
        <3> QED BY <3>1, <3>2
    <2> QED BY <1>a, <2>1, <2>5, <2>6 DEF Parts, Whole, Moved
<1>13. ASSUME NEW p \in Coroutine, Complete(p) PROVE Parts'
    <2>1. PICK l \in proc[p].todo : Completes(p, l)
        BY <1>13, CompleteMoves
    <2>2. Aside(p) /\ proc'[p].at # "record"
        BY <2>1 DEF Completes, Aside, Settling, At
    <2> QED BY <1>13, <1>e, <2>2, MoneyStays
<1>14. ASSUME NEW p \in Coroutine, Free(p) PROVE Parts'
    <2>1. Aside(p) /\ proc'[p].at # "record"
        BY <1>14, ThenCommitMoves DEF Free, Aside, Settling, At
    <2> QED BY <1>14, <1>e, <2>1, MoneyStays
<1>15. ASSUME NEW p \in Coroutine, Begin(p) PROVE Parts'
    <2>1. PICK l \in proc[p].due : Begins(p, l)
        BY <1>15, BeginMoves
    <2>2. Aside(p) /\ proc'[p].at # "record"
        BY <2>1 DEF Begins, Aside, Settling, At
    <2> QED BY <1>e, <2>1, <2>2 DEF Begins
<1>16. ASSUME NEW p \in Coroutine, Rollback(p) PROVE Parts'
    <2>1. Alone(p) /\ disk' = disk /\ view' = disk
        BY <1>16, ActsAlone DEF Rollback
    <2>2. Rest(p) /\ proc'[p].at \in {"idle", "begin"}
        BY <1>16, GotoMoves, IdleMoves DEF Rollback
    <2>3. \A q \in Coroutine : ~Settling(q)'
        BY <2>1, <2>2 DEF Alone, Settling, At, Rest
    <2>4. \A q \in Coroutine : Midway(q)'
        <3>1. Midway(p)'
            BY <2>2 DEF Midway, At
        <3>2. ASSUME NEW q \in Coroutine, q # p PROVE Midway(q)'
            <4>1. ~Settling(q)' /\ Midway(q) /\ proc'[q] = proc[q]
                BY <1>a, <2>2, <2>3, <3>2 DEF Parts, Rest
            <4> QED BY <2>1, <4>1 DEF Midway, Settling, At
        <3> QED BY <3>1, <3>2
    <2> QED BY <1>a, <2>1, <2>4 DEF Parts, Whole, Moved
<1>17. ASSUME NEW p \in Coroutine, ReadBalance(p) PROVE Parts'
    <2>1. /\ Rest(p) /\ proc'[p].at = "legs" /\ proc'[p].leg = 1 /\ proc'[p].l = proc[p].l
          /\ At(p, "balance") /\ disk' = disk /\ view' = view
        BY <1>17, ReadBalanceMoves DEF tables
    <2>2. Settling(p)' /\ ~Settling(p)
        BY <2>1 DEF Settling, At
    <2>3. Midway(p)'
        <3>1. SUFFICES ASSUME Alone(p)' PROVE Underway(p)'
            BY <2>1 DEF Midway, At
        <3>2. \A q \in Coroutine : ~Settling(q)
            BY <2>1, <2>2, <3>1 DEF Alone, Settling, At, Rest
        <3>3. Whole(view)
            BY <1>a, <3>2 DEF Parts
        <3>4. proc[p].l \in Lease
            BY <1>c, <2>1 DEF NeedsLease, At
        <3> QED BY <1>d, <2>1, <3>3, <3>4 DEF Underway, Whole, Leg
    <2>4. ASSUME NEW q \in Coroutine, q # p PROVE Midway(q)'
        <3>1. ~Alone(q)' /\ Midway(q) /\ proc'[q] = proc[q]
            BY <1>a, <2>1, <2>2, <2>4 DEF Alone, Parts, Rest
        <3> QED BY <2>1, <3>1 DEF Midway, At
    <2> QED BY <1>a, <2>1, <2>2, <2>3, <2>4 DEF Parts, Whole, Moved
<1>22. ASSUME NEW p \in Coroutine, NoAccount(p) PROVE Parts'
    <2>1. Aside(p) /\ proc'[p].at # "record" /\ disk' = disk /\ view' = view
        BY <1>22, NoAccountMoves DEF Aside, Settling, At, tables
    <2> QED BY <1>e, <2>1
<1>18. ASSUME NEW p \in Coroutine, Pay(p) PROVE Parts'
    <2> DEFINE l == proc[p].l
               n == proc[p].leg
    <2>1. /\ Alone(p) /\ At(p, "legs") /\ Rest(p) /\ disk' = disk
          /\ proc'[p].l = l /\ l \in Lease /\ n \in Leg
          /\ IF n = 6 THEN proc'[p].at = "commit" /\ proc'[p].then = "record"
             ELSE proc'[p].at = "legs" /\ proc'[p].leg = n + 1
        BY <1>18, <1>c, ActsAlone, PayMoves DEF Execute, NeedsLease, At, TypeOK
    <2>2. /\ view'.settled = view.settled
          /\ \A m \in Lease, k \in Leg : view'.legs[m][k] =
               IF m = l /\ k = n THEN view.legs[m][k] + 1 ELSE view.legs[m][k]
        BY <1>18, PayLegs
    <2>3. \A m \in Lease, k \in Leg :
            view.legs[m][k] \in Nat /\ view'.legs[m][k] \in Nat
            /\ view'.legs[m][k] >= view.legs[m][k]
        BY <1>d, <2>2
    <2>4. Underway(p)
        BY <1>a, <2>1 DEF Parts, Midway
    <2>5. Settling(p)' /\ \A q \in Coroutine \ {p} : ~Settling(q)'
        BY <2>1 DEF Alone, Settling, At, Rest
    <2>6. Moved(view)'
        <3>1. ASSUME NEW m \in view.settled PROVE view'.legs[m][1] > 0
            <4>1. m \in Lease /\ view.legs[m][1] > 0
                BY <1>a, <1>d, TableColumns DEF Parts, Moved
            <4> QED BY <1>d, <2>3, <4>1
        <3> QED BY <2>2, <3>1 DEF Moved
    <2>7. CASE n = 6
        <3>1. \A m \in Lease : \A k \in Leg : view'.legs[m][k] = view'.legs[m][6]
            BY <2>1, <2>2, <2>3, <2>4, <2>7 DEF Underway, Leg
        <3>2. Whole(view)'
            BY <3>1 DEF Whole
        <3>3. view'.legs[l][1] > 0
            BY <2>1, <2>2, <2>3, <2>4, <2>7 DEF Underway, Leg
        <3> QED BY <2>1, <2>7, <3>2, <3>3, PartsPaid, <1>a, <2>3, <2>5, <2>6 DEF Midway, At
    <2>8. CASE n # 6
        <3>1. Underway(p)'
            <4>1. \A m \in Lease \ {l} : \A k \in Leg : view'.legs[m][k] = view.legs[m][k]
                BY <2>2
            <4>2. \A m \in Lease \ {l} : \A j, k \in Leg : view'.legs[m][j] = view'.legs[m][k]
                BY <2>4, <4>1 DEF Underway
            <4>3. \A k \in Leg : view'.legs[l][k] =
                    view'.legs[l][6] + (IF k < n + 1 THEN 1 ELSE 0)
                BY <2>1, <2>2, <2>3, <2>4, <2>8 DEF Underway, Leg
            <4> QED BY <2>1, <2>8, <4>2, <4>3 DEF Underway
        <3> QED BY <2>1, <2>8, <3>1, PartsPaid, <1>a, <2>3, <2>5, <2>6 DEF Midway, At
    <2> QED BY <2>7, <2>8
<1>19. ASSUME NEW p \in Coroutine, Record(p) PROVE Parts'
    <2>1. Aside(p) /\ proc'[p].at # "record"
        BY <1>19, ThenCommitMoves, IdleMoves DEF Record, Following, Aside, Settling, At
    <2>2. disk' = disk /\ view'.legs = view.legs
        BY <1>19, LegsStay DEF Record, Refuse, Execute
    <2>3. view'.settled \subseteq view.settled \cup {proc[p].l}
        BY <1>19, <1>d DEF Record, Refuse, Execute, Tables
    <2>4. Moved(view')
        BY <1>19, <1>a, <2>2, <2>3 DEF Moved, Parts, Midway, Record
    <2> QED BY <1>a, <2>1, <2>2, <2>4, AsideParts
<1>20. ASSUME Crash PROVE Parts'
    <2>1. disk' = disk /\ view' = disk /\ \A q \in Coroutine : proc'[q].at = "idle"
        BY <1>20 DEF Crash
    <2> QED BY <1>a, <2>1 DEF Parts, Whole, Moved, Midway, At
<1>21. ASSUME UNCHANGED vars PROVE Parts'
    BY <1>a, <1>21 DEF vars, tables, Parts, Whole, Moved, Midway, Underway, Alone, Settling, At
<1> QED
    BY <1>1, <1>2, <1>3, <1>4, <1>5, <1>6, <1>7, <1>8, <1>9, <1>10, <1>11, <1>12, <1>13,
       <1>14, <1>15, <1>16, <1>17, <1>18, <1>19, <1>20, <1>21, <1>22
    DEF Next, Serve, Shared

(* Whatever crashes, is stopped, expires or fails, a settlement is on disk *)
(* as a whole or not at all, and a lease has its record only if its money  *)
(* has moved, as long as no statement of another coroutine gets between    *)
(* the statements of settle_lease().                                       *)
THEOREM SettlementsWhole == Spec => []PartedOnlyByOthers
<1>1. Init => PartInv
    BY InitParts DEF PartInv
<1>2. TypeOK /\ Placed /\ PartInv /\ [Next]_vars => PartInv'
    BY StepParts
<1>3. PartInv => PartedOnlyByOthers
    BY DEF PartInv, Parts, Whole, Moved, PartedOnlyByOthers, SettlementAtomic
<1> QED BY <1>1, <1>2, <1>3, MarketTyped, PTL DEF Spec

----------------------------------------------------------------------------
(* Money *)

LEMMA AsideBooks ==
  ASSUME NEW p \in Coroutine, Aside(p), Books, disk' = disk,
         view'.cash = view.cash, view'.paid = view.paid,
         view'.fees = view.fees, view'.banked = view.banked,
         At(p, "withdraw")' => proc'[p].cash >= Amount
  PROVE  Books'
<1>1. Balanced(disk)' /\ (Balanced(view)' <=> Balanced(view)) /\ Surplus(view)' = Surplus(view)
    BY DEF Books, Balanced, Surplus
<1>2. (\A q \in Coroutine : ~Settling(q))' => Balanced(view)'
    BY <1>1, AsideAlone DEF Books
<1>3. Paying(p)'
    BY DEF Paying, Aside, Settling, At
<1>4. ASSUME NEW q \in Coroutine, q # p PROVE Paying(q)'
    <2>1. proc'[q] = proc[q] /\ (Alone(q)' <=> Alone(q)) /\ Paying(q)
        BY <1>4, AsideAlone DEF Aside, Rest, Books
    <2> HIDE DEF Alone, Balanced, Surplus
    <2> QED BY <1>1, <2>1 DEF Paying, At
<1> QED BY <1>1, <1>2, <1>3, <1>4 DEF Books

(* Nobody is settling: both balances hold, and no settlement is half-way.  *)
LEMMA QuietBooks ==
  ASSUME Books, NEW p \in Coroutine, Rest(p), Balanced(disk)', Balanced(view)',
         \A q \in Coroutine : ~Settling(q)', At(p, "withdraw")' => proc'[p].cash >= Amount
  PROVE  Books'
<1>1. ASSUME NEW q \in Coroutine PROVE Paying(q)'
    <2>1. ~Settling(q)' /\ (q # p => Paying(q) /\ proc'[q] = proc[q])
        BY <1>1 DEF Books, Rest
    <2> QED BY <2>1 DEF Paying, Settling, At
<1> QED BY <1>1 DEF Books

LEMMA InitBooks == Init => Books
<1> SUFFICES ASSUME Init PROVE Books
    OBVIOUS
<1>1. /\ disk.cash = Funds /\ disk.paid = 0 /\ disk.fees = 0 /\ disk.banked = 0
      /\ view = disk
    BY DEF Init, Opening
<1>2. \A q \in Coroutine : proc[q].at = "idle"
    BY DEF Init, Idle
<1> QED BY <1>1, <1>2, PricesAssumption DEF Books, Balanced, Surplus, Paying, At

(* What a statement of p's settlement moves. *)
LEMMA PayMoney ==
  ASSUME TypeOK, Placed, NEW p \in Coroutine, Pay(p)
  PROVE  /\ view'.banked = view.banked
         /\ view'.cash = IF proc[p].leg = 1 THEN view.cash - proc[p].cash ELSE view.cash
         /\ view'.paid = IF proc[p].leg = 2 THEN view.paid + Payout(proc[p].cash) ELSE view.paid
         /\ view'.fees = IF proc[p].leg = 3 THEN view.fees + Fee(proc[p].cash) ELSE view.fees
<1>1. /\ view \in Tables /\ proc[p].l \in Lease /\ proc[p].leg \in Leg /\ proc[p].cash \in Int
    BY DEF TypeOK, Placed, NeedsLease, Pay, At
<1>2. view' = Settlement(view, proc[p].l, proc[p].leg, proc[p].cash)
    BY PayMoves DEF Execute
<1>3. /\ Settlement(view, proc[p].l, proc[p].leg, proc[p].cash).banked =
           view.banked
      /\ Settlement(view, proc[p].l, proc[p].leg, proc[p].cash).cash =
           IF proc[p].leg = 1 THEN view.cash - proc[p].cash ELSE view.cash
      /\ Settlement(view, proc[p].l, proc[p].leg, proc[p].cash).paid =
           IF proc[p].leg = 2 THEN view.paid + Payout(proc[p].cash) ELSE view.paid
      /\ Settlement(view, proc[p].l, proc[p].leg, proc[p].cash).fees =
           IF proc[p].leg = 3 THEN view.fees + Fee(proc[p].cash) ELSE view.fees
    BY <1>1, SettlementMoney
<1> QED BY <1>2, <1>3

LEMMA StepBooks ==
  TypeOK /\ Placed /\ MoneyInv /\ [Next]_vars => MoneyInv'
<1> SUFFICES ASSUME TypeOK, Placed, MoneyInv, [Next]_vars, ~disturbed', ~stale'
             PROVE  Books'
    BY DEF MoneyInv
<1>a. ~disturbed /\ ~stale /\ Books
    BY FlagsGrow DEF MoneyInv
<1>b. Handler \subseteq Coroutine /\ Watchdog \in Coroutine
    BY DEF Coroutine
<1>c. \A q \in Coroutine : At(q, "commit") => proc[q].then \in AfterCommit
    BY DEF Placed
<1>d. /\ view \in Tables /\ view.cash \in Int /\ view.paid \in Int
      /\ view.fees \in Int /\ view.banked \in Int
      /\ Amount \in Nat /\ Price \in Nat /\ Funds \in Nat
    BY TableColumns, PricesAssumption DEF TypeOK
<1>e. ASSUME NEW p \in Coroutine, Aside(p), disk' = disk,
             view'.cash = view.cash, view'.paid = view.paid,
             view'.fees = view.fees, view'.banked = view.banked,
             proc'[p].at # "withdraw"
      PROVE  Books'
    BY <1>a, <1>e, AsideBooks DEF At
<1> HIDE DEF Books
<1> USE <1>b, IdleColumns DEF Keeps
<1>1. ASSUME NEW h \in Handler, Rent(h) PROVE Books'
    BY <1>1, <1>e, RentMoves DEF tables, Aside, Settling, At
<1>2. ASSUME NEW h \in Handler, Check(h) PROVE Books'
    <2>1. Aside(h) /\ proc'[h].at # "withdraw"
        BY <1>2, GotoMoves, IdleMoves DEF Check, Aside, Settling, At
    <2> QED BY <1>2, <1>e, <2>1 DEF Check, tables
<1>3. ASSUME NEW h \in Handler, Insert(h) PROVE Books'
    <2>1. Aside(h) /\ proc'[h].at # "withdraw"
        BY <1>3, ThenCommitMoves, IdleMoves DEF Insert, Aside, Settling, At
    <2> QED BY <1>3, <1>e, <2>1, MoneyStays
<1>4. ASSUME NEW h \in Handler, Mark(h) PROVE Books'
    <2>1. Aside(h) /\ proc'[h].at # "withdraw"
        BY <1>4, ThenCommitMoves DEF Mark, Aside, Settling, At
    <2> QED BY <1>4, <1>e, <2>1, MoneyStays
<1>5. ASSUME NEW h \in Handler, Stop(h) PROVE Books'
    BY <1>5, <1>e, StopMoves DEF tables, Aside, Settling, At
<1>6. ASSUME NEW h \in Handler, Forbid(h) PROVE Books'
    BY <1>6, <1>e, IdleMoves DEF Forbid, tables, Aside, Settling, At
<1>7. ASSUME NEW h \in Handler, Bank(h) PROVE Books'
    <2>1. Aside(h) /\ (At(h, "withdraw")' => proc'[h].cash >= Amount)
        BY <1>7, BankMoves DEF Aside, Settling, At
    <2> QED BY <1>7, <1>a, <2>1, AsideBooks, BankMoves DEF tables
<1>8. ASSUME NEW h \in Handler, WriteBalance(h) PROVE Books'
    <2> DEFINE moved == IF At(h, "deposit") THEN Amount ELSE -Amount
    <2>1. /\ Aside(h) /\ proc'[h].at # "withdraw"
        BY <1>8, ThenCommitMoves DEF WriteBalance, Aside, Settling, At
    <2>2. /\ view'.cash = proc[h].cash + moved /\ view'.banked = view.banked + moved
          /\ view'.paid = view.paid /\ view'.fees = view.fees /\ disk' = disk
        BY <1>8, <1>d DEF WriteBalance, Execute, Tables
    <2>3. view.cash = proc[h].cash
        BY <1>8 DEF WriteBalance, TypeOK
    <2>4. Alone(h)
        BY <1>8, ActsAlone DEF WriteBalance, Execute
    <2>5. (\A q \in Coroutine : ~Settling(q)) /\ (\A q \in Coroutine : ~Settling(q))'
        BY <2>1, <2>4, AsideAlone DEF Alone, Aside
    <2>6. Balanced(view) /\ Paying(h)
        BY <1>a, <2>5 DEF Books
    <2>7. moved = Amount \/ (moved = -Amount /\ view.cash >= Amount)
        BY <1>8, <2>3, <2>6 DEF WriteBalance, Paying, At
    <2>8. Balanced(view)'
        <3>1. view.cash + view.paid + view.fees - view.banked - Funds = 0 /\ view.cash >= 0
            BY <2>6 DEF Balanced, Surplus
        <3>2. moved \in Int /\ view.cash + moved >= 0
            BY <1>d, <2>7, <3>1
        <3>3. (view.cash + moved) + view.paid + view.fees - (view.banked + moved) - Funds = 0
            BY <1>d, <3>1, <3>2
        <3> HIDE DEF moved
        <3> QED BY <2>2, <2>3, <3>2, <3>3 DEF Balanced, Surplus
    <2>9. Balanced(disk)'
        BY <1>a, <2>2 DEF Books, Balanced, Surplus
    <2> QED BY <1>a, <2>1, <2>5, <2>8, <2>9, QuietBooks DEF Aside, At
<1>9. ASSUME NEW h \in Handler, LogBalance(h) PROVE Books'
    <2>1. Aside(h) /\ proc'[h].at # "withdraw"
        BY <1>9, ThenCommitMoves DEF LogBalance, Aside, Settling, At
    <2> QED BY <1>9, <1>e, <2>1, MoneyStays
<1>10. ASSUME NEW h \in Handler, Report(h) PROVE Books'
    <2>1. Aside(h) /\ proc'[h].at # "withdraw"
        BY <1>10, ThenCommitMoves DEF Report, Arrive, Aside, Settling, At
    <2> QED BY <1>10, <1>e, <2>1, MoneyStays
<1>11. ASSUME NEW found \in SUBSET Lease, FindExpired(found) PROVE Books'
    BY <1>11, <1>e, ExpireMoves DEF tables, Aside, Settling, At
<1>12. ASSUME NEW p \in Coroutine, Commit(p) PROVE Books'
    <2>1. /\ Alone(p) /\ disk' = view /\ view' = view /\ At(p, "commit")
          /\ proc[p].then \in AfterCommit
        BY <1>12, <1>c, ActsAlone DEF Commit
    <2>2. Rest(p) /\ proc'[p].at = proc[p].then
        BY <1>12, GotoMoves, IdleMoves DEF Commit
    <2>3. ~Settling(p)' /\ proc'[p].at # "withdraw"
        BY <2>1, <2>2 DEF Settling, At, AfterCommit
    <2>4. \A q \in Coroutine \ {p} : ~Settling(q) /\ ~Settling(q)'
        BY <2>1, <2>2 DEF Alone, Settling, At, Rest
    <2>5. Balanced(view)
        <3>1. CASE proc[p].then = "record"
            BY <1>a, <2>1, <3>1 DEF Books, Paying
        <3>2. CASE proc[p].then # "record"
            <4>1. \A q \in Coroutine : ~Settling(q)
                BY <2>1, <2>4, <3>2 DEF Settling, At
            <4> QED BY <1>a, <4>1, <3>2 DEF Books
        <3> QED BY <3>1, <3>2
    <2>6. Balanced(view)' /\ Balanced(disk)'
        BY <2>1, <2>5 DEF Balanced, Surplus
    <2> QED BY <1>a, <2>2, <2>3, <2>4, <2>6, QuietBooks DEF At
<1>13. ASSUME NEW p \in Coroutine, Complete(p) PROVE Books'
    <2>1. PICK l \in proc[p].todo : Completes(p, l)
        BY <1>13, CompleteMoves
    <2>2. Aside(p) /\ proc'[p].at # "withdraw"
        BY <2>1 DEF Completes, Aside, Settling, At
    <2> QED BY <1>13, <1>e, <2>2, MoneyStays
<1>14. ASSUME NEW p \in Coroutine, Free(p) PROVE Books'
    <2>1. Aside(p) /\ proc'[p].at # "withdraw"
        BY <1>14, ThenCommitMoves DEF Free, Aside, Settling, At
    <2> QED BY <1>14, <1>e, <2>1, MoneyStays
<1>15. ASSUME NEW p \in Coroutine, Begin(p) PROVE Books'
    <2>1. PICK l \in proc[p].due : Begins(p, l)
        BY <1>15, BeginMoves
    <2>2. Aside(p) /\ proc'[p].at # "withdraw"
        BY <2>1 DEF Begins, Aside, Settling, At
    <2> QED BY <1>e, <2>1, <2>2 DEF Begins
<1>16. ASSUME NEW p \in Coroutine, Rollback(p) PROVE Books'
    <2>1. Alone(p) /\ disk' = disk /\ view' = disk
        BY <1>16, ActsAlone DEF Rollback
    <2>2. Rest(p) /\ proc'[p].at \in {"idle", "begin"}
        BY <1>16, GotoMoves, IdleMoves DEF Rollback
    <2>3. \A q \in Coroutine : ~Settling(q)'
        BY <2>1, <2>2 DEF Alone, Settling, At, Rest
    <2>4. Balanced(view)' /\ Balanced(disk)'
        BY <1>a, <2>1 DEF Books, Balanced, Surplus
    <2> QED BY <1>a, <2>2, <2>3, <2>4, QuietBooks DEF At
<1>17. ASSUME NEW p \in Coroutine, ReadBalance(p) PROVE Books'
    <2>1. /\ Rest(p) /\ proc'[p].at = "legs" /\ proc'[p].leg = 1
          /\ proc'[p].cash = Affordable(view)
          /\ At(p, "balance") /\ disk' = disk /\ view' = view
        BY <1>17, ReadBalanceMoves DEF tables
    <2>2. Settling(p)' /\ ~Settling(p)
        BY <2>1 DEF Settling, At
    <2>3. Paying(p)'
        <3>1. ASSUME Alone(p)'
              PROVE  /\ Surplus(view') = -InTransit(1, Affordable(view))
                     /\ Affordable(view) >= 0 /\ view'.cash >= 0
                     /\ view'.cash >= Affordable(view)
            <4>1. \A q \in Coroutine : ~Settling(q)
                BY <2>1, <2>2, <3>1 DEF Alone, Settling, At, Rest
            <4>2. Balanced(view)
                BY <1>a, <4>1 DEF Books
            <4>3. Surplus(view) = 0 /\ view.cash >= 0
                BY <4>2 DEF Balanced
            <4>4. Affordable(view) >= 0 /\ view.cash >= Affordable(view)
                BY <1>d, <4>3 DEF Affordable
            <4>5. Surplus(view') = Surplus(view) /\ view'.cash = view.cash
                BY <2>1
            <4>6. InTransit(1, Affordable(view)) = 0
                BY DEF InTransit
            <4> QED BY <4>3, <4>4, <4>5, <4>6
        <3> QED BY <2>1, <3>1 DEF Paying, At
    <2>4. ASSUME NEW q \in Coroutine, q # p PROVE Paying(q)'
        <3>1. ~Alone(q)' /\ Paying(q) /\ proc'[q] = proc[q]
            BY <1>a, <2>1, <2>2, <2>4 DEF Alone, Books, Rest
        <3> QED BY <2>1, <3>1 DEF Paying, At
    <2>5. Balanced(disk)'
        BY <1>a, <2>1 DEF Books, Balanced, Surplus
    <2> QED BY <2>2, <2>3, <2>4, <2>5 DEF Books
<1>22. ASSUME NEW p \in Coroutine, NoAccount(p) PROVE Books'
    <2>1. Aside(p) /\ proc'[p].at # "withdraw" /\ disk' = disk /\ view' = view
        BY <1>22, NoAccountMoves DEF Aside, Settling, At, tables
    <2> QED BY <1>e, <2>1
<1>18. ASSUME NEW p \in Coroutine, Pay(p) PROVE Books'
    <2> DEFINE n == proc[p].leg
               cost == proc[p].cash
    <2>1. /\ Alone(p) /\ At(p, "legs") /\ Rest(p) /\ disk' = disk
          /\ n \in Leg /\ cost \in Int
          /\ IF n = 6 THEN proc'[p].at = "commit" /\ proc'[p].then = "record"
             ELSE proc'[p].at = "legs" /\ proc'[p].leg = n + 1 /\ proc'[p].cash = cost
        BY <1>18, ActsAlone, PayMoves DEF Execute, At, TypeOK
    <2>2. /\ view'.banked = view.banked
          /\ view'.cash = IF n = 1 THEN view.cash - cost ELSE view.cash
          /\ view'.paid = IF n = 2 THEN view.paid + Payout(cost) ELSE view.paid
          /\ view'.fees = IF n = 3 THEN view.fees + Fee(cost) ELSE view.fees
        BY <1>18, PayMoney
    <2>3. /\ Surplus(view) = -InTransit(n, cost)
          /\ cost >= 0 /\ view.cash >= 0 /\ (n = 1 => view.cash >= cost)
        BY <1>a, <2>1 DEF Books, Paying
    <2>4. Fee(cost) \in Int /\ Payout(cost) = cost - Fee(cost)
        BY <2>1 DEF Fee, Payout
    <2>5. Surplus(view') = -InTransit(n + 1, cost) /\ view'.cash >= 0
        <3> HIDE DEF n, cost
        <3>1. /\ n \in 1..6 /\ cost \in Int
            BY <2>1 DEF Leg
        <3>2. CASE n = 1
            BY <1>d, <2>2, <2>3, <3>1, <3>2 DEF Surplus, InTransit
        <3>3. CASE n = 2
            BY <1>d, <2>2, <2>3, <2>4, <3>1, <3>3 DEF Surplus, InTransit
        <3>4. CASE n = 3
            BY <1>d, <2>2, <2>3, <2>4, <3>1, <3>4 DEF Surplus, InTransit
        <3>5. CASE n \in 4..6
            BY <1>d, <2>2, <2>3, <3>1, <3>5 DEF Surplus, InTransit
        <3> QED BY <3>1, <3>2, <3>3, <3>4, <3>5
    <2>6. Settling(p)' /\ \A q \in Coroutine \ {p} : ~Settling(q)'
        BY <2>1 DEF Alone, Settling, At, Rest
    <2>7. Paying(p)'
        <3>1. CASE n = 6
            <4>1. Balanced(view)'
                BY <2>5, <3>1 DEF Balanced, InTransit, Surplus
            <4> QED BY <2>1, <3>1, <4>1 DEF Paying, At
        <3>2. CASE n # 6
            <4>1. n + 1 # 1
                BY <2>1 DEF Leg
            <4> QED BY <2>1, <2>3, <2>5, <3>2, <4>1 DEF Paying, At
        <3> QED BY <3>1, <3>2
    <2>8. ASSUME NEW q \in Coroutine, q # p PROVE Paying(q)'
        <3>1. ~Settling(q)' /\ Paying(q) /\ proc'[q] = proc[q]
            BY <1>a, <2>1, <2>6, <2>8 DEF Books, Rest
        <3> QED BY <3>1 DEF Paying, Settling, At
    <2>9. Balanced(disk)'
        BY <1>a, <2>1 DEF Books, Balanced, Surplus
    <2> QED BY <2>6, <2>7, <2>8, <2>9 DEF Books
<1>19. ASSUME NEW p \in Coroutine, Record(p) PROVE Books'
    <2>1. Aside(p) /\ proc'[p].at # "withdraw"
        BY <1>19, ThenCommitMoves, IdleMoves DEF Record, Following, Aside, Settling, At
    <2>2. /\ view'.cash = view.cash /\ view'.paid = view.paid
          /\ view'.fees = view.fees /\ view'.banked = view.banked /\ disk' = disk
        BY <1>19, <1>d DEF Record, Refuse, Execute, Tables
    <2> QED BY <1>e, <2>1, <2>2
<1>20. ASSUME Crash PROVE Books'
    <2>1. disk' = disk /\ view' = disk /\ \A q \in Coroutine : proc'[q].at = "idle"
        BY <1>20 DEF Crash
    <2> QED BY <1>a, <2>1 DEF Books, Balanced, Surplus, Paying, At
<1>21. ASSUME UNCHANGED vars PROVE Books'
    <2>1. disk' = disk /\ view' = view /\ proc' = proc
        BY <1>21 DEF vars, tables
    <2> QED BY <1>a, <2>1 DEF Books, Balanced, Surplus, Paying, Alone, Settling, At
<1> QED
    BY <1>1, <1>2, <1>3, <1>4, <1>5, <1>6, <1>7, <1>8, <1>9, <1>10, <1>11, <1>12, <1>13,
       <1>14, <1>15, <1>16, <1>17, <1>18, <1>19, <1>20, <1>21, <1>22
    DEF Next, Serve, Shared

(* The books are well-formed and balance, and the cap of settle_lease()    *)
(* keeps the consumer's balance from becoming negative, as long as no      *)
(* coroutine gets between the statements of a settlement or between the    *)
(* read and the write of deposit() and withdraw().                         *)
THEOREM BooksStayBalanced == Spec => []BooksBalance
<1>1. Init => MoneyInv
    BY InitBooks DEF MoneyInv
<1>2. TypeOK /\ Placed /\ MoneyInv /\ [Next]_vars => MoneyInv'
    BY StepBooks
<1>3. TypeOK /\ MoneyInv => BooksBalance
    <2> SUFFICES ASSUME TypeOK, MoneyInv, ~disturbed, ~stale
                 PROVE  disk.cash + disk.paid + disk.fees = Funds + disk.banked /\ disk.cash >= 0
        BY DEF BooksBalance, MoneyConserved, NeverOverdrawn
    <2>1. Surplus(disk) = 0 /\ disk.cash >= 0
        BY DEF MoneyInv, Books, Balanced
    <2>2. /\ disk.cash \in Int /\ disk.paid \in Int /\ disk.fees \in Int
          /\ disk.banked \in Int /\ Funds \in Nat
        BY TableColumns, PricesAssumption DEF TypeOK
    <2>3. PICK a, b, c, d, f \in Int : /\ a = disk.cash /\ b = disk.paid /\ c = disk.fees
                                      /\ d = disk.banked /\ f = Funds
        BY <2>2
    <2>4. a + b + c - d - f = 0
        BY <2>1, <2>3 DEF Surplus
    <2>5. a + b + c = f + d
        BY <2>4
    <2> QED BY <2>1, <2>3, <2>5
<1> QED BY <1>1, <1>2, <1>3, MarketTyped, PTL DEF Spec
=============================================================================

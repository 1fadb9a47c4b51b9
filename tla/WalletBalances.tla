--------------------------- MODULE WalletBalances ---------------------------
(***************************************************************************)
(* The wallet's balances on the dashboard (monitoring/wallet_balances.py,  *)
(* days of monitoring/periods.py): a thread per refresh asks an unreliable *)
(* node for every token in turn, falls back to what is shown, publishes    *)
(* under the lock and records a snapshot of the day outside of it; a file  *)
(* keeps the snapshots over sessions and crashes.  A balance is stood for  *)
(* by the tick it was read at plus one, and 0 by 0.                        *)
(***************************************************************************)
EXTENDS Integers, FiniteSets

CONSTANTS
    Token,         \* the tokens
    DayLen,        \* ticks of a day, the first of them before one o'clock
    WeekLen,       \* days of a week
    Interval,      \* refresh_interval_s, in ticks
    LastTick,      \* bound: the clock
    MaxSessions    \* bound

VARIABLES
    tick,      \* the clock
    session,   \* a session is running, and how many there were
    view,      \* what the tracker shows, and its book-keeping
    fetch,     \* the refreshing thread
    record,    \* snapshots published and not yet recorded
    history,   \* the snapshots per mining day in memory
    kept,      \* and on disk
    torn       \* a crash has left the file unreadable

vars == <<tick, session, view, fetch, record, history, kept, torn>>

\* mining_day(): the day before until one o'clock.
MiningDay(t) == IF t % DayLen = 0 THEN (t \div DayLen) - 1 ELSE t \div DayLen
Day == MiningDay(0)..MiningDay(LastTick)

None == -1
NoSnapshot == [values |-> [t \in Token |-> None], since |-> None]
NoHistory == [d \in Day |-> NoSnapshot]
Has(h, d) == d \in Day /\ h[d] # NoSnapshot

NoFetch == [at |-> "none", fallback |-> NoSnapshot.values, got |-> NoSnapshot.values,
            noted |-> {}, since |-> None]

NoView == [values |-> NoSnapshot.values, status |-> "waiting", updated |-> None,
           tried |-> None, daily |-> None, refreshing |-> FALSE]

----------------------------------------------------------------------------

\* _seed_from_history(): the snapshot of today or the latest one.
Seed(h) ==
    LET days == {d \in Day : Has(h, d)} IN
    IF days = {} THEN [values |-> NoSnapshot.values, status |-> "waiting"]
    ELSE [values |-> h[CHOOSE d \in days : \A e \in days : e <= d].values,
          status |-> "cached"]

Start ==
    LET read == IF torn THEN NoHistory ELSE kept IN
    /\ ~session.on /\ session.count < MaxSessions
    /\ session' = [on |-> TRUE, count |-> session.count + 1]
    /\ history' = read
    /\ view' = [NoView EXCEPT !.values = Seed(read).values, !.status = Seed(read).status]
    /\ UNCHANGED <<tick, fetch, record, kept, torn>>

\* The end of the process; its last save may have been cut off.
Leave ==
    /\ session.on /\ session' = [session EXCEPT !.on = FALSE]
    /\ view' = NoView /\ fetch' = NoFetch /\ record' = {}
    /\ torn' \in (IF record = {} THEN {torn} ELSE {torn, TRUE})
    /\ UNCHANGED <<tick, history, kept>>

Pass ==
    /\ tick < LastTick /\ tick' = tick + 1
    /\ UNCHANGED <<session, view, fetch, record, history, kept, torn>>

----------------------------------------------------------------------------
(* The main thread *)

Due ==
    IF view.updated = None THEN view.tried = None \/ tick - view.tried >= Interval
                           ELSE tick - view.updated >= Interval

\* maybe_refresh(), with the day the caller has written down.
Refresh(daily) ==
    /\ view' = [view EXCEPT !.refreshing = TRUE, !.tried = tick, !.daily = daily,
                            !.status = IF view.values = NoSnapshot.values
                                          /\ view.status \in {"waiting", "rpc_error"}
                                       THEN "fetching" ELSE @]
    /\ fetch' = [NoFetch EXCEPT !.at = "begin"]
    /\ UNCHANGED <<tick, session, record, history, kept, torn>>

AfterOne == tick % DayLen # 0

\* refresh_on_launch(), then maybe_daily_refresh() and maybe_refresh(): forced
\* once a day, unless a refresh is under way already.
DailyRefresh ==
    /\ session.on /\ view.daily # MiningDay(tick)
    /\ AfterOne \/ view.tried = None
    /\ LET daily == IF AfterOne THEN MiningDay(tick) ELSE view.daily IN
       IF view.refreshing
       THEN /\ view' = [view EXCEPT !.daily = daily]
            /\ UNCHANGED <<tick, session, fetch, record, history, kept, torn>>
       ELSE Refresh(daily)

MaybeRefresh ==
    session.on /\ view.tried # None /\ Due /\ ~view.refreshing /\ Refresh(view.daily)

----------------------------------------------------------------------------
(* The refreshing thread *)

Begin ==
    /\ fetch.at = "begin"
    /\ fetch' = [fetch EXCEPT !.at = "fetch", !.fallback = view.values, !.since = tick]
    /\ UNCHANGED <<tick, session, view, record, history, kept, torn>>

Wanted == CHOOSE t \in Token : fetch.got[t] = None

Fetched == \A t \in Token : fetch.got[t] # None

\* _fetch_token(): read from some endpoint, or what was shown, or zero.
FetchToken(answered) ==
    LET spare == IF fetch.fallback[Wanted] # None THEN fetch.fallback[Wanted] ELSE 0 IN
    /\ fetch.at = "fetch" /\ ~Fetched
    /\ fetch' = [fetch EXCEPT !.got[Wanted] = IF answered THEN tick + 1 ELSE spare,
                              !.noted = IF answered THEN @ ELSE @ \cup {Wanted}]
    /\ UNCHANGED <<tick, session, view, record, history, kept, torn>>

\* Without anything to fall back on, no answer at all is an error.
Raises == fetch.noted = Token /\ fetch.fallback = NoSnapshot.values

Fail ==
    /\ fetch.at = "fetch" /\ Fetched /\ Raises /\ fetch' = NoFetch
    /\ view' = [view EXCEPT !.refreshing = FALSE,
                            !.status = IF view.values = NoSnapshot.values THEN "rpc_error"
                                       ELSE "stale"]
    /\ UNCHANGED <<tick, session, record, history, kept, torn>>

\* Mutant: only balances that were carried along keep it from that.
RecordedSoft == \A t \in fetch.noted : fetch.fallback[t] = None

\* Balances are recorded if every token was read.
Recorded == fetch.noted = {}

Publish ==
    /\ fetch.at = "fetch" /\ Fetched /\ ~Raises /\ fetch' = NoFetch
    /\ view' = [view EXCEPT !.values = fetch.got, !.updated = tick, !.refreshing = FALSE,
                            !.status = IF fetch.noted = {} THEN "ok" ELSE "partial"]
    /\ record' = IF Recorded THEN record \cup {[values |-> fetch.got, since |-> fetch.since]}
                 ELSE record
    /\ UNCHANGED <<tick, session, history, kept, torn>>

\* Mutant: the day is that of the first balance read.
SnapshotDayBegun(snapshot) == MiningDay(snapshot.since)

\* _record_snapshot() takes the day from the clock.
SnapshotDay(snapshot) == MiningDay(tick)

RecordSnapshot(snapshot) ==
    /\ record' = record \ {snapshot}
    /\ history' = [history EXCEPT ![SnapshotDay(snapshot)] = snapshot]
    /\ kept' = history' /\ torn' = FALSE
    /\ UNCHANGED <<tick, session, view, fetch>>

----------------------------------------------------------------------------
(* The panel *)

PreviousDay == MiningDay(tick) - 1

WeekStart == MiningDay(tick) - (MiningDay(tick) % WeekLen)

\* Yesterday's snapshot, never an older one.
DayBaseline == {PreviousDay} \cap {d \in Day : Has(history, d)}

\* The first day of this week or, without it, that of the week before.
WeekBaseline ==
    {IF Has(history, WeekStart) THEN WeekStart ELSE WeekStart - WeekLen}
        \cap {d \in Day : Has(history, d)}

\* _token_change(): nothing without balances or without a baseline.
TokenChange(t, baseline) ==
    {view.values[t] - history[d].values[t] :
        d \in {e \in baseline : view.values # NoSnapshot.values}}

\* view()
View == [t \in Token |-> [day |-> TokenChange(t, DayBaseline),
                          week |-> TokenChange(t, WeekBaseline)]]

----------------------------------------------------------------------------

Init ==
    /\ tick = 0 /\ session = [on |-> FALSE, count |-> 0]
    /\ view = NoView /\ fetch = NoFetch /\ record = {} /\ history = NoHistory /\ kept = NoHistory
    /\ torn = FALSE

Next ==
    \/ Start \/ Leave \/ Pass \/ DailyRefresh \/ MaybeRefresh
    \/ Begin \/ Fail \/ Publish
    \/ \E answered \in BOOLEAN : FetchToken(answered)
    \/ \E snapshot \in record : RecordSnapshot(snapshot)

Spec == Init /\ [][Next]_vars

----------------------------------------------------------------------------

TypeOK ==
    /\ tick \in 0..LastTick
    /\ view.status \in {"waiting", "cached", "fetching", "rpc_error", "stale", "ok", "partial"}
    /\ fetch.at \in {"none", "begin", "fetch"} /\ (fetch.at = "none") = ~view.refreshing

\* A snapshot, which the day's and the week's change are counted from, holds
\* balances that were really read, all of them in one refresh: never the zero
\* of a token that did not answer, nor a balance that was only carried along
\* (wallet_balances.py:171-272, 449-467).
SnapshotsWereRead ==
    \A d \in Day : Has(history, d) =>
        \A t \in Token : history[d].values[t] > history[d].since

\* While all balances shown were read, a change is counted from balances read
\* before them: a wallet that only grows never shows a loss, though a slow
\* refresh may record its snapshot after a later one, on a later day even
\* (wallet_balances.py:369-378, 489-510).
ChangesAreGains ==
    view.status = "ok" =>
        \A t \in Token : \A gain \in View[t].day \cup View[t].week : gain >= 0

\* Both: the panel's changes are between balances that were read.
SnapshotsAreRead == SnapshotsWereRead /\ ChangesAreGains

\* The snapshots of days that are over stay as they are in a session, however
\* long a refresh takes or overlaps the next one.
PastDaysFixed ==
    [][session.on /\ session'.on =>
          \A d \in Day : d < MiningDay(tick) => history'[d] = history[d]]_vars
=============================================================================

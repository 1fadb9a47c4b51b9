------------------------------ MODULE Reporting ------------------------------
(***************************************************************************)
(* What becomes of an acceptance beside the block store: session counters  *)
(* (monitoring/metrics.py), the counts per mining day in a file            *)
(* (monitoring/local_stats.py), and the jobs for the block explorer        *)
(* (monitoring/xenblockscan_reporter.py), put by the main thread and the   *)
(* backfill into one bounded queue that a daemon thread posts from.        *)
(***************************************************************************)
EXTENDS Integers, Sequences, SequencesExt, FiniteSetsExt

CONSTANTS
    QueueMax,      \* maxsize of _q
    BackfillRows,  \* max_rows of schedule_backfill()
    WeekLen,       \* days of a week; day 0 is the last of one
    LastDay,       \* bound: the mining days are 0..LastDay
    MaxAccepts,    \* bound: acceptances of the pool
    MaxBeats,      \* bound: holdings reports of a session
    MaxSessions    \* bound

VARIABLES
    day,       \* the mining day
    accepted,  \* acceptances the pool made, over all sessions
    rows,      \* acceptances the store has on record
    main,      \* the main thread: where it is, and its session's counter
    days,      \* the counts per day in memory
    file,      \* and on disk
    putter,    \* the producers' calls of _enqueue()
    jobs,      \* the queue
    post,      \* the job in the poster's hands
    heard,     \* history: the last count the explorer received of a producer
    mishap     \* history: a session ended with acceptances to count

vars == <<day, accepted, rows, main, days, file, putter, jobs, post, heard, mishap>>

Day == 0..LastDay

Producer == {"miner", "backfill"}

Job(kind, n) == [kind |-> kind, n |-> n]
NoJob == Job("none", 0)

NoCounts == [d \in Day |-> 0]

----------------------------------------------------------------------------
(* The main thread *)

Goes(at) == main' = [main EXCEPT !.at = at]

\* submit() of the live path has succeeded.
AcceptLive ==
    /\ main.at = "loop" /\ accepted < MaxAccepts
    /\ accepted' = accepted + 1
    /\ main' = [main EXCEPT !.at = "count", !.due = 1, !.live = TRUE]
    /\ UNCHANGED <<day, rows, days, file, putter, jobs, post, heard, mishap>>

\* Workers of a flush have closed n rows; their outcomes are applied in turn.
AcceptFlush(n) ==
    /\ main.at = "loop" /\ accepted + n <= MaxAccepts
    /\ accepted' = accepted + n /\ rows' = rows + n
    /\ main' = [main EXCEPT !.at = "count", !.due = n, !.live = FALSE]
    /\ UNCHANGED <<day, days, file, putter, jobs, post, heard, mishap>>

\* Mutant: the file is written with what it had.
RecordAcceptLate ==
    /\ main.at = "count" /\ main.due > 0
    /\ days' = [days EXCEPT ![day] = @ + 1]
    /\ file' = [counts |-> days, torn |-> FALSE]
    /\ main' = [main EXCEPT !.at = IF main.live THEN "store" ELSE "report",
                            !.count = @ + 1, !.due = @ - 1]
    /\ UNCHANGED <<day, accepted, rows, putter, jobs, post, heard, mishap>>

\* record_accepted_live() or _flush(), and record_accept() with its _save().
RecordAccept ==
    /\ main.at = "count" /\ main.due > 0
    /\ days' = [days EXCEPT ![day] = @ + 1]
    /\ file' = [counts |-> days', torn |-> FALSE]
    /\ main' = [main EXCEPT !.at = IF main.live THEN "store" ELSE "report",
                            !.count = @ + 1, !.due = @ - 1]
    /\ UNCHANGED <<day, accepted, rows, putter, jobs, post, heard, mishap>>

RecordDirectSubmit ==
    /\ main.at = "store" /\ rows' = rows + 1 /\ Goes("report")
    /\ UNCHANGED <<day, accepted, days, file, putter, jobs, post, heard, mishap>>

\* _enqueue() is called for the first of several jobs, and returns at last.
Calls(p, todo) == putter' = [putter EXCEPT ![p] = [at |-> "put", todo |-> todo]]

ReportAccept ==
    /\ main.at = "report" /\ Goes("reporting")
    /\ Calls("miner", <<Job("event", main.count)>>)
    /\ UNCHANGED <<day, accepted, rows, days, file, jobs, post, heard, mishap>>

\* _maybe_report_xbs_holdings(): balances, then the tracker's heartbeat.
ReportHoldings ==
    /\ main.at = "loop" /\ main.beats < MaxBeats
    /\ main' = [main EXCEPT !.at = "reporting", !.beats = @ + 1]
    /\ Calls("miner", <<Job("holdings", main.count), Job("heartbeat", main.count)>>)
    /\ UNCHANGED <<day, accepted, rows, days, file, jobs, post, heard, mishap>>

Reported ==
    /\ main.at = "reporting" /\ putter["miner"].at = "idle"
    /\ Goes(IF main.due > 0 THEN "count" ELSE "loop")
    /\ UNCHANGED <<day, accepted, rows, days, file, putter, jobs, post, heard, mishap>>

\* schedule_backfill(), some time after the start, with the rows of then.
Backfill ==
    /\ main.at # "down" /\ main.history > 0
    /\ main' = [main EXCEPT !.history = 0]
    /\ Calls("backfill", [i \in 1..main.history |-> Job("history", i)])
    /\ UNCHANGED <<day, accepted, rows, days, file, jobs, post, heard, mishap>>

----------------------------------------------------------------------------
(* _enqueue() and the poster *)

\* The next job of the caller, or its return.
Continue(p, rest) ==
    putter' = [putter EXCEPT ![p] = [at |-> IF rest = <<>> THEN "idle" ELSE "put",
                                     todo |-> rest]]

Rest(p) == Tail(putter[p].todo)

\* put_nowait(): the first try evicts an old job if the queue is full, the
\* second one gives up.
Put(p) ==
    /\ putter[p].at \in {"put", "again"}
    /\ IF Len(jobs) < QueueMax
       THEN jobs' = Append(jobs, Head(putter[p].todo)) /\ Continue(p, Rest(p))
       ELSE IF putter[p].at = "put"
       THEN putter' = [putter EXCEPT ![p].at = "evict"] /\ UNCHANGED jobs
       ELSE Continue(p, Rest(p)) /\ UNCHANGED jobs
    /\ UNCHANGED <<day, accepted, rows, main, days, file, post, heard, mishap>>

Evict(p) ==
    /\ putter[p].at = "evict"
    /\ putter' = [putter EXCEPT ![p].at = "again"]
    /\ jobs' = IF jobs = <<>> THEN jobs ELSE Tail(jobs)
    /\ UNCHANGED <<day, accepted, rows, main, days, file, post, heard, mishap>>

Take ==
    /\ post = NoJob /\ jobs # <<>>
    /\ post' = Head(jobs) /\ jobs' = Tail(jobs)
    /\ UNCHANGED <<day, accepted, rows, main, days, file, putter, heard, mishap>>

Source(job) == IF job.kind = "history" THEN "backfill" ELSE "miner"

\* Mutant: a job whose post failed goes back to the queue.
PostAgain(received) ==
    /\ post # NoJob /\ post' = NoJob
    /\ heard' = IF received THEN [heard EXCEPT ![Source(post)] = post.n] ELSE heard
    /\ jobs' = IF ~received /\ Len(jobs) < QueueMax THEN Append(jobs, post) ELSE jobs
    /\ UNCHANGED <<day, accepted, rows, main, days, file, putter, mishap>>

\* A post that fails or times out is not repeated, whether it was received.
Post(received) ==
    /\ post # NoJob /\ post' = NoJob
    /\ heard' = IF received THEN [heard EXCEPT ![Source(post)] = post.n] ELSE heard
    /\ UNCHANGED <<day, accepted, rows, main, days, file, putter, jobs, mishap>>

----------------------------------------------------------------------------

NoPutter == [p \in Producer |-> [at |-> "idle", todo |-> <<>>]]

NothingHeard == [p \in Producer |-> 0]

\* list_accepted_submits(), of which the backfill takes so many.
History == Min({rows, BackfillRows})

NewMain(session) ==
    [at |-> "loop", session |-> session, count |-> 0, due |-> 0, live |-> FALSE,
     beats |-> 0, history |-> History]

\* The process ends, at a save perhaps: the threads are daemons, the queue is
\* not flushed.
End ==
    /\ main.at # "down" /\ Goes("down")
    /\ putter' = NoPutter /\ jobs' = <<>> /\ post' = NoJob
    /\ \/ main.at = "count" /\ file' = [file EXCEPT !.torn = TRUE]
       \/ UNCHANGED file
    /\ mishap' = (mishap \/ main.due > 0)
    /\ UNCHANGED <<day, accepted, rows, days, heard>>

\* _load(): a file that cannot be parsed is none.
Start ==
    /\ main.at = "down" /\ main.session < MaxSessions
    /\ main' = NewMain(main.session + 1)
    /\ days' = IF file.torn THEN NoCounts ELSE file.counts
    /\ heard' = NothingHeard
    /\ UNCHANGED <<day, accepted, rows, file, putter, jobs, post, mishap>>

Rollover ==
    /\ day + 1 \in Day /\ day' = day + 1
    /\ UNCHANGED <<accepted, rows, main, days, file, putter, jobs, post, heard, mishap>>

Init ==
    /\ day = 0 /\ accepted = 0 /\ rows = 0 /\ main = NewMain(1)
    /\ days = NoCounts /\ file = [counts |-> NoCounts, torn |-> FALSE]
    /\ putter = NoPutter /\ jobs = <<>> /\ post = NoJob /\ heard = NothingHeard
    /\ mishap = FALSE

Next ==
    \/ AcceptLive \/ RecordAccept \/ RecordDirectSubmit \/ ReportAccept \/ ReportHoldings
    \/ Reported \/ Backfill \/ Take \/ End \/ Start \/ Rollover
    \/ \E n \in 1..2 : AcceptFlush(n)
    \/ \E p \in Producer : Put(p) \/ Evict(p)
    \/ \E received \in BOOLEAN : Post(received)

Spec == Init /\ [][Next]_vars

----------------------------------------------------------------------------

Counted(counts) == MapThenSumSet(LAMBDA d : counts[d], Day)

Weekday(d) == (d + WeekLen - 1) % WeekLen
WeekStart(d) == d - Weekday(d)

\* view(): the counts of today, of the week so far and of the week before.
View ==
    LET over(first, last) == MapThenSumSet(LAMBDA d : days[d], (first..last) \cap Day)
        monday == WeekStart(day)
    IN  [today |-> days[day], week |-> over(monday, day),
         previous |-> over(monday - WeekLen, monday - 1)]

TypeOK ==
    /\ day \in Day /\ accepted \in 0..MaxAccepts /\ rows \in 0..accepted
    /\ main.at \in {"loop", "count", "store", "report", "reporting", "down"}
    /\ Len(jobs) <= QueueMax /\ Counted(days) <= accepted

\* What the explorer hears from a session never goes back: no heartbeat has
\* fewer acceptances than the events and heartbeats received before it, though
\* jobs are evicted, lost and crossed by the backfill
\* (xenblockscan_reporter.py:310-346).
NeverGoesBack ==
    [][main'.session = main.session => \A p \in Producer : heard'[p] >= heard[p]]_vars

\* Over days and sessions every acceptance is counted once, live or flushed,
\* unless the miner was killed before it had counted it; what the display has
\* is what the next session will read (local_stats.py:81-125), and of two weeks
\* it shows each acceptance in one, whatever day it fell on (local_stats.py:160-175).
AcceptsCountedOnce ==
    main.at \in {"loop", "reporting"} =>
        /\ Counted(days) <= accepted
        /\ ~mishap => Counted(days) = accepted - main.due /\ file.counts = days
        /\ ~mishap /\ WeekStart(day) <= WeekLen =>
               View.week + View.previous = accepted - main.due /\ View.today <= View.week
=============================================================================

---------------------------- MODULE ServerUptime ----------------------------
(***************************************************************************)
(* The uptime record of the pool (monitoring/server_uptime.py): every      *)
(* probe books the time since the last one on the hours it touches, opens  *)
(* or closes an outage and rewrites a file, which the next session reads.  *)
(* Time is counted in ticks, a few to the hour.                            *)
(***************************************************************************)
EXTENDS Integers, FiniteSets, FiniteSetsExt

CONSTANTS
    HourLen,       \* ticks of an hour
    KeepHours,     \* _HOURLY_RETENTION_H
    KeepOutages,   \* _OUTAGE_RETENTION_D, in ticks
    MaxOutages,    \* _MAX_OUTAGES
    DayHours,      \* hours of the panel's summary
    DisplayHours,  \* _DISPLAY_HOURS
    LastTick       \* bound: the clock

VARIABLES
    tick,      \* the clock
    up,        \* a session is running
    record,    \* what its tracker holds
    kept,      \* the file
    torn,      \* a crash in write_text() has left it unreadable
    born       \* history: when the record was started

vars == <<tick, up, record, kept, torn, born>>

Hour == 0..(LastTick \div HourLen)
HourOf(t) == t \div HourLen

\* The part of from..to that lies in hour h.
Part(from, to, h) ==
    LET a == IF from > h * HourLen THEN from ELSE h * HourLen
        b == IF to < (h + 1) * HourLen THEN to ELSE (h + 1) * HourLen
    IN  IF b > a THEN b - a ELSE 0

None == -1

\* No two outages end at a time: the list of them, in that order, is a set here.
Empty == [online |-> [h \in Hour |-> 0], offline |-> [h \in Hour |-> 0],
          outages |-> {}, ok |-> "unknown", at |-> None, open |-> None]

----------------------------------------------------------------------------

\* _add_duration(): hour by hour.
AddDuration(hours, from, to) == [h \in Hour |-> hours[h] + Part(from, to, h)]

\* Mutant: the time is booked on what this probe says.
BookedByNews(r, ok) ==
    IF r.at = None \/ r.ok = "unknown" THEN r
    ELSE IF ok THEN [r EXCEPT !.online = AddDuration(@, r.at, tick)]
               ELSE [r EXCEPT !.offline = AddDuration(@, r.at, tick)]

\* The time since the last probe is booked on what that one said.
Booked(r, ok) ==
    IF r.at = None \/ r.ok = "unknown" THEN r
    ELSE IF r.ok = "yes" THEN [r EXCEPT !.online = AddDuration(@, r.at, tick)]
                         ELSE [r EXCEPT !.offline = AddDuration(@, r.at, tick)]

\* An outage without length leaves no trace.
CloseOutage(r) ==
    IF r.open = None THEN r
    ELSE [r EXCEPT !.open = None,
                   !.outages = IF tick > r.open THEN @ \cup {<<r.open, tick>>} ELSE @]

Turned(r, ok) ==
    CASE r.ok # "no" /\ ~ok -> [r EXCEPT !.open = tick]
      [] r.ok = "no" /\ ok -> CloseOutage(r)
      [] (r.ok = "no") = ~ok -> r

\* _prune() of _save(): old hours, old outages and too many of them.
Pruned(r) ==
    LET recent == {o \in r.outages : o[2] >= tick - KeepOutages}
        later(o) == {q \in recent : q[2] > o[2]}
        past(h) == h < HourOf(tick) - KeepHours
    IN  [r EXCEPT
            !.online = [h \in Hour |-> IF past(h) THEN 0 ELSE @[h]],
            !.offline = [h \in Hour |-> IF past(h) THEN 0 ELSE @[h]],
            !.outages = {o \in recent : Cardinality(later(o)) < MaxOutages}]

\* _projected_hourly(): on a copy, the time since the last probe is booked
\* on what that one said.
Projected(r) == Booked(r, r.ok = "yes")

LastHours(n) == {h \in Hour : HourOf(tick) - n < h /\ h <= HourOf(tick)}

\* The outage that runs; a record without its start has it since the last probe.
CurrentOutage(r) ==
    CASE r.ok # "yes" /\ r.open # None -> tick - r.open
      [] r.ok = "no" /\ r.open = None -> tick - r.at
      [] r.ok = "yes" \/ (r.ok = "unknown" /\ r.open = None) -> None

\* view(): the hours of the panel, the newest first there, and its summary.
View(r) ==
    LET p == Projected(r)
        begunIn(h) == {o \in r.outages : HourOf(o[1]) = h}
    IN  [hours |-> [h \in LastHours(DisplayHours) |->
                        [online |-> p.online[h], offline |-> p.offline[h],
                         outages |-> Cardinality(begunIn(h))]],
         offline |-> MapThenSumSet(LAMBDA h : p.offline[h], LastHours(DayHours)),
         current |-> CurrentOutage(r)]

\* record_probe(): the file is rewritten in place.
RecordProbe(ok) ==
    /\ up
    /\ record' = Pruned([Turned(Booked(record, ok), ok) EXCEPT
                            !.ok = IF ok THEN "yes" ELSE "no", !.at = tick])
    /\ kept' = record' /\ torn' = FALSE
    /\ born' = IF born = None THEN tick ELSE born
    /\ UNCHANGED <<tick, up>>

\* _load(): a file that cannot be read is a fresh start.
Load ==
    /\ ~up /\ up' = TRUE
    /\ record' = IF torn THEN Empty ELSE kept
    /\ born' = IF torn THEN None ELSE born
    /\ UNCHANGED <<tick, kept, torn>>

\* The session ends or crashes, in the middle of its last save perhaps.
Leave ==
    /\ up /\ up' = FALSE
    /\ record' = Empty /\ torn' \in {torn, TRUE}
    /\ UNCHANGED <<tick, kept, born>>

Pass == tick < LastTick /\ tick' = tick + 1 /\ UNCHANGED <<up, record, kept, torn, born>>

Init == tick = 0 /\ up = TRUE /\ record = Empty /\ kept = Empty /\ torn = FALSE /\ born = None

Next == (\E ok \in BOOLEAN : RecordProbe(ok)) \/ Load \/ Leave \/ Pass

Spec == Init /\ [][Next]_vars

----------------------------------------------------------------------------

TypeOK ==
    /\ tick \in 0..LastTick /\ born \in None..LastTick
    /\ {up, torn} \subseteq BOOLEAN
    /\ record.ok \in {"unknown", "yes", "no"} /\ Cardinality(record.outages) <= MaxOutages
    /\ {record.at, record.open} \subseteq None..LastTick

Retained(r) == {h \in Hour : h >= HourOf(r.at) - KeepHours}

\* Over sessions, crashes and restarts, every hour still kept has exactly the
\* time between the first probe of the record and the last one, however the
\* probes fell (server_uptime.py:147-162, 186-204).
HoursAddUp ==
    up /\ record.at # None =>
        \A h \in Retained(record) :
            record.online[h] + record.offline[h] = Part(born, record.at, h)

\* The offline time of such an hour is that of the outages listed and of the
\* open one: the panel's two figures agree until the list has been cut.
OfflineIsOutages ==
    up /\ record.at # None /\ Cardinality(record.outages) < MaxOutages =>
        \A h \in Retained(record) :
            record.offline[h] =
                MapThenSumSet(LAMBDA o : Part(o[1], o[2], h), record.outages)
                + IF record.open = None THEN 0 ELSE Part(record.open, record.at, h)

\* What the panel shows between two probes, which never came to the file, adds
\* up too: an hour is all the time of it the record has seen, up to now, and
\* the offline time of the day is that of its outages and of the one that runs.
ViewAddsUp ==
    up /\ record.at # None =>
        LET view == View(record)
            inDay(from, to) ==
                MapThenSumSet(LAMBDA h : Part(from, to, h), LastHours(DayHours))
        IN  /\ \A h \in DOMAIN view.hours :
                   view.hours[h].online + view.hours[h].offline = Part(born, tick, h)
            /\ Cardinality(record.outages) < MaxOutages =>
                   view.offline =
                       MapThenSumSet(LAMBDA o : inDay(o[1], o[2]), record.outages)
                       + IF view.current = None THEN 0
                         ELSE inDay(tick - view.current, tick)

\* The record adds up: its hours, its outages with them, and what is shown.
RecordAddsUp == HoursAddUp /\ OfflineIsOutages /\ ViewAddsUp
=============================================================================

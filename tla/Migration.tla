------------------------------ MODULE Migration ------------------------------
(***************************************************************************)
(* The platform server's database migration (server/storage/_migrate.py,   *)
(* _schema.py): a list of statements the version on record selects from,   *)
(* most of them in a transaction of their own and swallowing what they     *)
(* raise, run at every start and cut off by a crash between any two.       *)
(***************************************************************************)
EXTENDS Naturals, Sequences

CONSTANTS
    Latest,       \* SCHEMA_VERSION
    Rows,         \* rows of the blocks table of an old database
    MaxCrashes    \* bound

VARIABLES
    at,         \* the statement to come, or "given", "down", "up", "failed"
    disk,       \* the database as committed
    work,       \* and as the connection sees it
    begun,      \* a transaction is open
    version,    \* the version read at the start
    origin,     \* history: the database the first start found
    crashes

vars == <<at, disk, work, begun, version, origin, crashes>>

\* spare is the number of rows of blocks_new, None without such a table;
\* layout is the order of the columns of blocks: that of the schema, or with
\* the two chain columns at the end.
None == Rows + 1
Columns == {"chain", "price", "online", "api_key", "self", "snapshots"}

Database(v, columns, layout, rented) ==
    [version |-> v, columns |-> columns, layout |-> layout, rows |-> Rows, spare |-> None,
     twice |-> rented, index |-> v = Latest]

Empty == [Database(0, {}, "schema", FALSE) EXCEPT !.rows = 0]

\* What the releases before left: a release made the columns it knew, and a
\* database older than the chain columns got them at the end.  Until version
\* 11 nothing kept a worker from having two active leases.
Known(v) ==
    (IF v >= 2 THEN {"chain"} ELSE {}) \cup (IF v >= 3 THEN {"price"} ELSE {})
    \cup (IF v >= 4 THEN {"online"} ELSE {}) \cup (IF v >= 5 THEN {"api_key"} ELSE {})
    \cup (IF v >= 6 THEN {"self"} ELSE {}) \cup (IF v >= 8 THEN {"snapshots"} ELSE {})

Old ==
    {Empty} \cup
    {Database(v, Known(v), layout, rented) :
        v \in 1..Latest, layout \in {"schema", "appended"}, rented \in BOOLEAN}

Given(d) ==
    /\ d.version = Latest => ~d.twice
    /\ d.version \notin 2..5 => d.layout = "schema"

----------------------------------------------------------------------------

\* The statements, with the version that no longer needs them.
Statements ==
    <<[does |-> "script", below |-> Latest], [does |-> "chain", below |-> 2],
      [does |-> "price", below |-> 3], [does |-> "online", below |-> 4],
      [does |-> "api_key", below |-> 5], [does |-> "self", below |-> 6],
      [does |-> "spare", below |-> 6], [does |-> "copy", below |-> 6],
      [does |-> "drop", below |-> 6], [does |-> "rename", below |-> 6],
      [does |-> "snapshots", below |-> 8], [does |-> "index", below |-> Latest],
      [does |-> "record", below |-> Latest], [does |-> "commit", below |-> Latest]>>

Place(does) == CHOOSE i \in DOMAIN Statements : Statements[i].does = does

\* The next statement of this migration after the i-th.
Following(i) ==
    LET due == {j \in DOMAIN Statements : j > i /\ version < Statements[j].below}
    IN  IF due = {} THEN "up" ELSE Statements[CHOOSE j \in due : \A k \in due : j <= k].does

\* SCHEMA_SQL creates what is missing: every table of an empty database, no
\* column of an old one, and the indexes, which raise without their column or
\* over rows that break them.
ScriptRaises(d) ==
    \/ d.version # 0 /\ "api_key" \notin d.columns
    \/ d.twice /\ ~d.index

Scripted(d) ==
    IF d.version = 0 /\ d.columns = {} THEN [d EXCEPT !.columns = Columns, !.index = TRUE]
    ELSE [d EXCEPT !.columns = @ \cup {"snapshots"}, !.index = TRUE]

\* A column is there already, or comes last.
Altered(d, column) ==
    [d EXCEPT !.columns = @ \cup {column},
              !.layout = IF column = "chain" /\ "chain" \notin d.columns THEN "appended" ELSE @]

\* INSERT ... SELECT * goes by the order of the columns: created_at would get
\* the chain id, which most blocks do not have.
CopyRaises(d) == d.layout = "appended" /\ d.rows > 0

Effect(does, d) ==
    CASE does = "script" -> Scripted(d)
      [] does \in Columns -> Altered(d, does)
      [] does = "spare" -> [d EXCEPT !.spare = IF d.spare = None THEN 0 ELSE @]
      [] does = "copy" -> [d EXCEPT !.spare = @ + d.rows]
      [] does = "drop" -> [d EXCEPT !.rows = 0]
      [] does = "rename" -> [d EXCEPT !.rows = d.spare, !.spare = None, !.layout = "schema"]
      [] does = "index" -> [d EXCEPT !.index = @ \/ ~d.twice]
      [] does = "record" -> [d EXCEPT !.version = Latest]
      [] does = "commit" -> d

\* Mutant: only the version is written in a transaction.
BeginsLate(does) == does = "record"

\* An INSERT opens a transaction, which lasts until the commit at the end.
Begins(does) == does \in {"copy", "record"}

----------------------------------------------------------------------------

Give(d) ==
    /\ at = "given" /\ Given(d) /\ at' = "down"
    /\ disk' = d /\ work' = d /\ origin' = d
    /\ UNCHANGED <<begun, version, crashes>>

\* run_migrations() reads the version.
Start ==
    /\ at = "down" /\ version' = disk.version
    /\ at' = IF disk.version < Latest THEN "script" ELSE "up"
    /\ UNCHANGED <<disk, work, begun, origin, crashes>>

Execute ==
    /\ at \in {Statements[i].does : i \in DOMAIN Statements}
    /\ ~(at = "script" /\ ScriptRaises(work)) /\ ~(at = "copy" /\ CopyRaises(work))
    /\ work' = Effect(at, work)
    /\ begun' = (at # "commit" /\ (begun \/ Begins(at)))
    /\ disk' = IF begun' THEN disk ELSE work'
    /\ at' = Following(Place(at))
    /\ UNCHANGED <<version, origin, crashes>>

\* The copy's exception skips the rest of its block and leaves the
\* transaction open.
CopyFails ==
    /\ at = "copy" /\ CopyRaises(work) /\ begun' = TRUE
    /\ at' = Following(Place("rename"))
    /\ UNCHANGED <<disk, work, version, origin, crashes>>

ScriptFails ==
    /\ at = "script" /\ ScriptRaises(work) /\ at' = "failed"
    /\ UNCHANGED <<disk, work, begun, version, origin, crashes>>

\* The server stops or crashes.
Crash ==
    /\ at \notin {"given", "down"} /\ crashes < MaxCrashes
    /\ crashes' = crashes + 1 /\ at' = "down"
    /\ work' = disk /\ begun' = FALSE
    /\ UNCHANGED <<disk, version, origin>>

Init ==
    /\ at = "given" /\ disk = Empty /\ work = Empty /\ origin = Empty
    /\ begun = FALSE /\ version = 0 /\ crashes = 0

Next ==
    \/ Start \/ Execute \/ CopyFails \/ ScriptFails \/ Crash
    \/ \E d \in Old : Give(d)

Spec == Init /\ [][Next]_vars

----------------------------------------------------------------------------

TypeOK ==
    /\ at \in {"given", "down", "up", "failed"} \cup {Statements[i].does : i \in DOMAIN Statements}
    /\ disk.columns \subseteq Columns /\ begun \in BOOLEAN
    /\ ~begun => work = disk

\* Whatever statement a crash or an exception cuts the migration off at, and
\* however often, the blocks table on disk has every row it had: the rebuild
\* of the table is whole or has not happened (_migrate.py:80-107).
BlocksKept == disk.rows = origin.rows

\* A server that is up has the newest schema, without a half-built table, but
\* for the blocks table of a database that got its chain columns late; and
\* the ones that never come up are those older than the api_key column and
\* those with a worker rented twice (_migrate.py:20-165, _schema.py:126-143).
UpIsMigrated ==
    /\ at = "up" => /\ work = disk /\ work.version = Latest /\ work.index
                    /\ Columns \subseteq work.columns
                    /\ \/ work.layout = "schema" /\ work.spare = None
                       \/ origin.layout = "appended"
    /\ at = "failed" => origin.version \in 1..4 \/ origin.twice

\* A server comes up with its blocks, migrated: both of the above.
MigrationKept == BlocksKept /\ UpIsMigrated
=============================================================================

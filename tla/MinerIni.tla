------------------------------ MODULE MinerIni ------------------------------
(***************************************************************************)
(* miner.ini and the identity it keeps (config/wallet_setup.py, and        *)
(* load_settings() of config/settings.py): wallet address, worker name,    *)
(* Woodyminer name and fleet tracker id, each set by a read of the whole   *)
(* file and a write of it.  The miner and the temperature watchdog start   *)
(* over the same file in any order and may be killed at any step.          *)
(***************************************************************************)
EXTENDS Naturals, Sequences, FiniteSets, SequencesExt

CONSTANTS
    Template,     \* "example": miner.ini.example was shipped, or "fallback"
    MaxStarts     \* bound: starts of the miner and the watchdog together

VARIABLES
    ini,       \* the lines of the file that matter here, "absent" at first
    run,       \* where the miner and the watchdog are
    fresh,     \* the last id or name generated or typed
    starts,
    saved,     \* history: the wallet address that was written down
    used,      \* history: the tracker ids and names sessions ran under
    mishap     \* history: a write over another's, refused, or cut off

vars == <<ini, run, fresh, starts, saved, used, mishap>>

Program == {"miner", "watchdog"}

\* A line sets a key, in the section its place in the file makes it part of;
\* 0 stands for nothing and for a placeholder.
Line(section, key, value) == [section |-> section, key |-> key, value |-> value]

Absent == <<Line("none", "none", 0)>>

Example ==
    <<Line("account", "address", 0), Line("account", "worker", 0),
      Line("server", "base_url", 1),
      Line("monitoring", "name", 0), Line("monitoring", "tracker", 0),
      Line("cuda", "dll", 1)>>

\* What ensure_miner_ini_exists() writes by itself knows no tracker id.
Shipped == IF Template = "example" THEN Example
           ELSE SubSeq(Example, 1, 4) \o SubSeq(Example, 6, 6)

----------------------------------------------------------------------------
(* Reading and editing *)

IsSet(l, section, key) == l.section = section /\ l.key = key

\* _read_ini_value(), and configparser's get(): the first one, or nothing.
Value(section, key) ==
    LET hits == {i \in DOMAIN ini : IsSet(ini[i], section, key)}
    IN  IF hits = {} THEN 0 ELSE ini[Min(hits)].value

\* configparser raises for a key that is twice in its section; of the sections
\* load_settings() looks up, a file cut off by a crash has none.
Parses == \A i, j \in DOMAIN ini : IsSet(ini[i], ini[j].section, ini[j].key) => i = j

Complete == \A s \in {"account", "server", "monitoring"} : \E i \in DOMAIN ini : ini[i].section = s

\* A line appended to the file belongs to its last section, or to a new one.
AtEnd(section) ==
    IF \E i \in DOMAIN ini : ini[i].section = section THEN Last(ini).section ELSE section

\* Mutant: a value that is still empty counts as missing.
EditedIfSet(section, key, value) ==
    IF Value(section, key) # 0
    THEN [i \in DOMAIN ini |->
             IF IsSet(ini[i], section, key) THEN [ini[i] EXCEPT !.value = value] ELSE ini[i]]
    ELSE Append(ini, Line(AtEnd(section), key, value))

\* _set_ini_value(), on the lines it has read.
Edited(section, key, value) ==
    IF \E i \in DOMAIN ini : IsSet(ini[i], section, key)
    THEN [i \in DOMAIN ini |->
             IF IsSet(ini[i], section, key) THEN [ini[i] EXCEPT !.value = value] ELSE ini[i]]
    ELSE Append(ini, Line(AtEnd(section), key, value))

----------------------------------------------------------------------------
(* A start *)

\* What is still to be set, as <<section, key, value>>, the text about to be
\* written over the file, and the step after that.
Idle == [at |-> "out", todo |-> <<>>, text |-> <<>>, next |-> "out", tracker |-> 0, name |-> 0]

Goes(p, at, todo, next) ==
    run' = [run EXCEPT ![p] = [@ EXCEPT !.at = at, !.todo = todo, !.next = next]]

Sets(p, todo, next) == Goes(p, IF todo = <<>> THEN next ELSE "read", todo, next)

\* The watchdog loads the settings and never looks at the wallet.
Start(p) ==
    /\ run[p].at = "out" /\ starts < MaxStarts /\ starts' = starts + 1
    /\ Goes(p, IF p = "miner" THEN "wallet" ELSE "load", <<>>, "out")
    /\ ini' = IF p = "miner" /\ ini = Absent THEN Shipped ELSE ini
    /\ UNCHANGED <<fresh, saved, used, mishap>>

Fails(p) == run' = [run EXCEPT ![p] = Idle]

NeedsWallet == Value("account", "address") = 0

\* prompt_for_wallet() and prompt_for_worker_name() ask until the answer is
\* good; a typed name is no placeholder.
TypedWallet == fresh + 1
TypedName == fresh + 2

\* save_wallet_to_ini()
SavedWallet(typed) ==
    <<<<"account", "address", TypedWallet>>>>
    \o IF typed THEN <<<<"account", "worker", TypedName>>>> ELSE <<>>

\* apply_worker_name() of a typed name.
AppliedName == <<<<"account", "worker", TypedName>>, <<"monitoring", "name", TypedName>>>>

\* ensure_wallet_configured(), with somebody to ask or not; a name that is not
\* typed is left to _ensure_worker_id().
EnsureWallet(p, asked, typed) ==
    LET wallet == IF NeedsWallet THEN SavedWallet(typed) ELSE <<>> IN
    /\ run[p].at = "wallet" /\ Parses
    /\ NeedsWallet => asked
    /\ typed => asked /\ (NeedsWallet \/ Value("account", "worker") = 0)
    /\ IF typed THEN Sets(p, wallet \o AppliedName, "load") ELSE Sets(p, wallet, "names")
    /\ fresh' = CASE typed -> TypedName
                  [] ~typed /\ NeedsWallet -> TypedWallet
                  [] ~typed /\ ~NeedsWallet -> fresh
    /\ UNCHANGED <<ini, starts, saved, used, mishap>>

\* _ensure_worker_id(): what is missing takes the other's name, or a new one.
EnsureWorkerId(p) ==
    LET worker == Value("account", "worker")
        custom == Value("monitoring", "name")
        name == CASE worker # 0 -> worker
                  [] worker = 0 /\ custom # 0 -> custom
                  [] worker = 0 /\ custom = 0 -> fresh + 1
    IN
    /\ run[p].at = "names"
    /\ Sets(p, (IF worker = 0 THEN <<<<"account", "worker", name>>>> ELSE <<>>)
               \o (IF custom = 0 THEN <<<<"monitoring", "name", name>>>> ELSE <<>>), "load")
    /\ fresh' = IF worker = 0 /\ custom = 0 THEN fresh + 1 ELSE fresh
    /\ UNCHANGED <<ini, starts, saved, used, mishap>>

\* The two halves of _set_ini_value().
Read(p) ==
    LET set == Head(run[p].todo) IN
    /\ run[p].at = "read"
    /\ run' = [run EXCEPT ![p] = [@ EXCEPT !.at = "write",
                                            !.text = Edited(set[1], set[2], set[3])]]
    /\ UNCHANGED <<ini, fresh, starts, saved, used, mishap>>

Write(p) ==
    LET set == Head(run[p].todo)
        rest == Tail(run[p].todo)
    IN
    /\ run[p].at = "write" /\ ini' = run[p].text
    /\ run' = [run EXCEPT ![p] = [@ EXCEPT !.todo = rest, !.text = <<>>,
                                   !.at = IF rest = <<>> THEN run[p].next ELSE "read"]]
    /\ saved' = IF set[2] = "address" THEN set[3] ELSE saved
    /\ mishap' = (mishap \/ \E o \in Program \ {p} : run[o].todo # <<>>)
    /\ UNCHANGED <<fresh, starts, used>>

\* The file cannot be read or written: only the tracker id can do without.
Denied(p) ==
    /\ run[p].at \in {"read", "write"} /\ mishap' = TRUE
    /\ IF run[p].next = "on" THEN Goes(p, "on", <<>>, "on") ELSE Fails(p)
    /\ UNCHANGED <<ini, fresh, starts, saved, used>>

\* load_settings(), whose last call is _ensure_tracker_id(): an id that is not
\* found is made up, written down, and used.
Load(p) ==
    LET known == Value("monitoring", "tracker")
        id == IF known = 0 THEN fresh + 1 ELSE known
        missing == IF known = 0 THEN <<<<"monitoring", "tracker", id>>>> ELSE <<>>
    IN
    /\ run[p].at = "load" /\ ini # Absent /\ Parses /\ Complete
    /\ run' = [run EXCEPT ![p] = [@ EXCEPT !.todo = missing, !.tracker = id, !.next = "on",
                                            !.name = Value("monitoring", "name"),
                                            !.at = IF known = 0 THEN "read" ELSE "on"]]
    /\ fresh' = IF known = 0 THEN fresh + 1 ELSE fresh
    /\ UNCHANGED <<ini, starts, saved, used, mishap>>

\* The session reports under what was loaded.
Mine(p) ==
    /\ p = "miner" /\ run[p].at = "on" /\ Goes(p, "mining", <<>>, "out")
    /\ used' = [trackers |-> used.trackers \cup {run[p].tracker},
                names |-> used.names \cup {run[p].name}]
    /\ UNCHANGED <<ini, fresh, starts, saved, mishap>>

\* The file raises, or there is no wallet and nobody to ask.
Refuse(p) ==
    /\ \/ run[p].at = "wallet"
             /\ (~Parses \/ NeedsWallet)
       \/ run[p].at = "load" /\ (ini = Absent \/ ~Parses \/ ~Complete)
    /\ Fails(p)
    /\ UNCHANGED <<ini, fresh, starts, saved, used, mishap>>

\* The session ends, or the process is killed: write_text() leaves the file
\* empty until its one buffer is flushed.
Leave(p) ==
    /\ run[p].at # "out" /\ Fails(p)
    /\ \/ UNCHANGED <<ini, mishap>>
       \/ run[p].at = "write" /\ ini' = <<>> /\ mishap' = TRUE
    /\ UNCHANGED <<fresh, starts, saved, used>>

Init ==
    /\ ini = Absent /\ run = [p \in Program |-> Idle]
    /\ fresh = 0 /\ starts = 0 /\ saved = 0 /\ mishap = FALSE
    /\ used = [trackers |-> {}, names |-> {}]

Next ==
    \E p \in Program :
        \/ Start(p) \/ EnsureWorkerId(p) \/ Read(p) \/ Write(p) \/ Load(p)
        \/ Denied(p) \/ Mine(p) \/ Refuse(p) \/ Leave(p)
        \/ \E asked, typed \in BOOLEAN : EnsureWallet(p, asked, typed)

Spec == Init /\ [][Next]_vars
----------------------------------------------------------------------------

TypeOK ==
    /\ \A p \in Program :
          run[p].at \in {"out", "wallet", "names", "read", "write", "load", "on",
                         "mining"}
    /\ fresh \in Nat /\ saved \in 0..fresh /\ starts \in 0..MaxStarts
    /\ used.trackers \subseteq 1..fresh /\ used.names \subseteq 0..fresh

\* Whatever is set, killed, refused or written over, a file that has its
\* sections is one that configparser takes: a start never fails on a key that
\* stands there twice (wallet_setup.py:83-94).
NoKeyTwice == Complete => Parses

\* "Stable fleet tracker id for this install; write once to miner.ini"
\* (settings.py:145).
TrackerWrittenOnce == ~mishap => Cardinality(used.trackers) <= 1

\* Starts of miner and watchdog in any order, with or without a user to ask,
\* keep the wallet that was entered and the name and id the install reports
\* under, unless a write was lost (wallet_setup.py:227-259, settings.py:144-156).
IdentityKept ==
    /\ NoKeyTwice
    /\ ~mishap =>
        /\ saved # 0 => Value("account", "address") = saved
        /\ Cardinality(used.names) <= 1 /\ TrackerWrittenOnce
=============================================================================

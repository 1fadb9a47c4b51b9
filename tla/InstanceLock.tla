--------------------------- MODULE InstanceLock ---------------------------
(***************************************************************************)
(* The lock file data/miner.lock (core/instance_lock.py), as miners take   *)
(* it in startup_checks() and give it back in _finalize_session() and      *)
(* _fail_startup() of core/supervisor.py.  The file holds the process id   *)
(* of the miner that wrote it.  acquire() and release() are sequences of   *)
(* separate file operations, and process ids are used again: by another    *)
(* miner or by any other program.                                          *)
(*                                                                         *)
(* The file system is that of Windows, which the launcher and the          *)
(* documentation are for: a file that is open cannot be unlinked.          *)
(***************************************************************************)
EXTENDS Naturals

CONSTANTS Proc,     \* the miner processes
          Pid,      \* process ids
          NoFile,   \* there is no lock file
          NoPid     \* its text is not the id of any process

ASSUME LockAssumption == NoFile \notin Pid /\ NoPid \notin Pid /\ NoFile # NoPid

VARIABLES file,        \* the text of miner.lock
          pc,          \* what each process is about to do
          pid,         \* os.getpid(), NoPid when it does not run
          seen,        \* old_pid
          held,        \* what acquire() returned
          foreign,     \* the ids in use by other programs
          overlapped   \* history: two processes were in acquire() at a time

vars == <<file, pc, pid, seen, held, foreign, overlapped>>

AcquireLabel == {"exists", "read", "alive", "unlink", "open", "write"}
Label == {"off", "mining", "compare", "remove", "leaving"} \cup AcquireLabel

\* The types of the variables: an id is read only from a text that is one.
TypeOK ==
    /\ file \in Pid \cup {NoFile, NoPid}
    /\ pc \in [Proc -> Label]
    /\ pid \in [Proc -> Pid \cup {NoPid}]
    /\ seen \in [Proc -> Pid \cup {NoPid}]
    /\ held \in [Proc -> BOOLEAN]
    /\ foreign \subseteq Pid
    /\ overlapped \in BOOLEAN

Running(p) == pc[p] # "off"
Acquiring(p) == pc[p] \in AcquireLabel

\* acquire() returned True, and release() has not been called or not ended.
Holding(p) == held[p] /\ pc[p] \in {"mining", "compare", "remove"}

\* The ids _pid_alive() finds a process for.
Live == foreign \cup {pid[p] : p \in {q \in Proc : Running(q)}}

Goto(p, label) == pc' = [pc EXCEPT ![p] = label]

----------------------------------------------------------------------------
(* acquire() *)

\* The process begins, with an id that is free, and reaches the lock.
Start(p) ==
    /\ pc[p] = "off"
    /\ \E i \in Pid \ Live : pid' = [pid EXCEPT ![p] = i]
    /\ Goto(p, "exists")
    /\ overlapped' = (overlapped \/ \E q \in Proc : Acquiring(q))
    /\ UNCHANGED <<file, seen, held, foreign>>

Exists(p) ==
    /\ pc[p] = "exists"
    /\ Goto(p, IF file = NoFile THEN "open" ELSE "read")
    /\ UNCHANGED <<file, pid, seen, held, foreign, overlapped>>

\* A text that is not a number, or a file that is gone, ends the try block.
Read(p) ==
    /\ pc[p] = "read"
    /\ IF file \in Pid THEN seen' = [seen EXCEPT ![p] = file] /\ Goto(p, "alive")
                       ELSE UNCHANGED seen /\ Goto(p, "unlink")
    /\ UNCHANGED <<file, pid, held, foreign, overlapped>>

\* Mutant: the refusal is forgotten.
AliveIgnored(p) ==
    /\ pc[p] = "alive"
    /\ Goto(p, "unlink")
    /\ seen' = [seen EXCEPT ![p] = NoPid]
    /\ UNCHANGED <<file, pid, held, foreign, overlapped>>

Alive(p) ==
    /\ pc[p] = "alive"
    /\ Goto(p, IF seen[p] \in Live THEN "compare" ELSE "unlink")
    /\ seen' = [seen EXCEPT ![p] = NoPid]
    /\ UNCHANGED <<file, pid, held, foreign, overlapped>>

\* unlink(missing_ok=True), its OSError ignored: somebody may have the file
\* open, and surely has between the two steps of write_text().
Unlinked == {file} \cup IF \E q \in Proc : pc[q] = "write" THEN {} ELSE {NoFile}

Unlink(p) ==
    /\ pc[p] = "unlink"
    /\ file' \in Unlinked
    /\ Goto(p, "open")
    /\ UNCHANGED <<pid, seen, held, foreign, overlapped>>

\* write_text() opens the file, which empties it, and then writes.
Open(p) ==
    /\ pc[p] = "open"
    /\ file' = NoPid
    /\ Goto(p, "write")
    /\ UNCHANGED <<pid, seen, held, foreign, overlapped>>

\* Over a text that another process wrote meanwhile, digits may be left.
Write(p) ==
    /\ pc[p] = "write"
    /\ file' \in (IF file \in Pid THEN {pid[p], NoPid} ELSE {pid[p]})
    /\ held' = [held EXCEPT ![p] = TRUE]
    /\ Goto(p, "mining")
    /\ UNCHANGED <<pid, seen, foreign, overlapped>>

----------------------------------------------------------------------------
(* release() *)

\* The session ends, in whatever way finally: is reached by.
Finish(p) ==
    /\ pc[p] = "mining"
    /\ Goto(p, "compare")
    /\ UNCHANGED <<file, pid, seen, held, foreign, overlapped>>

\* Mutant: the file is removed whoever it belongs to.
CompareNothing(p) ==
    /\ pc[p] = "compare"
    /\ Goto(p, IF file # NoFile THEN "remove" ELSE "leaving")
    /\ UNCHANGED <<file, pid, seen, held, foreign, overlapped>>

Compare(p) ==
    /\ pc[p] = "compare"
    /\ Goto(p, IF file = pid[p] THEN "remove" ELSE "leaving")
    /\ UNCHANGED <<file, pid, seen, held, foreign, overlapped>>

Remove(p) ==
    /\ pc[p] = "remove"
    /\ file' \in Unlinked
    /\ Goto(p, "leaving")
    /\ UNCHANGED <<pid, seen, held, foreign, overlapped>>

\* The process ends, on its own or killed, wherever it is.  Its id is free.
Exit(p) ==
    /\ Running(p)
    /\ Goto(p, "off")
    /\ pid' = [pid EXCEPT ![p] = NoPid]
    /\ seen' = [seen EXCEPT ![p] = NoPid]
    /\ held' = [held EXCEPT ![p] = FALSE]
    /\ UNCHANGED <<file, foreign, overlapped>>

\* Another program begins with a free id, or ends.
OtherProgram ==
    /\ \E i \in Pid : \/ i \notin Live /\ foreign' = foreign \cup {i}
                      \/ i \in foreign /\ foreign' = foreign \ {i}
    /\ UNCHANGED <<file, pc, pid, seen, held, overlapped>>

----------------------------------------------------------------------------

Init ==
    /\ file \in Pid \cup {NoFile, NoPid}
    /\ pc = [p \in Proc |-> "off"]
    /\ pid = [p \in Proc |-> NoPid]
    /\ seen = [p \in Proc |-> NoPid]
    /\ held = [p \in Proc |-> FALSE]
    /\ foreign = {}
    /\ overlapped = FALSE

Acquire(p) == Exists(p) \/ Read(p) \/ Alive(p) \/ Unlink(p) \/ Open(p) \/ Write(p)

Release(p) == Finish(p) \/ Compare(p) \/ Remove(p)

Next ==
    \/ \E p \in Proc : Start(p) \/ Acquire(p) \/ Release(p) \/ Exit(p)
    \/ OtherProgram

Spec == Init /\ [][Next]_vars

----------------------------------------------------------------------------

\* As long as no two miners were inside acquire() at the same time, at most
\* one holds the lock, whatever was left behind by crashes and whoever has
\* the old process ids now.
SerialStartsExclude ==
    ~overlapped => \A p, q \in Proc : Holding(p) /\ Holding(q) => p = q

\* release() by a miner that was refused, and by one that is late, does not
\* take the file away from the miner that holds the lock.
HolderOnRecord ==
    ~overlapped => \A p \in Proc : pc[p] = "mining" => file = pid[p]
===========================================================================

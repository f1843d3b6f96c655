----------------------------- MODULE ConfigLock -----------------------------
(***************************************************************************)
(* One ADM launch per Claude configuration directory                       *)
(* (manager/claude_config_locks.py; execution_runner.run_execution takes   *)
(* the lock before it prepares the Claude process and frees it after it    *)
(* has closed it; claude_launcher.py starts and kills the process).        *)
(*                                                                         *)
(* The table of owners is one file, read and replaced under a lock on      *)
(* another file, so a step on it is atomic.  An owner is recorded by its   *)
(* process; the entry of a process that is provably gone may be taken.     *)
(* The Claude process does not end with the process that started it.       *)
(***************************************************************************)
EXTENDS Naturals

CONSTANTS
    Launches,      \* executions that launch Claude, each once
    Directories,   \* canonical configuration directories
    Process(_),    \* the ADM process that runs a launch
    Free           \* no entry in the table

ASSUME FreeIsNoLaunch == Free \notin Launches

VARIABLES
    directory,     \* the directory of each launch: several accounts may resolve to one
    table,         \* the launch recorded as owner of each directory
    at,            \* where each launch is
    child,         \* its Claude process is running
    dead           \* the ADM processes that have ended

lockvars == <<directory, table, at, child, dead>>

Live(l) == Process(l) \notin dead

\* What process_identity_state may say of an owner; a process in doubt is never taken for gone.
Liveness(owner) == IF Live(owner) THEN {"live", "unknown"} ELSE {"stopped", "replaced", "unknown"}

Reclaimable == {"stopped", "replaced"}

Init ==
    /\ directory \in [Launches -> Directories]
    /\ table = [d \in Directories |-> Free]
    /\ at = [l \in Launches |-> "idle"]
    /\ child = [l \in Launches |-> FALSE]
    /\ dead = {}

Go(l, from, to) == Live(l) /\ at[l] = from /\ at' = [at EXCEPT ![l] = to]

\* Mutant: an owner in doubt is taken for gone.
MayTakeMutant(l) ==
    LET owner == table[directory[l]]
    IN \/ owner \in {Free, l}
       \/ owner \notin {Free, l} /\ Liveness(owner) \ {"live"} # {}

\* The entry is free, is the caller's own, or its owner's process is provably gone.
MayTake(l) ==
    LET owner == table[directory[l]]
    IN \/ owner \in {Free, l}
       \/ owner \notin {Free, l} /\ Liveness(owner) \cap Reclaimable # {}

Acquire(l) ==
    /\ Go(l, "idle", "holds") /\ MayTake(l)
    /\ table' = [table EXCEPT ![directory[l]] = l]
    /\ UNCHANGED <<directory, child, dead>>

\* Mutant: a launch that could not start releases what it has not acquired.
AcquireFailsMutant(l) ==
    /\ Go(l, "idle", "done")
    /\ table' = [table EXCEPT ![directory[l]] = Free]
    /\ UNCHANGED <<directory, child, dead>>

\* The directory is busy, the owner in doubt, or the table contended: the launch ends there.
AcquireFails(l) ==
    /\ Go(l, "idle", "done")
    /\ UNCHANGED <<directory, table, child, dead>>

Spawn(l) ==
    /\ Go(l, "holds", "runs")
    /\ child' = [child EXCEPT ![l] = TRUE]
    /\ UNCHANGED <<directory, table, dead>>

\* Not authenticated, not started, or not identified: what was started is killed.
SpawnFails(l) ==
    /\ Go(l, "holds", "closed")
    /\ UNCHANGED <<directory, table, child, dead>>

\* The turn ends or times out and the process is killed; the kill may fail unnoticed.
CloseLaunch(l) ==
    /\ Go(l, "runs", "closed")
    /\ \E killed \in BOOLEAN : child' = [child EXCEPT ![l] = @ /\ ~killed]
    /\ UNCHANGED <<directory, table, dead>>

ChildEnds(l) ==
    /\ child[l] /\ child' = [child EXCEPT ![l] = FALSE]
    /\ UNCHANGED <<directory, table, at, dead>>

\* Only an entry of this process is removed; a contended table keeps it, and so does one
\* that holds another owner's entry.
Release(l) ==
    /\ Go(l, "closed", "done")
    /\ LET owner == table[directory[l]]
       IN \/ /\ owner # Free /\ Process(owner) = Process(l)
             /\ table' = [table EXCEPT ![directory[l]] = Free]
          \/ UNCHANGED table
    /\ UNCHANGED <<directory, child, dead>>

\* The ADM process ends, or is killed in the middle; what it started goes on.
ProcessEnds(l) ==
    /\ Live(l) /\ dead' = dead \cup {Process(l)}
    /\ UNCHANGED <<directory, table, at, child>>

Next ==
    \E l \in Launches :
        \/ Acquire(l) \/ AcquireFails(l) \/ Spawn(l) \/ SpawnFails(l)
        \/ CloseLaunch(l) \/ ChildEnds(l) \/ Release(l) \/ ProcessEnds(l)

Spec == Init /\ [][Next]_lockvars

-----------------------------------------------------------------------------

TypeOK ==
    /\ directory \in [Launches -> Directories]
    /\ table \in [Directories -> Launches \cup {Free}]
    /\ at \in [Launches -> {"idle", "holds", "runs", "closed", "done"}]
    /\ child \in [Launches -> BOOLEAN]

Holds(l) == Live(l) /\ at[l] \in {"holds", "runs", "closed"}

(* Of two launches whose ADM processes live, never both are between their    *)
(* acquire and their release on one directory, in one process or in two,     *)
(* under one account or two that resolve to one directory.                   *)
Exclusive ==
    \A l, m \in Launches :
        Holds(l) /\ Holds(m) /\ directory[l] = directory[m] => l = m

(* An entry goes only with its owner: by its release, or after its process   *)
(* has ended.                                                                *)
EntryKept ==
    [][\A d \in Directories :
         table[d] # Free /\ table'[d] # table[d] /\ Live(table[d])
           => at[table[d]] = "closed" /\ at'[table[d]] = "done"]_lockvars

(* "Makes sure ADM itself never launches two child Claude processes against  *)
(* the same real, on-disk config directory at once".                         *)
OneClaude ==
    \A l, m \in Launches :
        child[l] /\ child[m] /\ directory[l] = directory[m] => l = m
=============================================================================

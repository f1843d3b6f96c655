---------------------------- MODULE SessionCenter ----------------------------
(***************************************************************************)
(* The Session Center, its supervisor and the watcher's health gate        *)
(* (manager/session_center_supervisor.py, session_center.py,               *)
(* command_watcher.py: process_command's gate and its read-only replay).   *)
(*                                                                         *)
(* A run of the supervisor, alone under its lock, reads the state file,    *)
(* finds the Command to follow, checks the process the file names, kills   *)
(* it, probes the port, spawns a Session Center and saves the file.  The   *)
(* watcher claims a queued Command only while a Session Center answers on  *)
(* the port.  Process ids are used again: a process is the one that was    *)
(* recorded only while it has not ended since.                             *)
(***************************************************************************)
EXTENDS Naturals, FiniteSets

CONSTANTS
    Commands,    \* a set of numbers, in the order they were created
    Pids,        \* process ids of the host (bound of the model)
    MaxFaults    \* killed runs, failed listings, kills and identity reads, crashed centers (bound)

VARIABLES
    command,     \* status of each Command
    centers,     \* the process of each pid
    port,        \* the pid that listens, 0 for none
    file,        \* the state file; same: its process has not ended since it was recorded
    run,         \* the run of the supervisor in progress
    faults,      \* faults left
    victims      \* what else the supervisor has killed than Session Centers

centervars == <<command, centers, port, file, run, faults, victims>>

Nobody  == [kind |-> "none", follows |-> 0, view |-> "none", dying |-> FALSE]
Nothing == [pid |-> 0, follows |-> 0, same |-> FALSE]
NoRun   == [at |-> "idle", target |-> 0, kill |-> 0, ended |-> FALSE]

Init ==
    /\ command = [c \in Commands |-> "none"]
    /\ centers = [p \in Pids |-> Nobody]
    /\ port = 0 /\ file = Nothing /\ run = NoRun
    /\ faults = MaxFaults /\ victims = {}

Fault == faults > 0 /\ faults' = faults - 1

Newest(cs) == IF cs = {} THEN 0 ELSE CHOOSE c \in cs : \A d \in cs : d <= c

With(statuses) == {c \in Commands : command[c] \in statuses}

\* The newest claimed or running Command; when there is none, the newest queued one that
\* only waits for the Session Center.
Followed(seen) ==
    LET active == seen \cap With({"claimed", "running"})
    IN IF active # {} THEN Newest(active) ELSE Newest(seen \cap With({"queued"}))

-----------------------------------------------------------------------------
(* A run of the supervisor.                                                *)

\* What the listings return; one that failed, or had no time left, returns less.
Find ==
    /\ run.at = "idle"
    /\ \/ run' = [NoRun EXCEPT !.at = "found", !.target = Followed(Commands)] /\ UNCHANGED faults
       \/ /\ Fault
          /\ \E seen \in SUBSET Commands :
               run' = [NoRun EXCEPT !.at = "found", !.target = Followed(seen)]
    /\ UNCHANGED <<command, centers, port, file, victims>>

\* process_identity_state says "live" only of the very process that was recorded.
VerifiedAlive == file.pid # 0 /\ file.same

\* Mutant: a center that lives is kept, whatever it follows.
DecideKeepMutant ==
    /\ run.at = "found"
    /\ run' = IF (run.target = 0 /\ file.follows = 0) \/ (run.target # 0 /\ VerifiedAlive)
              THEN NoRun
              ELSE [run EXCEPT !.at = "decided", !.kill = IF VerifiedAlive THEN file.pid ELSE 0]
    /\ UNCHANGED <<command, centers, port, file, faults, victims>>

\* Mutant: the recorded pid is killed without a look at its identity.
DecideKillMutant ==
    /\ run.at = "found"
    /\ run' = IF (run.target = file.follows) /\ (run.target = 0 \/ VerifiedAlive)
              THEN NoRun
              ELSE [run EXCEPT !.at = "decided", !.kill = file.pid]
    /\ UNCHANGED <<command, centers, port, file, faults, victims>>

Decide ==
    /\ run.at = "found"
    /\ run' = IF (run.target = file.follows) /\ (run.target = 0 \/ VerifiedAlive)
              THEN NoRun
              ELSE [run EXCEPT !.at = "decided", !.kill = IF VerifiedAlive THEN file.pid ELSE 0]
    /\ UNCHANGED <<command, centers, port, file, faults, victims>>

\* The kill names the pid, and nobody looks whether it worked.
KillOld ==
    /\ run.at = "decided"
    /\ run' = [run EXCEPT !.at = IF run.target = 0 THEN "clear" ELSE "probe"]
    /\ IF run.kill = 0 \/ centers[run.kill].kind = "none"
       THEN UNCHANGED <<centers, faults, victims>>
       ELSE \/ /\ centers' = [centers EXCEPT ![run.kill].dying = TRUE]
               /\ victims' = IF run.ended THEN victims ELSE victims \cup ({centers[run.kill].kind} \ {"center"})
               /\ UNCHANGED faults
            \/ Fault /\ UNCHANGED <<centers, victims>>
    /\ UNCHANGED <<command, port, file>>

Clear ==
    /\ run.at = "clear"
    /\ file' = Nothing /\ run' = NoRun
    /\ UNCHANGED <<command, centers, port, faults, victims>>

\* Somebody listens: nothing is spawned, and the file stays as it was.
PortTaken ==
    /\ run.at = "probe" /\ port # 0
    /\ run' = NoRun
    /\ UNCHANGED <<command, centers, port, file, faults, victims>>

Spawn ==
    /\ run.at = "probe" /\ port = 0
    /\ \E p \in Pids :
         /\ centers[p].kind = "none"
         /\ centers' = [centers EXCEPT ![p] = [kind |-> "center", follows |-> run.target,
                                               view |-> "starting", dying |-> FALSE]]
         /\ run' = [run EXCEPT !.at = "spawned", !.kill = p, !.ended = FALSE]
    /\ UNCHANGED <<command, port, file, faults, victims>>

\* Without an identity, what is saved reads as "nothing known".
Save ==
    /\ run.at = "spawned"
    /\ \/ /\ file' = [pid |-> run.kill, follows |-> run.target, same |-> ~run.ended]
          /\ UNCHANGED faults
       \/ Fault /\ file' = Nothing
    /\ run' = NoRun
    /\ UNCHANGED <<command, centers, port, victims>>

\* The run is killed, at its time limit or with the host's session; its lock goes with it.
RunKilled ==
    /\ run.at # "idle" /\ Fault
    /\ run' = NoRun
    /\ UNCHANGED <<command, centers, port, file, victims>>

Supervisor == Find \/ Decide \/ KillOld \/ Clear \/ PortTaken \/ Spawn \/ Save

-----------------------------------------------------------------------------
(* The processes of the host.                                              *)

Ended(p) ==
    /\ centers' = [centers EXCEPT ![p] = Nobody]
    /\ port' = IF port = p THEN 0 ELSE port
    /\ file' = IF file.pid = p THEN [file EXCEPT !.same = FALSE] ELSE file
    /\ run' = IF run.kill = p THEN [run EXCEPT !.ended = TRUE] ELSE run

\* The port is bound before anything is read; a center that finds it taken ends.
Bind(p) ==
    /\ centers[p].view = "starting" /\ ~centers[p].dying
    /\ IF port = 0
       THEN /\ port' = p
            /\ centers' = [centers EXCEPT ![p].view = "correlating"]
            /\ UNCHANGED <<file, run>>
       ELSE Ended(p)
    /\ UNCHANGED <<command, faults, victims>>

Linked(c) == command[c] \in {"running", "done"}

\* The background resolver swaps the view once, for the session of its own Execution.
Resolve(p) ==
    /\ centers[p].view = "correlating" /\ Linked(centers[p].follows)
    /\ centers' = [centers EXCEPT ![p].view = "live"]
    /\ UNCHANGED <<command, port, file, run, faults, victims>>

\* Its wait is over: the view says so for as long as the center lives.
WaitEnds(p) ==
    /\ centers[p].view = "correlating"
    /\ centers' = [centers EXCEPT ![p].view = "failed"]
    /\ UNCHANGED <<command, port, file, run, faults, victims>>

Dies(p) ==
    /\ centers[p].dying /\ Ended(p)
    /\ UNCHANGED <<command, faults, victims>>

\* A center crashes, or is closed by somebody.
Crash(p) ==
    /\ centers[p].kind = "center" /\ Fault /\ Ended(p)
    /\ UNCHANGED <<command, victims>>

\* Another program of the host gets a pid that the supervisor still remembers.
OtherStarts(p) ==
    /\ centers[p].kind = "none" /\ p \in {file.pid, run.kill}
    /\ \E q \in Pids \ {p} : centers[q].kind = "none"
    /\ centers' = [centers EXCEPT ![p] = [Nobody EXCEPT !.kind = "other"]]
    /\ UNCHANGED <<command, port, file, run, faults, victims>>

OtherEnds(p) ==
    /\ centers[p].kind = "other" /\ Ended(p)
    /\ UNCHANGED <<command, faults, victims>>

-----------------------------------------------------------------------------
(* The Commands.                                                           *)

Healthy == port # 0

Moves(c, from, to) ==
    /\ command[c] = from /\ command' = [command EXCEPT ![c] = to]
    /\ UNCHANGED <<centers, port, file, run, faults, victims>>

Queue(c) == Moves(c, "none", "queued") /\ \A d \in Commands : d < c => command[d] # "none"

Claim(c) == Healthy /\ Moves(c, "queued", "claimed")

Start(c) == Moves(c, "claimed", "running")

Finish(c) == Moves(c, "running", "done")

CenterStep(p) == Bind(p) \/ Resolve(p) \/ WaitEnds(p) \/ Dies(p) \/ Crash(p) \/ OtherStarts(p) \/ OtherEnds(p)

Next ==
    \/ Supervisor \/ RunKilled
    \/ \E p \in Pids : CenterStep(p)
    \/ \E c \in Commands : Queue(c) \/ Claim(c) \/ Start(c) \/ Finish(c)

Spec == Init /\ [][Next]_centervars

-----------------------------------------------------------------------------

TypeOK ==
    /\ command \in [Commands -> {"none", "queued", "claimed", "running", "done"}]
    /\ \A p \in Pids : centers[p].kind \in {"none", "center", "other"}
    /\ port \in Pids \cup {0} /\ file.pid \in Pids \cup {0}

(* The supervisor kills only Session Centers (session_center_supervisor.py:  *)
(* 19-25), save a process that got the pid of the verified one in the same   *)
(* run.                                                                      *)
OnlyOwnKilled == victims = {}

Tracked(p) == file.pid = p /\ file.same

Stray(p) == centers[p].kind = "center" /\ ~centers[p].dying /\ ~Tracked(p)

(* Every Session Center is one the state file names, the one a run has just  *)
(* spawned, or what a fault has left: changing the Command that is followed, *)
(* however often and early, leaves no center behind.                         *)
NoStray ==
    faults = MaxFaults =>
        \A p \in Pids : Stray(p) => run.at = "spawned" /\ run.kill = p

(* The watcher waits for a Session Center and the Session Center for a       *)
(* Command; a queued Command is claimed all the same, after any faults.      *)
ColdStart ==
    \A c \in Commands : command[c] = "queued" ~> command[c] # "queued"

\* A center that follows the Command is on the port, and has settled what it shows of a running one.
Follows(c) ==
    \E p \in Pids : /\ port = p /\ centers[p].follows = c
                    /\ command[c] = "running" => centers[p].view \in {"live", "failed"}

(* While one Command remains the one to follow, the center on the port comes *)
(* to follow it, unless a center that no file names holds the port.          *)
FollowsInTheEnd ==
    \A c \in Commands :
        (<>[](Followed(Commands) = c)) =>
            <>[](Follows(c) \/ \E p \in Pids : port = p /\ Stray(p))
=============================================================================

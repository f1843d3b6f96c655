------------------------------- MODULE MCHost -------------------------------
(* Five components of a host for TLC, one at a time: part says which of them *)
(* moves, the others stay where they start.                                  *)
EXTENDS ConfigLock

VARIABLES
    part,                                         \* "lock", "app", "center", "tasks" or "retry"
    caller, client, server, pipe,                             \* AppServerClient
    command, centers, port, file, run, faults, victims,       \* SessionCenter
    enabled, tick, heart, marker, cooldown, errors, seen,     \* RuntimeSupervisor
    cmd, exe, task, handoff, root, lease, prov, pc, my, stumbles   \* CommandWatcher

CONSTANTS
    l1, l2, l3, d1, d2, c1, c2, w1, NoCommand, NoProc,
    MaxAsks,              \* AppServerClient
    Commands, Pids,       \* SessionCenter
    Components, Sound,    \* RuntimeSupervisor
    MaxFaults             \* faults of a Session Center's host, and of a sweep (bound)

ASSUME HostAssumption ==
    /\ MaxAsks \in Nat /\ MaxFaults \in Nat
    /\ Commands \subseteq Nat \ {0} /\ Pids \subseteq Nat \ {0}

App == INSTANCE AppServerClient
Center == INSTANCE SessionCenter
Tasks == INSTANCE RuntimeSupervisor

\* A Command and its retry, launched inline by a watcher that loses a call and is started again.
Retry == INSTANCE CommandWatcher WITH
    Command <- {c1, c2}, First <- c1, Prior <- [c \in {c2} |-> c1], Worker <- {}, Watcher <- {w1},
    Verdict <- {"completed"}, Write <- FALSE, Async <- FALSE, Threshold <- 1,
    Unreliable <- {w1}, MaxFaults <- 1, Mortal <- {w1}, MaxCrashes <- 1, faults <- stumbles

\* The first two launches are of one ADM process.
TwoProcesses(l) == IF l = l3 THEN 2 ELSE 1

appvars == <<caller, client, server, pipe>>
centervars == <<command, centers, port, file, run, faults, victims>>
taskvars == <<enabled, tick, heart, marker, cooldown, errors, seen>>
retryvars == <<cmd, exe, task, handoff, root, lease, prov, pc, my, stumbles>>
hostvars == <<part, lockvars, appvars, centervars, taskvars, retryvars>>

HostInit ==
    /\ part \in {"lock", "app", "center", "tasks", "retry"}
    /\ Init /\ App!Init /\ Center!Init /\ Tasks!Init /\ Retry!Init
    /\ part # "lock" => directory = [l \in Launches |-> d1]
    /\ part # "app" => ~caller.governed
    /\ part # "tasks" => heart = Tasks!Blank

HostNext ==
    /\ UNCHANGED part
    /\ \/ part = "lock" /\ Next /\ UNCHANGED <<appvars, centervars, taskvars, retryvars>>
       \/ part = "app" /\ App!Next /\ UNCHANGED <<lockvars, centervars, taskvars, retryvars>>
       \/ part = "center" /\ Center!Next /\ UNCHANGED <<lockvars, appvars, taskvars, retryvars>>
       \/ part = "tasks" /\ Tasks!Next /\ UNCHANGED <<lockvars, appvars, centervars, retryvars>>
       \/ part = "retry" /\ Retry!Next /\ UNCHANGED <<lockvars, appvars, centervars, taskvars>>

\* A launch: timeouts pass, both threads run, and a process that is told to stop stops (it is killed).
AppFairness ==
    /\ WF_appvars(part = "app" /\ App!Caller) /\ WF_appvars(part = "app" /\ App!Reader)
    /\ WF_appvars(part = "app" /\ server.process = "stopping" /\ App!ServerExits)

\* The supervisor is started every minute; a center binds the port or gives up, settles its
\* view, and one that is told to stop stops; the watcher claims what is queued once a center is
\* there.
CenterFairness ==
    /\ WF_centervars(part = "center" /\ Center!Supervisor)
    /\ \A p \in Pids :
         WF_centervars(part = "center" /\ (Center!Bind(p) \/ Center!Resolve(p) \/ Center!Dies(p)))
    /\ \A c \in Commands : WF_centervars(part = "center" /\ Center!Claim(c))

\* Time passes; the triggers of the sound components fire, and their ticks end.
TaskFairness ==
    /\ \A c \in Sound : WF_taskvars(part = "tasks" /\ (Tasks!Trigger(c) \/ Tasks!Tick(c)))
    /\ \A c \in Components \ Sound : WF_taskvars(part = "tasks" /\ Tasks!CooldownEnds(c))
    /\ WF_taskvars(part = "tasks" /\ Tasks!MarkerAges)

HostFairness == AppFairness /\ CenterFairness /\ TaskFairness

HostSpec == HostInit /\ [][HostNext]_hostvars /\ HostFairness

(* A Codex launch (codex_launcher.py): what it is told ended has     *)
(* ended, an answer is the answer to its own call, and nothing but edits of  *)
(* files is approved.                                                        *)
AppSafe ==
    part = "app" => App!TypeOK /\ App!CompletionEarned /\ App!AnswerIsOurs /\ App!OnlyFileChanges

(* Session Centers (session_center_supervisor.py): only their own processes  *)
(* are killed, and none is left behind.                                      *)
CenterSafe == part = "center" => Center!TypeOK /\ Center!OnlyOwnKilled /\ Center!NoStray

(* Scheduled components (runtime_supervisor.py): what an operator    *)
(* disabled is left alone, and nothing is started twice within its cooldown. *)
TasksSafe == part = "tasks" => Tasks!TypeOK /\ Tasks!DisabledLeftAlone /\ Tasks!CooldownKept

(* A retry claims the Task after the attempt's verdict is handed off         *)
(* (executions.py:376-422).                                                  *)
RetryContained == part = "retry" => Retry!RetryAfterVerdict

(* What must happen on a host: a Codex launch ends; a queued Command meets   *)
(* its Session Center, which follows it; a component that stopped is started *)
(* again.                                                                    *)
HostLives ==
    /\ part = "app" => App!Ends
    /\ part = "center" => Center!ColdStart /\ Center!FollowsInTheEnd
    /\ part = "tasks" => Tasks!StartedAgain
=============================================================================

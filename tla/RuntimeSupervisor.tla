-------------------------- MODULE RuntimeSupervisor --------------------------
(***************************************************************************)
(* Self-heal of the scheduled components (manager/runtime_supervisor.py,   *)
(* scheduler_provenance.py).                                               *)
(*                                                                         *)
(* At the end of its tick a component writes its heartbeat and, unless     *)
(* another did so a moment ago, sweeps all components: one whose heartbeat *)
(* is stale, whose task is enabled and not running, and which was not      *)
(* started a short while ago, is started.  Heartbeats, debounce marker and *)
(* cooldowns are files that are read, changed and replaced without a lock. *)
(* Marks of time are "fresh" until their time has passed, then "stale".    *)
(***************************************************************************)
EXTENDS Naturals

CONSTANTS
    Components,   \* the scheduled components
    Sound,        \* those whose tasks stay enabled, whose triggers fire and whose ticks end
    MaxFaults     \* heartbeat files that cannot be read, ticks killed, starts that fail (bound)

VARIABLES
    enabled,    \* the scheduled task of each component
    tick,       \* what each component's process is doing
    heart,      \* the heartbeat file
    marker,     \* the last sweep
    cooldown,   \* the cooldown file; no entry is as good as an old one
    errors,     \* faults left
    seen        \* what the sweeps have done that they should not: see the properties

supervars == <<enabled, tick, heart, marker, cooldown, errors, seen>>

Marks == {"none", "fresh", "stale"}
Blank == [c \in Components |-> "none"]

\* A tick: its step, the files it has read, the components it has to sweep, the one at hand,
\* and whether that one's task was not known, or was disabled by the user since.
Idle == [at |-> "idle", copy |-> Blank, times |-> Blank, left |-> {}, one |-> "none", doubt |-> FALSE]

Init ==
    /\ enabled = [c \in Components |-> TRUE]
    /\ tick = [c \in Components |-> Idle]
    /\ heart \in [Components -> {"none", "stale"}]
    /\ marker = "stale" /\ cooldown = [c \in Components |-> "stale"]
    /\ errors = MaxFaults /\ seen = {}

Error == errors > 0 /\ errors' = errors - 1

Running(c) == tick[c].at # "idle"

Sweeping(c) == tick[c].at \in {"sweep", "run", "note"}

At(c, step) == tick[c].at = step

-----------------------------------------------------------------------------

\* The scheduler starts a tick of an enabled task that is not running.
Trigger(c) ==
    /\ enabled[c] /\ At(c, "idle")
    /\ tick' = [tick EXCEPT ![c].at = "work"]
    /\ UNCHANGED <<enabled, heart, marker, cooldown, errors, seen>>

\* A heartbeat file that cannot be read counts as an empty one.
BeatRead(c) ==
    /\ At(c, "work")
    /\ \/ tick' = [tick EXCEPT ![c].at = "beat", ![c].copy = heart] /\ UNCHANGED errors
       \/ tick' = [tick EXCEPT ![c].at = "beat", ![c].copy = Blank] /\ Error
    /\ UNCHANGED <<enabled, heart, marker, cooldown, seen>>

BeatWrite(c) ==
    /\ At(c, "beat")
    /\ heart' = [tick[c].copy EXCEPT ![c] = "fresh"]
    /\ tick' = [tick EXCEPT ![c] = [Idle EXCEPT !.at = "gate"]]
    /\ UNCHANGED <<enabled, marker, cooldown, errors, seen>>

GateRead(c) ==
    /\ At(c, "gate")
    /\ tick' = [tick EXCEPT ![c] = IF marker = "fresh" THEN Idle ELSE [Idle EXCEPT !.at = "open"]]
    /\ UNCHANGED <<enabled, heart, marker, cooldown, errors, seen>>

\* The marker is replaced, and the heartbeats are read once for the whole sweep.
GateWrite(c) ==
    /\ At(c, "open")
    /\ marker' = "fresh"
    /\ tick' = [tick EXCEPT ![c] = [Idle EXCEPT !.at = "sweep", !.copy = heart, !.left = Components]]
    /\ seen' = seen \cup (IF \E d \in Components \ {c} : Sweeping(d) THEN {"overlap"} ELSE {})
    /\ UNCHANGED <<enabled, heart, cooldown, errors>>

\* The heartbeat is stale and the task is neither disabled nor running, as far as its query
\* says: one that runs may be wedged and is left alone.  A query without an answer says nothing.
Degraded(c, d, answered) ==
    /\ tick[c].copy[d] = "stale"
    /\ answered => enabled[d] /\ ~Running(d)

\* A sweep goes through the components in a fixed order.
First(left) == CHOOSE d \in left : TRUE

\* The sweep goes on to the next component, and with the last one the tick ends.
Continue(sweeper) == IF sweeper.left = {} THEN Idle ELSE [sweeper EXCEPT !.at = "sweep"]

\* Mutant: the cooldown is not looked at.
InspectMutant(c) ==
    /\ At(c, "sweep")
    /\ LET d == First(tick[c].left)
           looked == [tick[c] EXCEPT !.left = @ \ {d}, !.copy[d] = "none"]
       IN tick' = [tick EXCEPT ![c] = IF Degraded(c, d, TRUE) THEN [looked EXCEPT !.one = d, !.at = "run"]
                                      ELSE Continue(looked)]
    /\ UNCHANGED <<enabled, heart, marker, cooldown, errors, seen>>

\* A component is looked at; the query may stay without an answer.
Inspect(c) ==
    /\ At(c, "sweep")
    /\ \E answered \in BOOLEAN :
         LET d == First(tick[c].left)
             looked == [tick[c] EXCEPT !.left = @ \ {d}, !.copy[d] = "none"]
         IN /\ tick' = [tick EXCEPT ![c] =
                          IF Degraded(c, d, answered) /\ cooldown[d] # "fresh"
                          THEN [looked EXCEPT !.one = d, !.at = "run", !.doubt = ~answered]
                          ELSE Continue(looked)]
            /\ IF answered THEN UNCHANGED errors ELSE Error
    /\ UNCHANGED <<enabled, heart, marker, cooldown, seen>>

\* schtasks /Run starts a task that is not running, a disabled one too; it may fail.
\* The attempt is recorded over the cooldowns that are read after it.
Run(c) ==
    /\ At(c, "run")
    /\ LET d == tick[c].one
           noted == [tick EXCEPT ![c].at = "note", ![c].times = cooldown]
       IN /\ \/ /\ tick' = [noted EXCEPT ![d].at = IF Running(d) THEN @ ELSE "work"]
                /\ UNCHANGED errors
             \/ tick' = noted /\ Error
          /\ seen' = seen
               \cup (IF enabled[d] \/ tick[c].doubt THEN {} ELSE {"disabled"})
               \cup (IF cooldown[d] # "fresh" \/ "overlap" \in seen THEN {} ELSE {"hot"})
    /\ UNCHANGED <<enabled, heart, marker, cooldown>>

Note(c) ==
    /\ At(c, "note")
    /\ cooldown' = [tick[c].times EXCEPT ![tick[c].one] = "fresh"]
    /\ tick' = [tick EXCEPT ![c] = Continue([@ EXCEPT !.times = Blank, !.one = "none", !.doubt = FALSE])]
    /\ UNCHANGED <<enabled, heart, marker, errors, seen>>

TickKilled(c) ==
    /\ Running(c) /\ Error
    /\ tick' = [tick EXCEPT ![c] = Idle]
    /\ UNCHANGED <<enabled, heart, marker, cooldown, seen>>

Tick(c) ==
    BeatRead(c) \/ BeatWrite(c) \/ GateRead(c) \/ GateWrite(c) \/ Inspect(c) \/ Run(c) \/ Note(c)

\* The user, by the Tray or in the Task Scheduler; the sound components stay enabled.
Switch(c) ==
    /\ c \notin Sound
    /\ enabled' = [enabled EXCEPT ![c] = ~@]
    /\ tick' = [d \in Components |->
                  [tick[d] EXCEPT !.doubt = @ \/ (tick[d].at = "run" /\ tick[d].one = c)]]
    /\ UNCHANGED <<heart, marker, cooldown, errors, seen>>

-----------------------------------------------------------------------------
(* Time passes, for the files and for what a tick has read of them to      *)
(* write it again.                                                         *)

Aged(marks, c) == IF marks[c] = "fresh" THEN [marks EXCEPT ![c] = "stale"] ELSE marks

HeartAges(c) ==
    /\ heart[c] = "fresh"
    /\ heart' = Aged(heart, c)
    /\ tick' = [d \in Components |->
                  IF At(d, "beat") THEN [tick[d] EXCEPT !.copy = Aged(@, c)] ELSE tick[d]]
    /\ UNCHANGED <<enabled, marker, cooldown, errors, seen>>

CooldownEnds(c) ==
    /\ cooldown[c] = "fresh"
    /\ cooldown' = Aged(cooldown, c)
    /\ tick' = [d \in Components |-> [tick[d] EXCEPT !.times = Aged(@, c)]]
    /\ UNCHANGED <<enabled, heart, marker, errors, seen>>

MarkerAges ==
    /\ marker = "fresh" /\ marker' = "stale"
    /\ UNCHANGED <<enabled, tick, heart, cooldown, errors, seen>>

Next ==
    \/ \E c \in Components :
         Trigger(c) \/ Tick(c) \/ TickKilled(c) \/ Switch(c) \/ HeartAges(c) \/ CooldownEnds(c)
    \/ MarkerAges

Spec == Init /\ [][Next]_supervars

-----------------------------------------------------------------------------

TypeOK ==
    /\ enabled \in [Components -> BOOLEAN]
    /\ heart \in [Components -> Marks] /\ cooldown \in [Components -> Marks]
    /\ marker \in Marks
    /\ \A c \in Components :
         /\ tick[c].at \in {"idle", "work", "beat", "gate", "open", "sweep", "run", "note"}
         /\ At(c, "sweep") => tick[c].left # {}

(* A task that its query reports disabled is never started by a sweep        *)
(* (runtime_supervisor.py:29-39), but for one disabled after the query.      *)
DisabledLeftAlone == "disabled" \notin seen

(* A component is started again within its cooldown only when two sweeps     *)
(* have run at once: what another sweep has recorded is otherwise kept.      *)
CooldownKept == "hot" \notin seen

(* As long as one other component ticks, an enabled component that has       *)
(* stopped is started again, unless its heartbeat has left the file.         *)
StartedAgain ==
    \A c \in Components \ Sound :
        (heart[c] = "stale" /\ enabled[c] /\ ~Running(c))
            ~> (Running(c) \/ ~enabled[c] \/ heart[c] = "none")
=============================================================================

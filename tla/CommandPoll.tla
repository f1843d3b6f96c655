---------------------------- MODULE CommandPoll -----------------------------
(***************************************************************************)
(* Which records a tick of the Command watcher looks at                    *)
(* (manager/command_watcher.py: poll_once, terminal_recovery_once).        *)
(*                                                                         *)
(* A tick has little time and a few slots.  It starts at the project the   *)
(* durable cursor names: first a window of that project's Tasks waiting    *)
(* for quota, then the newest Commands of every project, then the full     *)
(* listings, then terminal Commands whose cleanup is owed; the cursor is   *)
(* saved once, by compare-and-swap, on every exit of the sweeps.           *)
(* How much of it the clock allows is the environment's choice.            *)
(***************************************************************************)
EXTENDS Naturals, Sequences, FiniteSets, SequencesExt

CONSTANTS
    ProjectList,     \* the projects in the order of the root folder's listing
    TaskList,        \* TaskList[p]: the Task listing of p; a Command has its Task's id
    CommandList,     \* CommandList[p]: the Command listing of p, in the order that never changes
    FirstStatus,     \* status of each Command when the run starts
    Promotable,      \* Tasks a provider may get quota for
    Window,          \* WAITING_QUOTA_DISCOVERY_WINDOW
    RecentBatch,     \* RECENT_COMMANDS_PER_PROJECT
    MaxCommands,     \* MAX_COMMANDS_PER_POLL
    MinHydrated,     \* Tasks of its window a tick has the time to read at least
    MinServed,       \* Commands of its first project a tick has the time to serve at least
    VisitCycle,      \* visit counters are kept modulo this (bound of the model)
    MaxFaults        \* ticks that are killed, cannot use the cursor or lose its compare-and-swap

ASSUME PollBounds ==
    /\ {Window, RecentBatch, MaxCommands, VisitCycle} \subseteq Nat \ {0}
    /\ {MinHydrated, MinServed, MaxFaults} \subseteq Nat

Projects == ToSet(ProjectList)
Tasks == UNION {ToSet(TaskList[p]) : p \in Projects}
Commands == UNION {ToSet(CommandList[p]) : p \in Projects}

\* "none": the Task waits for quota; "owed": terminal, its cleanup incomplete.
Statuses == {"none", "queued", "running", "attention", "owed", "settled"}

\* What serving a Command may make of it.
Outcomes(state) ==
    CASE state = "queued" -> {"queued", "running"}
      [] state = "running" -> {"running", "owed"}
      [] state = "attention" -> {"attention", "owed"}
      [] state = "owed" -> {"owed", "settled"}
      [] OTHER -> {state}

VARIABLES
    cursor,    \* next project, next Task of each project, visits of each project
    status,    \* status[c]
    recency,   \* recency[p]: the Commands of p, the last one written first
    tick,      \* the tick the watcher is in
    faults

vars == <<cursor, status, recency, tick, faults>>

Fresh == [project |-> 1, offset |-> [p \in Projects |-> 0], visits |-> [p \in Projects |-> 0]]

\* What this tick loaded, may still save and has done.
Idle == [pc |-> "idle", saves |-> FALSE, loaded |-> Fresh, clock |-> 0, at |-> 1,
         results |-> 0, todo |-> <<>>, processed |-> {}, promoted |-> {}, visited |-> {},
         cached |-> {}, tried |-> {}]

\* The clock of a tick: listings may start (0), work on what is read may (1), neither (2).
Clock == 0 .. 2

Rotated(seq, n) ==
    IF seq = <<>> THEN seq
    ELSE LET k == n % Len(seq) IN SubSeq(seq, k + 1, Len(seq)) \o SubSeq(seq, 1, k)

\* The project at the tick's current place in its rotated order.
Here == Rotated(ProjectList, tick.loaded.project - 1)[tick.at]

AtEnd == tick.at > Len(ProjectList)

\* The puts of a step: what they leave of the statuses, and which Commands are newest then.
Put(new) ==
    LET written(c) == new[c] # status[c]
    IN /\ status' = new
       /\ recency' = [p \in Projects |->
                        SelectSeq(recency[p], written)
                          \o SelectSeq(recency[p], LAMBDA c : ~written(c))]

Take(seq, n) == SubSeq(seq, 1, IF n < Len(seq) THEN n ELSE Len(seq))

-----------------------------------------------------------------------------

\* Load the cursor; a tick that cannot use it starts at the first project and saves nothing,
\* nor does one that loses the compare-and-swap to another invocation.
Begin ==
    /\ tick.pc = "idle"
    /\ \/ /\ tick' = [Idle EXCEPT !.pc = "phase1", !.saves = TRUE, !.loaded = cursor]
          /\ UNCHANGED faults
       \/ /\ faults > 0 /\ faults' = faults - 1
          /\ tick' \in {[Idle EXCEPT !.pc = "phase1"],
                       [Idle EXCEPT !.pc = "phase1", !.loaded = cursor]}
    /\ UNCHANGED <<cursor, status, recency>>

\* The waiting Tasks of the target project: read a window, promote those that have quota now.
Phase1 ==
    /\ tick.pc = "phase1"
    /\ LET p == Here
           window == Take(Rotated(TaskList[p], tick.loaded.offset[p]), Window)
       IN \E n \in MinHydrated .. Window :
            LET waiting == {t \in ToSet(Take(window, n)) : status[t] = "none"}
            IN \E promoted \in SUBSET (waiting \cap Promotable) :
                 /\ Put([c \in Commands |-> IF c \in promoted THEN "queued" ELSE status[c]])
                 /\ tick' = [tick EXCEPT !.pc = "recent", !.promoted = promoted,
                                     !.tried = waiting]
    /\ UNCHANGED <<cursor, faults>>

-----------------------------------------------------------------------------

Group(c) == CASE status[c] = "running" -> 0
              [] status[c] = "queued" -> 1
              [] status[c] = "attention" -> 2
              [] OTHER -> 3

\* Active work, then queued, then attention rotated by the project's visits.
Prioritized(batch, rotation) ==
    LET group(g) == SelectSeq(batch, LAMBDA c : Group(c) = g)
    IN group(0) \o group(1) \o Rotated(group(2), rotation)

CountsVisit(batch) == Cardinality({c \in ToSet(batch) : status[c] = "attention"}) > 1

\* Mutant: a Command promoted in this tick is served again.
ReadBatchPromotedMutant(batch, clock) ==
    /\ tick' = [tick EXCEPT
         !.clock = clock,
         !.todo = SelectSeq(Prioritized(batch, tick.loaded.visits[Here]),
                            LAMBDA c : c \notin tick.processed),
         !.cached = @ \cup ToSet(batch),
         !.visited = IF CountsVisit(batch) THEN @ \cup {Here} ELSE @,
         !.at = @ + 1]
    /\ UNCHANGED <<cursor, status, recency, faults>>

\* A batch of the project is read: what of it is to be served, and in which order.
ReadBatch(batch, clock) ==
    /\ tick' = [tick EXCEPT
         !.clock = clock,
         !.todo = SelectSeq(Prioritized(batch, tick.loaded.visits[Here]),
                               LAMBDA c : c \notin tick.promoted \cup tick.processed),
         !.cached = @ \cup ToSet(batch),
         !.visited = IF CountsVisit(batch) THEN @ \cup {Here} ELSE @,
         !.at = @ + 1]
    /\ UNCHANGED <<cursor, status, recency, faults>>

Existing(list) == SelectSeq(list, LAMBDA c : status[c] # "none")

\* The newest Commands of one project.
RecentSweep ==
    /\ tick.pc = "recent" /\ tick.todo = <<>> /\ ~AtEnd
    /\ tick.results < MaxCommands /\ tick.clock = 0
    /\ \E clock \in Clock :
         /\ tick.at = 1 => clock < 2
         /\ ReadBatch(Take(Existing(recency[Here]), RecentBatch), clock)

RecentSweepEnds ==
    /\ tick.pc = "recent" /\ tick.todo = <<>>
    /\ AtEnd \/ tick.results = MaxCommands \/ tick.clock # 0
    /\ tick' = [tick EXCEPT !.pc = "full", !.at = 1]
    /\ UNCHANGED <<cursor, status, recency, faults>>

\* The listing of one project from a place the clock hashes to, as far as the time allows.
FullSweep ==
    /\ tick.pc = "full" /\ tick.todo = <<>> /\ ~AtEnd /\ tick.clock = 0
    /\ \E clock \in Clock, k \in 1 .. Len(CommandList[Here]) :
         LET listing == Existing(Rotated(CommandList[Here], k))
         IN \E n \in 0 .. Len(listing) :
              /\ clock = 0 => n = Len(listing)
              /\ ReadBatch(Take(listing, n), clock)

\* Serve the first Command of the batch; this may take what is left of the time.
RunCommand ==
    /\ tick.todo # <<>> /\ tick.results < MaxCommands
    /\ LET c == Head(tick.todo)
       IN /\ \E new \in Outcomes(status[c]) : Put([status EXCEPT ![c] = new])
          /\ \E clock \in tick.clock .. 2 :
               tick' = [tick EXCEPT !.todo = Tail(@), !.results = @ + 1, !.clock = clock,
                                !.processed = @ \cup {c}]
    /\ UNCHANGED <<cursor, faults>>

\* The rest of a batch is left to a later tick; in the full sweep the poll returns for want
\* of time.
LeaveBatch ==
    /\ tick.todo # <<>>
    /\ \/ tick.results = MaxCommands
       \/ /\ tick.clock # 0
          /\ (tick.pc = "recent" /\ tick.at = 2) => tick.results >= MinServed
    /\ tick' = [tick EXCEPT !.todo = <<>>,
                            !.pc = IF @ = "full" /\ tick.results < MaxCommands
                                   THEN "returns" ELSE @]
    /\ UNCHANGED <<cursor, status, recency, faults>>

\* Mutant: the next window leaves a gap.
AdvancedGapMutant(c, visited) ==
    LET p == ProjectList[c.project]
    IN [c EXCEPT !.project = (@ % Len(ProjectList)) + 1,
                 !.offset[p] = IF TaskList[p] = <<>> THEN 0
                               ELSE (@ + Window + 1) % Len(TaskList[p]),
                 !.visits = [q \in Projects |-> IF q \in visited THEN (@[q] + 1) % VisitCycle ELSE @[q]]]

\* The cursor after a tick: the next project, the next window of this one, the visits counted.
Advanced(c, visited) ==
    LET p == ProjectList[c.project]
    IN [c EXCEPT !.project = (@ % Len(ProjectList)) + 1,
                 !.offset[p] = IF TaskList[p] = <<>> THEN 0 ELSE (@ + Window) % Len(TaskList[p]),
                 !.visits = [q \in Projects |-> IF q \in visited THEN (@[q] + 1) % VisitCycle ELSE @[q]]]

\* The cursor is saved on every exit, unless another invocation saved it since.
Persist ==
    /\ \/ tick.pc = "full" /\ tick.todo = <<>> /\ (AtEnd \/ tick.clock # 0)
       \/ tick.pc = "returns"
    /\ cursor' = IF tick.saves THEN Advanced(tick.loaded, tick.visited) ELSE cursor
    /\ tick' = IF tick.pc = "full" THEN [tick EXCEPT !.pc = "terminal", !.at = 1]
               ELSE [Idle EXCEPT !.pc = "recovery"]
    /\ UNCHANGED <<status, recency, faults>>

-----------------------------------------------------------------------------
(* Terminal Commands: each lookup takes a slot, whatever it finds.         *)

Terminal(c) == status[c] \in {"owed", "settled"}

LookAt(c, pc) ==
    /\ tick.results < MaxCommands
    /\ \E new \in Outcomes(status[c]) : Put([status EXCEPT ![c] = new])
    /\ tick' = [tick EXCEPT !.pc = pc, !.results = @ + 1, !.processed = @ \cup {c}]
    /\ UNCHANGED <<cursor, faults>>

\* In the poll: what the sweeps have read, while slots are left.
TerminalInPoll ==
    /\ tick.pc = "terminal"
    /\ \E c \in tick.cached \ (tick.processed \cup tick.promoted) :
         Terminal(c) /\ LookAt(c, "terminal")

\* Mutant: the pass shares the slots of the poll.
PollReturnsMutant ==
    /\ tick.pc = "terminal"
    /\ tick' = [tick EXCEPT !.pc = "recovery"]
    /\ UNCHANGED <<cursor, status, recency, faults>>

\* The independent pass that follows has slots and time of its own.
PollReturns ==
    /\ tick.pc = "terminal"
    /\ tick' = [Idle EXCEPT !.pc = "recovery"]
    /\ UNCHANGED <<cursor, status, recency, faults>>

RecoveryPass(c) ==
    /\ tick.pc = "recovery" /\ c \notin tick.processed
    /\ Terminal(c) /\ LookAt(c, "recovery")

Recovers(c) == status[c] = "owed" /\ RecoveryPass(c) /\ status'[c] = "settled"

TickEnds ==
    /\ tick.pc = "recovery"
    /\ tick' = Idle
    /\ UNCHANGED <<cursor, status, recency, faults>>

\* The process is killed before the cursor is saved.
Killed ==
    /\ faults > 0 /\ faults' = faults - 1
    /\ tick.pc # "idle" /\ tick' = Idle
    /\ UNCHANGED <<cursor, status, recency>>

Init ==
    /\ cursor = Fresh
    /\ status = FirstStatus
    /\ recency = CommandList
    /\ tick = Idle
    /\ faults = MaxFaults

Step ==
    \/ Begin \/ Phase1 \/ RecentSweep \/ RecentSweepEnds \/ FullSweep
    \/ RunCommand \/ LeaveBatch \/ Persist \/ PollReturns \/ TickEnds

Next ==
    \/ Step \/ Killed \/ TerminalInPoll
    \/ \E c \in Commands : RecoveryPass(c)

Spec == Init /\ [][Next]_vars

\* Ticks are started for ever and end; the hashed place of a listing spares no record.
FairSpec ==
    /\ Spec
    /\ WF_vars(Step)
    /\ SF_vars(\E c \in Commands : Recovers(c))

-----------------------------------------------------------------------------

TypeOK ==
    /\ cursor.project \in 1 .. Len(ProjectList)
    /\ cursor.offset \in [Projects -> Nat] /\ cursor.visits \in [Projects -> 0 .. VisitCycle]
    /\ status \in [Commands -> Statuses]
    /\ \A p \in Projects : ToSet(recency[p]) = ToSet(CommandList[p])
    /\ tick.pc \in {"idle", "phase1", "recent", "full", "returns", "terminal", "recovery"}
    /\ tick.results \in 0 .. MaxCommands /\ tick.clock \in Clock

(* A tick serves no Command twice, though its sweeps and its terminal pass   *)
(* read overlapping listings: every served Command took one slot.            *)
SlotsAccounted ==
    Cardinality(tick.processed) = tick.results

(* A Command promoted by a tick is launched by a later one, whichever sweep  *)
(* of this tick lists it meanwhile.                                          *)
PromotedWaits ==
    tick.promoted \cap tick.processed = {}

(* Within a tick (poll_once): no Command twice, no promoted Command at once. *)
TickInv == TypeOK /\ SlotsAccounted /\ PromotedWaits

Newest(p) == ToSet(Take(Existing(recency[p]), RecentBatch))

(* A Command that stays among the last ones written in its project is served *)
(* again and again, however large the backlog of another project and however *)
(* little time there is after the first project of a tick: none starves.     *)
NewestServed ==
    \A p \in Projects : \A c \in ToSet(CommandList[p]) :
        []<>(c \notin Newest(p) \/ Terminal(c) \/ c \in tick.processed)

(* "Every index in [0, N-1] is guaranteed to be visited" for any N and any   *)
(* window: a Task that waits for quota is tried again and again.             *)
TasksTried ==
    \A t \in Tasks : []<>(status[t] # "none" \/ t \in tick.tried)

(* Over the ticks (poll_once): neither new Commands nor waiting Tasks starve.*)
NothingStarves == NewestServed /\ TasksTried

(* Counting sweeps "makes the round-robin strict regardless of cadence,      *)
(* budget, or which invocations happen to reach the project": every          *)
(* attention Command is served again and again.                              *)
AttentionServed ==
    \A c \in Commands :
        []<>(status[c] # "attention" \/ c \in tick.processed)

(* Cleanup owed by a terminal Command is done, however slow active work is.  *)
OwedSettled ==
    \A c \in Commands : status[c] = "owed" ~> status[c] = "settled"
=============================================================================

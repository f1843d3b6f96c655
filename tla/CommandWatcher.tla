--------------------------- MODULE CommandWatcher ---------------------------
(***************************************************************************)
(* The Command Watcher: claims queued Commands, starts their workers and   *)
(* reconciles the Commands that are not over with their Executions         *)
(* (manager/command_watcher.py, manager/execution_recovery.py), next to    *)
(* the workers of module ExecutionLifecycle.  It runs once a minute; one   *)
(* tick here handles one Command, from a copy read at its start.           *)
(*                                                                         *)
(* With Async the watcher spawns a worker process and goes on, as the      *)
(* scheduled watcher does; without it the watcher runs the launch itself.  *)
(***************************************************************************)
EXTENDS ExecutionLifecycle

CONSTANTS
  Async,      \* a worker process runs the launch
  Threshold   \* failures of one view after which the claim is given up

ASSUME WatcherAssumption == Async \in BOOLEAN /\ Threshold \in Nat \ {0}

Alive(k) == pc[k] \notin {"off", "done", "dead", "idle"}

-----------------------------------------------------------------------------
(* Ticks *)

(* A Command that is over is reconciled again only if its Execution says   *)
(* that work is outstanding.                                               *)
NeedsRecovery(c) ==
  /\ Settled(exe[c].status)
  /\ \/ exe[c].evidence.persistence \in {"partial", "incomplete"}
     \/ exe[c].evidence.claim = "retained"

(* poll_once and process_command up to the first call they make. *)
Tick(p) ==
  /\ pc[p] = "idle"
  /\ \E c \in Command :
       LET s == cmd[c].status
           w == [NoWork EXCEPT !.c = c, !.cmd = cmd[c]]
       IN  \/ CommandOver(s) /\ NeedsRecovery(c) /\ Step(p, "reconcile", w)
           \/ s = "queued" /\ Step(p, IF c = First THEN "take" ELSE "retry", w)
           \/ s \in {"claimed", "running", "attention"} /\ Step(p, "reconcile", w)

-----------------------------------------------------------------------------
(* Retries: manager/executions.py and cloud/dispatch_ingress.py *)

PrelaunchFailed(c) == cmd[c].status = "failed" /\ cmd[c].result = "prelaunch_failed"

RetryEligible(c) ==
  \/ exe[c].status \in {"failed", "interrupted"}
  \/ exe[c].status = "cancelled" /\ PrelaunchFailed(c)

(* The ingress creates the retry Command of an attempt that is eligible. *)
DispatchRetry(c) ==
  /\ c # First /\ cmd[c].status = "none"
  /\ RetryEligible(Prior[c])
  /\ PutCmd(c, [NewCommand EXCEPT !.status = "queued"])
  /\ UNCHANGED <<prov, pc, my, faults>>

WoundUpMutant(e) == e.evidence.claim = "released"
WoundUp(e) ==
  /\ e.evidence.persistence = "complete" /\ e.evidence.claim = "released"
  /\ Write => e.evidence.writer = "released"

RetryAllowed(c) ==
  /\ RetryEligible(Prior[c])
  /\ Settled(exe[Prior[c]].status) => WoundUp(exe[Prior[c]])
  /\ Unclaimed
  /\ \A d \in Command : exe[d].status \notin {"running", "reserved"}

RetryReady(c) == [task EXCEPT !.status = "ready", !.active = NoCommand, !.retry = Prior[c]]

Refuses(p) ==
  Conclude(p, FailedWith(my[p].cmd, "retry_refused"))

PrepareRetry(p) ==
  /\ pc[p] = "retry"
  /\ LET c == Mine(p)
     IN  \/ CASE RetryAllowed(c) /\ task.status = "ready" /\ task.active = NoCommand /\ task.retry = Prior[c] ->
                   Jump(p, "take")
              [] RetryAllowed(c) /\ task.status = "blocked" /\ task.active = Prior[c] ->
                   Step(p, "retry_put", [my[p] EXCEPT !.task = RetryReady(c)])
              [] OTHER -> Refuses(p)
         \/ Unread(p, "retry_refused")

PrepareRetryPut(p) ==
  /\ pc[p] = "retry_put"
  /\ Attempt(p, PutTask(my[p].task), "take", "retry_refused")

RetryRefused(p) == pc[p] = "retry_refused" /\ Refuses(p)

-----------------------------------------------------------------------------
(* Claiming and spawning *)

Claimed(r) == [r EXCEPT !.status = "claimed", !.result = "none"]

Take(p) ==
  /\ pc[p] = "take"
  /\ LET r == Claimed(my[p].cmd)
     IN  Publish(p, [my[p] EXCEPT !.cmd = r], r, IF Async THEN "spawn" ELSE "reserve", "idle")

SpawnFails(p) == BlockThenFail(p, FailedWith(my[p].cmd, "error"))

(* A worker slot stands for a new process, and is used once. *)
SlotFree == \E k \in Worker : pc[k] = "off"
NextSlot == CHOOSE k \in Worker : pc[k] = "off"

(* The claimed record is written again with the worker's identity; if that *)
(* fails the launch counts as failed, though the worker runs.  Without a   *)
(* free slot the start fails.                                              *)
Spawn(p) ==
  /\ pc[p] = "spawn"
  /\ \/ /\ SlotFree
        /\ LET k == NextSlot
               r == [my[p].cmd EXCEPT !.worker = k]
           IN  /\ pc' = [pc EXCEPT ![p] = "write", ![k] = "boot"]
               /\ my' = [my EXCEPT ![p] = [@ EXCEPT !.out = r, !.next = "idle", !.onError = "spawn_failed"],
                                   ![k] = [NoWork EXCEPT !.c = Mine(p)]]
               /\ Untouched /\ Well /\ UNCHANGED prov
     \/ Unread(p, "spawn_failed")
     \/ ~SlotFree /\ Jump(p, "spawn_failed")

SpawnFailed(p) == pc[p] = "spawn_failed" /\ SpawnFails(p)

-----------------------------------------------------------------------------
(* Attention *)

Attend(p, e) == Step(p, "attention", [my[p] EXCEPT !.seen = e])
AttendNoExecution(p) == Attend(p, NewExecution)
Attention(p) == Jump(p, "attention")

(* Only an Execution that ran has a heartbeat. *)
HasPulse(e) == e.status = "running" \/ Settled(e.status)

AttentionStart(p) ==
  /\ pc[p] = "attention"
  /\ LET l == IF HasPulse(my[p].seen) THEN "mark" ELSE "mark_cmd"
     IN  \/ Jump(p, IF CommandOver(cmd[Mine(p)].status) THEN End(p) ELSE l)
         \/ Unread(p, l)

(* An Execution that is not terminal is put back with the reason on it; an *)
(* unreadable one is taken as it was read before.                          *)
MarkRead(p) ==
  /\ pc[p] = "mark"
  /\ LET e == exe[Mine(p)]
     IN  \/ CASE ~Settled(e.status) ->
                   \/ Step(p, "mark_put", [my[p] EXCEPT !.exe = e])
                   \/ Jump(p, "mark_task")   \* the reason is on it already
              [] Settled(e.status) /\ e.evidence.persistence = "complete" -> Jump(p, "mark_cmd")
              [] OTHER -> Jump(p, "mark_task")
         \/ IF Settled(my[p].seen.status)
            THEN Unread(p, "mark_task")
            ELSE UnreadWith(p, "mark_put", [my[p] EXCEPT !.exe = my[p].seen])

MarkPut(p) ==
  /\ pc[p] = "mark_put"
  /\ Attempt(p, PutExe(Mine(p), my[p].exe), "mark_task", End(p))

MarkTask(p) ==
  /\ pc[p] = "mark_task"
  /\ \/ IF task.active = Mine(p)
        THEN Step(p, "mark_task_put", [my[p] EXCEPT !.task = task])
        ELSE Jump(p, "mark_cmd")
     \/ Unread(p, "mark_cmd")

MarkTaskPut(p) ==
  /\ pc[p] = "mark_task_put"
  /\ Attempt(p, PutTask([my[p].task EXCEPT !.status = "blocked"]), "mark_cmd", "mark_cmd")

MarkCommand(p) ==
  /\ pc[p] = "mark_cmd"
  /\ LET r == Ended(my[p].cmd, "attention", "none", FALSE)
     IN  IF cmd[Mine(p)] = r THEN Jump(p, End(p)) ELSE Conclude(p, r)

-----------------------------------------------------------------------------
(* Reconciliation: _reconcile_active *)

(* Clocks decide whether a claim is older than CLAIM_TIMEOUT_SECONDS:      *)
(* either way, at any time.  A missing record and one that cannot be read  *)
(* are the same to the code.                                               *)
NoExecutionMutant(p) ==
  IF my[p].cmd.status = "claimed" THEN Jump(p, End(p)) ELSE AttendNoExecution(p)
NoExecution(p) ==
  IF my[p].cmd.status = "claimed"
  THEN Jump(p, End(p)) \/ Jump(p, "orphan")
  ELSE AttendNoExecution(p)

(* A reservation is left alone while its claim is fresh; an old one is     *)
(* cancelled unless the worker recorded with the claim is running.         *)
StillReserved(p, e) ==
  LET k == my[p].cmd.worker
  IN  \/ Jump(p, End(p))
      \/ IF k # NoProc /\ Alive(k) THEN Attend(p, e) ELSE Step(p, "cancel", [my[p] EXCEPT !.seen = e])

Reconcile(p) ==
  /\ pc[p] = "reconcile"
  /\ LET e == exe[Mine(p)]
         w == [my[p] EXCEPT !.seen = e]
     IN  \/ CASE e.status = "none" -> NoExecution(p)
              [] Settled(e.status) ->
                   Step(p, IF e.evidence.persistence = "complete" THEN "recover" ELSE "fix", w)
              [] e.status = "reserved" /\ w.observed  -> Step(p, "cancel", w)
              [] e.status = "reserved" /\ ~w.observed -> StillReserved(p, e)
              [] e.status = "cancelled" -> Step(p, "undo_lease", w)
              [] e.status = "running"   -> Step(p, "judge", w)
         \/ my[p].cmd.status = "claimed" /\ (Unread(p, "orphan") \/ Unread(p, End(p)))
         \/ /\ my[p].cmd.status # "claimed"
            /\ UnreadWith(p, "attention", [my[p] EXCEPT !.seen = NewExecution])

(* The claim of a worker known to be dead, that got no session. *)
AbandonedMutant(c, k) == root.owner = c /\ \A d \in Command : ~exe[d].session
Abandoned(c, k) ==
  /\ root.owner = c /\ \A d \in Command : ~exe[d].session
  /\ k # NoProc /\ ~Alive(k)

(* A claim without an Execution: cancel the claim of a dead worker and     *)
(* queue the Command again.  The Command is requeued before the claim goes.*)
Orphan(p) ==
  /\ pc[p] = "orphan"
  /\ LET c == Mine(p)
         k == my[p].cmd.worker
     IN  CASE Unclaimed /\ (cmd[c].status = "queued" \/ CommandOver(cmd[c].status)) -> Jump(p, End(p))
           [] Unclaimed /\ ~(cmd[c].status = "queued" \/ CommandOver(cmd[c].status)) ->
                Conclude(p, FailedWith(my[p].cmd, "error"))
           [] ~Unclaimed /\ ~Abandoned(c, k) -> AttendNoExecution(p)
           [] OTHER ->
                Publish(p, [my[p] EXCEPT !.token = root.token],
                        [NewCommand EXCEPT !.status = "queued"], "orphan_free", End(p))

OrphanFree(p) ==
  /\ pc[p] = "orphan_free"
  /\ IF root.owner = Mine(p) /\ root.token = my[p].token
     THEN AttemptWith(p, PutRoot(RootReleased), End(p), "attention", [my[p] EXCEPT !.seen = NewExecution])
     ELSE Jump(p, End(p))

(* A reservation without a claim is cancelled, its lease given back, its   *)
(* Task blocked and its Command failed.                                    *)
CancelRead(p) ==
  /\ pc[p] = "cancel"
  /\ LET e == exe[Mine(p)]
     IN  \/ CASE e.status = "cancelled"              -> Jump(p, "undo_lease")
              [] e.status = "reserved" /\ Unclaimed  -> Step(p, "cancel_put", [my[p] EXCEPT !.exe = e])
              [] OTHER                               -> Attention(p)
         \/ Unread(p, "attention")

CancelPut(p) ==
  /\ pc[p] = "cancel_put"
  /\ Attempt(p, PutExe(Mine(p), [my[p].exe EXCEPT !.status = "cancelled"]), "undo_lease", "attention")

UndoLease(p) ==
  /\ pc[p] = "undo_lease"
  /\ LET w == [my[p] EXCEPT !.out = FailedWith(my[p].cmd, "prelaunch_failed"),
                            !.next = End(p), !.onError = End(p)]
     IN  IF Write /\ lease.of = w.c
         THEN IF lease.linked THEN Attention(p)
              ELSE AttemptWith(p, PutLease(LeaseReleased), "block", "attention", w)
         ELSE Step(p, "block", w)

(* The provider of a running Execution: one not recorded is unknown.       *)
ProviderStateMutant(e) == IF e.prov = NoProc THEN "dead" ELSE prov[e.prov]
ProviderState(e) == IF e.prov = NoProc THEN "unknown" ELSE prov[e.prov]

(* Health is judged from clocks: either way unless evidence is missing.    *)
Judge(p) ==
  /\ pc[p] = "judge"
  /\ LET e == my[p].seen
         w == [my[p] EXCEPT !.verdict = "interrupted", !.freed = Write]
     IN  \/ /\ ProviderState(e) = "live"
            /\ IF w.cmd.status = "attention"
               THEN Publish(p, my[p], [w.cmd EXCEPT !.status = "running"], "heal", End(p))
               ELSE Jump(p, End(p))
         \/ /\ ProviderState(e) = "dead" /\ ClaimedBy(w.c)
            /\ IF Write THEN Step(p, "recover_lease", [w EXCEPT !.next = "confirm", !.onError = "attention"])
                        ELSE Step(p, "term", [w EXCEPT !.seen = NewExecution, !.next = "confirm_or_raise", !.onError = End(p)])
         \/ /\ ProviderState(e) # "dead" \/ ~ClaimedBy(w.c)
            /\ Attention(p)
         \/ Unread(p, "attention")

Heal(p) ==
  /\ pc[p] = "heal"
  /\ IF task.active = Mine(p) THEN Step(p, "heal_put", [my[p] EXCEPT !.task = task]) ELSE Jump(p, End(p))

HealPut(p) ==
  /\ pc[p] = "heal_put"
  /\ Attempt(p, PutTask([my[p].task EXCEPT !.status = "in_progress"]), End(p), End(p))

(* reconcile_stopped_provider_terminal_lease *)
RecoverLease(p) ==
  /\ pc[p] = "recover_lease"
  /\ LET e == my[p].seen
     IN  IF lease.of = Mine(p) /\ lease.token = e.lease /\ lease.linked = e.session
         THEN Attempt(p, PutLease(LeaseReleased), "term", "attention")
         ELSE Attention(p)

Confirm(p) ==
  /\ pc[p] \in {"confirm", "confirm_or_raise"}
  /\ LET l == IF pc[p] = "confirm" THEN "attention" ELSE End(p)
         e == exe[Mine(p)]
     IN  \/ IF Publishable(Mine(p))
            THEN Conclude(p, EndedAs(my[p].cmd, e))
            ELSE Jump(p, l)
         \/ Unread(p, l)

-----------------------------------------------------------------------------
(* retry_incomplete_terminal_persistence: bind, handoff, Task, audit.      *)

Fix(p) ==
  /\ pc[p] = "fix"
  /\ LET c == Mine(p)
         e == exe[c]
         w == [my[p] EXCEPT !.exe = e, !.task = task]
         possible == /\ Settled(e.status) /\ task.active = c
                     /\ ~HandoffConflicts(VerdictOf(c, e)) /\ Bindable(c, VerdictOf(c, e))
     IN  \/ /\ possible
            /\ AttemptWith(p, PutRoot(Bound(VerdictOf(c, e))), "fix_handoff", "recover", w)
         \/ ~possible /\ Jump(p, "recover")
         \/ Unread(p, "recover")

FixHandoff(p) ==
  /\ pc[p] = "fix_handoff"
  /\ LET h == VerdictOf(Mine(p), my[p].exe)
         To(v) == [my[p] EXCEPT !.view = v]
     IN  IF HandoffConflicts(h)
         THEN Step(p, "strike", To("handoff"))
         ELSE \E v \in Views : AttemptWith(p, PutHandoff(h), "fix_handoff_view", "strike", To(v))

Verified(v) == [root EXCEPT !.strikes[v] = 0]

VerifiesView(p, v, good) ==
  LET w == [my[p] EXCEPT !.view = "task"]
  IN  IF root.owner = Mine(p)
      THEN AttemptWith(p, PutRoot(Verified(v)), good, "strike", w)
      ELSE Step(p, "strike", w)

FixHandoffView(p) == pc[p] = "fix_handoff_view" /\ VerifiesView(p, "handoff", "fix_task")

FixTask(p) ==
  /\ pc[p] = "fix_task"
  /\ LET t == TerminalTask(my[p].task, Mine(p), my[p].exe)
     IN  IF task = t THEN Jump(p, "fix_task_view")
                     ELSE Attempt(p, PutTask(t), "fix_task_view", "strike")

FixTaskView(p) == pc[p] = "fix_task_view" /\ VerifiesView(p, "task", "fix_audit")

FixAudit(p) == pc[p] = "fix_audit" /\ MergesInto(p, Repaired(my[p].exe.status), "fix_audit_put", End(p))

FixAuditPut(p) ==
  /\ pc[p] = "fix_audit_put"
  /\ \/ PutExe(Mine(p), my[p].exe) /\ Well /\ GoWith(p, "recover", [my[p] EXCEPT !.seen = my[p].exe])
     \/ Faulty(p) /\ (PutExe(Mine(p), my[p].exe) \/ Untouched) /\ GoWith(p, "recover", my[p])
  /\ UNCHANGED prov

(* _attention_note: a failed view is counted on the Task Root; the claim   *)
(* is given up when the count reaches the threshold.                       *)
Strike(p) ==
  /\ pc[p] = "strike"
  /\ LET v == my[p].view
         n == root.strikes[v] + 1
     IN  IF root.owner = Mine(p)
         THEN /\ Attempt(p, PutRoot([root EXCEPT !.strikes[v] = IF n > Threshold THEN @ ELSE n]),
                         IF n >= Threshold THEN "strike_free" ELSE "recover", "recover")
         ELSE Jump(p, "recover")

StrikeFree(p) ==
  /\ pc[p] = "strike_free"
  /\ IF root.owner = Mine(p)
     THEN Attempt(p, PutRoot(RootReleased), "strike_note", "recover")
     ELSE Jump(p, "strike_note")

StrikeNote(p) == pc[p] = "strike_note" /\ MergesInto(p, ClaimReleased, "strike_note_put", "recover")

StrikeNotePut(p) ==
  /\ pc[p] = "strike_note_put"
  /\ Attempt(p, PutExe(Mine(p), my[p].exe), "recover", "recover")

-----------------------------------------------------------------------------
(* The claim of a terminal Execution: recover_task_claim *)

RecoverableMutant(o) == Settled(exe[o].status) /\ task.active = o
Recoverable(o) ==
  LET e == exe[o]
  IN  /\ Settled(e.status)
      /\ task.active = o /\ task.status = TaskStatusOf(e.status)
      /\ e.evidence.outcome = e.status
      /\ e.evidence.persistence = "complete" /\ e.evidence.persisted = AllParts
      /\ Write => e.evidence.writer = "released"

(* No claim, and the evidence says that everything else is done. *)
OnlyClaimMissing(e) ==
  /\ e.evidence.persistence = "complete" /\ e.evidence.persisted = AllParts
  /\ e.evidence.outcome = e.status
  /\ Write => e.evidence.writer = "released"

Recover(p) ==
  /\ pc[p] = "recover"
  /\ LET c == Mine(p)
         e == my[p].seen
     IN  \/ /\ root.active
            /\ IF Recoverable(root.owner)
               THEN Attempt(p, PutRoot(RootReleased), "converge", "attention")
               ELSE Attention(p)
         \/ /\ ~root.active
            /\ CASE ~OnlyClaimMissing(e) -> Jump(p, "confirm")
                 [] OnlyClaimMissing(e) /\ (\/ ProviderState(e) = "live"
                                            \/ task.active \notin {NoCommand, c}) -> Attention(p)
                 [] OTHER -> Jump(p, IF e.evidence.claim = "released" THEN "confirm" ELSE "converge")
         \/ Unread(p, "attention")

Converge(p) == pc[p] = "converge" /\ MergesInto(p, ClaimReleased, "converge_put", "attention")

ConvergePut(p) ==
  /\ pc[p] = "converge_put"
  /\ Attempt(p, PutExe(Mine(p), my[p].exe), "confirm", "attention")

-----------------------------------------------------------------------------
(* Faults of processes and the passing of time *)

CrashWorker(k) ==
  /\ Crashes /\ Alive(k)
  /\ pc' = [pc EXCEPT ![k] = "dead"] /\ my' = [my EXCEPT ![k] = NoWork]
  /\ Untouched /\ UNCHANGED prov

(* The scheduled task starts the watcher anew.  A launch run inside the    *)
(* watcher dies with it.                                                   *)
CrashWatcher(p) ==
  /\ Crashes /\ pc[p] # "idle"
  /\ GoWith(p, "idle", NoWork)
  /\ Untouched /\ UNCHANGED prov

-----------------------------------------------------------------------------
(* The system *)

Init ==
  /\ cmd = [c \in Command |-> [NewCommand EXCEPT !.status = IF c = First THEN "queued" ELSE "none"]]
  /\ exe = [c \in Command |-> NewExecution]
  /\ task = [status |-> "ready", active |-> NoCommand, retry |-> NoCommand, stamp |-> NoVerdict]
  /\ handoff = {}
  /\ root = NoRoot
  /\ lease = NoLease
  /\ prov = [p \in Proc |-> "none"]
  /\ pc = [p \in Proc |-> IF p \in Worker THEN "off" ELSE "idle"]
  /\ my = [p \in Proc |-> NoWork]
  /\ faults = [store |-> 0, crash |-> 0]

Records(p) == WriteRead(p) \/ WritePut(p) \/ BlockRead(p) \/ BlockPut(p)

Launch(p) ==
  \/ WorkerBoot(p) \/ Reserve(p) \/ ReservePut(p) \/ GateEntry(p) \/ AcquireLease(p) \/ AcquireRoot(p)
  \/ GateTask(p) \/ GateTaskPut(p) \/ GateExecPut(p)
  \/ UndoExec(p) \/ UndoTask(p) \/ UndoClaim(p) \/ DropLease(p)

Turn(p) ==
  \/ Prepare(p) \/ RecordProvider(p) \/ RecordProviderPut(p) \/ LinkSession(p) \/ LinkSessionPut(p)
  \/ LinkLease(p) \/ Heartbeat(p) \/ HeartbeatPut(p) \/ TurnEnds(p) \/ Close(p)

Terminalize(p) ==
  \/ TerminalizeEntry(p) \/ Persist(p) \/ PersistPut(p) \/ Bind(p) \/ WriteHandoff(p) \/ WriteTask(p)
  \/ VerifyViews(p) \/ Retain(p) \/ RetainPut(p)

Cleanup(p) ==
  \/ Audit(p) \/ AuditPut(p) \/ FreeLease(p) \/ FreeClaim(p) \/ Clean(p) \/ CleanPut(p)

Report(p) == Finish(p) \/ Handler(p)

Watch(p) ==
  \/ Tick(p) \/ PrepareRetry(p) \/ PrepareRetryPut(p) \/ RetryRefused(p)
  \/ Take(p) \/ Spawn(p) \/ SpawnFailed(p)

Mark(p) ==
  \/ AttentionStart(p) \/ MarkRead(p) \/ MarkPut(p) \/ MarkTask(p) \/ MarkTaskPut(p) \/ MarkCommand(p)

Reconciliation(p) ==
  \/ Reconcile(p) \/ Orphan(p) \/ OrphanFree(p) \/ CancelRead(p) \/ CancelPut(p) \/ UndoLease(p)
  \/ Judge(p) \/ Heal(p) \/ HealPut(p) \/ RecoverLease(p) \/ Confirm(p)

Repair(p) ==
  \/ Fix(p) \/ FixHandoff(p) \/ FixHandoffView(p) \/ FixTask(p) \/ FixTaskView(p) \/ FixAudit(p) \/ FixAuditPut(p)

GiveUp(p) ==
  \/ Strike(p) \/ StrikeFree(p) \/ StrikeNote(p) \/ StrikeNotePut(p) \/ Recover(p) \/ Converge(p) \/ ConvergePut(p)

(* The points of each group of steps. *)
RecordPoints == {"write", "write_put", "block", "block_put"}
LaunchPoints ==
  {"boot", "reserve", "reserve_put", "gate", "lease", "claim", "gate_task", "gate_task_put", "gate_exec_put",
   "undo_exec", "undo_task", "undo_claim", "drop_lease"}
TurnPoints ==
  {"prepare", "evidence", "evidence_put", "link", "link_put", "link_lease", "turn", "beat_put", "last", "last_put",
   "close"}
TerminalizePoints ==
  {"term", "persist", "persist_put", "bind", "handoff", "task", "views", "retain", "retain_put"}
CleanupPoints == {"audit", "audit_put", "free_lease", "free_claim", "clean", "clean_put"}
ReportPoints == {"finish", "handler"}
WatchPoints == {"idle", "retry", "retry_put", "retry_refused", "take", "spawn", "spawn_failed"}
MarkPoints == {"attention", "mark", "mark_put", "mark_task", "mark_task_put", "mark_cmd"}
ReconciliationPoints ==
  {"reconcile", "orphan", "orphan_free", "cancel", "cancel_put", "undo_lease", "judge", "heal", "heal_put",
   "recover_lease", "confirm", "confirm_or_raise"}
RepairPoints ==
  {"fix", "fix_handoff", "fix_handoff_view", "fix_task", "fix_task_view", "fix_audit", "fix_audit_put"}
GiveUpPoints ==
  {"strike", "strike_free", "strike_note", "strike_note_put", "recover", "converge", "converge_put"}
Points ==
  UNION {RecordPoints, LaunchPoints, TurnPoints, TerminalizePoints, CleanupPoints, ReportPoints, WatchPoints,
         MarkPoints, ReconciliationPoints, RepairPoints, GiveUpPoints, {"off", "done", "dead"}}

WorkPoints == UNION {RecordPoints, LaunchPoints, TurnPoints}
WindUpPoints == UNION {TerminalizePoints, CleanupPoints, ReportPoints}
WatcherPoints == UNION {WatchPoints, MarkPoints, ReconciliationPoints}
RecoveryPoints == RepairPoints \cup GiveUpPoints

Works(p) ==
  \/ pc[p] \in RecordPoints /\ Records(p)
  \/ pc[p] \in LaunchPoints /\ Launch(p)
  \/ pc[p] \in TurnPoints /\ Turn(p)

WindsUp(p) ==
  \/ pc[p] \in TerminalizePoints /\ Terminalize(p)
  \/ pc[p] \in CleanupPoints /\ Cleanup(p)
  \/ pc[p] \in ReportPoints /\ Report(p)

Watches(p) ==
  \/ pc[p] \in WatchPoints /\ Watch(p)
  \/ pc[p] \in MarkPoints /\ Mark(p)
  \/ pc[p] \in ReconciliationPoints /\ Reconciliation(p)

Recovers(p) ==
  \/ pc[p] \in RepairPoints /\ Repair(p)
  \/ pc[p] \in GiveUpPoints /\ GiveUp(p)

Steps(p) ==
  \/ pc[p] \in WorkPoints /\ Works(p)
  \/ pc[p] \in WindUpPoints /\ WindsUp(p)
  \/ pc[p] \in WatcherPoints /\ Watches(p)
  \/ pc[p] \in RecoveryPoints /\ Recovers(p)

(* Every Command is over, with no work outstanding. *)
Rest ==
  /\ \A p \in Proc : pc[p] \in {"off", "idle", "done", "dead"}
  /\ \A c \in Command : cmd[c].status = "none" \/ (CommandOver(cmd[c].status) /\ ~NeedsRecovery(c))
  /\ UNCHANGED lifecycleVars

Next ==
  \/ Rest
  \/ \E p \in Proc : Steps(p) \/ ProviderExits(p)
  \/ \E k \in Worker \cap Mortal : CrashWorker(k)
  \/ \E p \in Watcher \cap Mortal : CrashWatcher(p)
  \/ \E c \in Command : DispatchRetry(c)

Spec == Init /\ [][Next]_lifecycleVars

-----------------------------------------------------------------------------
(* Type *)

Live(p) == prov[p] = "live"

Verdicts == [of : Command \cup {NoCommand}, status : Terminal \cup {"none"}, by : Proc \cup {NoProc}]

(* Every record keeps to its schema: statuses, owners, evidence fields.    *)
TypeOK ==
  /\ cmd \in [Command -> [status : {"none", "queued", "claimed", "running", "attention", "completed", "failed"},
                          worker : Worker \cup {NoProc}, session : BOOLEAN,
                          result : Terminal \cup {"none", "error", "prelaunch_failed", "retry_refused"}]]
  /\ \A c \in Command :
       /\ exe[c].status \in {"none", "reserved", "running", "cancelled"} \cup Terminal
       /\ {exe[c].prov, exe[c].lease, exe[c].ended} \subseteq Proc \cup {NoProc}
       /\ exe[c].evidence \in Evidence
  /\ task \in [status : {"ready", "in_progress", "blocked", "completed"}, active : Command \cup {NoCommand},
               retry : Command \cup {NoCommand}, stamp : Verdicts]
  /\ handoff \subseteq Verdicts
  /\ root \in [owner : Command \cup {NoCommand}, token : Proc \cup {NoProc}, active : BOOLEAN, bind : Verdicts,
               settled : BOOLEAN, strikes : [Views -> 0 .. Threshold]]
  /\ lease \in [of : Command \cup {NoCommand}, token : Proc \cup {NoProc}, active : BOOLEAN, linked : BOOLEAN]
  /\ prov \in [Proc -> {"none", "live", "dead"}]
  /\ pc \in [Proc -> Points]
  /\ \A p \in Proc : my[p].c \in Command \cup {NoCommand}
  /\ faults \in [store : 0 .. MaxFaults, crash : 0 .. MaxCrashes]

-----------------------------------------------------------------------------
(* Safety *)

(* One Task never has two providers working at it at once, whatever the    *)
(* workers, watchers, crashes and requeued claims did before: the claim,   *)
(* the reservation and the running gate together.                          *)
OneProvider == \A p, q \in {r \in Proc : Live(r)} : p = q

(* While a provider works, the process that started it holds the Task's    *)
(* claim (and the writer lease) for a running Execution without a verdict: *)
(* the watcher's timeouts, attention notes and cancellations never take    *)
(* authority from under it.                                                *)
ProviderGuarded ==
  \A p \in Proc : Live(p) =>
    /\ root.active /\ root.token = p /\ root.bind = NoVerdict
    /\ exe[root.owner].status = "running"
    /\ Write => lease.active /\ lease.token = p

(* The worker and the watcher may wind up one Execution side by side, with *)
(* different outcomes; the handoff, the bind on the Task Root and the      *)
(* Task's commit stamp still tell one and the same verdict.                *)
OneVerdict ==
  /\ \A g, h \in handoff : g.of = h.of => g = h
  /\ \A h \in handoff : root.owner = h.of => root.bind = h
  /\ task.stamp # NoVerdict => task.stamp \in handoff

(* What the cleanup evidence claims is true of the other stores at that    *)
(* moment: a claim or lease it calls released is not held, and persistence *)
(* it calls complete has a handoff with that outcome.                      *)
EvidenceTruthful ==
  \A c \in Command :
    LET e == exe[c].evidence
    IN  /\ e.claim = "released" => ~ClaimedBy(c)
        /\ e.writer = "released" => ~(lease.active /\ lease.of = c)
        /\ e.persistence = "complete" => \E h \in handoff : h.of = c /\ h.status = e.outcome

(* The states of an attempt and its watcher: typed, and the evidence on    *)
(* every Execution true (execution_lifecycle.py:27-106).                   *)
AttemptInv == TypeOK /\ EvidenceTruthful

(* A claim is given up before a verdict only when no provider runs, and    *)
(* after one only when its handoff exists or a view has failed for good    *)
(* (_retain_terminal_authority, _attention_note).  The release of an       *)
(* orphaned claim is judged by RequeueHasNoExecution.                      *)
VerdictBeforeRelease ==
  [][\A c \in Command : ClaimedBy(c) /\ ~ClaimedBy(c)' /\ (\A p \in Proc : pc[p] # "orphan_free") =>
       IF root.bind = NoVerdict
       THEN \A p \in Proc : ~Live(p)
       ELSE root.bind \in handoff \/ \E v \in Views : root.strikes[v] >= Threshold]_root

(* A retry claims the Task only when the attempt it retries was cancelled  *)
(* before it ran, or has ended and left its handoff (prepare_task_retry).  *)
RetryAfterVerdict ==
  \A c \in Command \ {First} : ClaimedBy(c) =>
    LET d == Prior[c]
    IN  /\ exe[d].status = "cancelled" \/ \E h \in handoff : h.of = d
        /\ exe[d].status # "running"

-----------------------------------------------------------------------------
(* Liveness *)

Launcher == IF Async THEN Worker ELSE Watcher

(* Processes go on, and the scheduled task starts the watcher every        *)
(* minute; a provider exits and a turn ends, since the launchers bound it; *)
(* a claim grows old, so reconciliation does not put it off for ever.      *)
Fairness ==
  /\ \A p \in Proc : WF_pc(Steps(p))
  /\ \A p \in Launcher : WF_prov(ProviderExits(p)) /\ SF_pc(TurnEnds(p))
  /\ \A p \in Watcher : SF_pc(Reconcile(p) /\ pc'[p] # "idle")

FairSpec == Spec /\ Fairness

(* Two outcomes were reported and the evidence has the other one: its      *)
(* merge raises in every tick.                                             *)
Disputed(c) == Settled(exe[c].status) /\ exe[c].evidence.outcome \notin {"none", exe[c].status}

(* A queued Command is not lost, wherever its worker crashes: it ends, or  *)
(* is put before a person (attention), or its outcome is disputed.         *)
Answered ==
  \A c \in Command :
    cmd[c].status = "queued" ~> CommandOver(cmd[c].status) \/ cmd[c].status = "attention" \/ Disputed(c)

(* No worker is left and the watcher is between two ticks. *)
Quiet == (\A k \in Worker : ~Alive(k)) /\ \A p \in Watcher : pc[p] = "idle"

(* An Execution the watcher can terminalize, and one whose wind-up it can  *)
(* complete.                                                               *)
Stopped(c) == exe[c].status = "running" /\ ProviderState(exe[c]) = "dead" /\ root.bind = NoVerdict

Repairable(c) ==
  LET e == exe[c]
  IN  /\ Settled(e.status) /\ task.active = c /\ root.bind \in {NoVerdict, VerdictOf(c, e)}
      /\ ~Disputed(c)
      /\ e.evidence.persistence # "complete" \/ Recoverable(c)

(* A claim left by a dead worker is released, with the verdict handed off, *)
(* as long as the Command is not over.                                     *)
ClaimsSettle ==
  \A c \in Command :
    Quiet /\ ClaimedBy(c) /\ ~CommandOver(cmd[c].status) /\ (Stopped(c) \/ Repairable(c))
    ~> ~ClaimedBy(c) /\ VerdictOf(c, exe[c]) \in handoff

-----------------------------------------------------------------------------
(* What the comments and tests say and the code does not keep *)

(* The watcher does "not rewrite the execution authority record if         *)
(* execution is already terminal" (_attention).                            *)
ExecutionTerminalKept ==
  [][\A c \in Command : Settled(exe[c].status) => exe'[c].status = exe[c].status]_exe

(* A non-terminal Command "must NEVER overwrite" a terminal one (_write).  *)
CommandTerminalKept ==
  [][\A c \in Command : CommandOver(cmd[c].status) => CommandOver(cmd'[c].status)]_cmd

(* "The provider outcome is authoritative once wait() returns"             *)
(* (run_execution): no other verdict is bound for a completed turn.        *)
OutcomeKept == \A k \in Worker : my[k].verdict = "completed" => root.bind.status # "interrupted"

(* A Command is requeued by the orphan release only while "No Execution    *)
(* record exists" (_release_orphan_pre_execution_claim).                   *)
RequeueHasNoExecution ==
  [][\A c \in Command : cmd[c].status # "none" /\ cmd'[c].status = "queued" => exe[c].status = "none"]_cmd

(* A reservation is cancelled only if it "provably never acquired running  *)
(* authority" (cancel_reserved_execution): no provider runs for it.        *)
CancelledNeverRan == \A c \in Command : exe[c].status = "cancelled" => \A p \in Proc : ~Live(p)

(* "Terminal status is publishable only after durable cleanup evidence"    *)
(* (_terminal_cleanup_confirmed): a Command completes only after that.     *)
PublishedAfterCleanup ==
  [][\A c \in Command :
       ~CommandOver(cmd[c].status) /\ cmd'[c].status = "completed" => CleanupConfirmed(exe[c].evidence, "completed")]_cmd

(* A worker "owns the existing claimed-command lifecycle until terminal"   *)
(* (command_watcher_worker): it does not leave a claimed Command at once.  *)
WorkerRunsItsCommand ==
  [][\A k \in Worker : pc[k] = "boot" /\ pc'[k] = "done" => cmd[Mine(k)].status # "claimed"]_pc

(* After a crash behind the terminal writes "a fresh process converges     *)
(* cleanup and releases runtime authority" (test_subprocess_recovery).     *)
CleanupConverges ==
  \A c \in Command :
    Quiet /\ ClaimedBy(c) /\ ~CommandOver(cmd[c].status) /\ Repairable(c)
    ~> CleanupConfirmed(exe[c].evidence, exe[c].status)
=============================================================================

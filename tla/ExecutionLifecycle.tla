------------------------- MODULE ExecutionLifecycle -------------------------
(***************************************************************************)
(* One attempt at a Task, from the reservation to the last cleanup record: *)
(* manager/execution_runner.py and manager/execution_lifecycle.py with the *)
(* record operations of manager/executions.py.                             *)
(*                                                                         *)
(* The records live in Drive, which has no conditional write: every update *)
(* is a read, some work, and a put that replaces the whole record.  Read   *)
(* and put are separate steps here, so that another process can write in   *)
(* between.  A put may fail after it took effect, or before; a read-back   *)
(* that disagrees counts as such a failure.                                *)
(*                                                                         *)
(* Only the Task Root and the writer lease have conditional writes.  Their *)
(* operations are single steps here: the modules TaskRoot and WriterLease  *)
(* model the loops behind them.                                            *)
(*                                                                         *)
(* The actions take the process that runs them.  A worker runs them for    *)
(* its Command; a Command Watcher runs those of terminalization when it    *)
(* winds up the Execution of a dead worker (module CommandWatcher).        *)
(***************************************************************************)
EXTENDS CleanupEvidence, FiniteSets

CONSTANTS
  Verdict,    \* outcomes a turn may have
  Command,    \* Commands of one Task; a Command names its Execution
  First,      \* the Command the dispatch created with the Task
  Prior,      \* the Command whose Execution a retry Command retries
  Worker,     \* command_watcher_worker processes
  Watcher,    \* command_watcher processes
  Unreliable, \* processes whose calls to a store may fail (bounds the model only)
  MaxFaults,  \* bound on store failures (bounds the model only)
  Mortal,     \* processes that may crash (bounds the model only)
  MaxCrashes, \* bound on crashes (bounds the model only)
  NoCommand, NoProc

Proc == Worker \cup Watcher

ASSUME LifecycleAssumption ==
  /\ First \in Command
  /\ Prior \in [Command \ {First} -> Command]
  /\ NoCommand \notin Command
  /\ NoProc \notin Proc
  /\ Worker \cap Watcher = {}
  /\ Unreliable \subseteq Proc /\ MaxFaults \in Nat /\ Mortal \subseteq Proc /\ MaxCrashes \in Nat
  /\ Verdict \subseteq {"completed", "failed", "interrupted"}

VARIABLES
  cmd,      \* Command records (Drive)
  exe,      \* Execution records (Drive)
  task,     \* the Task record (Drive)
  handoff,  \* handoff records (Drive)
  root,     \* the Task Root (GCS)
  lease,    \* the repository's writer lease (GCS)
  prov,     \* the provider process each process started
  pc,       \* where each process is
  my,       \* local variables of each process
  faults    \* failures so far: of a store, and crashes

stores == <<cmd, exe, task, handoff, root, lease>>
lifecycleVars == <<cmd, exe, task, handoff, root, lease, prov, pc, my, faults>>

-----------------------------------------------------------------------------
(* Records *)

Terminal == {"completed", "failed", "interrupted"}
Settled(status) == status \in Terminal

NewCommand ==
  [status |-> "none", worker |-> NoProc, result |-> "none", session |-> FALSE]

CommandOver(status) == status \in {"completed", "failed"}

NewExecution ==
  [status |-> "none", prov |-> NoProc, session |-> FALSE, lease |-> NoProc, ended |-> NoProc,
   evidence |-> NoEvidence]

(* What terminalization makes of the Task and the handoff. *)
TaskStatusOf(s) == IF s = "completed" THEN "completed" ELSE "blocked"

(* A verdict as the bind, the handoff and the Task carry it; "by" stands   *)
(* for what two terminal records of one status differ in: completion time, *)
(* reason, session.                                                        *)
NoVerdict == [of |-> NoCommand, status |-> "none", by |-> NoProc]
VerdictOf(c, e) == [of |-> c, status |-> e.status, by |-> e.ended]

Views == {"handoff", "task"}

NoRoot ==
  [owner |-> NoCommand, token |-> NoProc, active |-> FALSE, bind |-> NoVerdict, settled |-> FALSE,
   strikes |-> [v \in Views |-> 0]]

NoLease == [of |-> NoCommand, token |-> NoProc, active |-> FALSE, linked |-> FALSE]

(* read_task_root_or_legacy_claim: a released epoch is no claim. *)
ClaimedBy(c) == root.active /\ root.owner = c
Unclaimed == ~root.active

NoWork ==
  [c |-> NoCommand, cmd |-> NewCommand, out |-> NewCommand, exe |-> NewExecution, seen |-> NewExecution,
   task |-> [status |-> "none", active |-> NoCommand, retry |-> NoCommand, stamp |-> NoVerdict],
   verdict |-> "none", done |-> {}, raised |-> FALSE, freed |-> FALSE, clean |-> NoEvidence,
   observed |-> FALSE, view |-> "task", token |-> NoProc, next |-> "idle", onError |-> "idle"]

-----------------------------------------------------------------------------
(* Steps of a process *)

Mine(p) == my[p].c
End(p) == IF p \in Worker THEN "done" ELSE "idle"

(* What of the local variables w is still in use at a point l: of the      *)
(* Command in hand its worker, of the Execution as the caller read it all  *)
(* or, for an attention note, what decides on one; and the rest of a call  *)
(* of terminalize_execution.                                               *)
Brief(w) == [NoWork EXCEPT !.c = w.c, !.cmd.worker = w.cmd.worker]
Sighted(w) == [Brief(w) EXCEPT !.seen = w.seen]
Called(w) ==
  [Sighted(w) EXCEPT !.verdict = w.verdict, !.raised = w.raised, !.freed = w.freed,
                     !.next = w.next, !.onError = w.onError]

Glimpse(e) == IF e.status = "running" THEN e ELSE [NewExecution EXCEPT !.status = e.status]

(* What the handoff and the Task are made of. *)
Signed(e) == [NewExecution EXCEPT !.status = e.status, !.ended = e.ended]

BriefAt   == {"spawn_failed", "handler", "drop_lease", "undo_claim", "mark_cmd", "mark_task", "orphan",
              "confirm_or_raise", "heal"}
NotedAt   == {"attention", "mark", "confirm"}
SightedAt == {"cancel", "undo_lease", "fix", "recover", "converge", "strike_free", "strike_note"}
CalledAt  == {"prepare", "evidence", "link", "link_lease", "turn", "last", "close", "recover_lease", "term", "persist",
              "views", "audit", "free_lease", "free_claim"}
PuttingAt == {"evidence_put", "link_put", "beat_put", "last_put", "persist_put", "retain_put", "audit_put",
              "clean_put"}
RepairsAt == {"cancel_put", "fix_audit", "fix_audit_put", "strike_note_put", "converge_put"}
SignedAt  == {"handoff", "task", "fix_handoff", "fix_handoff_view", "fix_task", "fix_task_view"}
WritesAt  == {"write", "write_put"}
BlocksAt  == {"block", "block_put"}
TaskPutAt == {"mark_task_put", "heal_put"}
RestsAt   == {"idle", "done"}
WholeAt   == {"boot", "reserve", "reserve_put", "gate", "lease", "claim", "gate_task", "gate_task_put", "gate_exec_put",
              "undo_exec", "undo_task", "retry", "retry_put", "retry_refused", "take", "spawn", "orphan_free",
              "reconcile", "judge"}

Kept(l, w) ==
  CASE l \in WritesAt  -> [NoWork EXCEPT !.c = w.c, !.cmd = w.cmd, !.out = w.out, !.token = w.token,
                                         !.verdict = w.verdict, !.raised = w.raised,
                                         !.next = w.next, !.onError = w.onError]
    [] l \in CalledAt  -> Called(w)
    [] l \in NotedAt   -> [Brief(w) EXCEPT !.seen = Glimpse(w.seen)]
    [] l \in PuttingAt -> [Called(w) EXCEPT !.exe = w.exe]
    [] l \in BriefAt   -> Brief(w)
    [] l \in WholeAt   -> w
    [] l \in SightedAt -> Sighted(w)
    [] l \in SignedAt  -> [w EXCEPT !.exe = Signed(w.exe)]
    [] l \in RestsAt   -> NoWork
    [] l \in TaskPutAt -> [Brief(w) EXCEPT !.task = w.task]
    [] l = "mark_put"  -> [Brief(w) EXCEPT !.exe = w.exe]
    [] l = "finish"    -> [Brief(w) EXCEPT !.verdict = w.verdict, !.raised = w.raised]
    [] l = "bind"      -> [Called(w) EXCEPT !.exe = Signed(w.exe)]
    [] l = "strike"    -> [Sighted(w) EXCEPT !.view = w.view]
    [] l = "retain"    -> [Called(w) EXCEPT !.done = w.done]
    [] l = "clean"     -> [Called(w) EXCEPT !.clean = w.clean]
    [] l \in RepairsAt -> [Sighted(w) EXCEPT !.exe = w.exe]
    [] l \in BlocksAt  -> [NoWork EXCEPT !.c = w.c, !.out = w.out, !.task = w.task, !.next = w.next,
                                         !.onError = w.onError]

(* p goes on at l with the local variables w. *)
GoWith(p, l, w) ==
  /\ pc' = [pc EXCEPT ![p] = l]
  /\ my' = [my EXCEPT ![p] = Kept(l, w)]

Well == UNCHANGED faults
Faulty(p) == p \in Unreliable /\ faults.store < MaxFaults /\ faults' = [faults EXCEPT !.store = @ + 1]
Crashes == faults.crash < MaxCrashes /\ faults' = [faults EXCEPT !.crash = @ + 1]

Untouched == UNCHANGED stores
PutCmd(c, r)  == cmd' = [cmd EXCEPT ![c] = r]  /\ UNCHANGED <<exe, task, handoff, root, lease>>
PutExe(c, r)  == exe' = [exe EXCEPT ![c] = r]  /\ UNCHANGED <<cmd, task, handoff, root, lease>>
PutTask(r)    == task' = r                     /\ UNCHANGED <<cmd, exe, handoff, root, lease>>
PutHandoff(h) == handoff' = handoff \cup {h}   /\ UNCHANGED <<cmd, exe, task, root, lease>>
PutRoot(r)    == root' = r                     /\ UNCHANGED <<cmd, exe, task, handoff, lease>>
PutLease(l)   == lease' = l                    /\ UNCHANGED <<cmd, exe, task, handoff, root>>

(* A step that reads or computes: w becomes the local state. *)
Step(p, l, w) == GoWith(p, l, w) /\ Untouched /\ Well /\ UNCHANGED prov

(* A step that changes nothing but where the process is. *)
Jump(p, l) == Step(p, l, my[p])

(* A write, and where it leads when it succeeds and when it raises. *)
AttemptWith(p, put, good, bad, w) ==
  /\ \/ put /\ Well /\ GoWith(p, good, w)
     \/ Faulty(p) /\ (put \/ Untouched) /\ GoWith(p, bad, w)
  /\ UNCHANGED prov

Attempt(p, put, good, bad) == AttemptWith(p, put, good, bad, my[p])

(* A read that raises. *)
UnreadWith(p, l, w) == Faulty(p) /\ GoWith(p, l, w) /\ Untouched /\ UNCHANGED prov
Unread(p, l) == UnreadWith(p, l, my[p])

-----------------------------------------------------------------------------
(* Command records: _write reads before it puts, and a Command that is     *)
(* over is neither reopened nor stripped of its session.                   *)

WouldDowngrade(c, r) ==
  /\ CommandOver(cmd[c].status)
  /\ ~CommandOver(r.status) \/ (cmd[c].session /\ ~r.session)

(* Hands the record r to _write; the process goes on at next, or, when the *)
(* store fails, at onError.                                                *)
Publish(p, w, r, next, onError) ==
  Step(p, "write", [w EXCEPT !.out = r, !.next = next, !.onError = onError])

(* The last write of a call. *)
Conclude(p, r) == Publish(p, [NoWork EXCEPT !.c = Mine(p)], r, End(p), End(p))

WriteRead(p) ==
  /\ pc[p] = "write"
  /\ \/ Jump(p, IF WouldDowngrade(Mine(p), my[p].out) THEN my[p].next ELSE "write_put")
     \/ Unread(p, "write_put")   \* an unreadable record is taken for absent

WritePut(p) ==
  /\ pc[p] = "write_put"
  /\ Attempt(p, PutCmd(Mine(p), my[p].out), my[p].next, my[p].onError)

Ended(r, status, result, session) ==
  [r EXCEPT !.status = status, !.result = result, !.session = session]

FailedWith(r, kind) == Ended(r, "failed", kind, FALSE)

EndedAs(r, e) ==
  Ended(r, IF e.status = "completed" THEN "completed" ELSE "failed", e.status, e.session)

(* _block_prelaunch_task, followed by the Command record my[p].out. *)
BlockRead(p) ==
  /\ pc[p] = "block"
  /\ \/ Step(p, "block_put", [my[p] EXCEPT !.task = task])
     \/ Unread(p, End(p))

BlockPut(p) ==
  /\ pc[p] = "block_put"
  /\ Attempt(p, PutTask([my[p].task EXCEPT !.status = "blocked"]), "write", End(p))

Blocking(p, r) == [NoWork EXCEPT !.c = Mine(p), !.out = r, !.next = End(p), !.onError = End(p)]
BlockThenFail(p, r) == Step(p, "block", Blocking(p, r))

-----------------------------------------------------------------------------
(* Reservation and running gate *)

(* The worker is told the Task and the Execution; it looks its Command up  *)
(* under the id of the Task, which is the id of the first Command only.    *)
WorkerBoot(p) ==
  /\ pc[p] = "boot"
  /\ \/ IF cmd[First].status = "claimed" /\ Mine(p) = First
        THEN Step(p, "reserve", [my[p] EXCEPT !.cmd = cmd[First]])
        ELSE Jump(p, "done")
     \/ Unread(p, "done")

(* A reservation by another process for this Execution is taken over only  *)
(* if its terms are the same; the gate needs it to be still reserved.      *)
Reserve(p) ==
  /\ pc[p] = "reserve"
  /\ \/ exe[Mine(p)].status = "none" /\ Jump(p, "reserve_put")
     \/ exe[Mine(p)].status = "reserved" /\ Jump(p, "gate")
     \/ Jump(p, "handler")
     \/ Unread(p, "handler")

ReservePut(p) ==
  /\ pc[p] = "reserve_put"
  /\ Attempt(p, PutExe(Mine(p), [NewExecution EXCEPT !.status = "reserved"]), "gate", "handler")

GateEntry(p) ==
  /\ pc[p] = "gate"
  /\ \/ IF exe[Mine(p)].status = "reserved" /\ task.status = "ready"
        THEN Step(p, IF Write THEN "lease" ELSE "claim",
                  [my[p] EXCEPT !.exe = exe[Mine(p)], !.task = task])
        ELSE Jump(p, "handler")
     \/ Unread(p, "handler")

AcquireLease(p) ==
  /\ pc[p] = "lease"
  /\ IF lease.active
     THEN Jump(p, "handler")
     ELSE /\ Attempt(p, PutLease([NoLease EXCEPT !.of = Mine(p), !.token = p, !.active = TRUE]),
                     "claim", "handler")

Claimable == Unclaimed /\ (root.bind = NoVerdict \/ root.settled)

(* Refused for certain, the lease goes back; unanswered, it stays. *)
AcquireRoot(p) ==
  /\ pc[p] = "claim"
  /\ IF Claimable
     THEN /\ Attempt(p, PutRoot([NoRoot EXCEPT !.owner = Mine(p), !.token = p, !.active = TRUE]),
                     "gate_task", "handler")
     ELSE Jump(p, "drop_lease")

GateTask(p) ==
  /\ pc[p] = "gate_task"
  /\ \/ Jump(p, IF task = my[p].task /\ task.active \in {NoCommand, Mine(p)}
                THEN "gate_task_put" ELSE "undo_exec")
     \/ Unread(p, "undo_exec")

GateTaskPut(p) ==
  /\ pc[p] = "gate_task_put"
  /\ Attempt(p, PutTask([my[p].task EXCEPT !.status = "in_progress", !.active = Mine(p)]),
             "gate_exec_put", "undo_exec")

(* From here on the outcome is an interruption until a turn has ended. *)
GateExecPut(p) ==
  /\ pc[p] = "gate_exec_put"
  /\ AttemptWith(p, PutExe(Mine(p), [my[p].exe EXCEPT !.status = "running",
                                                      !.lease = IF Write THEN p ELSE NoProc]),
                 "write", "undo_exec",
                 [my[p] EXCEPT !.out = [my[p].cmd EXCEPT !.status = "running"], !.next = "prepare",
                               !.onError = "close", !.verdict = "interrupted", !.raised = TRUE])

(* The gate failed after the claim: the Execution first, then the Task,    *)
(* then the claim, then the lease; whatever cannot be confirmed keeps the  *)
(* rest.  Re-reading and restoring one record is one step.                 *)
UndoExec(p) ==
  /\ pc[p] = "undo_exec"
  /\ LET e == exe[Mine(p)]
     IN  \/ IF e = my[p].exe THEN Jump(p, "undo_task")
            ELSE IF e.status = "running"
            THEN Attempt(p, PutExe(Mine(p), my[p].exe), "undo_task", "handler")
            ELSE Jump(p, "handler")
         \/ Unread(p, "handler")

UndoTask(p) ==
  /\ pc[p] = "undo_task"
  /\ \/ IF task # my[p].task /\ task.active = Mine(p)
        THEN Attempt(p, PutTask(my[p].task), "undo_claim", "handler")
        ELSE Jump(p, "undo_claim")
     \/ Unread(p, "handler")

(* release_runtime_claim: a claim without a bind is deleted, a bound one   *)
(* is kept, inactive and settled.                                          *)
RootReleased ==
  IF root.bind = NoVerdict THEN NoRoot ELSE [root EXCEPT !.active = FALSE, !.settled = TRUE]

UndoClaim(p) ==
  /\ pc[p] = "undo_claim"
  /\ CASE root.owner # Mine(p) -> Jump(p, "drop_lease")
       [] root.owner = Mine(p) /\ root.bind = NoVerdict /\ root.token # p -> Jump(p, "handler")
       [] OTHER -> Attempt(p, PutRoot(RootReleased), "drop_lease", "handler")

LeaseReleased == [lease EXCEPT !.active = FALSE]

DropLease(p) ==
  /\ pc[p] = "drop_lease"
  /\ IF Write /\ lease.of = Mine(p) /\ lease.token = p
     THEN Attempt(p, PutLease(LeaseReleased), "handler", "handler")
     ELSE Jump(p, "handler")

-----------------------------------------------------------------------------
(* The turn *)

Starts(p, state) == prov' = [prov EXCEPT ![p] = state]

(* The launcher starts the provider, or stops what it had started and      *)
(* raises.                                                                 *)
Prepare(p) ==
  /\ pc[p] = "prepare"
  /\ LET w == [my[p] EXCEPT !.next = "finish", !.onError = "handler"]
     IN  \/ Starts(p, "live") /\ GoWith(p, "evidence", w)
         \/ UNCHANGED prov /\ GoWith(p, "term", w)
  /\ Untouched /\ Well

(* heartbeat_execution and link_execution_session: read, change, put.      *)
Touches(p, l) ==
  \/ IF exe[Mine(p)].status = "running"
     THEN Step(p, l, [my[p] EXCEPT !.exe = exe[Mine(p)]])
     ELSE Jump(p, "close")
  \/ Unread(p, "close")

PutTouched(p, e, good) == Attempt(p, PutExe(Mine(p), e), good, "close")

RecordProvider(p) == pc[p] = "evidence" /\ Touches(p, "evidence_put")

RecordProviderPut(p) ==
  /\ pc[p] = "evidence_put"
  /\ PutTouched(p, [my[p].exe EXCEPT !.prov = p], "link")

(* Linking does not ask for a running Execution. *)
LinkSession(p) ==
  /\ pc[p] = "link"
  /\ \/ Step(p, "link_put", [my[p] EXCEPT !.exe = exe[Mine(p)]])
     \/ Unread(p, "close")

LinkSessionPut(p) ==
  /\ pc[p] = "link_put"
  /\ PutTouched(p, [my[p].exe EXCEPT !.session = TRUE], IF Write THEN "link_lease" ELSE "turn")

LinkLease(p) ==
  /\ pc[p] = "link_lease"
  /\ IF lease.of = Mine(p) /\ lease.token = p /\ lease.active
     THEN Attempt(p, PutLease([lease EXCEPT !.linked = TRUE]), "turn", "close")
     ELSE Jump(p, "close")

(* Heartbeats go on while the turn lasts; one that raises ends the wait.   *)
(* The last one follows the outcome and may fail.                          *)
Heartbeat(p) == \/ pc[p] = "turn" /\ Touches(p, "beat_put")
                \/ pc[p] = "last" /\ Touches(p, "last_put")

HeartbeatPut(p) ==
  \/ pc[p] = "beat_put" /\ PutTouched(p, my[p].exe, "turn")
  \/ pc[p] = "last_put" /\ PutTouched(p, my[p].exe, "close")

TurnEnds(p) ==
  /\ pc[p] = "turn"
  /\ \/ \E v \in Verdict : Step(p, "last", [my[p] EXCEPT !.verdict = v, !.raised = FALSE])
     \/ Jump(p, "close")

(* Without proof that the provider stopped nothing is terminalized.  A     *)
(* completed write turn may fail its scope, push or validation check.      *)
Close(p) ==
  /\ pc[p] = "close"
  /\ \/ /\ prov' = [prov EXCEPT ![p] = IF @ = "live" THEN "dead" ELSE @]
        /\ \E v \in {my[p].verdict} \cup (IF Write /\ my[p].verdict = "completed"
                                          THEN {"failed"} ELSE {}) :
             GoWith(p, "term", [my[p] EXCEPT !.verdict = v, !.next = "finish", !.onError = "handler"])
        /\ Well
     \/ /\ prov[p] = "live"
        /\ GoWith(p, "handler", my[p]) /\ Faulty(p) /\ UNCHANGED prov
  /\ Untouched

(* A provider exits by itself, whether or not its worker is there. *)
ProviderExits(p) ==
  /\ prov[p] = "live"
  /\ Starts(p, "dead")
  /\ Untouched /\ Well /\ UNCHANGED <<pc, my>>

-----------------------------------------------------------------------------
(* terminalize_execution *)

OwnsLease(p, e) ==
  /\ lease.of = Mine(p)
  /\ lease.token = e.lease
  /\ lease.linked => e.session
  /\ IF my[p].freed THEN ~lease.active ELSE lease.token = p

HasAuthority(p, e) ==
  /\ ClaimedBy(Mine(p))
  /\ Write /\ e.evidence.writer # "released" => OwnsLease(p, e)

HandoffConflicts(h) == \E g \in handoff : g.of = h.of /\ g.status = h.status /\ g # h

TerminalTask(t, c, e) ==
  [t EXCEPT !.status = TaskStatusOf(e.status), !.stamp = VerdictOf(c, e)]

(* A repeated callback for a verdict that is wound up completely. *)
AllDone(c, v) ==
  LET e == exe[c]
  IN  /\ e.status = v
      /\ VerdictOf(c, e) \in handoff
      /\ task.active = c /\ task.status = TaskStatusOf(v)
      /\ e.evidence.persistence = "complete" /\ e.evidence.claim = "released"
      /\ e.evidence.writer \in {"released", "not_required"}

TerminalizeEntry(p) ==
  /\ pc[p] = "term"
  /\ LET e == exe[Mine(p)]
         w == [my[p] EXCEPT !.exe = e]
     IN  \/ IF e.status \notin {"running", w.verdict} THEN Jump(p, w.onError)
            ELSE IF AllDone(w.c, w.verdict) THEN Step(p, w.next, w)
            ELSE IF ~HasAuthority(p, e) THEN Jump(p, w.onError)
            ELSE Step(p, IF e.status = "running" THEN "persist" ELSE "bind", w)
         \/ Unread(p, w.onError)

Persist(p) ==
  /\ pc[p] = "persist"
  /\ LET w == [my[p] EXCEPT !.done = {}]
     IN  \/ IF exe[w.c].status = "running"
            THEN Step(p, "persist_put", [w EXCEPT !.exe = exe[w.c]])
            ELSE Step(p, "retain", w)
         \/ Unread(p, "retain")

PersistPut(p) ==
  /\ pc[p] = "persist_put"
  /\ LET e == [my[p].exe EXCEPT !.status = my[p].verdict, !.ended = p]
     IN  AttemptWith(p, PutExe(Mine(p), e), "bind", "retain", [my[p] EXCEPT !.exe = e])

(* commit_terminal_bind: only the owner of the epoch binds, and once. *)
BindableMutant(c, b) == root.owner = c
Bindable(c, b) == root.owner = c /\ root.bind \in {NoVerdict, b}

Bound(b) == [root EXCEPT !.bind = b]

Bind(p) ==
  /\ pc[p] = "bind"
  /\ LET w == [my[p] EXCEPT !.done = {"execution"}, !.task = task]
         b == VerdictOf(w.c, w.exe)
     IN  IF Bindable(w.c, b) /\ ~HandoffConflicts(VerdictOf(w.c, w.exe))
         THEN AttemptWith(p, PutRoot(Bound(b)), "handoff", "retain", w)
         ELSE Step(p, "retain", w)

WriteHandoff(p) ==
  /\ pc[p] = "handoff"
  /\ LET h == VerdictOf(Mine(p), my[p].exe)
     IN  IF HandoffConflicts(h)
         THEN Jump(p, "retain")
         ELSE Attempt(p, PutHandoff(h), "task", "retain")

WriteTask(p) ==
  /\ pc[p] = "task"
  /\ LET w == [my[p] EXCEPT !.done = {"execution", "handoff"}]
         t == TerminalTask(w.task, w.c, w.exe)
     IN  IF w.task.active # w.c THEN Step(p, "retain", w)
         ELSE IF w.task = t THEN Step(p, "views", w)
         ELSE AttemptWith(p, PutTask(t), "views", "retain", w)

(* Both views are marked verified, which clears their failures. *)
VerifyViews(p) ==
  /\ pc[p] = "views"
  /\ LET w == [my[p] EXCEPT !.done = AllParts]
     IN  IF root.owner = w.c
         THEN AttemptWith(p, PutRoot([root EXCEPT !.strikes = NoRoot.strikes]), "audit", "retain", w)
         ELSE Step(p, "retain", w)

(* Folding an update into the evidence of a record just read; where the    *)
(* process goes if the outcome conflicts.                                  *)
MergesInto(p, u, l, bad) ==
  LET e == exe[Mine(p)]
  IN  \/ IF Mergeable(e.evidence, u)
         THEN Step(p, l, [my[p] EXCEPT !.exe = [e EXCEPT !.evidence = Merge(e.evidence, u)]])
         ELSE Jump(p, bad)
      \/ Unread(p, bad)

(* Persistence failed: what is done is recorded, authority is kept, and    *)
(* the error goes on.                                                      *)
Retain(p) ==
  pc[p] = "retain" /\ MergesInto(p, Retained(my[p].verdict, my[p].done), "retain_put", my[p].onError)

RetainPut(p) ==
  /\ pc[p] = "retain_put"
  /\ Attempt(p, PutExe(Mine(p), my[p].exe), my[p].onError, my[p].onError)

AuditUpdateMutant(p) == [Persisted(my[p].verdict) EXCEPT !.writer = "released"]
AuditUpdate(p) ==
  IF my[p].freed THEN [Persisted(my[p].verdict) EXCEPT !.writer = "released"]
                 ELSE Persisted(my[p].verdict)

Audit(p) == pc[p] = "audit" /\ MergesInto(p, AuditUpdate(p), "audit_put", my[p].onError)

(* Without a complete audit the call returns and releases nothing. *)
AuditPut(p) ==
  /\ pc[p] = "audit_put"
  /\ LET held == Write /\ my[p].exe.evidence.writer # "released" /\ ~my[p].freed
     IN  Attempt(p, PutExe(Mine(p), my[p].exe), IF held THEN "free_lease" ELSE "free_claim", my[p].next)

(* cleanup_execution: the lease first, the claim only after it. *)
WriterResult(p) ==
  IF Write THEN "released" ELSE "not_required"

FreeLease(p) ==
  /\ pc[p] = "free_lease"
  /\ LET failed == [my[p] EXCEPT !.clean = Cleaned(my[p].verdict, "failed", "not_attempted")]
     IN  IF lease.of = Mine(p) /\ lease.token = p
         THEN /\ \/ PutLease(LeaseReleased) /\ Well /\ GoWith(p, "free_claim", my[p])
                 \/ Faulty(p) /\ (PutLease(LeaseReleased) \/ Untouched) /\ GoWith(p, "clean", failed)
              /\ UNCHANGED prov
         ELSE Step(p, "clean", failed)

FreeClaim(p) ==
  /\ pc[p] = "free_claim"
  /\ LET mine == root.owner = Mine(p)
         To(claim) == GoWith(p, "clean", [my[p] EXCEPT !.clean = Cleaned(my[p].verdict, WriterResult(p), claim)])
     IN  \/ mine /\ PutRoot(RootReleased) /\ Well /\ To("released")
         \/ ~mine /\ Untouched /\ Well /\ To("not_released")
         \/ Faulty(p) /\ ((mine /\ PutRoot(RootReleased)) \/ Untouched) /\ To("failed")
  /\ UNCHANGED prov

Clean(p) == pc[p] = "clean" /\ MergesInto(p, my[p].clean, "clean_put", my[p].onError)

CleanPut(p) ==
  /\ pc[p] = "clean_put"
  /\ Attempt(p, PutExe(Mine(p), my[p].exe), my[p].next, my[p].next)

-----------------------------------------------------------------------------
(* The worker reports: _run_claimed_command after launch_task *)

Finish(p) ==
  /\ pc[p] = "finish"
  /\ IF my[p].raised
     THEN Jump(p, "handler")
     ELSE \/ Conclude(p, EndedAs(my[p].cmd, [NewExecution EXCEPT !.status = my[p].verdict, !.session = TRUE]))
          \/ Unread(p, "handler")   \* the session's record, or closing the provider, failed

(* _existing_terminal: a verdict whose cleanup, Task and Execution agree. *)
Publishable(c) ==
  /\ Settled(exe[c].status)
  /\ CleanupConfirmed(exe[c].evidence, exe[c].status)
  /\ task.active = c /\ task.status = TaskStatusOf(exe[c].status)

(* An exception: the Execution record decides, if there is one. *)
Handler(p) ==
  /\ pc[p] = "handler"
  /\ LET e == exe[Mine(p)]
         w == my[p]
     IN  \/ CASE Settled(e.status)     -> Conclude(p, EndedAs(w.cmd, e))
              [] e.status = "none"      -> BlockThenFail(p, FailedWith(w.cmd, "error"))
              [] e.status = "cancelled" -> Conclude(p, FailedWith(w.cmd, "error"))
              [] OTHER -> Step(p, "reconcile", [w EXCEPT !.cmd.status = "running", !.observed = TRUE])
         \/ UnreadWith(p, "block", Blocking(p, FailedWith(w.cmd, "error")))
=============================================================================

------------------------ MODULE CommandWatcherProofs -------------------------
(***************************************************************************)
(* Proofs about the Command Watcher and the workers it starts, for any     *)
(* number of workers and Commands, any store failures and any crashes, and *)
(* one watcher: the scheduled task never starts a second beside one that   *)
(* runs (MultipleInstances IgnoreNew).                                     *)
(***************************************************************************)
EXTENDS CommandWatcher, TLAPS

OneWatcher == \A v, w \in Watcher : v = w

-----------------------------------------------------------------------------
(* Types of the records and of the local variables *)

CommandType ==
  [status : {"none", "queued", "claimed", "running", "attention", "completed", "failed"},
   worker : Worker \cup {NoProc}, session : BOOLEAN,
   result : Terminal \cup {"none", "error", "prelaunch_failed", "retry_refused"}]

ExecutionType ==
  [status : {"none", "reserved", "running", "cancelled"} \cup Terminal,
   prov : Proc \cup {NoProc}, session : BOOLEAN, lease : Proc \cup {NoProc},
   ended : Proc \cup {NoProc}, evidence : Evidence]

TaskIn(statuses) ==
  [status : statuses, active : Command \cup {NoCommand}, retry : Command \cup {NoCommand}, stamp : Verdicts]

TaskType == TaskIn({"ready", "in_progress", "blocked", "completed"})
HeldTask == TaskIn({"none", "ready", "in_progress", "blocked", "completed"})

RootType ==
  [owner : Command \cup {NoCommand}, token : Proc \cup {NoProc}, active : BOOLEAN, bind : Verdicts,
   settled : BOOLEAN, strikes : [Views -> 0 .. Threshold]]

LeaseType ==
  [of : Command \cup {NoCommand}, token : Proc \cup {NoProc}, active : BOOLEAN, linked : BOOLEAN]

WorkType ==
  [c : Command \cup {NoCommand}, cmd : CommandType, out : CommandType, exe : ExecutionType,
   seen : ExecutionType, task : HeldTask, verdict : Terminal \cup {"none"}, done : SUBSET AllParts,
   raised : BOOLEAN, freed : BOOLEAN, clean : Evidence, observed : BOOLEAN, view : Views,
   token : Proc \cup {NoProc}, next : Points, onError : Points]

StoresTyped ==
  /\ cmd \in [Command -> CommandType]
  /\ exe \in [Command -> ExecutionType]
  /\ task \in TaskType
  /\ handoff \subseteq Verdicts
  /\ root \in RootType
  /\ lease \in LeaseType
  /\ prov \in [Proc -> {"none", "live", "dead"}]
  /\ faults \in [store : 0 .. MaxFaults, crash : 0 .. MaxCrashes]

LEMMA NewTyped ==
  /\ NoEvidence \in Evidence /\ NoVerdict \in Verdicts
  /\ NewCommand \in CommandType /\ NewExecution \in ExecutionType
  /\ NoRoot \in RootType /\ NoLease \in LeaseType /\ NoWork \in WorkType
<1>1. NoEvidence \in Evidence /\ NoVerdict \in Verdicts
  BY DEF NoEvidence, Evidence, NoVerdict, Verdicts
<1>2. NewCommand \in CommandType /\ NewExecution \in ExecutionType
  BY <1>1 DEF NewCommand, CommandType, NewExecution, ExecutionType
<1>3. NoRoot \in RootType /\ NoLease \in LeaseType
  BY <1>1, WatcherAssumption DEF NoRoot, RootType, NoLease, LeaseType
<1>4. {"idle", "task"} \subseteq Points \cup Views /\ "idle" \in Points /\ "task" \in Views
  BY DEF Points, WatchPoints, Views
<1>5. QED
  BY <1>1, <1>2, <1>3, <1>4 DEF NoWork, WorkType, HeldTask, TaskIn

-----------------------------------------------------------------------------
(* What a process keeps of its local variables *)

(* An Execution that has or had a provider, or a verdict.                  *)
Ran(e) == e.prov # NoProc \/ Settled(e.status)

(* An Execution that can still be started.                                 *)
Raw(e) == e.status \in {"none", "reserved"}

WritePoints == {"write", "write_put"}
BlockPoints == {"block", "block_put"}
RestPoints  == {"off", "idle", "done", "dead"}

(* The Execution in hand has a verdict.                                    *)
SettledPoints ==
  {"bind", "handoff", "task", "fix_handoff", "fix_handoff_view", "fix_task", "fix_task_view", "fix_audit"}

(* The Execution in hand is put back.                                      *)
CopyPoints ==
  {"evidence_put", "link_put", "beat_put", "last_put", "persist_put", "retain_put", "audit_put", "clean_put",
   "fix_audit_put", "strike_note_put", "converge_put"}

(* The rest of a call of terminalize_execution is in use.                  *)
CallPoints == UNION {TurnPoints, TerminalizePoints, CleanupPoints, {"recover_lease"}}

KeptPoints == Points \ {"off", "dead"}

(* v is what is left of w at the point l.                                  *)
Keeps(l, w, v) ==
  /\ v \in WorkType
  /\ l \in RestPoints => v = NoWork
  /\ l \notin RestPoints => v.c = w.c
  /\ l \in WholeAt => v = w
  /\ v.cmd.worker \in {w.cmd.worker, NoProc} /\ v.out.worker \in {w.out.worker, NoProc}
  /\ l \in WritePoints \cup BlockPoints => v.out = w.out
  /\ l \in WritePoints => v.seen = NewExecution /\ v.cmd = w.cmd
  /\ l \in WritePoints \cup BlockPoints \cup CallPoints => v.next = w.next /\ v.onError = w.onError
  /\ l \in WritePoints \cup CallPoints => v.verdict = w.verdict
  /\ l \in CopyPoints \cup {"mark_put", "fix_audit"} => v.exe = w.exe
  /\ l \in SettledPoints => v.exe.status = w.exe.status /\ v.exe.ended = w.exe.ended
  /\ Ran(v.exe) => Ran(w.exe)
  /\ Ran(v.seen) => Ran(w.seen)
  /\ HasPulse(v.seen) => HasPulse(w.seen)
  /\ l = "mark" => HasPulse(v.seen) = HasPulse(w.seen)
  /\ v.task.stamp \in {w.task.stamp, NoVerdict}

LEMMA PointsKept ==
  KeptPoints = UNION {WritesAt, CalledAt, NotedAt, PuttingAt, BriefAt, WholeAt, SightedAt, SignedAt, RestsAt,
                      TaskPutAt, RepairsAt, BlocksAt, {"mark_put", "finish", "bind", "strike", "retain", "clean"}}
BY SMTT(30) DEF KeptPoints, Points, WritesAt, CalledAt, NotedAt, PuttingAt, BriefAt, WholeAt, SightedAt, SignedAt, RestsAt,
       TaskPutAt, RepairsAt, BlocksAt, RecordPoints, LaunchPoints, TurnPoints, TerminalizePoints, CleanupPoints,
       ReportPoints, WatchPoints, MarkPoints, ReconciliationPoints, RepairPoints, GiveUpPoints

LEMMA KeptIs ==
  ASSUME NEW w, NEW l
  PROVE 
    /\ l \in WritesAt => Kept(l, w) = [NoWork EXCEPT !.c = w.c, !.cmd = w.cmd, !.out = w.out, !.token = w.token, !.verdict = w.verdict,
                                         !.raised = w.raised, !.next = w.next, !.onError = w.onError]
    /\ l \in CalledAt => Kept(l, w) = Called(w)
    /\ l \in NotedAt => Kept(l, w) = [Brief(w) EXCEPT !.seen = Glimpse(w.seen)]
    /\ l \in PuttingAt => Kept(l, w) = [Called(w) EXCEPT !.exe = w.exe]
    /\ l \in BriefAt => Kept(l, w) = Brief(w)
    /\ l \in WholeAt => Kept(l, w) = w
    /\ l \in SightedAt => Kept(l, w) = Sighted(w)
    /\ l \in SignedAt => Kept(l, w) = [w EXCEPT !.exe = Signed(w.exe)]
    /\ l \in RestsAt => Kept(l, w) = NoWork
    /\ l \in TaskPutAt => Kept(l, w) = [Brief(w) EXCEPT !.task = w.task]
    /\ l \in {"mark_put"} => Kept(l, w) = [Brief(w) EXCEPT !.exe = w.exe]
    /\ l \in {"finish"} => Kept(l, w) = [Brief(w) EXCEPT !.verdict = w.verdict, !.raised = w.raised]
    /\ l \in {"bind"} => Kept(l, w) = [Called(w) EXCEPT !.exe = Signed(w.exe)]
    /\ l \in {"strike"} => Kept(l, w) = [Sighted(w) EXCEPT !.view = w.view]
    /\ l \in {"retain"} => Kept(l, w) = [Called(w) EXCEPT !.done = w.done]
    /\ l \in {"clean"} => Kept(l, w) = [Called(w) EXCEPT !.clean = w.clean]
    /\ l \in RepairsAt => Kept(l, w) = [Sighted(w) EXCEPT !.exe = w.exe]
    /\ l \in BlocksAt => Kept(l, w) = [NoWork EXCEPT !.c = w.c, !.out = w.out, !.task = w.task, !.next = w.next,
                                         !.onError = w.onError]
<1> USE DEF Kept, WritesAt, CalledAt, NotedAt, PuttingAt, BriefAt, WholeAt, SightedAt, SignedAt, RestsAt, TaskPutAt,
       RepairsAt, BlocksAt
<1>1. l \in WritesAt => Kept(l, w) = [NoWork EXCEPT !.c = w.c, !.cmd = w.cmd, !.out = w.out, !.token = w.token, !.verdict = w.verdict,
                                         !.raised = w.raised, !.next = w.next, !.onError = w.onError]
  OBVIOUS
<1>2. l \in CalledAt => Kept(l, w) = Called(w)
  OBVIOUS
<1>3. l \in NotedAt => Kept(l, w) = [Brief(w) EXCEPT !.seen = Glimpse(w.seen)]
  OBVIOUS
<1>4. l \in PuttingAt => Kept(l, w) = [Called(w) EXCEPT !.exe = w.exe]
  OBVIOUS
<1>5. l \in BriefAt => Kept(l, w) = Brief(w)
  OBVIOUS
<1>6. l \in WholeAt => Kept(l, w) = w
  OBVIOUS
<1>7. l \in SightedAt => Kept(l, w) = Sighted(w)
  OBVIOUS
<1>8. l \in SignedAt => Kept(l, w) = [w EXCEPT !.exe = Signed(w.exe)]
  OBVIOUS
<1>9. l \in RestsAt => Kept(l, w) = NoWork
  OBVIOUS
<1>10. l \in TaskPutAt => Kept(l, w) = [Brief(w) EXCEPT !.task = w.task]
  OBVIOUS
<1>11. l \in {"mark_put"} => Kept(l, w) = [Brief(w) EXCEPT !.exe = w.exe]
  OBVIOUS
<1>12. l \in {"finish"} => Kept(l, w) = [Brief(w) EXCEPT !.verdict = w.verdict, !.raised = w.raised]
  OBVIOUS
<1>13. l \in {"bind"} => Kept(l, w) = [Called(w) EXCEPT !.exe = Signed(w.exe)]
  OBVIOUS
<1>14. l \in {"strike"} => Kept(l, w) = [Sighted(w) EXCEPT !.view = w.view]
  OBVIOUS
<1>15. l \in {"retain"} => Kept(l, w) = [Called(w) EXCEPT !.done = w.done]
  OBVIOUS
<1>16. l \in {"clean"} => Kept(l, w) = [Called(w) EXCEPT !.clean = w.clean]
  OBVIOUS
<1>17. l \in RepairsAt => Kept(l, w) = [Sighted(w) EXCEPT !.exe = w.exe]
  OBVIOUS
<1>18. l \in BlocksAt => Kept(l, w) = [NoWork EXCEPT !.c = w.c, !.out = w.out, !.task = w.task, !.next = w.next,
                                         !.onError = w.onError]
  OBVIOUS
<1>19. QED
  BY ZenonT(60), <1>1, <1>2, <1>3, <1>4, <1>5, <1>6, <1>7, <1>8, <1>9, <1>10, <1>11, <1>12, <1>13, <1>14, <1>15, <1>16, <1>17, <1>18

LEMMA BriefFits ==
  ASSUME NEW w \in WorkType
  PROVE  /\ Brief(w) \in WorkType /\ Brief(w).c = w.c
         /\ Brief(w).cmd.worker = w.cmd.worker
         /\ Brief(w).out = NewCommand /\ Brief(w).exe = NewExecution /\ Brief(w).seen = NewExecution
         /\ Brief(w).task.stamp = NoVerdict
<1>1. NoWork \in WorkType /\ NoWork.cmd = NewCommand /\ NoWork.out = NewCommand /\ NoWork.exe = NewExecution
      /\ NoWork.seen = NewExecution /\ NoWork.task.stamp = NoVerdict
  BY NewTyped DEF NoWork
<1>2. w.c \in Command \cup {NoCommand} /\ w.cmd \in CommandType
  BY DEF WorkType
<1>3. w.cmd.worker \in Worker \cup {NoProc}
  BY <1>2 DEF CommandType
<1> DEFINE r == [NewCommand EXCEPT !.worker = w.cmd.worker]
<1>4. r \in CommandType /\ r.worker = w.cmd.worker
  BY <1>3, NewTyped DEF CommandType
<1>5. Brief(w) = [NoWork EXCEPT !.c = w.c, !.cmd = r]
  BY <1>1 DEF Brief, WorkType
<1> HIDE DEF r
<1>6. QED
  BY ZenonT(60), <1>1, <1>2, <1>4, <1>5 DEF WorkType

LEMMA GlimpseFits ==
  ASSUME NEW e \in ExecutionType
  PROVE  /\ Glimpse(e) \in ExecutionType
         /\ Ran(Glimpse(e)) => Ran(e)
         /\ HasPulse(Glimpse(e)) = HasPulse(e)
  BY NewTyped DEF Glimpse, NewExecution, ExecutionType, Ran, HasPulse, Settled, Terminal

LEMMA SignedFits ==
  ASSUME NEW e \in ExecutionType
  PROVE  /\ Signed(e) \in ExecutionType
         /\ Signed(e).status = e.status /\ Signed(e).ended = e.ended
         /\ Ran(Signed(e)) => Ran(e)
  BY NewTyped DEF Signed, NewExecution, ExecutionType, Ran, HasPulse, Settled, Terminal

LEMMA SightedFits ==
  ASSUME NEW w \in WorkType
  PROVE  /\ Sighted(w) \in WorkType /\ Sighted(w).c = w.c
         /\ Sighted(w).cmd.worker = w.cmd.worker
         /\ Sighted(w).out = NewCommand /\ Sighted(w).exe = NewExecution /\ Sighted(w).seen = w.seen
         /\ Sighted(w).task.stamp = NoVerdict
  BY BriefFits DEF Sighted, WorkType

LEMMA CalledFits ==
  ASSUME NEW w \in WorkType
  PROVE  /\ Called(w) \in WorkType /\ Called(w).c = w.c
         /\ Called(w).cmd.worker = w.cmd.worker
         /\ Called(w).out = NewCommand /\ Called(w).exe = NewExecution /\ Called(w).seen = w.seen
         /\ Called(w).next = w.next /\ Called(w).onError = w.onError /\ Called(w).verdict = w.verdict
         /\ Called(w).task.stamp = NoVerdict
  BY ZenonT(60), SightedFits DEF Called, WorkType


LEMMA KeptKeeps ==
  ASSUME NEW w \in WorkType, NEW l \in KeptPoints
  PROVE  Keeps(l, w, Kept(l, w))
<1> DEFINE v == Kept(l, w)
<1> SUFFICES Keeps(l, w, v)
  OBVIOUS
<1>0. /\ w.exe \in ExecutionType /\ w.seen \in ExecutionType /\ w.cmd.worker \in Worker \cup {NoProc}
      /\ w.out.worker \in Worker \cup {NoProc} /\ NewCommand.worker = NoProc
      /\ ~Ran(NewExecution) /\ ~HasPulse(NewExecution)
  BY DEF WorkType, CommandType, NewCommand, NewExecution, Ran, HasPulse, Settled, Terminal
<1>a. NoWork \in WorkType /\ NoWork.cmd = NewCommand /\ NoWork.out = NewCommand /\ NoWork.exe = NewExecution
      /\ NoWork.seen = NewExecution /\ NoWork.task.stamp = NoVerdict
  BY NewTyped DEF NoWork
<1> HIDE DEF v
<1>1. CASE l \in WritesAt
  <2>1. v = [NoWork EXCEPT !.c = w.c, !.cmd = w.cmd, !.out = w.out, !.token = w.token, !.verdict = w.verdict,
           !.raised = w.raised, !.next = w.next, !.onError = w.onError]
    BY Zenon, <1>1, KeptIs DEF v
  <2>2. /\ v \in WorkType
        /\ v.c = w.c
        /\ v.cmd = w.cmd
        /\ v.out = w.out
        /\ v.exe = NewExecution
        /\ v.seen = NewExecution
        /\ v.next = w.next /\ v.onError = w.onError
        /\ v.verdict = w.verdict
        /\ v.task.stamp = NoVerdict
    BY <2>1, <1>a DEF WorkType
  <2>3. QED
    BY Zenon, <1>0, <1>a, <1>1, <2>2 DEF Keeps, RestPoints, WritePoints, BlockPoints, CallPoints, CopyPoints, SettledPoints,
                                WholeAt, TurnPoints, TerminalizePoints, CleanupPoints, WritesAt
<1>2. CASE l \in CalledAt
  <2>1. v = Called(w)
    BY Zenon, <1>2, KeptIs DEF v
  <2>2. /\ v \in WorkType
        /\ v.c = w.c
        /\ v.cmd.worker = w.cmd.worker
        /\ v.out = NewCommand
        /\ v.exe = NewExecution
        /\ v.seen = w.seen
        /\ v.next = w.next /\ v.onError = w.onError
        /\ v.verdict = w.verdict
        /\ v.task.stamp = NoVerdict
    BY <2>1, CalledFits DEF WorkType
  <2>3. QED
    BY Zenon, <1>0, <1>a, <1>2, <2>2 DEF Keeps, RestPoints, WritePoints, BlockPoints, CallPoints, CopyPoints, SettledPoints,
                                WholeAt, TurnPoints, TerminalizePoints, CleanupPoints, CalledAt
<1>3. CASE l \in NotedAt
  <2>1. v = [Brief(w) EXCEPT !.seen = Glimpse(w.seen)]
    BY Zenon, <1>3, KeptIs DEF v
  <2>2. /\ v \in WorkType
        /\ v.c = w.c
        /\ v.cmd.worker = w.cmd.worker
        /\ v.out = NewCommand
        /\ v.exe = NewExecution
        /\ v.task.stamp = NoVerdict
        /\ Ran(v.seen) => Ran(w.seen)
        /\ HasPulse(v.seen) = HasPulse(w.seen)
    BY <2>1, <1>0, BriefFits, GlimpseFits DEF WorkType
  <2>3. QED
    BY Zenon, <1>0, <1>a, <1>3, <2>2 DEF Keeps, RestPoints, WritePoints, BlockPoints, CallPoints, CopyPoints, SettledPoints,
                                WholeAt, TurnPoints, TerminalizePoints, CleanupPoints, NotedAt
<1>4. CASE l \in PuttingAt
  <2>1. v = [Called(w) EXCEPT !.exe = w.exe]
    BY Zenon, <1>4, KeptIs DEF v
  <2>2. /\ v \in WorkType
        /\ v.c = w.c
        /\ v.cmd.worker = w.cmd.worker
        /\ v.out = NewCommand
        /\ v.exe = w.exe
        /\ v.seen = w.seen
        /\ v.next = w.next /\ v.onError = w.onError
        /\ v.verdict = w.verdict
        /\ v.task.stamp = NoVerdict
    BY <2>1, CalledFits DEF WorkType
  <2>3. QED
    BY Zenon, <1>0, <1>a, <1>4, <2>2 DEF Keeps, RestPoints, WritePoints, BlockPoints, CallPoints, CopyPoints, SettledPoints,
                                WholeAt, TurnPoints, TerminalizePoints, CleanupPoints, PuttingAt
<1>5. CASE l \in BriefAt
  <2>1. v = Brief(w)
    BY Zenon, <1>5, KeptIs DEF v
  <2>2. /\ v \in WorkType
        /\ v.c = w.c
        /\ v.cmd.worker = w.cmd.worker
        /\ v.out = NewCommand
        /\ v.exe = NewExecution
        /\ v.seen = NewExecution
        /\ v.task.stamp = NoVerdict
    BY <2>1, BriefFits DEF WorkType
  <2>3. QED
    BY Zenon, <1>0, <1>a, <1>5, <2>2 DEF Keeps, RestPoints, WritePoints, BlockPoints, CallPoints, CopyPoints, SettledPoints,
                                WholeAt, TurnPoints, TerminalizePoints, CleanupPoints, BriefAt
<1>6. CASE l \in WholeAt
  <2>1. v = w
    BY Zenon, <1>6, KeptIs DEF v
  <2>2. /\ v \in WorkType
        /\ v = w
    BY <2>1
  <2>3. QED
    BY Zenon, <1>0, <1>a, <1>6, <2>2 DEF Keeps, RestPoints, WritePoints, BlockPoints, CallPoints, CopyPoints, SettledPoints,
                                WholeAt, TurnPoints, TerminalizePoints, CleanupPoints
<1>7. CASE l \in SightedAt
  <2>1. v = Sighted(w)
    BY Zenon, <1>7, KeptIs DEF v
  <2>2. /\ v \in WorkType
        /\ v.c = w.c
        /\ v.cmd.worker = w.cmd.worker
        /\ v.out = NewCommand
        /\ v.exe = NewExecution
        /\ v.seen = w.seen
        /\ v.task.stamp = NoVerdict
    BY <2>1, SightedFits DEF WorkType
  <2>3. QED
    BY Zenon, <1>0, <1>a, <1>7, <2>2 DEF Keeps, RestPoints, WritePoints, BlockPoints, CallPoints, CopyPoints, SettledPoints,
                                WholeAt, TurnPoints, TerminalizePoints, CleanupPoints, SightedAt
<1>8. CASE l \in SignedAt
  <2>1. v = [w EXCEPT !.exe = Signed(w.exe)]
    BY ZenonT(60), <1>8, KeptIs DEF v
  <2>2. /\ v \in WorkType
        /\ v.c = w.c
        /\ v.cmd = w.cmd
        /\ v.out = w.out
        /\ v.seen = w.seen
        /\ v.next = w.next /\ v.onError = w.onError
        /\ v.verdict = w.verdict
        /\ v.task = w.task
        /\ v.exe.status = w.exe.status /\ v.exe.ended = w.exe.ended
        /\ Ran(v.exe) => Ran(w.exe)
    BY <2>1, <1>0, SignedFits DEF WorkType
  <2>3. QED
    BY Zenon, <1>0, <1>a, <1>8, <2>2 DEF Keeps, RestPoints, WritePoints, BlockPoints, CallPoints, CopyPoints, SettledPoints,
                                WholeAt, TurnPoints, TerminalizePoints, CleanupPoints, SignedAt
<1>9. CASE l \in RestsAt
  <2>1. v = NoWork
    BY Zenon, <1>9, KeptIs DEF v
  <2>2. /\ v \in WorkType
        /\ v = NoWork
    BY <2>1, NewTyped
  <2>3. QED
    BY Zenon, <1>0, <1>a, <1>9, <2>2 DEF Keeps, RestPoints, WritePoints, BlockPoints, CallPoints, CopyPoints, SettledPoints,
                                WholeAt, TurnPoints, TerminalizePoints, CleanupPoints, RestsAt
<1>10. CASE l \in TaskPutAt
  <2>1. v = [Brief(w) EXCEPT !.task = w.task]
    BY ZenonT(60), <1>10, KeptIs DEF v
  <2>2. /\ v \in WorkType
        /\ v.c = w.c
        /\ v.cmd.worker = w.cmd.worker
        /\ v.out = NewCommand
        /\ v.exe = NewExecution
        /\ v.seen = NewExecution
        /\ v.task = w.task
    BY <2>1, BriefFits DEF WorkType
  <2>3. QED
    BY Zenon, <1>0, <1>a, <1>10, <2>2 DEF Keeps, RestPoints, WritePoints, BlockPoints, CallPoints, CopyPoints, SettledPoints,
                                WholeAt, TurnPoints, TerminalizePoints, CleanupPoints, TaskPutAt
<1>11. CASE l = "mark_put"
  <2>1. v = [Brief(w) EXCEPT !.exe = w.exe]
    BY Zenon, <1>11, KeptIs DEF v
  <2>2. /\ v \in WorkType
        /\ v.c = w.c
        /\ v.cmd.worker = w.cmd.worker
        /\ v.out = NewCommand
        /\ v.exe = w.exe
        /\ v.seen = NewExecution
        /\ v.task.stamp = NoVerdict
    BY <2>1, BriefFits DEF WorkType
  <2>3. QED
    BY Zenon, <1>0, <1>a, <1>11, <2>2 DEF Keeps, RestPoints, WritePoints, BlockPoints, CallPoints, CopyPoints, SettledPoints,
                                WholeAt, TurnPoints, TerminalizePoints, CleanupPoints
<1>12. CASE l = "finish"
  <2>1. v = [Brief(w) EXCEPT !.verdict = w.verdict, !.raised = w.raised]
    BY ZenonT(60), <1>12, KeptIs DEF v
  <2>2. /\ v \in WorkType
        /\ v.c = w.c
        /\ v.cmd.worker = w.cmd.worker
        /\ v.out = NewCommand
        /\ v.exe = NewExecution
        /\ v.seen = NewExecution
        /\ v.task.stamp = NoVerdict
    BY ZenonT(60), <2>1, BriefFits DEF WorkType
  <2>3. QED
    BY Zenon, <1>0, <1>a, <1>12, <2>2 DEF Keeps, RestPoints, WritePoints, BlockPoints, CallPoints, CopyPoints, SettledPoints,
                                WholeAt, TurnPoints, TerminalizePoints, CleanupPoints
<1>13. CASE l = "bind"
  <2>1. v = [Called(w) EXCEPT !.exe = Signed(w.exe)]
    BY ZenonT(60), <1>13, KeptIs DEF v
  <2>2. /\ v \in WorkType
        /\ v.c = w.c
        /\ v.cmd.worker = w.cmd.worker
        /\ v.out = NewCommand
        /\ v.seen = w.seen
        /\ v.next = w.next /\ v.onError = w.onError
        /\ v.verdict = w.verdict
        /\ v.task.stamp = NoVerdict
        /\ v.exe.status = w.exe.status /\ v.exe.ended = w.exe.ended
        /\ Ran(v.exe) => Ran(w.exe)
    BY <2>1, <1>0, CalledFits, SignedFits DEF WorkType
  <2>3. QED
    BY Zenon, <1>0, <1>a, <1>13, <2>2 DEF Keeps, RestPoints, WritePoints, BlockPoints, CallPoints, CopyPoints, SettledPoints,
                                WholeAt, TurnPoints, TerminalizePoints, CleanupPoints
<1>14. CASE l = "strike"
  <2>1. v = [Sighted(w) EXCEPT !.view = w.view]
    BY ZenonT(60), <1>14, KeptIs DEF v
  <2>2. /\ v \in WorkType
        /\ v.c = w.c
        /\ v.cmd.worker = w.cmd.worker
        /\ v.out = NewCommand
        /\ v.exe = NewExecution
        /\ v.seen = w.seen
        /\ v.task.stamp = NoVerdict
    BY <2>1, SightedFits DEF WorkType
  <2>3. QED
    BY Zenon, <1>0, <1>a, <1>14, <2>2 DEF Keeps, RestPoints, WritePoints, BlockPoints, CallPoints, CopyPoints, SettledPoints,
                                WholeAt, TurnPoints, TerminalizePoints, CleanupPoints
<1>15. CASE l = "retain"
  <2>1. v = [Called(w) EXCEPT !.done = w.done]
    BY ZenonT(60), <1>15, KeptIs DEF v
  <2>2. /\ v \in WorkType
        /\ v.c = w.c
        /\ v.cmd.worker = w.cmd.worker
        /\ v.out = NewCommand
        /\ v.exe = NewExecution
        /\ v.seen = w.seen
        /\ v.next = w.next /\ v.onError = w.onError
        /\ v.verdict = w.verdict
        /\ v.task.stamp = NoVerdict
    BY <2>1, CalledFits DEF WorkType
  <2>3. QED
    BY Zenon, <1>0, <1>a, <1>15, <2>2 DEF Keeps, RestPoints, WritePoints, BlockPoints, CallPoints, CopyPoints, SettledPoints,
                                WholeAt, TurnPoints, TerminalizePoints, CleanupPoints
<1>16. CASE l = "clean"
  <2>1. v = [Called(w) EXCEPT !.clean = w.clean]
    BY ZenonT(60), <1>16, KeptIs DEF v
  <2>2. /\ v \in WorkType
        /\ v.c = w.c
        /\ v.cmd.worker = w.cmd.worker
        /\ v.out = NewCommand
        /\ v.exe = NewExecution
        /\ v.seen = w.seen
        /\ v.next = w.next /\ v.onError = w.onError
        /\ v.verdict = w.verdict
        /\ v.task.stamp = NoVerdict
    BY <2>1, CalledFits DEF WorkType
  <2>3. QED
    BY Zenon, <1>0, <1>a, <1>16, <2>2 DEF Keeps, RestPoints, WritePoints, BlockPoints, CallPoints, CopyPoints, SettledPoints,
                                WholeAt, TurnPoints, TerminalizePoints, CleanupPoints
<1>17. CASE l \in RepairsAt
  <2>1. v = [Sighted(w) EXCEPT !.exe = w.exe]
    BY Zenon, <1>17, KeptIs DEF v
  <2>2. /\ v \in WorkType
        /\ v.c = w.c
        /\ v.cmd.worker = w.cmd.worker
        /\ v.out = NewCommand
        /\ v.exe = w.exe
        /\ v.seen = w.seen
        /\ v.task.stamp = NoVerdict
    BY <2>1, SightedFits DEF WorkType
  <2>3. QED
    BY Zenon, <1>0, <1>a, <1>17, <2>2 DEF Keeps, RestPoints, WritePoints, BlockPoints, CallPoints, CopyPoints, SettledPoints,
                                WholeAt, TurnPoints, TerminalizePoints, CleanupPoints, RepairsAt
<1>18. CASE l \in BlocksAt
  <2>1. v = [NoWork EXCEPT !.c = w.c, !.out = w.out, !.task = w.task, !.next = w.next,
           !.onError = w.onError]
    BY Zenon, <1>18, KeptIs DEF v
  <2>2. /\ v \in WorkType
        /\ v.c = w.c
        /\ v.cmd = NewCommand
        /\ v.out = w.out
        /\ v.exe = NewExecution
        /\ v.seen = NewExecution
        /\ v.next = w.next /\ v.onError = w.onError
        /\ v.task = w.task
    BY <2>1, <1>a DEF WorkType
  <2>3. QED
    BY Zenon, <1>0, <1>a, <1>18, <2>2 DEF Keeps, RestPoints, WritePoints, BlockPoints, CallPoints, CopyPoints, SettledPoints,
                                WholeAt, TurnPoints, TerminalizePoints, CleanupPoints, BlocksAt
<1>19. QED
  BY <1>1, <1>2, <1>3, <1>4, <1>5, <1>6, <1>7, <1>8, <1>9, <1>10, <1>11, <1>12, <1>13, <1>14, <1>15, <1>16, <1>17, <1>18, PointsKept

-----------------------------------------------------------------------------
(* The inductive invariant *)

(* From the reservation to the put that makes the Execution running. *)
EarlyPoints ==
  {"reserve_put", "gate", "lease", "claim", "gate_task", "gate_task_put", "gate_exec_put"}

(* The running gate failed, and is put back as far as it came. *)
UndoPoints == {"undo_exec", "undo_task", "undo_claim"}

(* Points that only a Command reaches whose Execution has been started. *)
RunPoints ==
  UNION {TurnPoints, TerminalizePoints, CleanupPoints, RepairPoints, GiveUpPoints, {"recover_lease"}}

BootPoints    == {"boot", "reserve"}
SummonPoints  == {"retry", "retry_put", "take", "spawn"}
PendingPoints == {"handoff", "fix_handoff"}
WrittenPoints == {"task", "fix_handoff_view", "fix_task"}
HoldPoints    == {"lease", "claim", "gate_task", "gate_task_put", "gate_exec_put", "undo_exec", "undo_task", "retry_put"}
ExitPoints    == UNION {TerminalizePoints, CleanupPoints, {"recover_lease"}}

Writing(p, next) == pc[p] \in WritePoints /\ my[p].next = next

Starting(p) == pc[p] = "prepare" \/ Writing(p, "prepare")
Running(p)  == pc[p] \in RunPoints \/ Writing(p, "prepare")
Summons(p)  == pc[p] \in SummonPoints \/ Writing(p, "spawn")
Requeues(p) == pc[p] \in WritePoints /\ my[p].out.status = "queued"
PutsRaw(p)  == pc[p] = "mark_put" /\ Raw(my[p].exe)

(* The record has a heartbeat to the watcher q, or is about to be marked.  *)
Pulse(q) == HasPulse(my[q].seen) \/ pc[q] = "mark_put"

(* Where the record in hand leads when it is written, and when it is not.  *)
Exits(p, x) ==
  \/ x.next \in {End(p), "heal"} /\ x.onError = End(p)
  \/ p \in Launcher /\ x.next = "prepare" /\ x.onError = "close" /\ x.verdict \in Terminal
  \/ p \in Watcher /\ Async /\ x.next = "spawn" /\ x.onError = "idle" /\ x.cmd.status = "claimed"
  \/ p \in Watcher /\ ~Async /\ x.next = "reserve" /\ x.onError = "idle"
  \/ p \in Watcher /\ x.next = "idle" /\ x.onError = "spawn_failed"
  \/ p \in Watcher /\ x.next = "orphan_free" /\ x.onError = End(p)

(* The local variables x of p fit the point l. *)
ExitFits(p, l, x) ==
  /\ l \in WritePoints => Exits(p, x)
  /\ l \in BlockPoints => x.next = End(p) /\ x.onError = End(p) /\ x.out.status # "queued"
  /\ l \in WritePoints \cup BlockPoints => x.out.status # "none"
  /\ l \in WritePoints /\ x.out.status = "queued" => p \in Watcher /\ x.next = "orphan_free"
  /\ l \in ExitPoints =>
       /\ x.next \in {"finish", "confirm", "confirm_or_raise"}
       /\ x.onError \in {"handler", "attention", End(p)}

DataFits(l, x) ==
  /\ l \in CallPoints => x.verdict \in Terminal
  /\ l = "mark" => HasPulse(x.seen)
  /\ l = "spawn" => ~HasPulse(x.seen)
  /\ l \in SettledPoints => Settled(x.exe.status)
  /\ l \in HoldPoints => x.task.status # "none"
  /\ l \in {"retry", "retry_put"} => x.c # First

RoleFits(p, l, x) ==
  /\ l = "spawn" => Async /\ x.cmd.status = "claimed"
  /\ l \in EarlyPoints \cup BootPoints \cup UndoPoints \cup {"prepare"} => p \in Launcher
  /\ p \in Worker =>
       /\ l \notin {"idle", "retry", "retry_put", "take", "spawn", "orphan"}
       /\ l = "reconcile" => x.cmd.status # "claimed"
       /\ l \notin {"off", "boot", "done", "dead"} => x.c = First
       /\ ~Async => l = "off"
  /\ p \notin Worker => l \notin {"off", "boot", "done", "dead"}

Fits(p, l, x) == ExitFits(p, l, x) /\ DataFits(l, x) /\ RoleFits(p, l, x)

Typed ==
  /\ StoresTyped
  /\ pc \in [Proc -> Points]
  /\ my \in [Proc -> WorkType]

Fitting(p) ==
  /\ pc[p] \in RestPoints <=> my[p].c = NoCommand
  /\ pc[p] \in RestPoints => my[p] = NoWork
  /\ pc[p] \in WritePoints => ~HasPulse(my[p].seen)
  /\ Fits(p, pc[p], my[p])

(* At most one worker is at work at a Command, and its record knows it.    *)
NoWorker(c) == \A k \in Worker : my[k].c # c

Known(c, k) == k \in Worker /\ my[k].c = c

OneWorker ==
  /\ \A c \in Command, j, k \in Worker : Known(c, j) /\ Known(c, k) => j = k
  /\ \A c \in Command, k \in Worker : Known(c, k) => cmd[c].worker \in {NoProc, k}
  /\ \A p \in Proc, c \in Command, k \in Worker : my[p].c = c /\ Known(c, k) =>
       {my[p].cmd.worker, my[p].out.worker} \subseteq {NoProc, k}

SummonsFit ==
  /\ \A c \in Command : cmd[c].status = "none" => \A p \in Proc : my[p].c # c
  /\ \A c \in Command : cmd[c].status = "queued" => NoWorker(c) /\ cmd[c].worker = NoProc
  /\ \A p \in Proc : Requeues(p) => NoWorker(my[p].c) /\ my[p].out.worker = NoProc
  /\ \A p \in Proc : Summons(p) =>
       /\ NoWorker(my[p].c) /\ cmd[my[p].c].worker = NoProc /\ my[p].cmd.worker = NoProc
       /\ pc[p] \in WritePoints => my[p].out.worker = NoProc
       /\ pc[p] = "spawn" => cmd[my[p].c].status # "queued"

(* The Execution of c has been started for good: nothing can put it back   *)
(* to what it was before.                                                  *)
Past(c) ==
  /\ ~Raw(exe[c])
  /\ \A q \in Proc : my[q].c = c => pc[q] \notin EarlyPoints \cup UndoPoints /\ ~PutsRaw(q)

PastFits ==
  /\ \A p \in Proc : Running(p) \/ Ran(my[p].exe) \/ Ran(my[p].seen) => Past(my[p].c)
  /\ \A p \in Proc : pc[p] \in CopyPoints => ~Raw(my[p].exe)
  /\ \A c \in Command : Ran(exe[c]) => Past(c)
  /\ \A h \in handoff : h.of \in Command /\ Past(h.of)
  /\ root.bind # NoVerdict => root.bind.of = root.owner /\ root.owner \in Command /\ Past(root.owner)

(* While a worker is on its way, the watcher sees no heartbeat of its      *)
(* Execution, unless the Execution is past starting.                       *)
PulseFits ==
  /\ \A k \in Worker : pc[k] \in EarlyPoints => ~HasPulse(exe[my[k].c])
  /\ \A k \in Worker, q \in Watcher : my[q].c = my[k].c =>
       /\ pc[k] \in EarlyPoints => ~Pulse(q)
       /\ pc[k] \in BootPoints /\ Pulse(q) => ~Raw(exe[my[k].c]) /\ ~PutsRaw(q)

OneStart ==
  /\ \A p, q \in Proc : (Live(p) \/ Starting(p)) /\ (Live(q) \/ Starting(q)) => p = q
  /\ \A p \in Proc : Live(p) => p \in Launcher /\ (Async => Past(First))

(* The verdicts of the handoffs, and of those about to be written. *)
Told ==
  handoff \cup {VerdictOf(Mine(p), my[p].exe) : p \in {q \in Proc : pc[q] \in PendingPoints}}

VerdictFits ==
  /\ \A u, v \in Told : u.of = v.of => u = v
  /\ \A v \in Told : root.owner = v.of => root.bind = v
  /\ \A p \in Proc : pc[p] \in WrittenPoints => VerdictOf(Mine(p), my[p].exe) \in handoff
  /\ \A p \in Proc : my[p].task.stamp \in handoff \cup {NoVerdict}
  /\ task.stamp \in handoff \cup {NoVerdict}

WatcherInv ==
  /\ Typed /\ (\A p \in Proc : Fitting(p))
  /\ OneWorker /\ SummonsFit /\ PastFits /\ PulseFits /\ OneStart /\ VerdictFits

-----------------------------------------------------------------------------
(* What a step of a process may do *)

(* p may go on at l with the local variables y. *)
PointsTo(p, l, y) ==
  LET c == my[p].c
  IN  /\ l \in EarlyPoints => pc[p] \in EarlyPoints \/ (pc[p] = "reserve" /\ Raw(exe[c]))
      /\ l \in UndoPoints => pc[p] \in EarlyPoints \cup UndoPoints
      /\ pc[p] \in {"gate_exec_put", "undo_exec"} => l \notin EarlyPoints \cup BootPoints
      /\ p \in Worker /\ l \in BootPoints => pc[p] \in BootPoints
      /\ l \in RunPoints \/ (l \in WritePoints /\ y.next = "prepare") =>
           Running(p) \/ Ran(my[p].seen) \/ Ran(exe[c]) \/ (pc[p] = "gate_exec_put" /\ l = "write")
      /\ l = "prepare" \/ (l \in WritePoints /\ y.next = "prepare") =>
           Starting(p) \/ (pc[p] = "gate_exec_put" /\ l = "write")
      /\ l \in SummonPoints \/ (l \in WritePoints /\ y.next = "spawn") => Summons(p)
      /\ l \in WritePoints =>
           \/ y.out.worker \in {NoProc, my[p].cmd.worker}
           \/ (pc[p] \in WritePoints \cup BlockPoints /\ y.out = my[p].out)
      /\ l \in WritePoints /\ y.out.status = "queued" =>
           \/ Requeues(p) /\ y.out = my[p].out
           \/ /\ pc[p] = "orphan" /\ y.out.worker = NoProc
              /\ my[p].cmd.worker # NoProc /\ ~Alive(my[p].cmd.worker)

CopiesTo(p, l, y) ==
  LET c == my[p].c
      x == my[p]
  IN  /\ l \in CopyPoints => Running(p) /\ (Raw(y.exe) => Raw(exe[c]))
      /\ l = "mark_put" => pc[p] = "mark" /\ (Raw(y.exe) => Raw(exe[c]))
      /\ Ran(y.exe) => Ran(x.exe) \/ Ran(x.seen) \/ Ran(exe[c]) \/ Running(p)
      /\ Ran(y.seen) => Ran(x.exe) \/ Ran(x.seen) \/ Ran(exe[c])
      /\ HasPulse(y.seen) => HasPulse(x.seen) \/ HasPulse(exe[c]) \/ Running(p)
      /\ y.cmd.worker \in {NoProc, x.cmd.worker, cmd[c].worker}
      /\ y.out.worker \in {NoProc, x.cmd.worker, x.out.worker}
      /\ y.task.stamp \in {NoVerdict, x.task.stamp, task.stamp}

(* What becomes of the records. *)
MoveRecords(p) ==
  LET c == my[p].c
      x == my[p]
  IN  /\ \A d \in Command \ {c} : exe'[d] = exe[d] /\ cmd'[d] = cmd[d]
      /\ Raw(exe'[c]) => \/ Raw(exe[c]) \/ pc[p] \in {"reserve_put", "undo_exec"}
                         \/ pc[p] \in CopyPoints \cup {"mark_put"} /\ Raw(x.exe)
      /\ Ran(exe'[c]) => Ran(exe[c]) \/ Ran(x.exe) \/ Running(p)
      /\ HasPulse(exe'[c]) =>
           HasPulse(exe[c]) \/ Running(p) \/ pc[p] \in {"gate_exec_put", "undo_exec", "mark_put"}
      /\ pc[p] = "gate_exec_put" /\ pc'[p] = "write" => ~Raw(exe'[c])
      /\ cmd'[c] = cmd[c] \/ (pc[p] = "write_put" /\ cmd'[c] = x.out)
      /\ pc'[p] = "spawn" => cmd'[c].status # "queued"
      /\ prov'[p] \in {prov[p], "dead"} \/ (pc[p] = "prepare" /\ prov'[p] = "live")

MoveVerdicts(p) ==
  LET c == my[p].c
      b == VerdictOf(c, my[p].exe)
      v == VerdictOf(c, my'[p].exe)
  IN  /\ \/ root'.owner = root.owner /\ root'.bind = root.bind
         \/ root.bind = NoVerdict /\ root' = NoRoot
         \/ pc[p] = "claim" /\ root'.owner = c /\ root'.bind = NoVerdict
         \/ /\ Running(p) /\ root.owner = c /\ root'.owner = c
            /\ root'.bind.of = c /\ root'.bind # NoVerdict /\ root.bind \in {NoVerdict, root'.bind}
      /\ pc'[p] \in PendingPoints => /\ Running(p) /\ root.owner = c /\ root'.owner = c
                                     /\ root'.bind = v /\ root.bind \in {NoVerdict, v}
      /\ handoff' = handoff \/ (pc[p] \in PendingPoints /\ handoff' = handoff \cup {b})
      /\ pc'[p] \in WrittenPoints => v \in handoff' \/ (pc[p] \in WrittenPoints /\ v = b)
      /\ task'.stamp \in {task.stamp, my[p].task.stamp} \/ (pc[p] \in WrittenPoints /\ task'.stamp = b)

(* A step of p alone, on the Command in hand. *)
Moves(p) ==
  /\ \A q \in Proc \ {p} : pc'[q] = pc[q] /\ my'[q] = my[q] /\ prov'[q] = prov[q]
  /\ my[p].c \in Command /\ my'[p].c \in {my[p].c, NoCommand}
  /\ PointsTo(p, pc'[p], my'[p]) /\ CopiesTo(p, pc'[p], my'[p])
  /\ MoveRecords(p) /\ MoveVerdicts(p)

-----------------------------------------------------------------------------
(* Steps of a process *)

(* p goes on at l with what is left of w; the others stay where they are.  *)
Lands(p, l, w) ==
  /\ pc' \in [Proc -> Points] /\ my' \in [Proc -> WorkType]
  /\ pc'[p] = l /\ Keeps(l, w, my'[p])
  /\ \A q \in Proc \ {p} : pc'[q] = pc[q] /\ my'[q] = my[q]

LEMMA Goes ==
  ASSUME Typed, NEW p \in Proc, NEW l \in KeptPoints, NEW w \in WorkType, GoWith(p, l, w)
  PROVE  Lands(p, l, w)
<1>1. l \in Points /\ Keeps(l, w, Kept(l, w)) /\ Kept(l, w) \in WorkType
  BY KeptKeeps DEF KeptPoints, Keeps
<1>2. QED
  BY <1>1 DEF GoWith, Lands, Typed

(* Where a process may go on at a point with given local variables. *)
To(p, l, w) ==
  /\ l \in KeptPoints /\ w \in WorkType /\ w.c = my[p].c
  /\ Fits(p, l, w) /\ PointsTo(p, l, w) /\ CopiesTo(p, l, w)

LEMMA KeepsTo ==
  ASSUME NEW p \in Proc, NEW l, NEW w, NEW v, Typed, To(p, l, w), Keeps(l, w, v)
  PROVE  Fits(p, l, v) /\ PointsTo(p, l, v) /\ CopiesTo(p, l, v)
<1> USE DEF Keeps, To
<1>1. ExitFits(p, l, v)
  BY DEF ExitFits, Exits, Fits, WritePoints, BlockPoints, ExitPoints, CallPoints, RestPoints
<1>2. DataFits(l, v)
  BY DEF DataFits, Fits, CallPoints, SettledPoints, HoldPoints, WholeAt, TurnPoints, TerminalizePoints,
         CleanupPoints, RestPoints
<1>3. RoleFits(p, l, v)
  BY DEF RoleFits, Fits, WholeAt, RestPoints
<1>4. PointsTo(p, l, v)
  BY DEF PointsTo, WritePoints
<1>5. CopiesTo(p, l, v)
  BY DEF CopiesTo, CopyPoints
<1>6. QED
  BY <1>1, <1>2, <1>3, <1>4, <1>5 DEF Fits

(* What a step of p ensures. *)
Ensures(p) == Typed' /\ Fitting(p)' /\ Moves(p)

LEMMA Arrives ==
  ASSUME Typed, NEW p \in Proc, my[p].c \in Command, NEW l, NEW w, To(p, l, w), GoWith(p, l, w)
  PROVE  /\ pc' \in [Proc -> Points] /\ my' \in [Proc -> WorkType]
         /\ pc'[p] = l /\ my'[p].c \in {my[p].c, NoCommand} /\ Keeps(l, w, my'[p])
         /\ \A q \in Proc \ {p} : pc'[q] = pc[q] /\ my'[q] = my[q]
         /\ Fitting(p)' /\ PointsTo(p, pc'[p], my'[p]) /\ CopiesTo(p, pc'[p], my'[p])
<1>1. Lands(p, l, w) /\ l \in KeptPoints /\ w \in WorkType /\ w.c = my[p].c
  BY Goes DEF To
<1>2. Fits(p, pc'[p], my'[p]) /\ PointsTo(p, pc'[p], my'[p]) /\ CopiesTo(p, pc'[p], my'[p])
  BY <1>1, KeepsTo DEF Lands
<1>3. my[p].c # NoCommand
  BY LifecycleAssumption
<1>4. /\ pc'[p] \in RestPoints <=> my'[p].c = NoCommand
      /\ pc'[p] \in RestPoints => my'[p] = NoWork
      /\ my'[p].c \in {my[p].c, NoCommand}
  BY <1>1, <1>3 DEF Lands, Keeps, NoWork
<1>5. Fitting(p)'
  <2>1. pc'[p] \in WritePoints => ~HasPulse(my'[p].seen)
    BY <1>1 DEF Lands, Keeps, NewExecution, HasPulse, Settled, Terminal
  <2>2. QED
    BY <1>2, <1>4, <2>1 DEF Fitting
<1>6. QED
  BY <1>1, <1>2, <1>4, <1>5 DEF Lands

LEMMA FaultsFit ==
  ASSUME Typed, NEW p, Well \/ Faulty(p)
  PROVE  faults' \in [store : 0 .. MaxFaults, crash : 0 .. MaxCrashes]
BY LifecycleAssumption DEF Typed, StoresTyped, Well, Faulty

(* Points whose entry says nothing of the records. *)
Plain(p, l) ==
  l \notin PendingPoints \cup WrittenPoints \cup {"spawn"} /\ ~(pc[p] = "gate_exec_put" /\ l = "write")

LEMMA Calls ==
  ASSUME Typed, NEW p \in Proc, my[p].c \in Command, NEW l, NEW w, To(p, l, w), GoWith(p, l, w),
         StoresTyped', \A q \in Proc \ {p} : prov'[q] = prov[q],
         MoveRecords(p), MoveVerdicts(p)
  PROVE  Ensures(p)
<1>1. QED
  BY Arrives DEF Ensures, Moves, Typed

-----------------------------------------------------------------------------
(* Steps by the record they put *)

LEMMA Reads ==
  ASSUME Typed, NEW p \in Proc, my[p].c \in Command, NEW l, NEW w, To(p, l, w),
         Plain(p, l) \/ (l = "spawn" /\ cmd[my[p].c].status # "queued"),
         Step(p, l, w) \/ UnreadWith(p, l, w)
  PROVE  Ensures(p)
<1>1. GoWith(p, l, w) /\ Untouched /\ UNCHANGED prov /\ (Well \/ Faulty(p))
  BY DEF Step, UnreadWith
<1>2. StoresTyped'
  BY <1>1, FaultsFit DEF Untouched, stores, Typed, StoresTyped
<1>3. MoveRecords(p)
  <2>1. pc'[p] = l
    BY <1>1, Arrives
  <2>2. cmd' = cmd /\ exe' = exe /\ prov' = prov
    BY <1>1 DEF Untouched, stores
  <2>3. pc[p] = "gate_exec_put" => l # "write"
    BY DEF Plain
  <2>4. l = "spawn" => cmd[my[p].c].status # "queued"
    BY DEF Plain
  <2>5. QED
    BY <2>1, <2>2, <2>3, <2>4 DEF MoveRecords
<1>4. MoveVerdicts(p)
  <2>1. pc'[p] = l
    BY <1>1, Arrives
  <2>2. root' = root /\ handoff' = handoff /\ task' = task
    BY <1>1 DEF Untouched, stores
  <2>3. l \notin PendingPoints \cup WrittenPoints
    BY DEF Plain, PendingPoints, WrittenPoints
  <2>4. QED
    BY <2>1, <2>2, <2>3 DEF MoveVerdicts
<1>5. QED
  BY <1>1, <1>2, <1>3, <1>4, Calls

LEMMA WritesLease ==
  ASSUME Typed, NEW p \in Proc, my[p].c \in Command, NEW l, NEW w, To(p, l, w), Plain(p, l),
         GoWith(p, l, w), Well \/ Faulty(p), UNCHANGED prov,
         NEW r \in LeaseType, PutLease(r) \/ Untouched
  PROVE  Ensures(p)
<1>1. StoresTyped'
  BY FaultsFit DEF PutLease, Untouched, stores, Typed, StoresTyped
<1>2. MoveRecords(p)
  BY Arrives DEF MoveRecords, Plain, Untouched, PutLease, stores
<1>3. MoveVerdicts(p)
  BY Arrives DEF MoveVerdicts, Plain, Untouched, PutLease, stores
<1>4. QED
  BY <1>1, <1>2, <1>3, Calls

LEMMA WritesRoot ==
  ASSUME Typed, NEW p \in Proc, my[p].c \in Command, NEW l, NEW w, To(p, l, w), Plain(p, l),
         GoWith(p, l, w), Well \/ Faulty(p), UNCHANGED prov,
         NEW r \in RootType, PutRoot(r) \/ Untouched,
         \/ r.owner = root.owner /\ r.bind = root.bind
         \/ root.bind = NoVerdict /\ r = NoRoot
         \/ pc[p] = "claim" /\ r.owner = my[p].c /\ r.bind = NoVerdict
         \/ /\ Running(p) /\ root.owner = my[p].c /\ r.owner = my[p].c
            /\ r.bind.of = my[p].c /\ r.bind # NoVerdict /\ root.bind \in {NoVerdict, r.bind}
  PROVE  Ensures(p)
<1>1. StoresTyped'
  BY FaultsFit DEF PutRoot, Untouched, stores, Typed, StoresTyped
<1>2. MoveRecords(p)
  BY Arrives DEF MoveRecords, Plain, Untouched, PutRoot, stores
<1>3. MoveVerdicts(p)
  BY Arrives DEF MoveVerdicts, Plain, Untouched, PutRoot, stores
<1>4. QED
  BY <1>1, <1>2, <1>3, Calls

LEMMA WritesView ==
  ASSUME Typed, NEW p \in Proc, my[p].c \in Command, NEW l, NEW w, To(p, l, w),
         pc[p] \in WrittenPoints, l \in WrittenPoints, w.exe = my[p].exe,
         GoWith(p, l, w), Well \/ Faulty(p), UNCHANGED prov,
         NEW r \in RootType, PutRoot(r), r.owner = root.owner /\ r.bind = root.bind
  PROVE  Ensures(p)
<1>1. StoresTyped'
  BY FaultsFit DEF PutRoot, Typed, StoresTyped
<1>2. MoveRecords(p)
  BY Arrives DEF MoveRecords, PutRoot, WrittenPoints
<1>3. VerdictOf(my[p].c, my'[p].exe) = VerdictOf(my[p].c, my[p].exe)
  BY Arrives DEF Keeps, SettledPoints, WrittenPoints, VerdictOf
<1>4. MoveVerdicts(p)
  BY Arrives, <1>3 DEF MoveVerdicts, PutRoot, WrittenPoints, PendingPoints
<1>5. QED
  BY <1>1, <1>2, <1>4, Calls

LEMMA WritesTask ==
  ASSUME Typed, NEW p \in Proc, my[p].c \in Command, NEW l, NEW w, To(p, l, w), Plain(p, l),
         GoWith(p, l, w), Well \/ Faulty(p), UNCHANGED prov,
         NEW r \in TaskType, PutTask(r) \/ Untouched,
         \/ r.stamp \in {task.stamp, my[p].task.stamp}
         \/ pc[p] \in WrittenPoints /\ r.stamp = VerdictOf(my[p].c, my[p].exe)
  PROVE  Ensures(p)
<1>1. StoresTyped'
  BY FaultsFit DEF PutTask, Untouched, stores, Typed, StoresTyped
<1>2. MoveRecords(p)
  BY Arrives DEF MoveRecords, Plain, Untouched, PutTask, stores
<1>3. MoveVerdicts(p)
  BY Arrives DEF MoveVerdicts, Plain, Untouched, PutTask, stores
<1>4. QED
  BY <1>1, <1>2, <1>3, Calls

LEMMA WritesExe ==
  ASSUME Typed, NEW p \in Proc, my[p].c \in Command, NEW l, NEW w, To(p, l, w), Plain(p, l),
         GoWith(p, l, w), Well \/ Faulty(p), UNCHANGED prov,
         NEW e \in ExecutionType, PutExe(my[p].c, e) \/ Untouched,
         Raw(e) => \/ pc[p] \in {"reserve_put", "undo_exec"}
                   \/ pc[p] \in CopyPoints \cup {"mark_put"} /\ Raw(my[p].exe),
         Ran(e) => Ran(my[p].exe) \/ Running(p),
         HasPulse(e) => Running(p) \/ pc[p] \in {"gate_exec_put", "undo_exec", "mark_put"}
  PROVE  Ensures(p)
<1>1. StoresTyped'
  BY FaultsFit DEF PutExe, Untouched, stores, Typed, StoresTyped
<1>2. MoveRecords(p)
  BY Arrives DEF MoveRecords, Plain, Untouched, PutExe, stores, Typed, StoresTyped
<1>3. MoveVerdicts(p)
  BY Arrives DEF MoveVerdicts, Plain, Untouched, PutExe, stores
<1>4. QED
  BY <1>1, <1>2, <1>3, Calls

LEMMA WinsGate ==
  ASSUME Typed, NEW p \in Proc, my[p].c \in Command, NEW l, NEW w, To(p, l, w), pc[p] = "gate_exec_put", l = "write",
         GoWith(p, l, w), Well, UNCHANGED prov,
         NEW e \in ExecutionType, PutExe(my[p].c, e), ~Raw(e), Ran(e) => Ran(my[p].exe)
  PROVE  Ensures(p)
<1>1. StoresTyped'
  BY FaultsFit DEF PutExe, Typed, StoresTyped
<1>2. MoveRecords(p)
  BY Arrives DEF MoveRecords, PutExe, Typed, StoresTyped
<1>3. MoveVerdicts(p)
  BY Arrives DEF MoveVerdicts, PutExe, PendingPoints, WrittenPoints
<1>4. QED
  BY <1>1, <1>2, <1>3, Calls

LEMMA Turns ==
  ASSUME Typed, NEW p \in Proc, my[p].c \in Command, NEW l, NEW w, To(p, l, w), Plain(p, l),
         GoWith(p, l, w), Well \/ Faulty(p), Untouched,
         NEW s \in {"none", "live", "dead"}, prov' = [prov EXCEPT ![p] = s],
         s \in {prov[p], "dead"} \/ (pc[p] = "prepare" /\ s = "live")
  PROVE  Ensures(p)
<1>1. StoresTyped'
  BY FaultsFit DEF Untouched, stores, Typed, StoresTyped
<1>2. MoveRecords(p)
  BY Arrives DEF MoveRecords, Plain, Untouched, stores, Typed, StoresTyped
<1>3. MoveVerdicts(p)
  BY Arrives DEF MoveVerdicts, Plain, Untouched, stores, PendingPoints, WrittenPoints
<1>4. \A q \in Proc \ {p} : prov'[q] = prov[q]
  BY DEF Typed, StoresTyped
<1>5. QED
  BY <1>1, <1>2, <1>3, <1>4, Calls

LEMMA WritesBind ==
  ASSUME Typed, NEW p \in Proc, my[p].c \in Command, NEW l \in PendingPoints, NEW w, To(p, l, w),
         GoWith(p, l, w), Well, UNCHANGED prov, Running(p), root.owner = my[p].c,
         NEW b \in Verdicts, b = VerdictOf(my[p].c, w.exe), root.bind \in {NoVerdict, b}, PutRoot(Bound(b))
  PROVE  Ensures(p)
<1>1. Settled(w.exe.status) /\ b.status \in Terminal /\ b.of = my[p].c
  BY DEF To, Fits, DataFits, SettledPoints, PendingPoints, VerdictOf, Settled
<1>2. b # NoVerdict
  BY <1>1 DEF NoVerdict, Terminal
<1>3. VerdictOf(my[p].c, my'[p].exe) = b /\ pc'[p] = l
  BY Arrives DEF Keeps, SettledPoints, PendingPoints, VerdictOf
<1>4. root' \in RootType /\ root'.owner = my[p].c /\ root'.bind = b
  BY DEF PutRoot, Bound, Typed, StoresTyped, RootType
<1>5. StoresTyped'
  BY <1>4, FaultsFit DEF PutRoot, Typed, StoresTyped
<1>6. MoveRecords(p)
  BY Arrives DEF MoveRecords, PutRoot, PendingPoints
<1>7. MoveVerdicts(p)
  <2>1. handoff' = handoff /\ task' = task
    BY DEF PutRoot
  <2>2. QED
    BY <1>1, <1>2, <1>3, <1>4, <2>1 DEF MoveVerdicts, PendingPoints, WrittenPoints
<1>8. QED
  BY <1>5, <1>6, <1>7, Calls

LEMMA WritesHandoff ==
  ASSUME Typed, NEW p \in Proc, my[p].c \in Command, NEW l, NEW w, To(p, l, w), l \notin PendingPoints \cup {"spawn"},
         GoWith(p, l, w), Well \/ Faulty(p), UNCHANGED prov, pc[p] \in PendingPoints,
         NEW h \in Verdicts, h = VerdictOf(my[p].c, my[p].exe), PutHandoff(h) \/ Untouched,
         l \in WrittenPoints => PutHandoff(h) /\ w.exe = my[p].exe
  PROVE  Ensures(p)
<1>1. StoresTyped'
  BY FaultsFit DEF PutHandoff, Untouched, stores, Typed, StoresTyped
<1>2. MoveRecords(p)
  BY Arrives DEF MoveRecords, Untouched, PutHandoff, stores, PendingPoints
<1>3. l \in WrittenPoints => VerdictOf(my[p].c, my'[p].exe) = h
  BY Arrives DEF Keeps, SettledPoints, WrittenPoints, VerdictOf
<1>4. MoveVerdicts(p)
  <2>1. root' = root /\ task' = task /\ handoff' \in {handoff, handoff \cup {h}} /\ pc'[p] = l
    BY Arrives DEF PutHandoff, Untouched, stores
  <2>2. l \in WrittenPoints => h \in handoff'
    BY DEF PutHandoff
  <2>3. QED
    BY <1>3, <2>1, <2>2 DEF MoveVerdicts
<1>5. QED
  BY <1>1, <1>2, <1>4, Calls

LEMMA WritesCmd ==
  ASSUME Typed, NEW p \in Proc, my[p].c \in Command, NEW l, NEW w, To(p, l, w), pc[p] = "write_put",
         l \notin PendingPoints \cup WrittenPoints,
         GoWith(p, l, w), Well \/ Faulty(p), UNCHANGED prov, my[p].out \in CommandType,
         PutCmd(my[p].c, my[p].out) \/ (Untouched /\ l # "spawn"),
         l = "spawn" => my[p].out.status # "queued"
  PROVE  Ensures(p)
<1>1. StoresTyped'
  BY FaultsFit DEF PutCmd, Untouched, stores, Typed, StoresTyped
<1>2. MoveRecords(p)
  BY Arrives DEF MoveRecords, Untouched, PutCmd, stores, Typed, StoresTyped
<1>3. MoveVerdicts(p)
  BY Arrives DEF MoveVerdicts, Untouched, PutCmd, stores
<1>4. QED
  BY <1>1, <1>2, <1>3, Calls

(* What a process holds between two ticks. *)
Held(p) ==
  /\ my[p] \in WorkType /\ my[p].c \in Command /\ Fits(p, pc[p], my[p])
  /\ pc[p] \in WritePoints => ~HasPulse(my[p].seen)
  /\ exe[my[p].c] \in ExecutionType /\ cmd[my[p].c] \in CommandType
  /\ task \in TaskType /\ task \in HeldTask /\ task.status # "none" /\ root \in RootType /\ lease \in LeaseType
  /\ p \in Worker /\ pc[p] # "boot" => my[p].c = First
  /\ p \in Worker \/ p \in Watcher

LEMMA Hands ==
  ASSUME Typed, NEW p \in Proc, Fitting(p), pc[p] \notin RestPoints
  PROVE  Held(p)
<1>1. task \in HeldTask /\ task.status # "none"
  BY DEF Typed, StoresTyped, TaskType, HeldTask, TaskIn
<1>2. QED
  BY <1>1 DEF Held, Typed, StoresTyped, Fitting, WorkType, Fits, RoleFits, RestPoints, Proc

LEMMA ReleasedFits ==
  ASSUME Typed
  PROVE  /\ RootReleased \in RootType
         /\ \/ RootReleased.owner = root.owner /\ RootReleased.bind = root.bind
            \/ root.bind = NoVerdict /\ RootReleased = NoRoot
BY NewTyped DEF Typed, StoresTyped, RootReleased, RootType

LEMMA VerdictTyped ==
  ASSUME NEW c \in Command, NEW e \in ExecutionType, Settled(e.status)
  PROVE  VerdictOf(c, e) \in Verdicts /\ VerdictOf(c, e) # NoVerdict /\ VerdictOf(c, e).of = c
BY DEF VerdictOf, Verdicts, NoVerdict, ExecutionType, Settled, Terminal

LEMMA LeaseFits ==
  ASSUME Typed
  PROVE  LeaseReleased \in LeaseType
BY DEF Typed, StoresTyped, LeaseReleased, LeaseType

LEMMA MergedFits ==
  ASSUME NEW u \in Evidence, NEW e \in ExecutionType
  PROVE  LET m == [e EXCEPT !.evidence = Merge(e.evidence, u)]
         IN  m \in ExecutionType /\ m.status = e.status /\ m.prov = e.prov /\ m.ended = e.ended
<1>1. e.evidence \in Evidence
  BY DEF ExecutionType
<1>2. Merge(e.evidence, u) \in Evidence
  BY <1>1 DEF Merge, Furthest, Sticky, Evidence
<1>3. QED
  BY <1>2 DEF ExecutionType

LEMMA UpdatesFit ==
  ASSUME NEW s \in Terminal, NEW done \in SUBSET AllParts
  PROVE  /\ Retained(s, done) \in Evidence /\ Persisted(s) \in Evidence
         /\ [Persisted(s) EXCEPT !.writer = "released"] \in Evidence
         /\ Repaired(s) \in Evidence /\ ClaimReleased \in Evidence
         /\ \A w \in {"failed", "released", "not_required"}, c \in {"not_attempted", "failed", "not_released", "released"} :
              Cleaned(s, w, c) \in Evidence
BY DEF Terminal, Retained, Persisted, Repaired, ClaimReleased, Cleaned, NoEvidence, WriterUnreleased, Evidence, AllParts

(* The local variables w, with the record r to write. *)
Published(w, r, next, onError) == [w EXCEPT !.out = r, !.next = next, !.onError = onError]

LEMMA PublishFits ==
  ASSUME NEW v \in WorkType, NEW r \in CommandType, NEW l \in Points, NEW m \in Points,
         NEW w, w = Published(v, r, l, m)
  PROVE  /\ w \in WorkType /\ w.c = v.c /\ w.cmd = v.cmd /\ w.out = r /\ w.exe = v.exe /\ w.seen = v.seen
         /\ w.task = v.task /\ w.verdict = v.verdict /\ w.next = l /\ w.onError = m
<1>1. w \in WorkType
  BY DEF WorkType, Published
<1>2. QED
  BY DEF WorkType, Published

LEMMA RequeueFits ==
  ASSUME NEW v \in WorkType, NEW r \in CommandType, NEW p,
         NEW w, w = Published(v, r, "orphan_free", End(p))
  PROVE  /\ w \in WorkType /\ w.c = v.c /\ w.cmd = v.cmd /\ w.out = r /\ w.exe = v.exe /\ w.seen = v.seen
         /\ w.task = v.task /\ w.verdict = v.verdict /\ w.next = "orphan_free" /\ w.onError = End(p)
<1>1. "orphan_free" \in Points
  BY DEF Points, ReconciliationPoints
<1>2. End(p) \in Points
  BY DEF Points, WatchPoints, End
<1> HIDE DEF End
<1>3. QED
  BY <1>1, <1>2, PublishFits

LEMMA SpawnedFits ==
  ASSUME NEW v \in WorkType, NEW r \in CommandType, NEW w, w = Published(v, r, "idle", "spawn_failed")
  PROVE  /\ w \in WorkType /\ w.c = v.c /\ w.cmd = v.cmd /\ w.out = r /\ w.exe = v.exe /\ w.seen = v.seen
         /\ w.task = v.task /\ w.verdict = v.verdict /\ w.next = "idle" /\ w.onError = "spawn_failed"
<1>1. "idle" \in Points
  BY DEF Points, WatchPoints
<1>2. "spawn_failed" \in Points
  BY DEF Points, WatchPoints
<1>3. QED
  BY <1>1, <1>2, PublishFits

(* The local variables of the last write of a call. *)
Conclusion(p, c, r) == [[NoWork EXCEPT !.c = c] EXCEPT !.out = r, !.next = End(p), !.onError = End(p)]

LEMMA ConclusionFits ==
  ASSUME NEW c \in Command, NEW p \in Proc, NEW r \in CommandType, NEW w, w = Conclusion(p, c, r)
  PROVE  /\ w \in WorkType /\ w.c = c /\ w.cmd = NewCommand /\ w.out = r /\ w.exe = NewExecution
         /\ w.seen = NewExecution /\ w.task.stamp = NoVerdict
         /\ w.next = End(p) /\ w.onError = End(p)
<1> DEFINE u == [NoWork EXCEPT !.c = c]
<1>1. End(p) \in Points
  BY DEF End, Points, WatchPoints
<1>2. /\ u \in WorkType /\ u.c = c /\ u.cmd = NewCommand /\ u.exe = NewExecution
      /\ u.seen = NewExecution /\ u.task.stamp = NoVerdict
  <2>1. NoWork \in WorkType /\ NoWork.cmd = NewCommand /\ NoWork.exe = NewExecution /\ NoWork.seen = NewExecution
        /\ NoWork.task.stamp = NoVerdict
    BY NewTyped DEF NoWork
  <2>2. QED
    BY <2>1 DEF WorkType
<1>3. w = [u EXCEPT !.out = r, !.next = End(p), !.onError = End(p)]
  BY DEF Conclusion
<1> HIDE DEF u
<1>4. w \in WorkType
  BY ZenonT(60), <1>1, <1>2, <1>3 DEF WorkType
<1>5. /\ w.c = u.c /\ w.cmd = u.cmd /\ w.out = r /\ w.exe = u.exe /\ w.seen = u.seen /\ w.task = u.task
      /\ w.next = End(p) /\ w.onError = End(p)
  BY <1>2, <1>3 DEF WorkType
<1>6. QED
  BY <1>2, <1>4, <1>5

(* The local variables at the start of a tick. *)
TakenUp(c, r) == [NoWork EXCEPT !.c = c, !.cmd = r]

LEMMA TakenUpFits ==
  ASSUME NEW c \in Command, NEW r \in CommandType
  PROVE  /\ TakenUp(c, r) \in WorkType /\ TakenUp(c, r).c = c /\ TakenUp(c, r).cmd = r
         /\ TakenUp(c, r).out = NoWork.out /\ TakenUp(c, r).exe = NoWork.exe
         /\ TakenUp(c, r).seen = NoWork.seen /\ TakenUp(c, r).task = NoWork.task
<1>1. NoWork \in WorkType
  BY NewTyped
<1>2. TakenUp(c, r) \in WorkType
  BY <1>1 DEF WorkType, TakenUp
<1>3. QED
  BY <1>1 DEF WorkType, TakenUp

USE DEF WritePoints, BlockPoints, RestPoints, EarlyPoints, UndoPoints, RunPoints, BootPoints, SummonPoints, PendingPoints, WrittenPoints,
        HoldPoints, ExitPoints, CallPoints, SettledPoints, CopyPoints, KeptPoints, Points, RecordPoints, LaunchPoints,
        TurnPoints, TerminalizePoints, CleanupPoints, ReportPoints, WatchPoints, MarkPoints, ReconciliationPoints,
        RepairPoints, GiveUpPoints

LEMMA WriteReadStep ==
  ASSUME Typed, NEW p \in Proc, Fitting(p), WriteRead(p)
  PROVE  Ensures(p)
<1>1. pc[p] = "write" /\ Held(p)
  BY Hands DEF WriteRead
<1>2. To(p, my[p].next, my[p])
  BY <1>1, LifecycleAssumption DEF Held, To, Fits, ExitFits, Exits, DataFits, RoleFits, PointsTo,
         CopiesTo, Starting, Running, Summons, Requeues, Writing, End,Launcher, Ran, Raw, HasPulse, Settled,
         Terminal, Proc
<1>3. To(p, "write_put", my[p])
  BY <1>1 DEF Held, To, Fits, ExitFits, Exits, DataFits, RoleFits, PointsTo, CopiesTo, Starting, Running,
         Summons, Requeues, Writing, End,Launcher, Ran, Raw, HasPulse, Settled, Terminal, Proc
<1>4. QED
  BY <1>1, <1>2, <1>3, Reads DEF WriteRead, Held, Plain, Jump, Unread, Mine, WouldDowngrade, CommandOver,
         Fits, ExitFits, Exits, End

LEMMA WritePutStep ==
  ASSUME Typed, NEW p \in Proc, Fitting(p), WritePut(p)
  PROVE  Ensures(p)
<1>1. pc[p] = "write_put" /\ Held(p)
  BY Hands DEF WritePut
<1>2. my[p].out \in CommandType
  BY <1>1 DEF Held, WorkType
<1>3. To(p, my[p].next, my[p])
  BY <1>1, <1>2, LifecycleAssumption DEF Held, To, Fits, ExitFits, Exits, DataFits, RoleFits, PointsTo,
         CopiesTo, Starting, Running, Summons, Requeues, Writing, End,Launcher, Ran, Raw, HasPulse, Settled,
         Terminal, Proc
<1>4. To(p, my[p].onError, my[p])
  BY <1>1, <1>2, LifecycleAssumption DEF Held, To, Fits, ExitFits, Exits, DataFits, RoleFits, PointsTo,
         CopiesTo, Starting, Running, Summons, Requeues, Writing, End,Launcher, Ran, Raw, HasPulse, Settled,
         Terminal, Proc
<1>5. QED
  BY <1>1, <1>2, <1>3, <1>4, WritesCmd DEF WritePut, Held, Plain, Jump, Unread, Mine, Attempt,
         AttemptWith, Fits, ExitFits, Exits, End

LEMMA BlockReadStep ==
  ASSUME Typed, NEW p \in Proc, Fitting(p), BlockRead(p)
  PROVE  Ensures(p)
<1>1. pc[p] = "block" /\ Held(p)
  BY Hands DEF BlockRead
<1>2. To(p, "block_put", [my[p] EXCEPT !.task = task])
  BY <1>1 DEF Held, To, Fits, ExitFits, Exits, DataFits, RoleFits, PointsTo, CopiesTo, Starting, Running,
         Summons, Requeues, Writing, End,Launcher, Ran, Raw, HasPulse, Settled, Terminal, Proc, WorkType,
         TaskType, HeldTask, TaskIn
<1>3. To(p, End(p), my[p])
  BY <1>1 DEF Held, To, Fits, ExitFits, Exits, DataFits, RoleFits, PointsTo, CopiesTo, Starting, Running,
         Summons, Requeues, Writing, End,Launcher, Ran, Raw, HasPulse, Settled, Terminal, Proc
<1>4. QED
  BY <1>1, <1>2, <1>3, Reads DEF BlockRead, Held, Plain, Jump, Unread, Mine, End

LEMMA BlockPutStep ==
  ASSUME Typed, NEW p \in Proc, Fitting(p), BlockPut(p)
  PROVE  Ensures(p)
<1>1. pc[p] = "block_put" /\ Held(p)
  BY Hands DEF BlockPut
<1>2. [my[p].task EXCEPT !.status = "blocked"] \in TaskType /\ [my[p].task EXCEPT !.status = "blocked"].stamp = my[p].task.stamp
  BY <1>1 DEF Held, WorkType, HeldTask, TaskType, TaskIn
<1>3. To(p, "write", my[p])
  BY <1>1, <1>2 DEF Held, To, Fits, ExitFits, Exits, DataFits, RoleFits, PointsTo, CopiesTo, Starting,
         Running, Summons, Requeues, Writing, End,Launcher, Ran, Raw, HasPulse, Settled, Terminal, Proc
<1>4. To(p, End(p), my[p])
  BY <1>1, <1>2 DEF Held, To, Fits, ExitFits, Exits, DataFits, RoleFits, PointsTo, CopiesTo, Starting,
         Running, Summons, Requeues, Writing, End,Launcher, Ran, Raw, HasPulse, Settled, Terminal, Proc
<1>5. QED
  BY <1>1, <1>2, <1>3, <1>4, WritesTask DEF BlockPut, Held, Plain, Jump, Unread, Mine, Attempt,
         AttemptWith, End

LEMMA WorkerBootStep ==
  ASSUME Typed, NEW p \in Proc, Fitting(p), WorkerBoot(p)
  PROVE  Ensures(p)
<1>1. pc[p] = "boot" /\ Held(p)
  BY Hands DEF WorkerBoot
<1>2. my[p].c = First =>
        To(p, "reserve", [my[p] EXCEPT !.cmd = cmd[First]])
  BY <1>1 DEF Held, To, Fits, ExitFits, Exits, DataFits, RoleFits, PointsTo, CopiesTo, Starting, Running,
         Summons, Requeues, Writing, End,Launcher, Ran, Raw, HasPulse, Settled, Terminal, Proc, WorkType
<1>3. To(p, "done", my[p])
  BY <1>1 DEF Held, To, Fits, ExitFits, Exits, DataFits, RoleFits, PointsTo, CopiesTo, Starting, Running,
         Summons, Requeues, Writing, End,Launcher, Ran, Raw, HasPulse, Settled, Terminal, Proc
<1>4. QED
  BY <1>1, <1>2, <1>3, Reads DEF WorkerBoot, Held, Plain, Jump, Unread, Mine

LEMMA ReserveStep ==
  ASSUME Typed, NEW p \in Proc, Fitting(p), Reserve(p)
  PROVE  Ensures(p)
<1>1. pc[p] = "reserve" /\ Held(p)
  BY Hands DEF Reserve
<1>2. exe[my[p].c].status = "none" =>
        To(p, "reserve_put", my[p])
  BY <1>1 DEF Held, To, Fits, ExitFits, Exits, DataFits, RoleFits, PointsTo, CopiesTo, Starting, Running,
         Summons, Requeues, Writing, End,Launcher, Ran, Raw, HasPulse, Settled, Terminal, Proc
<1>3. exe[my[p].c].status = "reserved" =>
        To(p, "gate", my[p])
  BY <1>1 DEF Held, To, Fits, ExitFits, Exits, DataFits, RoleFits, PointsTo, CopiesTo, Starting, Running,
         Summons, Requeues, Writing, End,Launcher, Ran, Raw, HasPulse, Settled, Terminal, Proc
<1>4. To(p, "handler", my[p])
  BY <1>1 DEF Held, To, Fits, ExitFits, Exits, DataFits, RoleFits, PointsTo, CopiesTo, Starting, Running,
         Summons, Requeues, Writing, End,Launcher, Ran, Raw, HasPulse, Settled, Terminal, Proc
<1>5. QED
  BY <1>1, <1>2, <1>3, <1>4, Reads DEF Reserve, Held, Plain, Jump, Unread, Mine

LEMMA ReservePutStep ==
  ASSUME Typed, NEW p \in Proc, Fitting(p), ReservePut(p)
  PROVE  Ensures(p)
<1>1. pc[p] = "reserve_put" /\ Held(p)
  BY Hands DEF ReservePut
<1>2. [NewExecution EXCEPT !.status = "reserved"] \in ExecutionType /\ ~Ran([NewExecution EXCEPT !.status = "reserved"])
      /\ ~HasPulse([NewExecution EXCEPT !.status = "reserved"])
  BY NewTyped DEF NewExecution, ExecutionType, Ran, HasPulse, Settled, Terminal
<1>3. To(p, "gate", my[p])
  BY <1>1, <1>2 DEF Held, To, Fits, ExitFits, Exits, DataFits, RoleFits, PointsTo, CopiesTo, Starting,
         Running, Summons, Requeues, Writing, End,Launcher, Ran, Raw, HasPulse, Settled, Terminal, Proc
<1>4. To(p, "handler", my[p])
  BY <1>1, <1>2 DEF Held, To, Fits, ExitFits, Exits, DataFits, RoleFits, PointsTo, CopiesTo, Starting,
         Running, Summons, Requeues, Writing, End,Launcher, Ran, Raw, HasPulse, Settled, Terminal, Proc
<1>5. QED
  BY <1>1, <1>2, <1>3, <1>4, WritesExe DEF ReservePut, Held, Plain, Jump, Unread, Mine, Attempt,
         AttemptWith

LEMMA GateEntryStep ==
  ASSUME Typed, NEW p \in Proc, Fitting(p), GateEntry(p)
  PROVE  Ensures(p)
<1> DEFINE w == [my[p] EXCEPT !.exe = exe[my[p].c], !.task = task]
<1>1. pc[p] = "gate" /\ Held(p)
  BY Hands DEF GateEntry
<1>2. /\ w \in WorkType /\ w.c = my[p].c /\ w.cmd = my[p].cmd /\ w.out = my[p].out
      /\ w.exe = exe[my[p].c] /\ w.seen = my[p].seen /\ w.task = task /\ w.verdict = my[p].verdict
      /\ w.next = my[p].next /\ w.onError = my[p].onError
  BY ZenonT(60), <1>1 DEF Held, WorkType
<1> HIDE DEF w
<1>3. exe[my[p].c].status = "reserved" /\ task.status = "ready" /\ Write =>
        To(p, "lease", w)
  BY <1>1, <1>2 DEF Held, To, Fits, ExitFits, Exits, DataFits, RoleFits, PointsTo, CopiesTo, Starting,
         Running, Summons, Requeues, Writing, End,Launcher, Ran, Raw, HasPulse, Settled, Terminal, Proc
<1>4. exe[my[p].c].status = "reserved" /\ task.status = "ready" /\ ~Write =>
        To(p, "claim", w)
  BY <1>1, <1>2 DEF Held, To, Fits, ExitFits, Exits, DataFits, RoleFits, PointsTo, CopiesTo, Starting,
         Running, Summons, Requeues, Writing, End,Launcher, Ran, Raw, HasPulse, Settled, Terminal, Proc
<1>5. To(p, "handler", my[p])
  BY <1>1, <1>2 DEF Held, To, Fits, ExitFits, Exits, DataFits, RoleFits, PointsTo, CopiesTo, Starting,
         Running, Summons, Requeues, Writing, End,Launcher, Ran, Raw, HasPulse, Settled, Terminal, Proc
<1>6. QED
  BY <1>1, <1>2, <1>3, <1>4, <1>5, Reads DEF GateEntry, Held, Plain, Jump, Unread, Mine, w

LEMMA AcquireLeaseStep ==
  ASSUME Typed, NEW p \in Proc, Fitting(p), AcquireLease(p)
  PROVE  Ensures(p)
<1>1. pc[p] = "lease" /\ Held(p)
  BY Hands DEF AcquireLease
<1>2. [NoLease EXCEPT !.of = my[p].c, !.token = p, !.active = TRUE] \in LeaseType
  BY <1>1, NewTyped DEF Held, LeaseType, Proc
<1>3. To(p, "claim", my[p])
  BY <1>1, <1>2 DEF Held, To, Fits, ExitFits, Exits, DataFits, RoleFits, PointsTo, CopiesTo, Starting,
         Running, Summons, Requeues, Writing, End,Launcher, Ran, Raw, HasPulse, Settled, Terminal, Proc
<1>4. To(p, "handler", my[p])
  BY <1>1, <1>2 DEF Held, To, Fits, ExitFits, Exits, DataFits, RoleFits, PointsTo, CopiesTo, Starting,
         Running, Summons, Requeues, Writing, End,Launcher, Ran, Raw, HasPulse, Settled, Terminal, Proc
<1>5. QED
  BY <1>1, <1>2, <1>3, <1>4, Reads, WritesLease DEF AcquireLease, Held, Plain, Jump, Unread, Mine,
         Attempt, AttemptWith

LEMMA AcquireRootStep ==
  ASSUME Typed, NEW p \in Proc, Fitting(p), AcquireRoot(p)
  PROVE  Ensures(p)
<1>1. pc[p] = "claim" /\ Held(p)
  BY Hands DEF AcquireRoot
<1>2. /\ [NoRoot EXCEPT !.owner = my[p].c, !.token = p, !.active = TRUE] \in RootType
      /\ [NoRoot EXCEPT !.owner = my[p].c, !.token = p, !.active = TRUE].owner = my[p].c
      /\ [NoRoot EXCEPT !.owner = my[p].c, !.token = p, !.active = TRUE].bind = NoVerdict
  BY <1>1, NewTyped DEF Held, RootType, NoRoot, Proc
<1>3. To(p, "gate_task", my[p])
  BY <1>1, <1>2 DEF Held, To, Fits, ExitFits, Exits, DataFits, RoleFits, PointsTo, CopiesTo, Starting,
         Running, Summons, Requeues, Writing, End,Launcher, Ran, Raw, HasPulse, Settled, Terminal, Proc
<1>4. To(p, "handler", my[p])
  BY <1>1, <1>2 DEF Held, To, Fits, ExitFits, Exits, DataFits, RoleFits, PointsTo, CopiesTo, Starting,
         Running, Summons, Requeues, Writing, End,Launcher, Ran, Raw, HasPulse, Settled, Terminal, Proc
<1>5. To(p, "drop_lease", my[p])
  BY <1>1, <1>2 DEF Held, To, Fits, ExitFits, Exits, DataFits, RoleFits, PointsTo, CopiesTo, Starting,
         Running, Summons, Requeues, Writing, End,Launcher, Ran, Raw, HasPulse, Settled, Terminal, Proc
<1>6. QED
  BY <1>1, <1>2, <1>3, <1>4, <1>5, Reads, WritesRoot DEF AcquireRoot, Held, Plain, Jump, Unread, Mine,
         Attempt, AttemptWith

LEMMA GateTaskStep ==
  ASSUME Typed, NEW p \in Proc, Fitting(p), GateTask(p)
  PROVE  Ensures(p)
<1>1. pc[p] = "gate_task" /\ Held(p)
  BY Hands DEF GateTask
<1>2. To(p, "gate_task_put", my[p])
  BY <1>1 DEF Held, To, Fits, ExitFits, Exits, DataFits, RoleFits, PointsTo, CopiesTo, Starting, Running,
         Summons, Requeues, Writing, End,Launcher, Ran, Raw, HasPulse, Settled, Terminal, Proc
<1>3. To(p, "undo_exec", my[p])
  BY <1>1 DEF Held, To, Fits, ExitFits, Exits, DataFits, RoleFits, PointsTo, CopiesTo, Starting, Running,
         Summons, Requeues, Writing, End,Launcher, Ran, Raw, HasPulse, Settled, Terminal, Proc
<1>4. QED
  BY <1>1, <1>2, <1>3, Reads DEF GateTask, Held, Plain, Jump, Unread, Mine

LEMMA GateTaskPutStep ==
  ASSUME Typed, NEW p \in Proc, Fitting(p), GateTaskPut(p)
  PROVE  Ensures(p)
<1>1. pc[p] = "gate_task_put" /\ Held(p)
  BY Hands DEF GateTaskPut
<1>2. [my[p].task EXCEPT !.status = "in_progress", !.active = my[p].c] \in TaskType
      /\ [my[p].task EXCEPT !.status = "in_progress", !.active = my[p].c].stamp = my[p].task.stamp
  BY <1>1 DEF Held, WorkType, HeldTask, TaskType, TaskIn
<1>3. To(p, "gate_exec_put", my[p])
  BY <1>1, <1>2 DEF Held, To, Fits, ExitFits, Exits, DataFits, RoleFits, PointsTo, CopiesTo, Starting,
         Running, Summons, Requeues, Writing, End,Launcher, Ran, Raw, HasPulse, Settled, Terminal, Proc
<1>4. To(p, "undo_exec", my[p])
  BY <1>1, <1>2 DEF Held, To, Fits, ExitFits, Exits, DataFits, RoleFits, PointsTo, CopiesTo, Starting,
         Running, Summons, Requeues, Writing, End,Launcher, Ran, Raw, HasPulse, Settled, Terminal, Proc
<1>5. QED
  BY <1>1, <1>2, <1>3, <1>4, WritesTask DEF GateTaskPut, Held, Plain, Jump, Unread, Mine, Attempt,
         AttemptWith

LEMMA GateExecPutStep ==
  ASSUME Typed, NEW p \in Proc, Fitting(p), GateExecPut(p)
  PROVE  Ensures(p)
<1> DEFINE r == [my[p].cmd EXCEPT !.status = "running"]
           w == [my[p] EXCEPT !.out = r, !.next = "prepare", !.onError = "close", !.verdict = "interrupted",
                              !.raised = TRUE]
           e == [my[p].exe EXCEPT !.status = "running", !.lease = IF Write THEN p ELSE NoProc]
<1>1. pc[p] = "gate_exec_put" /\ Held(p)
  BY Hands DEF GateExecPut
<1>2. my[p].exe \in ExecutionType /\ my[p].cmd \in CommandType
  BY <1>1 DEF Held, WorkType
<1>3. e \in ExecutionType /\ e.status = "running" /\ e.prov = my[p].exe.prov
  BY <1>2 DEF ExecutionType
<1>4. ~Raw(e) /\ (Ran(e) => Ran(my[p].exe))
  BY <1>3 DEF Raw, Ran, Settled, Terminal
<1>5. r \in CommandType /\ r.status = "running" /\ r.worker = my[p].cmd.worker
  BY <1>2 DEF CommandType
<1> HIDE DEF r, e
<1>6. /\ w \in WorkType /\ w.c = my[p].c /\ w.out = r /\ w.next = "prepare" /\ w.onError = "close"
      /\ w.verdict = "interrupted" /\ w.exe = my[p].exe /\ w.seen = my[p].seen /\ w.cmd = my[p].cmd
      /\ w.task = my[p].task
  BY ZenonT(60), <1>1, <1>5 DEF Held, WorkType, Terminal
<1> HIDE DEF w
<1>7. To(p, "write", w) /\ To(p, "undo_exec", w)
  <2> USE <1>1, <1>5, <1>6 DEF Held, Fits
  <2>1. Fits(p, "write", w) /\ Fits(p, "undo_exec", w)
    BY DEF ExitFits, Exits, DataFits, RoleFits, Terminal
  <2>2. PointsTo(p, "write", w) /\ PointsTo(p, "undo_exec", w)
    BY DEF PointsTo
  <2>3. CopiesTo(p, "write", w) /\ CopiesTo(p, "undo_exec", w)
    BY DEF CopiesTo
  <2>4. QED
    BY <2>1, <2>2, <2>3 DEF To
<1>8. /\ UNCHANGED prov
      /\ \/ GoWith(p, "write", w) /\ PutExe(my[p].c, e) /\ Well
         \/ GoWith(p, "undo_exec", w) /\ Faulty(p) /\ (PutExe(my[p].c, e) \/ Untouched)
  BY <1>1 DEF GateExecPut, AttemptWith, Mine, r, w, e
<1>9. CASE GoWith(p, "write", w) /\ PutExe(my[p].c, e) /\ Well
  BY <1>1, <1>3, <1>4, <1>7, <1>8, <1>9, WinsGate DEF Held
<1>10. CASE GoWith(p, "undo_exec", w) /\ Faulty(p) /\ (PutExe(my[p].c, e) \/ Untouched)
  BY <1>1, <1>3, <1>4, <1>7, <1>8, <1>10, WritesExe DEF Held, Plain
<1>11. QED
  BY <1>8, <1>9, <1>10

LEMMA UndoExecStep ==
  ASSUME Typed, NEW p \in Proc, Fitting(p), UndoExec(p)
  PROVE  Ensures(p)
<1>1. pc[p] = "undo_exec" /\ Held(p)
  BY Hands DEF UndoExec
<1>2. my[p].exe \in ExecutionType
  BY <1>1 DEF Held, WorkType
<1>3. To(p, "undo_task", my[p])
  BY <1>1, <1>2 DEF Held, To, Fits, ExitFits, Exits, DataFits, RoleFits, PointsTo, CopiesTo, Starting,
         Running, Summons, Requeues, Writing, End,Launcher, Ran, Raw, HasPulse, Settled, Terminal, Proc
<1>4. To(p, "handler", my[p])
  BY <1>1, <1>2 DEF Held, To, Fits, ExitFits, Exits, DataFits, RoleFits, PointsTo, CopiesTo, Starting,
         Running, Summons, Requeues, Writing, End,Launcher, Ran, Raw, HasPulse, Settled, Terminal, Proc
<1>5. QED
  BY <1>1, <1>2, <1>3, <1>4, Reads, WritesExe DEF UndoExec, Held, Plain, Jump, Unread, Mine, Attempt,
         AttemptWith

LEMMA UndoTaskStep ==
  ASSUME Typed, NEW p \in Proc, Fitting(p), UndoTask(p)
  PROVE  Ensures(p)
<1>1. pc[p] = "undo_task" /\ Held(p)
  BY Hands DEF UndoTask
<1>2. my[p].task \in TaskType
  BY <1>1 DEF Held, Fits, DataFits, WorkType, HeldTask, TaskType, TaskIn
<1>3. To(p, "undo_claim", my[p])
  BY <1>1, <1>2 DEF Held, To, Fits, ExitFits, Exits, DataFits, RoleFits, PointsTo, CopiesTo, Starting,
         Running, Summons, Requeues, Writing, End,Launcher, Ran, Raw, HasPulse, Settled, Terminal, Proc
<1>4. To(p, "handler", my[p])
  BY <1>1, <1>2 DEF Held, To, Fits, ExitFits, Exits, DataFits, RoleFits, PointsTo, CopiesTo, Starting,
         Running, Summons, Requeues, Writing, End,Launcher, Ran, Raw, HasPulse, Settled, Terminal, Proc
<1>5. QED
  BY <1>1, <1>2, <1>3, <1>4, Reads, WritesTask DEF UndoTask, Held, Plain, Jump, Unread, Mine, Attempt,
         AttemptWith

LEMMA UndoClaimStep ==
  ASSUME Typed, NEW p \in Proc, Fitting(p), UndoClaim(p)
  PROVE  Ensures(p)
<1>1. pc[p] = "undo_claim" /\ Held(p)
  BY Hands DEF UndoClaim
<1>2. To(p, "drop_lease", my[p])
  BY <1>1 DEF Held, To, Fits, ExitFits, Exits, DataFits, RoleFits, PointsTo, CopiesTo, Starting, Running,
         Summons, Requeues, Writing, End,Launcher, Ran, Raw, HasPulse, Settled, Terminal, Proc
<1>3. To(p, "handler", my[p])
  BY <1>1 DEF Held, To, Fits, ExitFits, Exits, DataFits, RoleFits, PointsTo, CopiesTo, Starting, Running,
         Summons, Requeues, Writing, End,Launcher, Ran, Raw, HasPulse, Settled, Terminal, Proc
<1>4. QED
  BY <1>1, <1>2, <1>3, ReleasedFits, Reads, WritesRoot DEF UndoClaim, Held, Plain, Jump, Unread, Mine,
         Attempt, AttemptWith

LEMMA DropLeaseStep ==
  ASSUME Typed, NEW p \in Proc, Fitting(p), DropLease(p)
  PROVE  Ensures(p)
<1>1. pc[p] = "drop_lease" /\ Held(p)
  BY Hands DEF DropLease
<1>2. To(p, "handler", my[p])
  BY <1>1 DEF Held, To, Fits, ExitFits, Exits, DataFits, RoleFits, PointsTo, CopiesTo, Starting, Running,
         Summons, Requeues, Writing, End,Launcher, Ran, Raw, HasPulse, Settled, Terminal, Proc
<1>3. QED
  BY <1>1, <1>2, LeaseFits, Reads, WritesLease DEF DropLease, Held, Plain, Jump, Unread, Mine, Attempt,
         AttemptWith

LEMMA PrepareStep ==
  ASSUME Typed, NEW p \in Proc, Fitting(p), Prepare(p)
  PROVE  Ensures(p)
<1> DEFINE w == [my[p] EXCEPT !.next = "finish", !.onError = "handler"]
<1>1. pc[p] = "prepare" /\ Held(p)
  BY Hands DEF Prepare
<1>2. /\ w \in WorkType /\ w.c = my[p].c /\ w.cmd = my[p].cmd /\ w.out = my[p].out
      /\ w.exe = my[p].exe /\ w.seen = my[p].seen /\ w.task = my[p].task /\ w.verdict = my[p].verdict
      /\ w.next = "finish" /\ w.onError = "handler"
  BY ZenonT(60), <1>1 DEF Held, WorkType
<1> HIDE DEF w
<1>3. To(p, "evidence", w) /\ To(p, "term", w)
  BY <1>1, <1>2 DEF Held, To, Fits, ExitFits, Exits, DataFits, RoleFits, PointsTo, CopiesTo, Starting,
         Running, Summons, Requeues, Writing, End,Launcher, Ran, Raw, HasPulse, Settled, Terminal, Proc
<1>4. QED
  BY <1>1, <1>2, <1>3, Turns DEF Prepare, Held, Plain, Jump, Unread, Mine, Attempt, AttemptWith, Starts,
         Typed, StoresTyped, w

LEMMA RecordProviderStep ==
  ASSUME Typed, NEW p \in Proc, Fitting(p), RecordProvider(p)
  PROVE  Ensures(p)
<1> DEFINE w == [my[p] EXCEPT !.exe = exe[my[p].c]]
<1>1. pc[p] = "evidence" /\ Held(p)
  BY Hands DEF RecordProvider
<1>2. /\ w \in WorkType /\ w.c = my[p].c /\ w.cmd = my[p].cmd /\ w.out = my[p].out
      /\ w.exe = exe[my[p].c] /\ w.seen = my[p].seen /\ w.task = my[p].task /\ w.verdict = my[p].verdict
      /\ w.next = my[p].next /\ w.onError = my[p].onError
  BY <1>1 DEF Held, WorkType
<1> HIDE DEF w
<1>3. To(p, "evidence_put", w)
  BY <1>1, <1>2 DEF Held, To, Fits, ExitFits, Exits, DataFits, RoleFits, PointsTo, CopiesTo, Starting,
         Running, Summons, Requeues, Writing, End,Launcher, Ran, Raw, HasPulse, Settled, Terminal, Proc
<1>4. To(p, "close", my[p])
  BY <1>1, <1>2 DEF Held, To, Fits, ExitFits, Exits, DataFits, RoleFits, PointsTo, CopiesTo, Starting,
         Running, Summons, Requeues, Writing, End,Launcher, Ran, Raw, HasPulse, Settled, Terminal, Proc
<1>5. QED
  BY <1>1, <1>2, <1>3, <1>4, Reads DEF RecordProvider, Held, Plain, Jump, Unread, Mine, Touches, w

LEMMA RecordProviderPutStep ==
  ASSUME Typed, NEW p \in Proc, Fitting(p), RecordProviderPut(p)
  PROVE  Ensures(p)
<1> DEFINE e == [my[p].exe EXCEPT !.prov = p]
<1>1. pc[p] = "evidence_put" /\ Held(p)
  BY Hands DEF RecordProviderPut
<1>2. my[p].exe \in ExecutionType
  BY <1>1 DEF Held, WorkType
<1>3. e \in ExecutionType /\ e.status = my[p].exe.status
  BY <1>1 DEF Held, WorkType, ExecutionType
<1> HIDE DEF e
<1>4. To(p, "link", my[p]) /\ To(p, "close", my[p])
  BY <1>1, <1>2, <1>3 DEF Held, To, Fits, ExitFits, Exits, DataFits, RoleFits, PointsTo, CopiesTo,
         Starting, Running, Summons, Requeues, Writing, End,Launcher, Ran, Raw, HasPulse, Settled, Terminal,
         Proc
<1>5. QED
  BY <1>1, <1>2, <1>3, <1>4, Reads, WritesExe DEF RecordProviderPut, Held, Plain, Jump, Unread, Mine,
         Attempt, AttemptWith, PutTouched, Running, Raw, e

LEMMA LinkSessionStep ==
  ASSUME Typed, NEW p \in Proc, Fitting(p), LinkSession(p)
  PROVE  Ensures(p)
<1> DEFINE w == [my[p] EXCEPT !.exe = exe[my[p].c]]
<1>1. pc[p] = "link" /\ Held(p)
  BY Hands DEF LinkSession
<1>2. /\ w \in WorkType /\ w.c = my[p].c /\ w.cmd = my[p].cmd /\ w.out = my[p].out
      /\ w.exe = exe[my[p].c] /\ w.seen = my[p].seen /\ w.task = my[p].task /\ w.verdict = my[p].verdict
      /\ w.next = my[p].next /\ w.onError = my[p].onError
  BY <1>1 DEF Held, WorkType
<1> HIDE DEF w
<1>3. To(p, "link_put", w)
  BY <1>1, <1>2 DEF Held, To, Fits, ExitFits, Exits, DataFits, RoleFits, PointsTo, CopiesTo, Starting,
         Running, Summons, Requeues, Writing, End,Launcher, Ran, Raw, HasPulse, Settled, Terminal, Proc
<1>4. To(p, "close", my[p])
  BY <1>1, <1>2 DEF Held, To, Fits, ExitFits, Exits, DataFits, RoleFits, PointsTo, CopiesTo, Starting,
         Running, Summons, Requeues, Writing, End,Launcher, Ran, Raw, HasPulse, Settled, Terminal, Proc
<1>5. QED
  BY <1>1, <1>2, <1>3, <1>4, Reads DEF LinkSession, Held, Plain, Jump, Unread, Mine, w

LEMMA LinkSessionPutStep ==
  ASSUME Typed, NEW p \in Proc, Fitting(p), LinkSessionPut(p)
  PROVE  Ensures(p)
<1> DEFINE e == [my[p].exe EXCEPT !.session = TRUE]
<1>1. pc[p] = "link_put" /\ Held(p)
  BY Hands DEF LinkSessionPut
<1>2. my[p].exe \in ExecutionType
  BY <1>1 DEF Held, WorkType
<1>3. e \in ExecutionType /\ e.status = my[p].exe.status
  BY <1>1 DEF Held, WorkType, ExecutionType
<1> HIDE DEF e
<1>4. To(p, "link_lease", my[p]) /\ To(p, "turn", my[p]) /\ To(p, "close", my[p])
  BY <1>1, <1>2, <1>3 DEF Held, To, Fits, ExitFits, Exits, DataFits, RoleFits, PointsTo, CopiesTo,
         Starting, Running, Summons, Requeues, Writing, End,Launcher, Ran, Raw, HasPulse, Settled, Terminal,
         Proc
<1>5. QED
  BY <1>1, <1>2, <1>3, <1>4, Reads, WritesExe DEF LinkSessionPut, Held, Plain, Jump, Unread, Mine,
         Attempt, AttemptWith, PutTouched, Running, Raw, e

LEMMA LinkLeaseStep ==
  ASSUME Typed, NEW p \in Proc, Fitting(p), LinkLease(p)
  PROVE  Ensures(p)
<1> DEFINE r == [lease EXCEPT !.linked = TRUE]
<1>1. pc[p] = "link_lease" /\ Held(p)
  BY Hands DEF LinkLease
<1>2. r \in LeaseType
  BY <1>1 DEF Held, LeaseType
<1> HIDE DEF r
<1>3. To(p, "turn", my[p]) /\ To(p, "close", my[p])
  BY <1>1, <1>2 DEF Held, To, Fits, ExitFits, Exits, DataFits, RoleFits, PointsTo, CopiesTo, Starting,
         Running, Summons, Requeues, Writing, End,Launcher, Ran, Raw, HasPulse, Settled, Terminal, Proc
<1>4. QED
  BY <1>1, <1>2, <1>3, Reads, WritesLease DEF LinkLease, Held, Plain, Jump, Unread, Mine, Attempt,
         AttemptWith, r

LEMMA HeartbeatStep ==
  ASSUME Typed, NEW p \in Proc, Fitting(p), Heartbeat(p)
  PROVE  Ensures(p)
<1> DEFINE w == [my[p] EXCEPT !.exe = exe[my[p].c]]
<1>1. pc[p] \in {"turn", "last"} /\ Held(p)
  BY Hands DEF Heartbeat
<1>2. /\ w \in WorkType /\ w.c = my[p].c /\ w.cmd = my[p].cmd /\ w.out = my[p].out
      /\ w.exe = exe[my[p].c] /\ w.seen = my[p].seen /\ w.task = my[p].task /\ w.verdict = my[p].verdict
      /\ w.next = my[p].next /\ w.onError = my[p].onError
  BY <1>1 DEF Held, WorkType
<1> HIDE DEF w
<1>3. To(p, "beat_put", w) /\ To(p, "last_put", w)
  BY <1>1, <1>2 DEF Held, To, Fits, ExitFits, Exits, DataFits, RoleFits, PointsTo, CopiesTo, Starting,
         Running, Summons, Requeues, Writing, End,Launcher, Ran, Raw, HasPulse, Settled, Terminal, Proc
<1>4. To(p, "close", my[p])
  BY <1>1, <1>2 DEF Held, To, Fits, ExitFits, Exits, DataFits, RoleFits, PointsTo, CopiesTo, Starting,
         Running, Summons, Requeues, Writing, End,Launcher, Ran, Raw, HasPulse, Settled, Terminal, Proc
<1>5. QED
  BY <1>1, <1>2, <1>3, <1>4, Reads DEF Heartbeat, Held, Plain, Jump, Unread, Mine, Touches, w

LEMMA HeartbeatPutStep ==
  ASSUME Typed, NEW p \in Proc, Fitting(p), HeartbeatPut(p)
  PROVE  Ensures(p)
<1>1. pc[p] \in {"beat_put", "last_put"} /\ Held(p)
  BY Hands DEF HeartbeatPut
<1>2. my[p].exe \in ExecutionType
  BY <1>1 DEF Held, WorkType
<1>3. To(p, "turn", my[p]) /\ To(p, "close", my[p])
  BY <1>1, <1>2 DEF Held, To, Fits, ExitFits, Exits, DataFits, RoleFits, PointsTo, CopiesTo, Starting,
         Running, Summons, Requeues, Writing, End,Launcher, Ran, Raw, HasPulse, Settled, Terminal, Proc
<1>4. QED
  BY <1>1, <1>2, <1>3, Reads, WritesExe DEF HeartbeatPut, Held, Plain, Jump, Unread, Mine, Attempt,
         AttemptWith, PutTouched, Running, Raw

LEMMA TurnEndsStep ==
  ASSUME Typed, NEW p \in Proc, Fitting(p), TurnEnds(p)
  PROVE  Ensures(p)
<1>1. pc[p] = "turn" /\ Held(p)
  BY Zenon, Hands DEF TurnEnds
<1>2. To(p, "close", my[p])
  BY <1>1 DEF Held, To, Fits, ExitFits, Exits, DataFits, RoleFits, PointsTo, CopiesTo, Starting, Running, Summons, Requeues, Writing, End, Launcher, Ran, Raw, HasPulse, Settled, Terminal, Proc
<1>3. ASSUME NEW v \in Verdict
      PROVE  To(p, "last", [my[p] EXCEPT !.verdict = v, !.raised = FALSE])
  <2> DEFINE w == [my[p] EXCEPT !.verdict = v, !.raised = FALSE]
  <2>1. v \in Terminal
    BY LifecycleAssumption DEF Terminal
  <2>2. /\ w \in WorkType /\ w.c = my[p].c /\ w.cmd = my[p].cmd /\ w.out = my[p].out /\ w.exe = my[p].exe
        /\ w.seen = my[p].seen /\ w.task = my[p].task /\ w.verdict = v
    BY ZenonT(60), <1>1, <2>1 DEF Held, WorkType
  <2> HIDE DEF w
  <2>3. To(p, "last", w)
    BY <1>1, <2>1, <2>2 DEF Held, To, Fits, ExitFits, Exits, DataFits, RoleFits, PointsTo, CopiesTo, Starting, Running, Summons, Requeues, Writing, End, Launcher, Ran, Raw, HasPulse, Settled, Terminal, Proc
  <2>4. QED
    BY <2>3 DEF w
<1>4. QED
  BY Zenon, <1>1, <1>2, <1>3, Reads DEF TurnEnds, Held, Plain, Jump

LEMMA CloseStep ==
  ASSUME Typed, NEW p \in Proc, Fitting(p), Close(p)
  PROVE  Ensures(p)
<1>1. pc[p] = "close" /\ Held(p)
  BY Zenon, Hands DEF Close
<1>2. To(p, "handler", my[p])
  BY <1>1 DEF Held, To, Fits, ExitFits, Exits, DataFits, RoleFits, PointsTo, CopiesTo, Starting, Running, Summons, Requeues, Writing, End, Launcher, Ran, Raw, HasPulse, Settled, Terminal, Proc
<1>3. ASSUME NEW v \in {my[p].verdict} \cup (IF Write /\ my[p].verdict = "completed" THEN {"failed"} ELSE {})
      PROVE  To(p, "term", [my[p] EXCEPT !.verdict = v, !.next = "finish", !.onError = "handler"])
  <2> DEFINE w == [my[p] EXCEPT !.verdict = v, !.next = "finish", !.onError = "handler"]
  <2>1. v \in Terminal
    BY <1>1 DEF Held, Fits, DataFits, Terminal
  <2>2. /\ w \in WorkType /\ w.c = my[p].c /\ w.cmd = my[p].cmd /\ w.out = my[p].out /\ w.exe = my[p].exe
        /\ w.seen = my[p].seen /\ w.task = my[p].task /\ w.verdict = v
        /\ w.next = "finish" /\ w.onError = "handler"
    BY ZenonT(60), <1>1, <2>1 DEF Held, WorkType
  <2> HIDE DEF w
  <2>3. To(p, "term", w)
    BY <1>1, <2>1, <2>2 DEF Held, To, Fits, ExitFits, Exits, DataFits, RoleFits, PointsTo, CopiesTo, Starting, Running, Summons, Requeues, Writing, End, Launcher, Ran, Raw, HasPulse, Settled, Terminal, Proc
  <2>4. QED
    BY <2>3 DEF w
<1>4. CASE UnreadWith(p, "handler", my[p])
  BY <1>1, <1>2, <1>4, Reads DEF Held, Plain
<1>5. CASE /\ prov' = [prov EXCEPT ![p] = IF @ = "live" THEN "dead" ELSE @]
           /\ \E v \in {my[p].verdict} \cup (IF Write /\ my[p].verdict = "completed" THEN {"failed"} ELSE {}) :
                GoWith(p, "term", [my[p] EXCEPT !.verdict = v, !.next = "finish", !.onError = "handler"])
           /\ Well /\ Untouched
  <2> DEFINE s == IF prov[p] = "live" THEN "dead" ELSE prov[p]
  <2>1. prov' = [prov EXCEPT ![p] = s] /\ s \in {"none", "live", "dead"} /\ s \in {prov[p], "dead"}
    BY <1>5 DEF Typed, StoresTyped
  <2> HIDE DEF s
  <2>2. PICK v \in {my[p].verdict} \cup (IF Write /\ my[p].verdict = "completed" THEN {"failed"} ELSE {}) :
          GoWith(p, "term", [my[p] EXCEPT !.verdict = v, !.next = "finish", !.onError = "handler"])
    BY Zenon, <1>5
  <2> DEFINE w == [my[p] EXCEPT !.verdict = v, !.next = "finish", !.onError = "handler"]
  <2>3. To(p, "term", w) /\ GoWith(p, "term", w) /\ my[p].c \in Command /\ Untouched /\ Well
    BY Zenon, <1>1, <1>3, <1>5, <2>2 DEF Held
  <2> HIDE DEF w
  <2>4. Plain(p, "term")
    BY DEF Plain
  <2>5. QED
    BY <2>1, <2>3, <2>4, Turns
<1>6. QED
  BY Zenon, <1>4, <1>5 DEF Close, UnreadWith

LEMMA TerminalizeEntryStep ==
  ASSUME Typed, NEW p \in Proc, Fitting(p), TerminalizeEntry(p)
  PROVE  Ensures(p)
<1> DEFINE w == [my[p] EXCEPT !.exe = exe[my[p].c]]
<1>1. pc[p] = "term" /\ Held(p)
  BY Hands DEF TerminalizeEntry
<1>2. /\ w \in WorkType /\ w.c = my[p].c /\ w.cmd = my[p].cmd /\ w.out = my[p].out
      /\ w.exe = exe[my[p].c] /\ w.seen = my[p].seen /\ w.task = my[p].task /\ w.verdict = my[p].verdict
      /\ w.next = my[p].next /\ w.onError = my[p].onError
  BY <1>1 DEF Held, WorkType
<1> HIDE DEF w
<1>3. To(p, my[p].onError, my[p])
  BY <1>1, <1>2 DEF Held, To, Fits, ExitFits, Exits, DataFits, RoleFits, PointsTo, CopiesTo, Starting,
         Running, Summons, Requeues, Writing, End,Launcher, Ran, Raw, HasPulse, Settled, Terminal, Proc,
         WorkType
<1>4. To(p, my[p].next, w)
  BY <1>1, <1>2 DEF Held, To, Fits, ExitFits, Exits, DataFits, RoleFits, PointsTo, CopiesTo, Starting,
         Running, Summons, Requeues, Writing, End,Launcher, Ran, Raw, HasPulse, Settled, Terminal, Proc
<1>5. exe[my[p].c].status = "running" =>
        To(p, "persist", w)
  BY <1>1, <1>2 DEF Held, To, Fits, ExitFits, Exits, DataFits, RoleFits, PointsTo, CopiesTo, Starting,
         Running, Summons, Requeues, Writing, End,Launcher, Ran, Raw, HasPulse, Settled, Terminal, Proc
<1>6. exe[my[p].c].status = my[p].verdict =>
        To(p, "bind", w)
  BY <1>1, <1>2 DEF Held, To, Fits, ExitFits, Exits, DataFits, RoleFits, PointsTo, CopiesTo, Starting,
         Running, Summons, Requeues, Writing, End,Launcher, Ran, Raw, HasPulse, Settled, Terminal, Proc
<1>7. QED
  BY <1>1, <1>2, <1>3, <1>4, <1>5, <1>6, Reads DEF TerminalizeEntry, Held, Plain, Jump, Unread, Mine,
         Fits, ExitFits, End, w

LEMMA PersistStep ==
  ASSUME Typed, NEW p \in Proc, Fitting(p), Persist(p)
  PROVE  Ensures(p)
<1> DEFINE w == [my[p] EXCEPT !.done = {}]
           wx == [w EXCEPT !.exe = exe[my[p].c]]
<1>1. pc[p] = "persist" /\ Held(p)
  BY Hands DEF Persist
<1>2. /\ w \in WorkType /\ w.c = my[p].c /\ w.cmd = my[p].cmd /\ w.out = my[p].out
      /\ w.exe = my[p].exe /\ w.seen = my[p].seen /\ w.task = my[p].task /\ w.verdict = my[p].verdict
      /\ w.next = my[p].next /\ w.onError = my[p].onError
  BY <1>1 DEF Held, WorkType
<1>3. /\ wx \in WorkType /\ wx.c = my[p].c /\ wx.cmd = my[p].cmd /\ wx.out = my[p].out
      /\ wx.exe = exe[my[p].c] /\ wx.seen = my[p].seen /\ wx.task = my[p].task /\ wx.verdict = my[p].verdict
      /\ wx.next = my[p].next /\ wx.onError = my[p].onError
  BY ZenonT(60), <1>1, <1>2 DEF Held, WorkType
<1> HIDE DEF w, wx
<1>4. To(p, "persist_put", wx)
  BY <1>1, <1>2, <1>3 DEF Held, To, Fits, ExitFits, Exits, DataFits, RoleFits, PointsTo, CopiesTo,
         Starting, Running, Summons, Requeues, Writing, End,Launcher, Ran, Raw, HasPulse, Settled, Terminal,
         Proc
<1>5. To(p, "retain", w)
  BY <1>1, <1>2, <1>3 DEF Held, To, Fits, ExitFits, Exits, DataFits, RoleFits, PointsTo, CopiesTo,
         Starting, Running, Summons, Requeues, Writing, End,Launcher, Ran, Raw, HasPulse, Settled, Terminal,
         Proc
<1>6. To(p, "retain", my[p])
  BY <1>1, <1>2, <1>3 DEF Held, To, Fits, ExitFits, Exits, DataFits, RoleFits, PointsTo, CopiesTo,
         Starting, Running, Summons, Requeues, Writing, End,Launcher, Ran, Raw, HasPulse, Settled, Terminal,
         Proc
<1>7. QED
  BY <1>1, <1>2, <1>3, <1>4, <1>5, <1>6, Reads DEF Persist, Held, Plain, Jump, Unread, Mine, w, wx

LEMMA PersistPutStep ==
  ASSUME Typed, NEW p \in Proc, Fitting(p), PersistPut(p)
  PROVE  Ensures(p)
<1> DEFINE e == [my[p].exe EXCEPT !.status = my[p].verdict, !.ended = p]
           w == [my[p] EXCEPT !.exe = e]
<1>1. pc[p] = "persist_put" /\ Held(p)
  BY Hands DEF PersistPut
<1>2. my[p].exe \in ExecutionType /\ my[p].verdict \in Terminal
  BY <1>1 DEF Held, WorkType, Fits, DataFits
<1>3. e \in ExecutionType /\ e.status \in Terminal /\ ~Raw(e)
  BY <1>2 DEF ExecutionType, Raw, Terminal
<1> HIDE DEF e
<1>4. /\ w \in WorkType /\ w.c = my[p].c /\ w.cmd = my[p].cmd /\ w.out = my[p].out
      /\ w.exe = e /\ w.seen = my[p].seen /\ w.task = my[p].task /\ w.verdict = my[p].verdict
      /\ w.next = my[p].next /\ w.onError = my[p].onError
  BY <1>1, <1>2, <1>3 DEF Held, WorkType
<1> HIDE DEF w
<1>5. To(p, "bind", w) /\ To(p, "retain", w)
  BY <1>1, <1>2, <1>3, <1>4 DEF Held, To, Fits, ExitFits, Exits, DataFits, RoleFits, PointsTo, CopiesTo,
         Starting, Running, Summons, Requeues, Writing, End,Launcher, Ran, Raw, HasPulse, Settled, Terminal,
         Proc
<1>6. QED
  BY ZenonT(60), <1>1, <1>2, <1>3, <1>4, <1>5, Reads, WritesExe DEF PersistPut, Held, Plain, Jump, Unread, Mine,
         Attempt, AttemptWith, Running, Raw, e, w

LEMMA BindStep ==
  ASSUME Typed, NEW p \in Proc, Fitting(p), Bind(p)
  PROVE  Ensures(p)
<1> DEFINE w == [my[p] EXCEPT !.done = {"execution"}, !.task = task]
           b == VerdictOf(my[p].c, my[p].exe)
<1>1. pc[p] = "bind" /\ Held(p)
  BY Hands DEF Bind
<1>2. my[p].exe \in ExecutionType /\ Settled(my[p].exe.status)
  BY <1>1 DEF Held, WorkType, Fits, DataFits
<1>3. b \in Verdicts /\ b # NoVerdict /\ b.of = my[p].c
  BY <1>1, <1>2, VerdictTyped DEF Held
<1>4. /\ w \in WorkType /\ w.c = my[p].c /\ w.cmd = my[p].cmd /\ w.out = my[p].out /\ w.exe = my[p].exe
      /\ w.seen = my[p].seen /\ w.task = task /\ w.verdict = my[p].verdict
      /\ w.next = my[p].next /\ w.onError = my[p].onError
  BY ZenonT(60), <1>1 DEF Held, WorkType, AllParts
<1>5. \/ /\ Bindable(my[p].c, b) /\ UNCHANGED prov
         /\ \/ PutRoot(Bound(b)) /\ Well /\ GoWith(p, "handoff", w)
            \/ Faulty(p) /\ (PutRoot(Bound(b)) \/ Untouched) /\ GoWith(p, "retain", w)
      \/ Step(p, "retain", w)
  BY <1>4 DEF Bind, AttemptWith
<1> HIDE DEF w, b
<1>6. To(p, "handoff", w) /\ To(p, "retain", w)
  BY <1>1, <1>2, <1>4 DEF Held, To, Fits, ExitFits, Exits, DataFits, RoleFits, PointsTo, CopiesTo, Starting, Running, Summons, Requeues, Writing, End, Launcher, Ran, Raw, HasPulse, Settled, Terminal, Proc
<1>7. Bindable(my[p].c, b) =>
        /\ Bound(b) \in RootType /\ Bound(b).owner = my[p].c /\ Bound(b).bind = b
        /\ root.owner = my[p].c /\ root.bind \in {NoVerdict, b}
  BY <1>1, <1>3 DEF Held, Bindable, Bound, RootType
<1>8. Running(p) /\ my[p].c \in Command /\ b = VerdictOf(my[p].c, w.exe)
  BY <1>1, <1>4 DEF Running, Held, b
<1>9. CASE Bindable(my[p].c, b) /\ UNCHANGED prov /\ PutRoot(Bound(b)) /\ Well /\ GoWith(p, "handoff", w)
  BY <1>3, <1>6, <1>7, <1>8, <1>9, WritesBind
<1>10. CASE Bindable(my[p].c, b) /\ UNCHANGED prov /\ Faulty(p) /\ (PutRoot(Bound(b)) \/ Untouched) /\ GoWith(p, "retain", w)
  BY <1>3, <1>6, <1>7, <1>8, <1>10, WritesRoot DEF Plain
<1>11. CASE Step(p, "retain", w)
  BY <1>6, <1>8, <1>11, Reads DEF Plain
<1>12. QED
  BY <1>5, <1>9, <1>10, <1>11

LEMMA WriteHandoffStep ==
  ASSUME Typed, NEW p \in Proc, Fitting(p), WriteHandoff(p)
  PROVE  Ensures(p)
<1>1. pc[p] = "handoff" /\ Held(p)
  BY Hands DEF WriteHandoff
<1>2. my[p].exe \in ExecutionType /\ Settled(my[p].exe.status)
  BY <1>1 DEF Held, WorkType, Fits, DataFits
<1>3. VerdictOf(my[p].c, my[p].exe) \in Verdicts
  BY <1>1, <1>2, VerdictTyped DEF Held
<1>4. To(p, "retain", my[p]) /\ To(p, "task", my[p])
  BY <1>1, <1>2, <1>3 DEF Held, To, Fits, ExitFits, Exits, DataFits, RoleFits, PointsTo, CopiesTo,
         Starting, Running, Summons, Requeues, Writing, End,Launcher, Ran, Raw, HasPulse, Settled, Terminal,
         Proc
<1>5. QED
  BY <1>1, <1>2, <1>3, <1>4, Reads, WritesHandoff DEF WriteHandoff, Held, Plain, Jump, Unread, Mine,
         Attempt, AttemptWith

LEMMA WriteTaskStep ==
  ASSUME Typed, NEW p \in Proc, Fitting(p), WriteTask(p)
  PROVE  Ensures(p)
<1> DEFINE w == [my[p] EXCEPT !.done = {"execution", "handoff"}]
<1>1. pc[p] = "task" /\ Held(p)
  BY Hands DEF WriteTask
<1>2. my[p].exe \in ExecutionType /\ Settled(my[p].exe.status) /\ my[p].task \in HeldTask
  BY <1>1 DEF Held, WorkType, Fits, DataFits
<1>3. VerdictOf(my[p].c, my[p].exe) \in Verdicts
  BY <1>1, <1>2, VerdictTyped DEF Held
<1>4. TerminalTask(my[p].task, my[p].c, my[p].exe) \in TaskType
      /\ TerminalTask(my[p].task, my[p].c, my[p].exe).stamp = VerdictOf(my[p].c, my[p].exe)
  BY <1>2, <1>3 DEF TerminalTask, TaskStatusOf, HeldTask, TaskType, TaskIn
<1>5. /\ w \in WorkType /\ w.c = my[p].c /\ w.cmd = my[p].cmd /\ w.out = my[p].out
      /\ w.exe = my[p].exe /\ w.seen = my[p].seen /\ w.task = my[p].task /\ w.verdict = my[p].verdict
      /\ w.next = my[p].next /\ w.onError = my[p].onError
  BY <1>1, <1>2, <1>3, <1>4 DEF Held, WorkType, AllParts
<1> HIDE DEF w
<1>6. To(p, "retain", w) /\ To(p, "views", w)
  BY <1>1, <1>2, <1>3, <1>4, <1>5 DEF Held, To, Fits, ExitFits, Exits, DataFits, RoleFits, PointsTo,
         CopiesTo, Starting, Running, Summons, Requeues, Writing, End,Launcher, Ran, Raw, HasPulse, Settled,
         Terminal, Proc
<1>7. QED
  BY <1>1, <1>2, <1>3, <1>4, <1>5, <1>6, Reads, WritesTask DEF WriteTask, Held, Plain, Jump, Unread,
         Mine, Attempt, AttemptWith, w

LEMMA VerifyViewsStep ==
  ASSUME Typed, NEW p \in Proc, Fitting(p), VerifyViews(p)
  PROVE  Ensures(p)
<1> DEFINE r == [root EXCEPT !.strikes = NoRoot.strikes]
           w == [my[p] EXCEPT !.done = AllParts]
<1>1. pc[p] = "views" /\ Held(p)
  BY Hands DEF VerifyViews
<1>2. r \in RootType /\ r.owner = root.owner /\ r.bind = root.bind
  BY <1>1, NewTyped DEF Held, RootType
<1> HIDE DEF r
<1>3. /\ w \in WorkType /\ w.c = my[p].c /\ w.cmd = my[p].cmd /\ w.out = my[p].out
      /\ w.exe = my[p].exe /\ w.seen = my[p].seen /\ w.task = my[p].task /\ w.verdict = my[p].verdict
      /\ w.next = my[p].next /\ w.onError = my[p].onError
  BY <1>1, <1>2 DEF Held, WorkType, AllParts
<1> HIDE DEF w
<1>4. To(p, "retain", w) /\ To(p, "audit", w)
  BY <1>1, <1>2, <1>3 DEF Held, To, Fits, ExitFits, Exits, DataFits, RoleFits, PointsTo, CopiesTo,
         Starting, Running, Summons, Requeues, Writing, End,Launcher, Ran, Raw, HasPulse, Settled, Terminal,
         Proc
<1>5. QED
  BY <1>1, <1>2, <1>3, <1>4, Reads, WritesRoot DEF VerifyViews, Held, Plain, Jump, Unread, Mine, Attempt,
         AttemptWith, r, w

LEMMA RetainStep ==
  ASSUME Typed, NEW p \in Proc, Fitting(p), Retain(p)
  PROVE  Ensures(p)
<1> DEFINE m == [exe[my[p].c] EXCEPT !.evidence = Merge(exe[my[p].c].evidence, Retained(my[p].verdict, my[p].done))]
           w == [my[p] EXCEPT !.exe = m]
<1>1. pc[p] = "retain" /\ Held(p)
  BY Hands DEF Retain
<1>2. Retained(my[p].verdict, my[p].done) \in Evidence
  BY <1>1, UpdatesFit DEF Held, WorkType, Fits, DataFits
<1>3. m \in ExecutionType /\ m.status = exe[my[p].c].status /\ m.prov = exe[my[p].c].prov
  BY <1>1, <1>2, MergedFits DEF Held
<1> HIDE DEF m
<1>4. /\ w \in WorkType /\ w.c = my[p].c /\ w.cmd = my[p].cmd /\ w.out = my[p].out
      /\ w.exe = m /\ w.seen = my[p].seen /\ w.task = my[p].task /\ w.verdict = my[p].verdict
      /\ w.next = my[p].next /\ w.onError = my[p].onError
  BY <1>1, <1>2, <1>3 DEF Held, WorkType
<1> HIDE DEF w
<1>5. To(p, "retain_put", w)
  BY <1>1, <1>2, <1>3, <1>4 DEF Held, To, Fits, ExitFits, Exits, DataFits, RoleFits, PointsTo, CopiesTo,
         Starting, Running, Summons, Requeues, Writing, End,Launcher, Ran, Raw, HasPulse, Settled, Terminal,
         Proc
<1>6. To(p, my[p].onError, my[p])
  BY <1>1, <1>2, <1>3, <1>4 DEF Held, To, Fits, ExitFits, Exits, DataFits, RoleFits, PointsTo, CopiesTo,
         Starting, Running, Summons, Requeues, Writing, End,Launcher, Ran, Raw, HasPulse, Settled, Terminal,
         Proc
<1>7. QED
  BY <1>1, <1>2, <1>3, <1>4, <1>5, <1>6, Reads DEF Retain, Held, Plain, Jump, Unread, Mine, MergesInto,
         Fits, ExitFits, End, m, w

LEMMA RetainPutStep ==
  ASSUME Typed, NEW p \in Proc, Fitting(p), RetainPut(p)
  PROVE  Ensures(p)
<1>1. pc[p] = "retain_put" /\ Held(p)
  BY Hands DEF RetainPut
<1>2. my[p].exe \in ExecutionType
  BY <1>1 DEF Held, WorkType
<1>3. To(p, my[p].onError, my[p])
  BY <1>1, <1>2 DEF Held, To, Fits, ExitFits, Exits, DataFits, RoleFits, PointsTo, CopiesTo, Starting,
         Running, Summons, Requeues, Writing, End,Launcher, Ran, Raw, HasPulse, Settled, Terminal, Proc
<1>4. QED
  BY <1>1, <1>2, <1>3, Reads, WritesExe DEF RetainPut, Held, Plain, Jump, Unread, Mine, Attempt,
         AttemptWith, Running, Raw, Fits, ExitFits, End

LEMMA AuditStep ==
  ASSUME Typed, NEW p \in Proc, Fitting(p), Audit(p)
  PROVE  Ensures(p)
<1> DEFINE m == [exe[my[p].c] EXCEPT !.evidence = Merge(exe[my[p].c].evidence, AuditUpdate(p))]
           w == [my[p] EXCEPT !.exe = m]
<1>1. pc[p] = "audit" /\ Held(p)
  BY Hands DEF Audit
<1>2. AuditUpdate(p) \in Evidence
  BY <1>1, UpdatesFit DEF Held, WorkType, Fits, DataFits, AuditUpdate
<1>3. m \in ExecutionType /\ m.status = exe[my[p].c].status /\ m.prov = exe[my[p].c].prov
  BY <1>1, <1>2, MergedFits DEF Held
<1> HIDE DEF m
<1>4. /\ w \in WorkType /\ w.c = my[p].c /\ w.cmd = my[p].cmd /\ w.out = my[p].out
      /\ w.exe = m /\ w.seen = my[p].seen /\ w.task = my[p].task /\ w.verdict = my[p].verdict
      /\ w.next = my[p].next /\ w.onError = my[p].onError
  BY <1>1, <1>2, <1>3 DEF Held, WorkType
<1> HIDE DEF w
<1>5. To(p, "audit_put", w)
  BY <1>1, <1>2, <1>3, <1>4 DEF Held, To, Fits, ExitFits, Exits, DataFits, RoleFits, PointsTo, CopiesTo,
         Starting, Running, Summons, Requeues, Writing, End,Launcher, Ran, Raw, HasPulse, Settled, Terminal,
         Proc
<1>6. To(p, my[p].onError, my[p])
  BY <1>1, <1>2, <1>3, <1>4 DEF Held, To, Fits, ExitFits, Exits, DataFits, RoleFits, PointsTo, CopiesTo,
         Starting, Running, Summons, Requeues, Writing, End,Launcher, Ran, Raw, HasPulse, Settled, Terminal,
         Proc
<1>7. QED
  BY <1>1, <1>2, <1>3, <1>4, <1>5, <1>6, Reads DEF Audit, Held, Plain, Jump, Unread, Mine, MergesInto,
         Fits, ExitFits, End, m, w

LEMMA AuditPutStep ==
  ASSUME Typed, NEW p \in Proc, Fitting(p), AuditPut(p)
  PROVE  Ensures(p)
<1>1. pc[p] = "audit_put" /\ Held(p)
  BY Hands DEF AuditPut
<1>2. my[p].exe \in ExecutionType
  BY <1>1 DEF Held, WorkType
<1>3. To(p, "free_lease", my[p]) /\ To(p, "free_claim", my[p])
  BY <1>1, <1>2 DEF Held, To, Fits, ExitFits, Exits, DataFits, RoleFits, PointsTo, CopiesTo, Starting,
         Running, Summons, Requeues, Writing, End,Launcher, Ran, Raw, HasPulse, Settled, Terminal, Proc
<1>4. To(p, my[p].next, my[p])
  BY <1>1, <1>2 DEF Held, To, Fits, ExitFits, Exits, DataFits, RoleFits, PointsTo, CopiesTo, Starting,
         Running, Summons, Requeues, Writing, End,Launcher, Ran, Raw, HasPulse, Settled, Terminal, Proc
<1>5. QED
  BY <1>1, <1>2, <1>3, <1>4, Reads, WritesExe DEF AuditPut, Held, Plain, Jump, Unread, Mine, Attempt,
         AttemptWith, Running, Raw, Fits, ExitFits

LEMMA FreeLeaseStep ==
  ASSUME Typed, NEW p \in Proc, Fitting(p), FreeLease(p)
  PROVE  Ensures(p)
<1> DEFINE w == [my[p] EXCEPT !.clean = Cleaned(my[p].verdict, "failed", "not_attempted")]
<1>1. pc[p] = "free_lease" /\ Held(p)
  BY Hands DEF FreeLease
<1>2. Cleaned(my[p].verdict, "failed", "not_attempted") \in Evidence
  BY <1>1, UpdatesFit DEF Held, WorkType, Fits, DataFits, AllParts
<1>3. /\ w \in WorkType /\ w.c = my[p].c /\ w.cmd = my[p].cmd /\ w.out = my[p].out
      /\ w.exe = my[p].exe /\ w.seen = my[p].seen /\ w.task = my[p].task /\ w.verdict = my[p].verdict
      /\ w.next = my[p].next /\ w.onError = my[p].onError
  BY <1>1, <1>2 DEF Held, WorkType
<1> HIDE DEF w
<1>4. To(p, "free_claim", my[p])
  BY <1>1, <1>2, <1>3 DEF Held, To, Fits, ExitFits, Exits, DataFits, RoleFits, PointsTo, CopiesTo,
         Starting, Running, Summons, Requeues, Writing, End,Launcher, Ran, Raw, HasPulse, Settled, Terminal,
         Proc
<1>5. To(p, "clean", w)
  BY <1>1, <1>2, <1>3 DEF Held, To, Fits, ExitFits, Exits, DataFits, RoleFits, PointsTo, CopiesTo,
         Starting, Running, Summons, Requeues, Writing, End,Launcher, Ran, Raw, HasPulse, Settled, Terminal,
         Proc
<1>6. QED
  BY <1>1, <1>2, <1>3, <1>4, <1>5, LeaseFits, Reads, WritesLease DEF FreeLease, Held, Plain, Jump,
         Unread, Mine, Attempt, AttemptWith, w

LEMMA FreeClaimStep ==
  ASSUME Typed, NEW p \in Proc, Fitting(p), FreeClaim(p)
  PROVE  Ensures(p)
<1> DEFINE w(claim) == [my[p] EXCEPT !.clean = Cleaned(my[p].verdict, WriterResult(p), claim)]
<1>1. pc[p] = "free_claim" /\ Held(p)
  BY Hands DEF FreeClaim
<1>2. ASSUME NEW claim \in {"released", "not_released", "failed"}
      PROVE  To(p, "clean", w(claim))
  <2>1. Cleaned(my[p].verdict, WriterResult(p), claim) \in Evidence
    BY <1>1, UpdatesFit DEF Held, WorkType, Fits, DataFits, AllParts, WriterResult
  <2>2. /\ w(claim) \in WorkType /\ w(claim).c = my[p].c /\ w(claim).cmd = my[p].cmd /\ w(claim).out = my[p].out
        /\ w(claim).exe = my[p].exe /\ w(claim).seen = my[p].seen /\ w(claim).task = my[p].task
        /\ w(claim).verdict = my[p].verdict /\ w(claim).next = my[p].next /\ w(claim).onError = my[p].onError
    BY <1>1, <2>1 DEF Held, WorkType
  <2> HIDE DEF w
  <2>3. QED
    BY <1>1, <2>2 DEF Held, To, Fits, ExitFits, Exits, DataFits, RoleFits, PointsTo, CopiesTo, Starting, Running, Summons, Requeues, Writing, End, Launcher, Ran, Raw, HasPulse, Settled, Terminal, Proc
<1>3. /\ UNCHANGED prov /\ (Well \/ Faulty(p)) /\ (PutRoot(RootReleased) \/ Untouched)
      /\ \E claim \in {"released", "not_released", "failed"} : GoWith(p, "clean", w(claim))
  BY DEF FreeClaim
<1> HIDE DEF w
<1>4. PICK claim \in {"released", "not_released", "failed"} : GoWith(p, "clean", w(claim))
  BY <1>3
<1>5. QED
  BY <1>1, <1>2, <1>3, <1>4, ReleasedFits, WritesRoot DEF Held, Plain

LEMMA CleanStep ==
  ASSUME Typed, NEW p \in Proc, Fitting(p), Clean(p)
  PROVE  Ensures(p)
<1> DEFINE m == [exe[my[p].c] EXCEPT !.evidence = Merge(exe[my[p].c].evidence, my[p].clean)]
           w == [my[p] EXCEPT !.exe = m]
<1>1. pc[p] = "clean" /\ Held(p)
  BY Hands DEF Clean
<1>2. my[p].clean \in Evidence
  BY <1>1 DEF Held, WorkType
<1>3. m \in ExecutionType /\ m.status = exe[my[p].c].status /\ m.prov = exe[my[p].c].prov
  BY <1>1, <1>2, MergedFits DEF Held
<1> HIDE DEF m
<1>4. /\ w \in WorkType /\ w.c = my[p].c /\ w.cmd = my[p].cmd /\ w.out = my[p].out
      /\ w.exe = m /\ w.seen = my[p].seen /\ w.task = my[p].task /\ w.verdict = my[p].verdict
      /\ w.next = my[p].next /\ w.onError = my[p].onError
  BY <1>1, <1>2, <1>3 DEF Held, WorkType
<1> HIDE DEF w
<1>5. To(p, "clean_put", w)
  BY <1>1, <1>2, <1>3, <1>4 DEF Held, To, Fits, ExitFits, Exits, DataFits, RoleFits, PointsTo, CopiesTo,
         Starting, Running, Summons, Requeues, Writing, End,Launcher, Ran, Raw, HasPulse, Settled, Terminal,
         Proc
<1>6. To(p, my[p].onError, my[p])
  BY <1>1, <1>2, <1>3, <1>4 DEF Held, To, Fits, ExitFits, Exits, DataFits, RoleFits, PointsTo, CopiesTo,
         Starting, Running, Summons, Requeues, Writing, End,Launcher, Ran, Raw, HasPulse, Settled, Terminal,
         Proc
<1>7. QED
  BY <1>1, <1>2, <1>3, <1>4, <1>5, <1>6, Reads DEF Clean, Held, Plain, Jump, Unread, Mine, MergesInto,
         Fits, ExitFits, End, m, w

LEMMA CleanPutStep ==
  ASSUME Typed, NEW p \in Proc, Fitting(p), CleanPut(p)
  PROVE  Ensures(p)
<1>1. pc[p] = "clean_put" /\ Held(p)
  BY Hands DEF CleanPut
<1>2. my[p].exe \in ExecutionType
  BY <1>1 DEF Held, WorkType
<1>3. To(p, my[p].next, my[p])
  BY <1>1, <1>2 DEF Held, To, Fits, ExitFits, Exits, DataFits, RoleFits, PointsTo, CopiesTo, Starting,
         Running, Summons, Requeues, Writing, End,Launcher, Ran, Raw, HasPulse, Settled, Terminal, Proc
<1>4. QED
  BY <1>1, <1>2, <1>3, Reads, WritesExe DEF CleanPut, Held, Plain, Jump, Unread, Mine, Attempt,
         AttemptWith, Running, Raw, Fits, ExitFits, End


LEMMA Concludes ==
  ASSUME Typed, NEW p \in Proc, Held(p), pc[p] \notin RestPoints \cup {"boot", "gate_exec_put"},
         NEW r \in CommandType, r.status \notin {"none", "queued"}, r.worker \in {NoProc, my[p].cmd.worker},
         Conclude(p, r)
  PROVE  Ensures(p)
<1> DEFINE w == Conclusion(p, my[p].c, r)
<1>1. NewCommand.worker = NoProc /\ ~Ran(NewExecution) /\ ~HasPulse(NewExecution)
  BY DEF NewCommand, NewExecution, Ran, HasPulse, Settled, Terminal
<1>2. /\ w \in WorkType /\ w.c = my[p].c /\ w.cmd = NewCommand /\ w.out = r /\ w.exe = NewExecution
      /\ w.seen = NewExecution /\ w.task.stamp = NoVerdict
      /\ w.next = End(p) /\ w.onError = End(p)
  BY ConclusionFits DEF Held
<1>3. Step(p, "write", w)
  BY DEF Conclude, Publish, Mine, Conclusion
<1> HIDE DEF w
<1>4. To(p, "write", w)
  BY <1>1, <1>2 DEF Held, To, Fits, ExitFits, Exits, DataFits, RoleFits, PointsTo, CopiesTo, Starting, Running, Summons, Requeues, Writing, End, Launcher, Ran, Raw, HasPulse, Settled, Terminal, Proc
<1>5. QED
  BY <1>3, <1>4, Reads DEF Held, Plain

LEMMA Blocks ==
  ASSUME Typed, NEW p \in Proc, Held(p), pc[p] \notin RestPoints \cup {"boot"},
         NEW r \in CommandType, r.status \notin {"none", "queued"}, r.worker \in {NoProc, my[p].cmd.worker},
         BlockThenFail(p, r) \/ UnreadWith(p, "block", Blocking(p, r))
  PROVE  Ensures(p)
<1> DEFINE w == Conclusion(p, my[p].c, r)
<1>1. NewCommand.worker = NoProc /\ ~Ran(NewExecution) /\ ~HasPulse(NewExecution)
  BY DEF NewCommand, NewExecution, Ran, HasPulse, Settled, Terminal
<1>2. /\ w \in WorkType /\ w.c = my[p].c /\ w.cmd = NewCommand /\ w.out = r /\ w.exe = NewExecution
      /\ w.seen = NewExecution /\ w.task.stamp = NoVerdict
      /\ w.next = End(p) /\ w.onError = End(p)
  BY ConclusionFits DEF Held
<1>3. Step(p, "block", w) \/ UnreadWith(p, "block", w)
  <2>1. Blocking(p, r) = w
    BY DEF Blocking, Conclusion, Mine, NoWork
  <2>2. QED
    BY <2>1 DEF BlockThenFail
<1> HIDE DEF w
<1>4. To(p, "block", w)
  BY <1>1, <1>2 DEF Held, To, Fits, ExitFits, Exits, DataFits, RoleFits, PointsTo, CopiesTo, Starting, Running, Summons, Requeues, Writing, End, Launcher, Ran, Raw, HasPulse, Settled, Terminal, Proc
<1>5. QED
  BY <1>3, <1>4, Reads DEF Held, Plain

LEMMA EndsFit ==
  ASSUME NEW r \in CommandType, NEW e, e.status \in Terminal \cup {"none"}, e.session \in BOOLEAN,
         NEW kind \in {"error", "prelaunch_failed", "retry_refused"}
  PROVE  /\ EndedAs(r, e) \in CommandType /\ EndedAs(r, e).status \in {"completed", "failed"}
         /\ EndedAs(r, e).worker = r.worker
         /\ FailedWith(r, kind) \in CommandType /\ FailedWith(r, kind).status = "failed"
         /\ FailedWith(r, kind).worker = r.worker
BY DEF EndedAs, FailedWith, Ended, CommandType

LEMMA FailsFit ==
  ASSUME NEW r \in CommandType, NEW kind \in {"error", "prelaunch_failed", "retry_refused"}
  PROVE  FailedWith(r, kind) \in CommandType /\ FailedWith(r, kind).status = "failed"
         /\ FailedWith(r, kind).worker = r.worker
BY DEF FailedWith, Ended, CommandType

LEMMA FinishStep ==
  ASSUME Typed, NEW p \in Proc, Fitting(p), Finish(p)
  PROVE  Ensures(p)
<1> DEFINE e == [NewExecution EXCEPT !.status = my[p].verdict, !.session = TRUE]
<1>1. pc[p] = "finish" /\ Held(p)
  BY Hands DEF Finish
<1>2. e.status \in Terminal \cup {"none"} /\ e.session \in BOOLEAN /\ my[p].cmd \in CommandType
  BY <1>1 DEF Held, WorkType, NewExecution
<1>3. EndedAs(my[p].cmd, e) \in CommandType /\ EndedAs(my[p].cmd, e).status \in {"completed", "failed"}
      /\ EndedAs(my[p].cmd, e).worker = my[p].cmd.worker
  BY <1>2, EndsFit
<1> HIDE DEF e
<1>4. To(p, "handler", my[p])
  BY <1>1, <1>2, <1>3 DEF Held, To, Fits, ExitFits, Exits, DataFits, RoleFits, PointsTo, CopiesTo,
         Starting, Running, Summons, Requeues, Writing, End,Launcher, Ran, Raw, HasPulse, Settled, Terminal,
         Proc
<1>5. QED
  BY <1>1, <1>2, <1>3, <1>4, Concludes, Reads DEF Finish, Held, Plain, Jump, Unread, Mine, Running, e

LEMMA HandlerStep ==
  ASSUME Typed, NEW p \in Proc, Fitting(p), Handler(p)
  PROVE  Ensures(p)
<1> DEFINE e == exe[my[p].c]
           w == [my[p] EXCEPT !.cmd.status = "running", !.observed = TRUE]
<1>1. pc[p] = "handler" /\ Held(p)
  BY Hands DEF Handler
<1>2. my[p].cmd \in CommandType /\ e \in ExecutionType
  BY <1>1 DEF Held, WorkType
<1>3. /\ FailedWith(my[p].cmd, "error") \in CommandType /\ FailedWith(my[p].cmd, "error").status = "failed"
      /\ FailedWith(my[p].cmd, "error").worker = my[p].cmd.worker
  BY <1>2, FailsFit
<1>4. Settled(e.status) =>
        /\ EndedAs(my[p].cmd, e) \in CommandType /\ EndedAs(my[p].cmd, e).status \in {"completed", "failed"}
        /\ EndedAs(my[p].cmd, e).worker = my[p].cmd.worker
  <2>1. Settled(e.status) => e.status \in Terminal /\ e.session \in BOOLEAN
    BY <1>2 DEF Settled, ExecutionType
  <2>2. QED
    BY <1>2, <2>1, EndsFit
<1>5. [my[p].cmd EXCEPT !.status = "running"] \in CommandType
      /\ [my[p].cmd EXCEPT !.status = "running"].worker = my[p].cmd.worker
  BY <1>2 DEF CommandType
<1>6. /\ w \in WorkType /\ w.c = my[p].c /\ w.cmd = [my[p].cmd EXCEPT !.status = "running"] /\ w.out = my[p].out
      /\ w.exe = my[p].exe /\ w.seen = my[p].seen /\ w.task = my[p].task
  BY ZenonT(60), <1>1, <1>5 DEF Held, WorkType
<1>7. \/ Settled(e.status) /\ Conclude(p, EndedAs(my[p].cmd, e))
      \/ BlockThenFail(p, FailedWith(my[p].cmd, "error"))
      \/ Conclude(p, FailedWith(my[p].cmd, "error"))
      \/ Step(p, "reconcile", w)
      \/ UnreadWith(p, "block", Blocking(p, FailedWith(my[p].cmd, "error")))
  BY DEF Handler, Mine
<1> HIDE DEF w, e
<1>8. To(p, "reconcile", w)
  BY <1>1, <1>2, <1>5, <1>6 DEF Held, To, Fits, ExitFits, Exits, DataFits, RoleFits, PointsTo, CopiesTo, Starting, Running, Summons, Requeues, Writing, End, Launcher, Ran, Raw, HasPulse, Settled, Terminal, Proc, CommandType
<1>9. CASE Settled(e.status) /\ Conclude(p, EndedAs(my[p].cmd, e))
  BY <1>1, <1>4, <1>9, Concludes
<1>10. CASE BlockThenFail(p, FailedWith(my[p].cmd, "error"))
  BY <1>1, <1>3, <1>10, Blocks
<1>11. CASE Conclude(p, FailedWith(my[p].cmd, "error"))
  BY <1>1, <1>3, <1>11, Concludes
<1>12. CASE Step(p, "reconcile", w)
  BY <1>1, <1>8, <1>12, Reads DEF Held, Plain
<1>13. CASE UnreadWith(p, "block", Blocking(p, FailedWith(my[p].cmd, "error")))
  BY <1>1, <1>3, <1>13, Blocks
<1>14. QED
  BY <1>7, <1>9, <1>10, <1>11, <1>12, <1>13

LEMMA PrepareRetryStep ==
  ASSUME Typed, NEW p \in Proc, Fitting(p), PrepareRetry(p)
  PROVE  Ensures(p)
<1> DEFINE t == RetryReady(my[p].c)
           w == [my[p] EXCEPT !.task = t]
<1>1. pc[p] = "retry" /\ Held(p)
  BY Hands DEF PrepareRetry
<1>2. my[p].cmd \in CommandType
  BY <1>1 DEF Held, WorkType
<1>3. /\ FailedWith(my[p].cmd, "retry_refused") \in CommandType
      /\ FailedWith(my[p].cmd, "retry_refused").status = "failed"
      /\ FailedWith(my[p].cmd, "retry_refused").worker = my[p].cmd.worker
  BY <1>2, FailsFit
<1>4. my[p].c # First /\ Prior[my[p].c] \in Command
  BY <1>1, LifecycleAssumption DEF Held, Fits, DataFits
<1>5. t \in HeldTask /\ t.status = "ready" /\ t.stamp = task.stamp
  BY <1>1, <1>4 DEF Held, RetryReady, HeldTask, TaskType, TaskIn, RetryReady
<1> HIDE DEF t
<1>6. /\ w \in WorkType /\ w.c = my[p].c /\ w.cmd = my[p].cmd /\ w.out = my[p].out
      /\ w.exe = my[p].exe /\ w.seen = my[p].seen /\ w.task = t /\ w.verdict = my[p].verdict
      /\ w.next = my[p].next /\ w.onError = my[p].onError
  BY <1>1, <1>2, <1>3, <1>4, <1>5 DEF Held, WorkType
<1> HIDE DEF w
<1>7. To(p, "take", my[p])
  BY <1>1, <1>2, <1>3, <1>4, <1>5, <1>6 DEF Held, To, Fits, ExitFits, Exits, DataFits, RoleFits,
         PointsTo, CopiesTo, Starting, Running, Summons, Requeues, Writing, End,Launcher, Ran, Raw, HasPulse,
         Settled, Terminal, Proc
<1>8. To(p, "retry_put", w)
  BY <1>1, <1>2, <1>3, <1>4, <1>5, <1>6 DEF Held, To, Fits, ExitFits, Exits, DataFits, RoleFits,
         PointsTo, CopiesTo, Starting, Running, Summons, Requeues, Writing, End,Launcher, Ran, Raw, HasPulse,
         Settled, Terminal, Proc
<1>9. To(p, "retry_refused", my[p])
  BY <1>1, <1>2, <1>3, <1>4, <1>5, <1>6 DEF Held, To, Fits, ExitFits, Exits, DataFits, RoleFits,
         PointsTo, CopiesTo, Starting, Running, Summons, Requeues, Writing, End,Launcher, Ran, Raw, HasPulse,
         Settled, Terminal, Proc
<1>10. QED
  BY <1>1, <1>2, <1>3, <1>4, <1>5, <1>6, <1>7, <1>8, <1>9, Reads, Concludes DEF PrepareRetry, Held,
         Plain, Jump, Unread, Mine, Refuses, t, w

LEMMA PrepareRetryPutStep ==
  ASSUME Typed, NEW p \in Proc, Fitting(p), PrepareRetryPut(p)
  PROVE  Ensures(p)
<1>1. pc[p] = "retry_put" /\ Held(p)
  BY Hands DEF PrepareRetryPut
<1>2. my[p].task \in HeldTask
  BY <1>1 DEF Held, WorkType
<1>3. my[p].task \in TaskType
  BY <1>1, <1>2 DEF Held, Fits, DataFits, HeldTask, TaskType, TaskIn
<1>4. To(p, "take", my[p])
  BY <1>1, <1>2, <1>3 DEF Held, To, Fits, ExitFits, Exits, DataFits, RoleFits, PointsTo, CopiesTo,
         Starting, Running, Summons, Requeues, Writing, End,Launcher, Ran, Raw, HasPulse, Settled, Terminal,
         Proc
<1>5. To(p, "retry_refused", my[p])
  BY <1>1, <1>2, <1>3 DEF Held, To, Fits, ExitFits, Exits, DataFits, RoleFits, PointsTo, CopiesTo,
         Starting, Running, Summons, Requeues, Writing, End,Launcher, Ran, Raw, HasPulse, Settled, Terminal,
         Proc
<1>6. QED
  BY <1>1, <1>2, <1>3, <1>4, <1>5, Reads, WritesTask DEF PrepareRetryPut, Held, Plain, Jump, Unread,
         Mine, Attempt, AttemptWith

LEMMA RetryRefusedStep ==
  ASSUME Typed, NEW p \in Proc, Fitting(p), RetryRefused(p)
  PROVE  Ensures(p)
<1>1. pc[p] = "retry_refused" /\ Held(p)
  BY Hands DEF RetryRefused
<1>2. my[p].cmd \in CommandType
  BY <1>1 DEF Held, WorkType
<1>3. /\ FailedWith(my[p].cmd, "retry_refused") \in CommandType
      /\ FailedWith(my[p].cmd, "retry_refused").status = "failed"
      /\ FailedWith(my[p].cmd, "retry_refused").worker = my[p].cmd.worker
  BY <1>2, FailsFit
<1>4. QED
  BY <1>1, <1>2, <1>3, Concludes DEF RetryRefused, Held, Plain, Jump, Unread, Mine, Refuses

LEMMA TakeStep ==
  ASSUME Typed, NEW p \in Proc, Fitting(p), Take(p)
  PROVE  Ensures(p)
<1> DEFINE r == Claimed(my[p].cmd)
           l == IF Async THEN "spawn" ELSE "reserve"
           v == [my[p] EXCEPT !.cmd = r]
           w == Published(v, r, l, "idle")
<1>1. pc[p] = "take" /\ Held(p)
  BY Hands DEF Take
<1>2. my[p].cmd \in CommandType
  BY <1>1 DEF Held, WorkType
<1>3. r \in CommandType /\ r.status = "claimed" /\ r.worker = my[p].cmd.worker
  BY <1>2 DEF Claimed, CommandType
<1>4. Step(p, "write", w)
  BY DEF Take, Publish, Published
<1>5. l \in Points /\ "idle" \in Points /\ l = IF Async THEN "spawn" ELSE "reserve"
  OBVIOUS
<1> HIDE DEF r, l
<1>6. /\ v \in WorkType /\ v.c = my[p].c /\ v.cmd = r
      /\ v.exe = my[p].exe /\ v.seen = my[p].seen /\ v.task = my[p].task
  BY <1>1, <1>3 DEF Held, WorkType
<1> HIDE DEF v
<1>7. /\ w \in WorkType /\ w.c = v.c /\ w.cmd = v.cmd /\ w.out = r /\ w.exe = v.exe /\ w.seen = v.seen
      /\ w.task = v.task /\ w.next = l /\ w.onError = "idle"
  <2>1. v \in WorkType /\ r \in CommandType /\ l \in Points /\ "idle" \in Points
    BY <1>3, <1>5, <1>6
  <2>2. w = Published(v, r, l, "idle")
    OBVIOUS
  <2> HIDE DEF w
  <2>3. QED
    BY <2>1, <2>2, PublishFits
<1> HIDE DEF w
<1>8. To(p, "write", w)
  BY <1>1, <1>3, <1>5, <1>6, <1>7 DEF Held, To, Fits, ExitFits, Exits, DataFits, RoleFits, PointsTo, CopiesTo, Starting, Running, Summons, Requeues, Writing, End, Launcher, Ran, Raw, HasPulse, Settled, Terminal, Proc
<1>9. QED
  BY <1>1, <1>4, <1>8, Reads DEF Held, Plain

LEMMA SpawnFailedStep ==
  ASSUME Typed, NEW p \in Proc, Fitting(p), SpawnFailed(p)
  PROVE  Ensures(p)
<1>1. pc[p] = "spawn_failed" /\ Held(p)
  BY Hands DEF SpawnFailed
<1>2. my[p].cmd \in CommandType
  BY <1>1 DEF Held, WorkType
<1>3. /\ FailedWith(my[p].cmd, "error") \in CommandType
      /\ FailedWith(my[p].cmd, "error").status = "failed"
      /\ FailedWith(my[p].cmd, "error").worker = my[p].cmd.worker
  BY <1>2, FailsFit
<1>4. QED
  BY <1>1, <1>2, <1>3, Blocks DEF SpawnFailed, Held, Plain, Jump, Unread, Mine, SpawnFails

(* A worker is started. *)
SpawnsWorker(p) ==
  /\ SlotFree
  /\ pc' = [pc EXCEPT ![p] = "write", ![NextSlot] = "boot"]
  /\ my' = [my EXCEPT ![p] = [@ EXCEPT !.out = [my[p].cmd EXCEPT !.worker = NextSlot],
                                       !.next = "idle", !.onError = "spawn_failed"],
                      ![NextSlot] = [NoWork EXCEPT !.c = my[p].c]]
  /\ Untouched /\ Well /\ UNCHANGED prov

LEMMA SpawnStep ==
  ASSUME Typed, NEW p \in Proc, Fitting(p), Spawn(p), ~SpawnsWorker(p)
  PROVE  Ensures(p)
<1>1. pc[p] = "spawn" /\ Held(p)
  BY Hands DEF Spawn
<1>2. To(p, "spawn_failed", my[p])
  BY <1>1 DEF Held, To, Fits, ExitFits, Exits, DataFits, RoleFits, PointsTo, CopiesTo, Starting, Running, Summons, Requeues, Writing, End, Launcher, Ran, Raw, HasPulse, Settled, Terminal, Proc
<1>3. Unread(p, "spawn_failed") \/ Jump(p, "spawn_failed")
  BY DEF Spawn, SpawnsWorker, Mine
<1>4. QED
  BY <1>1, <1>2, <1>3, Reads DEF Held, Plain, Jump, Unread, Mine

LEMMA AttentionStartStep ==
  ASSUME Typed, NEW p \in Proc, Fitting(p), AttentionStart(p)
  PROVE  Ensures(p)
<1>1. pc[p] = "attention" /\ Held(p)
  BY Hands DEF AttentionStart
<1>2. To(p, End(p), my[p])
  BY <1>1 DEF Held, To, Fits, ExitFits, Exits, DataFits, RoleFits, PointsTo, CopiesTo, Starting, Running,
         Summons, Requeues, Writing, End,Launcher, Ran, Raw, HasPulse, Settled, Terminal, Proc
<1>3. HasPulse(my[p].seen) =>
        To(p, "mark", my[p])
  BY <1>1 DEF Held, To, Fits, ExitFits, Exits, DataFits, RoleFits, PointsTo, CopiesTo, Starting, Running,
         Summons, Requeues, Writing, End,Launcher, Ran, Raw, HasPulse, Settled, Terminal, Proc
<1>4. To(p, "mark_cmd", my[p])
  BY <1>1 DEF Held, To, Fits, ExitFits, Exits, DataFits, RoleFits, PointsTo, CopiesTo, Starting, Running,
         Summons, Requeues, Writing, End,Launcher, Ran, Raw, HasPulse, Settled, Terminal, Proc
<1>5. QED
  BY <1>1, <1>2, <1>3, <1>4, Reads DEF AttentionStart, Held, Plain, Jump, Unread, Mine, End

LEMMA MarkReadStep ==
  ASSUME Typed, NEW p \in Proc, Fitting(p), MarkRead(p)
  PROVE  Ensures(p)
<1> DEFINE w == [my[p] EXCEPT !.exe = exe[my[p].c]]
           v == [my[p] EXCEPT !.exe = my[p].seen]
<1>1. pc[p] = "mark" /\ Held(p)
  BY Hands DEF MarkRead
<1>2. /\ w \in WorkType /\ w.c = my[p].c /\ w.cmd = my[p].cmd /\ w.out = my[p].out
      /\ w.exe = exe[my[p].c] /\ w.seen = my[p].seen /\ w.task = my[p].task /\ w.verdict = my[p].verdict
      /\ w.next = my[p].next /\ w.onError = my[p].onError
  BY <1>1 DEF Held, WorkType
<1>3. /\ v \in WorkType /\ v.c = my[p].c /\ v.cmd = my[p].cmd /\ v.out = my[p].out
      /\ v.exe = my[p].seen /\ v.seen = my[p].seen /\ v.task = my[p].task /\ v.verdict = my[p].verdict
      /\ v.next = my[p].next /\ v.onError = my[p].onError
  BY <1>1, <1>2 DEF Held, WorkType
<1> HIDE DEF w, v
<1>4. To(p, "mark_put", w)
  BY <1>1, <1>2, <1>3 DEF Held, To, Fits, ExitFits, Exits, DataFits, RoleFits, PointsTo, CopiesTo,
         Starting, Running, Summons, Requeues, Writing, End,Launcher, Ran, Raw, HasPulse, Settled, Terminal,
         Proc
<1>5. To(p, "mark_put", v)
  BY <1>1, <1>2, <1>3 DEF Held, To, Fits, ExitFits, Exits, DataFits, RoleFits, PointsTo, CopiesTo,
         Starting, Running, Summons, Requeues, Writing, End,Launcher, Ran, Raw, HasPulse, Settled, Terminal,
         Proc
<1>6. To(p, "mark_task", my[p]) /\ To(p, "mark_cmd", my[p])
  BY <1>1, <1>2, <1>3 DEF Held, To, Fits, ExitFits, Exits, DataFits, RoleFits, PointsTo, CopiesTo,
         Starting, Running, Summons, Requeues, Writing, End,Launcher, Ran, Raw, HasPulse, Settled, Terminal,
         Proc
<1>7. QED
  BY <1>1, <1>2, <1>3, <1>4, <1>5, <1>6, Reads DEF MarkRead, Held, Plain, Jump, Unread, Mine, w, v

LEMMA MarkPutStep ==
  ASSUME Typed, NEW p \in Proc, Fitting(p), MarkPut(p)
  PROVE  Ensures(p)
<1>1. pc[p] = "mark_put" /\ Held(p)
  BY Hands DEF MarkPut
<1>2. my[p].exe \in ExecutionType
  BY <1>1 DEF Held, WorkType
<1>3. To(p, "mark_task", my[p])
  BY <1>1, <1>2 DEF Held, To, Fits, ExitFits, Exits, DataFits, RoleFits, PointsTo, CopiesTo, Starting,
         Running, Summons, Requeues, Writing, End,Launcher, Ran, Raw, HasPulse, Settled, Terminal, Proc
<1>4. To(p, End(p), my[p])
  BY <1>1, <1>2 DEF Held, To, Fits, ExitFits, Exits, DataFits, RoleFits, PointsTo, CopiesTo, Starting,
         Running, Summons, Requeues, Writing, End,Launcher, Ran, Raw, HasPulse, Settled, Terminal, Proc
<1>5. QED
  BY <1>1, <1>2, <1>3, <1>4, Reads, WritesExe DEF MarkPut, Held, Plain, Jump, Unread, Mine, Attempt,
         AttemptWith, End, Raw

LEMMA MarkTaskStep ==
  ASSUME Typed, NEW p \in Proc, Fitting(p), MarkTask(p)
  PROVE  Ensures(p)
<1> DEFINE w == [my[p] EXCEPT !.task = task]
<1>1. pc[p] = "mark_task" /\ Held(p)
  BY Hands DEF MarkTask
<1>2. /\ w \in WorkType /\ w.c = my[p].c /\ w.cmd = my[p].cmd /\ w.out = my[p].out
      /\ w.exe = my[p].exe /\ w.seen = my[p].seen /\ w.task = task /\ w.verdict = my[p].verdict
      /\ w.next = my[p].next /\ w.onError = my[p].onError
  BY <1>1 DEF Held, WorkType
<1> HIDE DEF w
<1>3. To(p, "mark_task_put", w)
  BY <1>1, <1>2 DEF Held, To, Fits, ExitFits, Exits, DataFits, RoleFits, PointsTo, CopiesTo, Starting,
         Running, Summons, Requeues, Writing, End,Launcher, Ran, Raw, HasPulse, Settled, Terminal, Proc
<1>4. To(p, "mark_cmd", my[p])
  BY <1>1, <1>2 DEF Held, To, Fits, ExitFits, Exits, DataFits, RoleFits, PointsTo, CopiesTo, Starting,
         Running, Summons, Requeues, Writing, End,Launcher, Ran, Raw, HasPulse, Settled, Terminal, Proc
<1>5. QED
  BY <1>1, <1>2, <1>3, <1>4, Reads DEF MarkTask, Held, Plain, Jump, Unread, Mine, w

LEMMA MarkTaskPutStep ==
  ASSUME Typed, NEW p \in Proc, Fitting(p), MarkTaskPut(p)
  PROVE  Ensures(p)
<1> DEFINE t == [my[p].task EXCEPT !.status = "blocked"]
<1>1. pc[p] = "mark_task_put" /\ Held(p)
  BY Hands DEF MarkTaskPut
<1>2. my[p].task \in HeldTask
  BY <1>1 DEF Held, WorkType
<1>3. t \in TaskType /\ t.stamp = my[p].task.stamp
  BY <1>2 DEF HeldTask, TaskType, TaskIn
<1> HIDE DEF t
<1>4. To(p, "mark_cmd", my[p])
  BY <1>1, <1>2, <1>3 DEF Held, To, Fits, ExitFits, Exits, DataFits, RoleFits, PointsTo, CopiesTo,
         Starting, Running, Summons, Requeues, Writing, End,Launcher, Ran, Raw, HasPulse, Settled, Terminal,
         Proc
<1>5. QED
  BY <1>1, <1>2, <1>3, <1>4, Reads, WritesTask DEF MarkTaskPut, Held, Plain, Jump, Unread, Mine, Attempt,
         AttemptWith, t

LEMMA MarkCommandStep ==
  ASSUME Typed, NEW p \in Proc, Fitting(p), MarkCommand(p)
  PROVE  Ensures(p)
<1> DEFINE r == Ended(my[p].cmd, "attention", "none", FALSE)
<1>1. pc[p] = "mark_cmd" /\ Held(p)
  BY Hands DEF MarkCommand
<1>2. my[p].cmd \in CommandType
  BY <1>1 DEF Held, WorkType
<1>3. r \in CommandType /\ r.status = "attention" /\ r.worker = my[p].cmd.worker
  BY <1>2 DEF Ended, CommandType
<1> HIDE DEF r
<1>4. To(p, End(p), my[p])
  BY <1>1, <1>2, <1>3 DEF Held, To, Fits, ExitFits, Exits, DataFits, RoleFits, PointsTo, CopiesTo,
         Starting, Running, Summons, Requeues, Writing, End,Launcher, Ran, Raw, HasPulse, Settled, Terminal,
         Proc
<1>5. QED
  BY <1>1, <1>2, <1>3, <1>4, Reads, Concludes DEF MarkCommand, Held, Plain, Jump, Unread, Mine, End, r

LEMMA ReconcileStep ==
  ASSUME Typed, NEW p \in Proc, Fitting(p), Reconcile(p)
  PROVE  Ensures(p)
<1> DEFINE w == [my[p] EXCEPT !.seen = exe[my[p].c]]
           v == [my[p] EXCEPT !.seen = NewExecution]
<1>1. pc[p] = "reconcile" /\ Held(p)
  BY Hands DEF Reconcile
<1>2. ~Ran(NewExecution) /\ ~HasPulse(NewExecution)
  BY DEF NewExecution, Ran, HasPulse, Settled, Terminal
<1>3. /\ w \in WorkType /\ w.c = my[p].c /\ w.cmd = my[p].cmd /\ w.out = my[p].out
      /\ w.exe = my[p].exe /\ w.seen = exe[my[p].c] /\ w.task = my[p].task /\ w.verdict = my[p].verdict
      /\ w.next = my[p].next /\ w.onError = my[p].onError
  BY <1>1, <1>2 DEF Held, WorkType
<1>4. /\ v \in WorkType /\ v.c = my[p].c /\ v.cmd = my[p].cmd /\ v.out = my[p].out
      /\ v.exe = my[p].exe /\ v.seen = NewExecution /\ v.task = my[p].task /\ v.verdict = my[p].verdict
      /\ v.next = my[p].next /\ v.onError = my[p].onError
  BY <1>1, <1>2, <1>3, NewTyped DEF Held, WorkType
<1> HIDE DEF w, v
<1>5. To(p, End(p), my[p])
  BY <1>1, <1>2, <1>3, <1>4 DEF Held, To, Fits, ExitFits, Exits, DataFits, RoleFits, PointsTo, CopiesTo,
         Starting, Running, Summons, Requeues, Writing, End,Launcher, Ran, Raw, HasPulse, Settled, Terminal,
         Proc
<1>6. my[p].cmd.status = "claimed" =>
        To(p, "orphan", my[p])
  BY SMTT(30), <1>1, <1>2, <1>3, <1>4 DEF Held, To, Fits, ExitFits, Exits, DataFits, RoleFits, PointsTo, CopiesTo,
         Starting, Running, Summons, Requeues, Writing, End,Launcher, Ran, Raw, HasPulse, Settled, Terminal,
         Proc
<1>7. To(p, "attention", w) /\ To(p, "cancel", w) /\ To(p, "undo_lease", w) /\ To(p, "judge", w)
  BY <1>1, <1>2, <1>3, <1>4 DEF Held, To, Fits, ExitFits, Exits, DataFits, RoleFits, PointsTo, CopiesTo,
         Starting, Running, Summons, Requeues, Writing, End,Launcher, Ran, Raw, HasPulse, Settled, Terminal,
         Proc
<1>8. To(p, "attention", v)
  BY <1>1, <1>2, <1>3, <1>4 DEF Held, To, Fits, ExitFits, Exits, DataFits, RoleFits, PointsTo, CopiesTo,
         Starting, Running, Summons, Requeues, Writing, End,Launcher, Ran, Raw, HasPulse, Settled, Terminal,
         Proc
<1>9. Settled(exe[my[p].c].status) =>
        To(p, "recover", w) /\ To(p, "fix", w)
  BY <1>1, <1>2, <1>3, <1>4 DEF Held, To, Fits, ExitFits, Exits, DataFits, RoleFits, PointsTo, CopiesTo,
         Starting, Running, Summons, Requeues, Writing, End,Launcher, Ran, Raw, HasPulse, Settled, Terminal,
         Proc
<1>10. exe[my[p].c].status \in {"none", "reserved", "running", "cancelled"} \/ Settled(exe[my[p].c].status)
  BY <1>1 DEF Held, ExecutionType, Settled
<1>11. \/ Jump(p, End(p)) \/ Unread(p, End(p))
       \/ my[p].cmd.status = "claimed" /\ (Jump(p, "orphan") \/ Unread(p, "orphan"))
       \/ Step(p, "attention", v) \/ UnreadWith(p, "attention", v)
       \/ Step(p, "attention", w) \/ Step(p, "cancel", w) \/ Step(p, "undo_lease", w) \/ Step(p, "judge", w)
       \/ Settled(exe[my[p].c].status) /\ (Step(p, "recover", w) \/ Step(p, "fix", w))
  <2>1. exe[my[p].c].status = "none" => ~Settled(exe[my[p].c].status)
    BY DEF Settled, Terminal
  <2>2. QED
    BY <1>10, <2>1 DEF Reconcile, Mine, NoExecution, AttendNoExecution, Attend, StillReserved, w, v, Settled, Terminal
<1>12. QED
  BY <1>1, <1>5, <1>6, <1>7, <1>8, <1>9, <1>11, Reads DEF Held, Plain, Jump, Unread, End

LEMMA OrphanStep ==
  ASSUME Typed, NEW p \in Proc, Fitting(p), Orphan(p)
  PROVE  Ensures(p)
<1> DEFINE r == [NewCommand EXCEPT !.status = "queued"]
           u == [my[p] EXCEPT !.seen = NewExecution]
           v == [my[p] EXCEPT !.token = root.token]
           w == Published(v, r, "orphan_free", End(p))
           abandoned == Abandoned(my[p].c, my[p].cmd.worker)
<1>1. pc[p] = "orphan" /\ Held(p) /\ p \notin Worker
  BY Hands DEF Orphan, Held, Fits, RoleFits
<1>2. my[p].cmd \in CommandType
  BY <1>1 DEF Held, WorkType
<1>3. /\ FailedWith(my[p].cmd, "error") \in CommandType
      /\ FailedWith(my[p].cmd, "error").status = "failed"
      /\ FailedWith(my[p].cmd, "error").worker = my[p].cmd.worker
  BY <1>2, FailsFit
<1>4. r \in CommandType /\ r.status = "queued" /\ r.worker = NoProc
  BY DEF NewCommand, CommandType
<1>5. End(p) \in Points
  BY DEF End
<1>6. ~Ran(NewExecution) /\ ~HasPulse(NewExecution)
  BY DEF NewExecution, Ran, HasPulse, Settled, Terminal
<1>7. \/ Jump(p, End(p)) \/ Conclude(p, FailedWith(my[p].cmd, "error"))
      \/ Step(p, "attention", u) \/ (abandoned /\ Step(p, "write", w))
  BY DEF Orphan, AttendNoExecution, Attend, Publish, Published, Mine
<1>8. abandoned => my[p].cmd.worker # NoProc /\ ~Alive(my[p].cmd.worker)
  BY DEF Abandoned
<1> HIDE DEF r, abandoned
<1>9. /\ u \in WorkType /\ u.c = my[p].c /\ u.cmd = my[p].cmd /\ u.out = my[p].out
      /\ u.exe = my[p].exe /\ u.seen = NewExecution /\ u.task = my[p].task
  BY <1>1, NewTyped DEF Held, WorkType
<1>10. /\ v \in WorkType /\ v.c = my[p].c /\ v.cmd = my[p].cmd
       /\ v.exe = my[p].exe /\ v.seen = my[p].seen /\ v.task = my[p].task
  BY <1>1 DEF Held, WorkType, RootType
<1> HIDE DEF u, v
<1>11. /\ w \in WorkType /\ w.c = v.c /\ w.cmd = v.cmd /\ w.out = r /\ w.exe = v.exe /\ w.seen = v.seen
       /\ w.task = v.task /\ w.next = "orphan_free" /\ w.onError = End(p)
  BY <1>4, <1>10, RequeueFits
<1> HIDE DEF w
<1>12. To(p, End(p), my[p])
  BY <1>1 DEF Held, To, Fits, ExitFits, Exits, DataFits, RoleFits, PointsTo, CopiesTo, Starting, Running, Summons, Requeues, Writing, End, Launcher, Ran, Raw, HasPulse, Settled, Terminal, Proc
<1>13. To(p, "attention", u)
  BY <1>1, <1>6, <1>9 DEF Held, To, Fits, ExitFits, Exits, DataFits, RoleFits, PointsTo, CopiesTo, Starting, Running, Summons, Requeues, Writing, End, Launcher, Ran, Raw, HasPulse, Settled, Terminal, Proc
<1>14. abandoned => To(p, "write", w)
  BY <1>1, <1>4, <1>5, <1>8, <1>10, <1>11 DEF Held, To, Fits, ExitFits, Exits, DataFits, RoleFits, PointsTo, CopiesTo, Starting, Running, Summons, Requeues, Writing, End, Launcher, Ran, Raw, HasPulse, Settled, Terminal, Proc
<1>15. CASE Conclude(p, FailedWith(my[p].cmd, "error"))
  BY <1>1, <1>3, <1>15, Concludes
<1>16. CASE Jump(p, End(p))
  BY <1>1, <1>12, <1>16, Reads DEF Held, Plain, Jump, End
<1>17. CASE Step(p, "attention", u)
  BY <1>1, <1>13, <1>17, Reads DEF Held, Plain
<1>18. CASE abandoned /\ Step(p, "write", w)
  BY <1>1, <1>14, <1>18, Reads DEF Held, Plain
<1>19. QED
  BY <1>7, <1>15, <1>16, <1>17, <1>18

LEMMA OrphanFreeStep ==
  ASSUME Typed, NEW p \in Proc, Fitting(p), OrphanFree(p)
  PROVE  Ensures(p)
<1> DEFINE v == [my[p] EXCEPT !.seen = NewExecution]
<1>1. pc[p] = "orphan_free" /\ Held(p)
  BY Hands DEF OrphanFree
<1>2. ~Ran(NewExecution) /\ ~HasPulse(NewExecution)
  BY DEF NewExecution, Ran, HasPulse, Settled, Terminal
<1>3. /\ v \in WorkType /\ v.c = my[p].c /\ v.cmd = my[p].cmd /\ v.out = my[p].out
      /\ v.exe = my[p].exe /\ v.seen = NewExecution /\ v.task = my[p].task /\ v.verdict = my[p].verdict
      /\ v.next = my[p].next /\ v.onError = my[p].onError
  BY <1>1, <1>2, NewTyped DEF Held, WorkType
<1> HIDE DEF v
<1>4. To(p, End(p), my[p])
  BY <1>1, <1>2, <1>3 DEF Held, To, Fits, ExitFits, Exits, DataFits, RoleFits, PointsTo, CopiesTo,
         Starting, Running, Summons, Requeues, Writing, End,Launcher, Ran, Raw, HasPulse, Settled, Terminal,
         Proc
<1>5. To(p, End(p), v) /\ To(p, "attention", v)
  BY <1>1, <1>2, <1>3 DEF Held, To, Fits, ExitFits, Exits, DataFits, RoleFits, PointsTo, CopiesTo,
         Starting, Running, Summons, Requeues, Writing, End,Launcher, Ran, Raw, HasPulse, Settled, Terminal,
         Proc
<1>6. QED
  BY <1>1, <1>2, <1>3, <1>4, <1>5, ReleasedFits, Reads, WritesRoot DEF OrphanFree, Held, Plain, Jump,
         Unread, Mine, Attempt, AttemptWith, End, v

LEMMA CancelReadStep ==
  ASSUME Typed, NEW p \in Proc, Fitting(p), CancelRead(p)
  PROVE  Ensures(p)
<1> DEFINE w == [my[p] EXCEPT !.exe = exe[my[p].c]]
<1>1. pc[p] = "cancel" /\ Held(p)
  BY Hands DEF CancelRead
<1>2. /\ w \in WorkType /\ w.c = my[p].c /\ w.cmd = my[p].cmd /\ w.out = my[p].out
      /\ w.exe = exe[my[p].c] /\ w.seen = my[p].seen /\ w.task = my[p].task /\ w.verdict = my[p].verdict
      /\ w.next = my[p].next /\ w.onError = my[p].onError
  BY <1>1 DEF Held, WorkType
<1> HIDE DEF w
<1>3. To(p, "undo_lease", my[p]) /\ To(p, "attention", my[p])
  BY <1>1, <1>2 DEF Held, To, Fits, ExitFits, Exits, DataFits, RoleFits, PointsTo, CopiesTo, Starting,
         Running, Summons, Requeues, Writing, End,Launcher, Ran, Raw, HasPulse, Settled, Terminal, Proc
<1>4. To(p, "cancel_put", w)
  BY <1>1, <1>2 DEF Held, To, Fits, ExitFits, Exits, DataFits, RoleFits, PointsTo, CopiesTo, Starting,
         Running, Summons, Requeues, Writing, End,Launcher, Ran, Raw, HasPulse, Settled, Terminal, Proc
<1>5. QED
  BY <1>1, <1>2, <1>3, <1>4, Reads DEF CancelRead, Held, Plain, Jump, Unread, Mine, Attention, w

LEMMA CancelPutStep ==
  ASSUME Typed, NEW p \in Proc, Fitting(p), CancelPut(p)
  PROVE  Ensures(p)
<1> DEFINE e == [my[p].exe EXCEPT !.status = "cancelled"]
<1>1. pc[p] = "cancel_put" /\ Held(p)
  BY Hands DEF CancelPut
<1>2. my[p].exe \in ExecutionType
  BY <1>1 DEF Held, WorkType
<1>3. e \in ExecutionType /\ e.status = "cancelled" /\ e.prov = my[p].exe.prov
  BY <1>2 DEF ExecutionType
<1> HIDE DEF e
<1>4. To(p, "undo_lease", my[p]) /\ To(p, "attention", my[p])
  BY <1>1, <1>2, <1>3 DEF Held, To, Fits, ExitFits, Exits, DataFits, RoleFits, PointsTo, CopiesTo,
         Starting, Running, Summons, Requeues, Writing, End,Launcher, Ran, Raw, HasPulse, Settled, Terminal,
         Proc
<1>5. QED
  BY <1>1, <1>2, <1>3, <1>4, Reads, WritesExe DEF CancelPut, Held, Plain, Jump, Unread, Mine, Attempt,
         AttemptWith, Ran, Raw, HasPulse, Settled, Terminal, e

LEMMA UndoLeaseStep ==
  ASSUME Typed, NEW p \in Proc, Fitting(p), UndoLease(p)
  PROVE  Ensures(p)
<1> DEFINE r == FailedWith(my[p].cmd, "prelaunch_failed")
           w == [my[p] EXCEPT !.out = r, !.next = End(p), !.onError = End(p)]
<1>1. pc[p] = "undo_lease" /\ Held(p)
  BY Hands DEF UndoLease
<1>2. my[p].cmd \in CommandType
  BY <1>1 DEF Held, WorkType
<1>3. r \in CommandType /\ r.status = "failed" /\ r.worker = my[p].cmd.worker
  BY <1>2, FailsFit
<1> HIDE DEF r
<1>4. /\ w \in WorkType /\ w.c = my[p].c /\ w.cmd = my[p].cmd /\ w.out = r
      /\ w.exe = my[p].exe /\ w.seen = my[p].seen /\ w.task = my[p].task /\ w.verdict = my[p].verdict
      /\ w.next = End(p) /\ w.onError = End(p)
  BY ZenonT(60), <1>1, <1>2, <1>3 DEF Held, WorkType, End
<1> HIDE DEF w
<1>5. To(p, "attention", my[p])
  BY <1>1, <1>2, <1>3, <1>4 DEF Held, To, Fits, ExitFits, Exits, DataFits, RoleFits, PointsTo, CopiesTo,
         Starting, Running, Summons, Requeues, Writing, End,Launcher, Ran, Raw, HasPulse, Settled, Terminal,
         Proc
<1>6. To(p, "block", w) /\ To(p, "attention", w)
  BY <1>1, <1>2, <1>3, <1>4 DEF Held, To, Fits, ExitFits, Exits, DataFits, RoleFits, PointsTo, CopiesTo,
         Starting, Running, Summons, Requeues, Writing, End,Launcher, Ran, Raw, HasPulse, Settled, Terminal,
         Proc
<1>7. QED
  BY <1>1, <1>2, <1>3, <1>4, <1>5, <1>6, LeaseFits, Reads, WritesLease DEF UndoLease, Held, Plain, Jump,
         Unread, Mine, Attempt, AttemptWith, Attention, r, w

LEMMA HealStep ==
  ASSUME Typed, NEW p \in Proc, Fitting(p), Heal(p)
  PROVE  Ensures(p)
<1> DEFINE w == [my[p] EXCEPT !.task = task]
<1>1. pc[p] = "heal" /\ Held(p)
  BY Hands DEF Heal
<1>2. /\ w \in WorkType /\ w.c = my[p].c /\ w.cmd = my[p].cmd /\ w.out = my[p].out
      /\ w.exe = my[p].exe /\ w.seen = my[p].seen /\ w.task = task /\ w.verdict = my[p].verdict
      /\ w.next = my[p].next /\ w.onError = my[p].onError
  BY <1>1 DEF Held, WorkType
<1> HIDE DEF w
<1>3. To(p, "heal_put", w)
  BY <1>1, <1>2 DEF Held, To, Fits, ExitFits, Exits, DataFits, RoleFits, PointsTo, CopiesTo, Starting,
         Running, Summons, Requeues, Writing, End,Launcher, Ran, Raw, HasPulse, Settled, Terminal, Proc
<1>4. To(p, End(p), my[p])
  BY <1>1, <1>2 DEF Held, To, Fits, ExitFits, Exits, DataFits, RoleFits, PointsTo, CopiesTo, Starting,
         Running, Summons, Requeues, Writing, End,Launcher, Ran, Raw, HasPulse, Settled, Terminal, Proc
<1>5. QED
  BY <1>1, <1>2, <1>3, <1>4, Reads DEF Heal, Held, Plain, Jump, Unread, Mine, End, w

LEMMA HealPutStep ==
  ASSUME Typed, NEW p \in Proc, Fitting(p), HealPut(p)
  PROVE  Ensures(p)
<1> DEFINE t == [my[p].task EXCEPT !.status = "in_progress"]
<1>1. pc[p] = "heal_put" /\ Held(p)
  BY Hands DEF HealPut
<1>2. my[p].task \in HeldTask
  BY <1>1 DEF Held, WorkType
<1>3. t \in TaskType /\ t.stamp = my[p].task.stamp
  BY <1>2 DEF HeldTask, TaskType, TaskIn
<1> HIDE DEF t
<1>4. To(p, End(p), my[p])
  BY <1>1, <1>2, <1>3 DEF Held, To, Fits, ExitFits, Exits, DataFits, RoleFits, PointsTo, CopiesTo,
         Starting, Running, Summons, Requeues, Writing, End,Launcher, Ran, Raw, HasPulse, Settled, Terminal,
         Proc
<1>5. QED
  BY <1>1, <1>2, <1>3, <1>4, Reads, WritesTask DEF HealPut, Held, Plain, Jump, Unread, Mine, Attempt,
         AttemptWith, End, t

LEMMA RecoverLeaseStep ==
  ASSUME Typed, NEW p \in Proc, Fitting(p), RecoverLease(p)
  PROVE  Ensures(p)
<1>1. pc[p] = "recover_lease" /\ Held(p)
  BY Hands DEF RecoverLease
<1>2. To(p, "term", my[p]) /\ To(p, "attention", my[p])
  BY <1>1 DEF Held, To, Fits, ExitFits, Exits, DataFits, RoleFits, PointsTo, CopiesTo, Starting, Running,
         Summons, Requeues, Writing, End,Launcher, Ran, Raw, HasPulse, Settled, Terminal, Proc
<1>3. QED
  BY <1>1, <1>2, LeaseFits, Reads, WritesLease DEF RecoverLease, Held, Plain, Jump, Unread, Mine,
         Attempt, AttemptWith, Attention

LEMMA ConfirmStep ==
  ASSUME Typed, NEW p \in Proc, Fitting(p), Confirm(p)
  PROVE  Ensures(p)
<1>1. pc[p] \in {"confirm", "confirm_or_raise"} /\ Held(p)
  BY Hands DEF Confirm
<1>2. my[p].cmd \in CommandType
  BY <1>1 DEF Held, WorkType
<1>3. Settled(exe[my[p].c].status) =>
        /\ EndedAs(my[p].cmd, exe[my[p].c]) \in CommandType /\ EndedAs(my[p].cmd, exe[my[p].c]).status \in {"completed", "failed"}
        /\ EndedAs(my[p].cmd, exe[my[p].c]).worker = my[p].cmd.worker
  BY ZenonT(60), <1>1, <1>2, EndsFit DEF Held, Settled, ExecutionType
<1>4. To(p, "attention", my[p]) /\ To(p, End(p), my[p])
  BY <1>1, <1>2, <1>3 DEF Held, To, Fits, ExitFits, Exits, DataFits, RoleFits, PointsTo, CopiesTo,
         Starting, Running, Summons, Requeues, Writing, End,Launcher, Ran, Raw, HasPulse, Settled, Terminal,
         Proc
<1>5. QED
  BY <1>1, <1>2, <1>3, <1>4, Reads, Concludes DEF Confirm, Held, Plain, Jump, Unread, Mine, End,
         Publishable

LEMMA JudgeStep ==
  ASSUME Typed, NEW p \in Proc, Fitting(p), Judge(p)
  PROVE  Ensures(p)
<1> DEFINE r == [my[p].cmd EXCEPT !.status = "running"]
           t == [my[p] EXCEPT !.out = r, !.next = "heal", !.onError = End(p)]
           w == [my[p] EXCEPT !.verdict = "interrupted", !.freed = Write]
           u == [w EXCEPT !.next = "confirm", !.onError = "attention"]
           v == [w EXCEPT !.seen = NewExecution, !.next = "confirm_or_raise", !.onError = End(p)]
           gone == ProviderState(my[p].seen) = "dead"
<1>1. pc[p] = "judge" /\ Held(p)
  BY Hands DEF Judge
<1>2. my[p].cmd \in CommandType
  BY <1>1 DEF Held, WorkType
<1>3. r \in CommandType /\ r.status = "running" /\ r.worker = my[p].cmd.worker
  BY <1>2 DEF CommandType
<1>4. gone => Ran(my[p].seen)
  BY DEF ProviderState, Ran
<1>5. End(p) \in Points /\ ~Ran(NewExecution) /\ ~HasPulse(NewExecution)
  BY DEF End, NewExecution, Ran, HasPulse, Settled, Terminal
<1>6. \/ Step(p, "write", t) \/ Jump(p, End(p)) \/ Jump(p, "attention") \/ Unread(p, "attention")
      \/ (gone /\ Step(p, "recover_lease", u)) \/ (gone /\ Step(p, "term", v))
  BY DEF Judge, Publish, Attention, Mine
<1> HIDE DEF r, gone
<1>7. /\ t \in WorkType /\ t.c = my[p].c /\ t.cmd = my[p].cmd /\ t.out = r
      /\ t.exe = my[p].exe /\ t.seen = my[p].seen /\ t.task = my[p].task
      /\ t.next = "heal" /\ t.onError = End(p)
  BY ZenonT(60), <1>1, <1>3, <1>5 DEF Held, WorkType
<1>8. /\ w \in WorkType /\ w.c = my[p].c /\ w.cmd = my[p].cmd /\ w.out = my[p].out
      /\ w.exe = my[p].exe /\ w.seen = my[p].seen /\ w.task = my[p].task /\ w.verdict = "interrupted"
  BY ZenonT(60), <1>1, WriteAssumption DEF Held, WorkType, Terminal
<1> HIDE DEF t, w
<1>9. /\ u \in WorkType /\ u.c = w.c /\ u.cmd = w.cmd /\ u.out = w.out /\ u.exe = w.exe /\ u.seen = w.seen
      /\ u.task = w.task /\ u.verdict = w.verdict /\ u.next = "confirm" /\ u.onError = "attention"
  BY ZenonT(60), <1>8 DEF WorkType
<1>10. /\ v \in WorkType /\ v.c = w.c /\ v.cmd = w.cmd /\ v.out = w.out /\ v.exe = w.exe /\ v.seen = NewExecution
       /\ v.task = w.task /\ v.verdict = w.verdict /\ v.next = "confirm_or_raise" /\ v.onError = End(p)
  BY ZenonT(60), <1>5, <1>8, NewTyped DEF WorkType
<1> HIDE DEF u, v
<1>11. To(p, "write", t)
  BY <1>1, <1>3, <1>7 DEF Held, To, Fits, ExitFits, Exits, DataFits, RoleFits, PointsTo, CopiesTo, Starting, Running, Summons, Requeues, Writing, End, Launcher, Ran, Raw, HasPulse, Settled, Terminal, Proc
<1>12. To(p, End(p), my[p]) /\ To(p, "attention", my[p])
  BY <1>1 DEF Held, To, Fits, ExitFits, Exits, DataFits, RoleFits, PointsTo, CopiesTo, Starting, Running, Summons, Requeues, Writing, End, Launcher, Ran, Raw, HasPulse, Settled, Terminal, Proc
<1>13. gone => To(p, "recover_lease", u)
  BY <1>1, <1>4, <1>8, <1>9 DEF Held, To, Fits, ExitFits, Exits, DataFits, RoleFits, PointsTo, CopiesTo, Starting, Running, Summons, Requeues, Writing, End, Launcher, Ran, Raw, HasPulse, Settled, Terminal, Proc
<1>14. gone => To(p, "term", v)
  BY <1>1, <1>4, <1>5, <1>8, <1>10 DEF Held, To, Fits, ExitFits, Exits, DataFits, RoleFits, PointsTo, CopiesTo, Starting, Running, Summons, Requeues, Writing, End, Launcher, Ran, Raw, HasPulse, Settled, Terminal, Proc
<1>15. QED
  BY <1>1, <1>6, <1>11, <1>12, <1>13, <1>14, Reads DEF Held, Plain, Jump, Unread, End

LEMMA FixStep ==
  ASSUME Typed, NEW p \in Proc, Fitting(p), Fix(p)
  PROVE  Ensures(p)
<1> DEFINE e == exe[my[p].c]
           b == VerdictOf(my[p].c, e)
           v == [my[p] EXCEPT !.exe = e]
           w == [v EXCEPT !.task = task]
<1>1. pc[p] = "fix" /\ Held(p)
  BY Hands DEF Fix
<1>2. Settled(e.status) => b \in Verdicts /\ b # NoVerdict /\ b.of = my[p].c
  BY <1>1, VerdictTyped DEF Held
<1>3. \/ /\ Settled(e.status) /\ Bindable(my[p].c, b) /\ UNCHANGED prov
         /\ \/ PutRoot(Bound(b)) /\ Well /\ GoWith(p, "fix_handoff", w)
            \/ Faulty(p) /\ (PutRoot(Bound(b)) \/ Untouched) /\ GoWith(p, "recover", w)
      \/ Jump(p, "recover") \/ Unread(p, "recover")
  BY DEF Fix, AttemptWith, Mine
<1>4. /\ v \in WorkType /\ v.c = my[p].c /\ v.cmd = my[p].cmd /\ v.out = my[p].out
      /\ v.exe = e /\ v.seen = my[p].seen /\ v.task = my[p].task
  BY SMTT(30), <1>1 DEF Held, WorkType
<1>5. /\ w \in WorkType /\ w.c = my[p].c /\ w.cmd = my[p].cmd /\ w.out = my[p].out
      /\ w.exe = e /\ w.seen = my[p].seen /\ w.task = task
  BY ZenonT(60), <1>1, <1>4 DEF Held, WorkType
<1> HIDE DEF v, w
<1>6. /\ Settled(e.status) => To(p, "fix_handoff", w)
      /\ To(p, "recover", w) /\ To(p, "recover", my[p])
  BY <1>1, <1>5 DEF Held, To, Fits, ExitFits, Exits, DataFits, RoleFits, PointsTo, CopiesTo, Starting, Running, Summons, Requeues, Writing, End, Launcher, Ran, Raw, HasPulse, Settled, Terminal, Proc
<1>7. Settled(e.status) /\ Bindable(my[p].c, b) =>
        /\ Bound(b) \in RootType /\ Bound(b).owner = my[p].c /\ Bound(b).bind = b
        /\ root.owner = my[p].c /\ root.bind \in {NoVerdict, b}
  BY <1>1, <1>2 DEF Held, Bindable, Bound, RootType
<1>8. Running(p) /\ my[p].c \in Command /\ b = VerdictOf(my[p].c, w.exe)
  BY <1>1, <1>5 DEF Running, Held
<1> HIDE DEF b, e
<1>9. CASE /\ Settled(e.status) /\ Bindable(my[p].c, b) /\ UNCHANGED prov
           /\ PutRoot(Bound(b)) /\ Well /\ GoWith(p, "fix_handoff", w)
  BY <1>2, <1>6, <1>7, <1>8, <1>9, WritesBind
<1>10. CASE /\ Settled(e.status) /\ Bindable(my[p].c, b) /\ UNCHANGED prov
            /\ Faulty(p) /\ (PutRoot(Bound(b)) \/ Untouched) /\ GoWith(p, "recover", w)
  BY <1>1, <1>2, <1>6, <1>7, <1>8, <1>10, WritesRoot DEF Plain
<1>11. CASE Jump(p, "recover") \/ Unread(p, "recover")
  BY <1>1, <1>6, <1>8, <1>11, Reads DEF Plain, Jump, Unread
<1>12. QED
  BY <1>3, <1>9, <1>10, <1>11

LEMMA FixHandoffStep ==
  ASSUME Typed, NEW p \in Proc, Fitting(p), FixHandoff(p)
  PROVE  Ensures(p)
<1> DEFINE w(v) == [my[p] EXCEPT !.view = v]
           h == VerdictOf(my[p].c, my[p].exe)
<1>1. pc[p] = "fix_handoff" /\ Held(p)
  BY Hands DEF FixHandoff
<1>2. my[p].exe \in ExecutionType /\ Settled(my[p].exe.status)
  BY <1>1 DEF Held, WorkType, Fits, DataFits
<1>3. h \in Verdicts
  BY <1>1, <1>2, VerdictTyped DEF Held
<1>4. ASSUME NEW v \in Views
      PROVE  To(p, "strike", w(v)) /\ To(p, "fix_handoff_view", w(v)) /\ w(v).exe = my[p].exe
  <2>1. /\ w(v) \in WorkType /\ w(v).c = my[p].c /\ w(v).cmd = my[p].cmd /\ w(v).out = my[p].out
        /\ w(v).exe = my[p].exe /\ w(v).seen = my[p].seen /\ w(v).task = my[p].task
        /\ w(v).verdict = my[p].verdict /\ w(v).next = my[p].next /\ w(v).onError = my[p].onError
    BY <1>1 DEF Held, WorkType
  <2> HIDE DEF w
  <2>2. QED
    BY <1>1, <1>2, <2>1 DEF Held, To, Fits, ExitFits, Exits, DataFits, RoleFits, PointsTo, CopiesTo, Starting, Running, Summons, Requeues, Writing, End, Launcher, Ran, Raw, HasPulse, Settled, Terminal, Proc
<1>5. \E v \in Views :
        \/ Step(p, "strike", w(v))
        \/ /\ UNCHANGED prov
           /\ \/ PutHandoff(h) /\ Well /\ GoWith(p, "fix_handoff_view", w(v))
              \/ Faulty(p) /\ (PutHandoff(h) \/ Untouched) /\ GoWith(p, "strike", w(v))
  BY DEF FixHandoff, AttemptWith, Mine, Views
<1> HIDE DEF w, h
<1>6. PICK v \in Views :
        \/ Step(p, "strike", w(v))
        \/ /\ UNCHANGED prov
           /\ \/ PutHandoff(h) /\ Well /\ GoWith(p, "fix_handoff_view", w(v))
              \/ Faulty(p) /\ (PutHandoff(h) \/ Untouched) /\ GoWith(p, "strike", w(v))
  BY <1>5
<1>7. To(p, "strike", w(v)) /\ To(p, "fix_handoff_view", w(v)) /\ w(v).exe = my[p].exe
  BY <1>4
<1>8. CASE Step(p, "strike", w(v))
  BY <1>1, <1>7, <1>8, Reads DEF Held, Plain
<1>9. CASE /\ UNCHANGED prov
           /\ \/ PutHandoff(h) /\ Well /\ GoWith(p, "fix_handoff_view", w(v))
              \/ Faulty(p) /\ (PutHandoff(h) \/ Untouched) /\ GoWith(p, "strike", w(v))
  BY <1>1, <1>3, <1>7, <1>9, WritesHandoff DEF Held, h
<1>10. QED
  BY <1>6, <1>8, <1>9

LEMMA VerifiesViewFits ==
  ASSUME Typed, NEW p \in Proc, Held(p), NEW v \in Views, NEW good,
         \/ pc[p] = "fix_handoff_view" /\ good = "fix_task"
         \/ pc[p] = "fix_task_view" /\ good = "fix_audit",
         VerifiesView(p, v, good)
  PROVE  Ensures(p)
<1> DEFINE w == [my[p] EXCEPT !.view = "task"]
<1>1. Verified(v) \in RootType /\ Verified(v).owner = root.owner /\ Verified(v).bind = root.bind
  BY WatcherAssumption DEF Held, RootType, Verified
<1>2. /\ w \in WorkType /\ w.c = my[p].c /\ w.cmd = my[p].cmd /\ w.out = my[p].out
      /\ w.exe = my[p].exe /\ w.seen = my[p].seen /\ w.task = my[p].task
  BY DEF Held, WorkType, Views
<1>3. \/ Step(p, "strike", w)
      \/ /\ UNCHANGED prov
         /\ \/ PutRoot(Verified(v)) /\ Well /\ GoWith(p, good, w)
            \/ Faulty(p) /\ (PutRoot(Verified(v)) \/ Untouched) /\ GoWith(p, "strike", w)
  BY DEF VerifiesView, AttemptWith
<1> HIDE DEF w
<1>4. To(p, "strike", w) /\ To(p, good, w)
  BY <1>2 DEF Held, To, Fits, ExitFits, Exits, DataFits, RoleFits, PointsTo, CopiesTo, Starting, Running, Summons, Requeues, Writing, End, Launcher, Ran, Raw, HasPulse, Settled, Terminal, Proc
<1>5. CASE Step(p, "strike", w)
  BY <1>4, <1>5, Reads DEF Held, Plain
<1>6. CASE /\ UNCHANGED prov
           /\ \/ PutRoot(Verified(v)) /\ Well /\ GoWith(p, good, w)
              \/ Faulty(p) /\ (PutRoot(Verified(v)) \/ Untouched) /\ GoWith(p, "strike", w)
  BY <1>1, <1>2, <1>4, <1>6, WritesRoot, WritesView DEF Held, Plain
<1>7. QED
  BY <1>3, <1>5, <1>6

LEMMA FixHandoffViewStep ==
  ASSUME Typed, NEW p \in Proc, Fitting(p), FixHandoffView(p)
  PROVE  Ensures(p)
BY Hands, VerifiesViewFits DEF FixHandoffView, Views

LEMMA FixTaskViewStep ==
  ASSUME Typed, NEW p \in Proc, Fitting(p), FixTaskView(p)
  PROVE  Ensures(p)
BY Hands, VerifiesViewFits DEF FixTaskView, Views

LEMMA FixTaskStep ==
  ASSUME Typed, NEW p \in Proc, Fitting(p), FixTask(p)
  PROVE  Ensures(p)
<1>1. pc[p] = "fix_task" /\ Held(p)
  BY Hands DEF FixTask
<1>2. my[p].exe \in ExecutionType /\ Settled(my[p].exe.status) /\ my[p].task \in HeldTask
  BY <1>1 DEF Held, WorkType, Fits, DataFits
<1>3. VerdictOf(my[p].c, my[p].exe) \in Verdicts
  BY <1>1, <1>2, VerdictTyped DEF Held
<1>4. TerminalTask(my[p].task, my[p].c, my[p].exe) \in TaskType
      /\ TerminalTask(my[p].task, my[p].c, my[p].exe).stamp = VerdictOf(my[p].c, my[p].exe)
  BY <1>2, <1>3 DEF TerminalTask, TaskStatusOf, HeldTask, TaskType, TaskIn
<1>5. To(p, "strike", my[p]) /\ To(p, "fix_task_view", my[p])
  BY <1>1, <1>2, <1>3, <1>4 DEF Held, To, Fits, ExitFits, Exits, DataFits, RoleFits, PointsTo, CopiesTo,
         Starting, Running, Summons, Requeues, Writing, End,Launcher, Ran, Raw, HasPulse, Settled, Terminal,
         Proc
<1>6. QED
  BY <1>1, <1>2, <1>3, <1>4, <1>5, Reads, WritesTask DEF FixTask, Held, Plain, Jump, Unread, Mine,
         Attempt, AttemptWith

LEMMA FixAuditStep ==
  ASSUME Typed, NEW p \in Proc, Fitting(p), FixAudit(p)
  PROVE  Ensures(p)
<1> DEFINE m == [exe[my[p].c] EXCEPT !.evidence = Merge(exe[my[p].c].evidence, Repaired(my[p].exe.status))]
           w == [my[p] EXCEPT !.exe = m]
<1>1. pc[p] = "fix_audit" /\ Held(p)
  BY Hands DEF FixAudit
<1>2. Repaired(my[p].exe.status) \in Evidence
  BY <1>1, UpdatesFit DEF Held, WorkType, Fits, DataFits, Settled
<1>3. m \in ExecutionType /\ m.status = exe[my[p].c].status /\ m.prov = exe[my[p].c].prov
  BY <1>1, <1>2, MergedFits DEF Held
<1> HIDE DEF m
<1>4. /\ w \in WorkType /\ w.c = my[p].c /\ w.cmd = my[p].cmd /\ w.out = my[p].out
      /\ w.exe = m /\ w.seen = my[p].seen /\ w.task = my[p].task /\ w.verdict = my[p].verdict
      /\ w.next = my[p].next /\ w.onError = my[p].onError
  BY <1>1, <1>2, <1>3 DEF Held, WorkType
<1> HIDE DEF w
<1>5. To(p, "fix_audit_put", w)
  BY <1>1, <1>2, <1>3, <1>4 DEF Held, To, Fits, ExitFits, Exits, DataFits, RoleFits, PointsTo, CopiesTo,
         Starting, Running, Summons, Requeues, Writing, End,Launcher, Ran, Raw, HasPulse, Settled, Terminal,
         Proc
<1>6. To(p, End(p), my[p])
  BY <1>1, <1>2, <1>3, <1>4 DEF Held, To, Fits, ExitFits, Exits, DataFits, RoleFits, PointsTo, CopiesTo,
         Starting, Running, Summons, Requeues, Writing, End,Launcher, Ran, Raw, HasPulse, Settled, Terminal,
         Proc
<1>7. QED
  BY <1>1, <1>2, <1>3, <1>4, <1>5, <1>6, Reads DEF FixAudit, Held, Plain, Jump, Unread, Mine, MergesInto,
         Fits, ExitFits, End, m, w

LEMMA FixAuditPutStep ==
  ASSUME Typed, NEW p \in Proc, Fitting(p), FixAuditPut(p)
  PROVE  Ensures(p)
<1> DEFINE w == [my[p] EXCEPT !.seen = my[p].exe]
<1>1. pc[p] = "fix_audit_put" /\ Held(p)
  BY Hands DEF FixAuditPut
<1>2. my[p].exe \in ExecutionType
  BY <1>1 DEF Held, WorkType
<1>3. /\ w \in WorkType /\ w.c = my[p].c /\ w.cmd = my[p].cmd /\ w.out = my[p].out
      /\ w.exe = my[p].exe /\ w.seen = my[p].exe /\ w.task = my[p].task /\ w.verdict = my[p].verdict
      /\ w.next = my[p].next /\ w.onError = my[p].onError
  BY <1>1, <1>2 DEF Held, WorkType
<1> HIDE DEF w
<1>4. To(p, "recover", w)
  BY <1>1, <1>2, <1>3 DEF Held, To, Fits, ExitFits, Exits, DataFits, RoleFits, PointsTo, CopiesTo,
         Starting, Running, Summons, Requeues, Writing, End,Launcher, Ran, Raw, HasPulse, Settled, Terminal,
         Proc
<1>5. To(p, "recover", my[p])
  BY <1>1, <1>2, <1>3 DEF Held, To, Fits, ExitFits, Exits, DataFits, RoleFits, PointsTo, CopiesTo,
         Starting, Running, Summons, Requeues, Writing, End,Launcher, Ran, Raw, HasPulse, Settled, Terminal,
         Proc
<1>6. QED
  BY <1>1, <1>2, <1>3, <1>4, <1>5, Reads, WritesExe DEF FixAuditPut, Held, Plain, Jump, Unread, Mine,
         Attempt, AttemptWith, Running, Raw, w

LEMMA StrikeStep ==
  ASSUME Typed, NEW p \in Proc, Fitting(p), Strike(p)
  PROVE  Ensures(p)
<1> DEFINE r == [root EXCEPT !.strikes[my[p].view] = IF root.strikes[my[p].view] + 1 > Threshold THEN @ ELSE root.strikes[my[p].view] + 1]
<1>1. pc[p] = "strike" /\ Held(p)
  BY Hands DEF Strike
<1>2. my[p].view \in Views /\ root \in RootType
  BY <1>1 DEF Held, WorkType
<1>3. r \in RootType /\ r.owner = root.owner /\ r.bind = root.bind
  <2>1. root.strikes[my[p].view] \in 0 .. Threshold
    BY <1>2 DEF RootType
  <2>2. QED
    BY <1>2, <2>1, WatcherAssumption DEF RootType
<1> HIDE DEF r
<1>4. To(p, "recover", my[p]) /\ To(p, "strike_free", my[p])
  BY <1>1, <1>2, <1>3 DEF Held, To, Fits, ExitFits, Exits, DataFits, RoleFits, PointsTo, CopiesTo,
         Starting, Running, Summons, Requeues, Writing, End,Launcher, Ran, Raw, HasPulse, Settled, Terminal,
         Proc
<1>5. QED
  BY <1>1, <1>2, <1>3, <1>4, Reads, WritesRoot DEF Strike, Held, Plain, Jump, Unread, Mine, Attempt,
         AttemptWith, r

LEMMA StrikeFreeStep ==
  ASSUME Typed, NEW p \in Proc, Fitting(p), StrikeFree(p)
  PROVE  Ensures(p)
<1>1. pc[p] = "strike_free" /\ Held(p)
  BY Hands DEF StrikeFree
<1>2. To(p, "recover", my[p]) /\ To(p, "strike_note", my[p])
  BY <1>1 DEF Held, To, Fits, ExitFits, Exits, DataFits, RoleFits, PointsTo, CopiesTo, Starting, Running,
         Summons, Requeues, Writing, End,Launcher, Ran, Raw, HasPulse, Settled, Terminal, Proc
<1>3. QED
  BY <1>1, <1>2, ReleasedFits, Reads, WritesRoot DEF StrikeFree, Held, Plain, Jump, Unread, Mine,
         Attempt, AttemptWith

LEMMA StrikeNoteStep ==
  ASSUME Typed, NEW p \in Proc, Fitting(p), StrikeNote(p)
  PROVE  Ensures(p)
<1> DEFINE m == [exe[my[p].c] EXCEPT !.evidence = Merge(exe[my[p].c].evidence, ClaimReleased)]
           w == [my[p] EXCEPT !.exe = m]
<1>1. pc[p] = "strike_note" /\ Held(p)
  BY Hands DEF StrikeNote
<1>2. ClaimReleased \in Evidence
  BY UpdatesFit DEF Terminal, AllParts
<1>3. m \in ExecutionType /\ m.status = exe[my[p].c].status /\ m.prov = exe[my[p].c].prov
  BY <1>1, <1>2, MergedFits DEF Held
<1> HIDE DEF m
<1>4. /\ w \in WorkType /\ w.c = my[p].c /\ w.cmd = my[p].cmd /\ w.out = my[p].out
      /\ w.exe = m /\ w.seen = my[p].seen /\ w.task = my[p].task /\ w.verdict = my[p].verdict
      /\ w.next = my[p].next /\ w.onError = my[p].onError
  BY <1>1, <1>2, <1>3 DEF Held, WorkType
<1> HIDE DEF w
<1>5. To(p, "strike_note_put", w)
  BY <1>1, <1>2, <1>3, <1>4 DEF Held, To, Fits, ExitFits, Exits, DataFits, RoleFits, PointsTo, CopiesTo,
         Starting, Running, Summons, Requeues, Writing, End,Launcher, Ran, Raw, HasPulse, Settled, Terminal,
         Proc
<1>6. To(p, "recover", my[p])
  BY <1>1, <1>2, <1>3, <1>4 DEF Held, To, Fits, ExitFits, Exits, DataFits, RoleFits, PointsTo, CopiesTo,
         Starting, Running, Summons, Requeues, Writing, End,Launcher, Ran, Raw, HasPulse, Settled, Terminal,
         Proc
<1>7. QED
  BY <1>1, <1>2, <1>3, <1>4, <1>5, <1>6, Reads DEF StrikeNote, Held, Plain, Jump, Unread, Mine,
         MergesInto, Fits, ExitFits, End, m, w

LEMMA StrikeNotePutStep ==
  ASSUME Typed, NEW p \in Proc, Fitting(p), StrikeNotePut(p)
  PROVE  Ensures(p)
<1>1. pc[p] = "strike_note_put" /\ Held(p)
  BY Hands DEF StrikeNotePut
<1>2. my[p].exe \in ExecutionType
  BY <1>1 DEF Held, WorkType
<1>3. To(p, "recover", my[p])
  BY <1>1, <1>2 DEF Held, To, Fits, ExitFits, Exits, DataFits, RoleFits, PointsTo, CopiesTo, Starting,
         Running, Summons, Requeues, Writing, End,Launcher, Ran, Raw, HasPulse, Settled, Terminal, Proc
<1>4. QED
  BY <1>1, <1>2, <1>3, Reads, WritesExe DEF StrikeNotePut, Held, Plain, Jump, Unread, Mine, Attempt,
         AttemptWith, Running, Raw

LEMMA RecoverStep ==
  ASSUME Typed, NEW p \in Proc, Fitting(p), Recover(p)
  PROVE  Ensures(p)
<1>1. pc[p] = "recover" /\ Held(p)
  BY Hands DEF Recover
<1>2. To(p, "converge", my[p]) /\ To(p, "attention", my[p]) /\ To(p, "confirm", my[p])
  BY <1>1 DEF Held, To, Fits, ExitFits, Exits, DataFits, RoleFits, PointsTo, CopiesTo, Starting, Running,
         Summons, Requeues, Writing, End,Launcher, Ran, Raw, HasPulse, Settled, Terminal, Proc
<1>3. QED
  BY <1>1, <1>2, ReleasedFits, Reads, WritesRoot DEF Recover, Held, Plain, Jump, Unread, Mine, Attempt,
         AttemptWith, Attention

LEMMA ConvergeStep ==
  ASSUME Typed, NEW p \in Proc, Fitting(p), Converge(p)
  PROVE  Ensures(p)
<1> DEFINE m == [exe[my[p].c] EXCEPT !.evidence = Merge(exe[my[p].c].evidence, ClaimReleased)]
           w == [my[p] EXCEPT !.exe = m]
<1>1. pc[p] = "converge" /\ Held(p)
  BY Hands DEF Converge
<1>2. ClaimReleased \in Evidence
  BY UpdatesFit DEF Terminal, AllParts
<1>3. m \in ExecutionType /\ m.status = exe[my[p].c].status /\ m.prov = exe[my[p].c].prov
  BY <1>1, <1>2, MergedFits DEF Held
<1> HIDE DEF m
<1>4. /\ w \in WorkType /\ w.c = my[p].c /\ w.cmd = my[p].cmd /\ w.out = my[p].out
      /\ w.exe = m /\ w.seen = my[p].seen /\ w.task = my[p].task /\ w.verdict = my[p].verdict
      /\ w.next = my[p].next /\ w.onError = my[p].onError
  BY <1>1, <1>2, <1>3 DEF Held, WorkType
<1> HIDE DEF w
<1>5. To(p, "converge_put", w)
  BY <1>1, <1>2, <1>3, <1>4 DEF Held, To, Fits, ExitFits, Exits, DataFits, RoleFits, PointsTo, CopiesTo,
         Starting, Running, Summons, Requeues, Writing, End,Launcher, Ran, Raw, HasPulse, Settled, Terminal,
         Proc
<1>6. To(p, "attention", my[p])
  BY <1>1, <1>2, <1>3, <1>4 DEF Held, To, Fits, ExitFits, Exits, DataFits, RoleFits, PointsTo, CopiesTo,
         Starting, Running, Summons, Requeues, Writing, End,Launcher, Ran, Raw, HasPulse, Settled, Terminal,
         Proc
<1>7. QED
  BY <1>1, <1>2, <1>3, <1>4, <1>5, <1>6, Reads DEF Converge, Held, Plain, Jump, Unread, Mine, MergesInto,
         Fits, ExitFits, End, m, w

LEMMA ConvergePutStep ==
  ASSUME Typed, NEW p \in Proc, Fitting(p), ConvergePut(p)
  PROVE  Ensures(p)
<1>1. pc[p] = "converge_put" /\ Held(p)
  BY Hands DEF ConvergePut
<1>2. my[p].exe \in ExecutionType
  BY <1>1 DEF Held, WorkType
<1>3. To(p, "confirm", my[p]) /\ To(p, "attention", my[p])
  BY <1>1, <1>2 DEF Held, To, Fits, ExitFits, Exits, DataFits, RoleFits, PointsTo, CopiesTo, Starting,
         Running, Summons, Requeues, Writing, End,Launcher, Ran, Raw, HasPulse, Settled, Terminal, Proc
<1>4. QED
  BY <1>1, <1>2, <1>3, Reads, WritesExe DEF ConvergePut, Held, Plain, Jump, Unread, Mine, Attempt,
         AttemptWith, Running, Raw

-----------------------------------------------------------------------------
(* Every step of a process *)

LEMMA WorkSteps ==
  ASSUME Typed, NEW p \in Proc, Fitting(p), Works(p)
  PROVE  Ensures(p)
<1>1. CASE Records(p)
  BY <1>1, WriteReadStep, WritePutStep, BlockReadStep, BlockPutStep DEF Records
<1>2. CASE Launch(p)
  BY <1>2, WorkerBootStep, ReserveStep, ReservePutStep, GateEntryStep, AcquireLeaseStep, AcquireRootStep,
     GateTaskStep, GateTaskPutStep, GateExecPutStep, UndoExecStep, UndoTaskStep, UndoClaimStep, DropLeaseStep
     DEF Launch
<1>3. CASE Turn(p)
  BY <1>3, PrepareStep, RecordProviderStep, RecordProviderPutStep, LinkSessionStep, LinkSessionPutStep,
     LinkLeaseStep, HeartbeatStep, HeartbeatPutStep, TurnEndsStep, CloseStep DEF Turn
<1>4. QED
  BY <1>1, <1>2, <1>3 DEF Works

LEMMA WindUpSteps ==
  ASSUME Typed, NEW p \in Proc, Fitting(p), WindsUp(p)
  PROVE  Ensures(p)
<1>1. CASE Terminalize(p)
  BY <1>1, TerminalizeEntryStep, PersistStep, PersistPutStep, BindStep, WriteHandoffStep, WriteTaskStep,
     VerifyViewsStep, RetainStep, RetainPutStep DEF Terminalize
<1>2. CASE Cleanup(p)
  BY <1>2, AuditStep, AuditPutStep, FreeLeaseStep, FreeClaimStep, CleanStep, CleanPutStep DEF Cleanup
<1>3. CASE Report(p)
  BY <1>3, FinishStep, HandlerStep DEF Report
<1>4. QED
  BY <1>1, <1>2, <1>3 DEF WindsUp

LEMMA WatchSteps ==
  ASSUME Typed, NEW p \in Proc, Fitting(p), Watches(p), ~Tick(p), pc[p] = "spawn" => ~SpawnsWorker(p)
  PROVE  Ensures(p)
<1>1. CASE Watch(p)
  <2>1. CASE Spawn(p)
    <3>1. pc[p] = "spawn"
      BY <2>1 DEF Spawn
    <3>2. QED
      BY <2>1, <3>1, SpawnStep
  <2>2. CASE ~Spawn(p)
    BY <1>1, <2>2, PrepareRetryStep, PrepareRetryPutStep, RetryRefusedStep, TakeStep, SpawnFailedStep DEF Watch
  <2>3. QED
    BY <2>1, <2>2
<1>2. CASE Mark(p)
  BY <1>2, AttentionStartStep, MarkReadStep, MarkPutStep, MarkTaskStep, MarkTaskPutStep, MarkCommandStep DEF Mark
<1>3. CASE Reconciliation(p)
  BY <1>3, ReconcileStep, OrphanStep, OrphanFreeStep, CancelReadStep, CancelPutStep, UndoLeaseStep, JudgeStep,
     HealStep, HealPutStep, RecoverLeaseStep, ConfirmStep DEF Reconciliation
<1>4. QED
  BY <1>1, <1>2, <1>3 DEF Watches

LEMMA RecoverySteps ==
  ASSUME Typed, NEW p \in Proc, Fitting(p), Recovers(p)
  PROVE  Ensures(p)
<1>1. CASE Repair(p)
  BY <1>1, FixStep, FixHandoffStep, FixHandoffViewStep, FixTaskStep, FixTaskViewStep, FixAuditStep, FixAuditPutStep
     DEF Repair
<1>2. CASE GiveUp(p)
  BY <1>2, StrikeStep, StrikeFreeStep, StrikeNoteStep, StrikeNotePutStep, RecoverStep, ConvergeStep, ConvergePutStep
     DEF GiveUp
<1>3. QED
  BY <1>1, <1>2 DEF Recovers

LEMMA AllSteps ==
  ASSUME Typed, NEW p \in Proc, Fitting(p), Steps(p), ~Tick(p), pc[p] = "spawn" => ~SpawnsWorker(p)
  PROVE  Ensures(p)
BY WorkSteps, WindUpSteps, WatchSteps, RecoverySteps DEF Steps

(* A crash is a step to the end with everything forgotten. *)
LEMMA CrashSteps ==
  ASSUME Typed, NEW p \in Proc, Fitting(p),
         (CrashWatcher(p) /\ p \in Watcher) \/ (CrashWorker(p) /\ p \in Worker)
  PROVE  Ensures(p)
<1>1. pc[p] \notin RestPoints
  BY LifecycleAssumption DEF CrashWatcher, CrashWorker, Alive, Fitting, Fits, RoleFits
<1>2. my[p].c \in Command /\ my[p].c # NoCommand
  BY <1>1, LifecycleAssumption DEF Typed, Fitting, WorkType
<1>3. NoWork \in WorkType /\ NoWork.c = NoCommand /\ ~Ran(NoWork.exe) /\ ~Ran(NoWork.seen) /\ ~HasPulse(NoWork.seen)
      /\ NoWork.cmd.worker = NoProc /\ NoWork.out.worker = NoProc /\ NoWork.task.stamp = NoVerdict
  BY NewTyped DEF NoWork, NewExecution, NewCommand, Ran, HasPulse, Settled, Terminal
<1>4. \E l \in {"idle", "dead"} :
        /\ pc' = [pc EXCEPT ![p] = l] /\ my' = [my EXCEPT ![p] = NoWork]
        /\ p \in Watcher => l = "idle"
        /\ p \in Worker => l = "dead"
  <2>1. Kept("idle", NoWork) = NoWork
    BY <1>3, KeptKeeps DEF Keeps
  <2>2. QED
    BY <2>1, LifecycleAssumption DEF CrashWatcher, CrashWorker, GoWith
<1>5. PICK l \in {"idle", "dead"} :
        /\ pc' = [pc EXCEPT ![p] = l] /\ my' = [my EXCEPT ![p] = NoWork]
        /\ p \in Watcher => l = "idle"
        /\ p \in Worker => l = "dead"
  BY <1>4
<1>6. Crashes /\ Untouched /\ prov' = prov
  BY DEF CrashWatcher, CrashWorker
<1>7. pc'[p] = l /\ my'[p] = NoWork /\ \A q \in Proc \ {p} : pc'[q] = pc[q] /\ my'[q] = my[q]
  BY <1>5 DEF Typed
<1>8. Typed'
  <2>1. StoresTyped'
    BY <1>6, LifecycleAssumption DEF Typed, StoresTyped, Untouched, stores, Crashes
  <2>2. QED
    BY <1>3, <1>5, <2>1 DEF Typed
<1>9. Fitting(p)'
  <2>1. Fits(p, l, NoWork)
    BY <1>1, <1>3, <1>5, LifecycleAssumption DEF Fits, ExitFits, DataFits, RoleFits, Proc, Fitting
  <2>2. QED
    BY <1>3, <1>7, <2>1 DEF Fitting
<1>10. Moves(p)
  <2>1. PointsTo(p, l, NoWork) /\ CopiesTo(p, l, NoWork)
    BY <1>3, <1>5 DEF PointsTo, CopiesTo
  <2>2. MoveRecords(p)
    BY <1>5, <1>6, <1>7 DEF MoveRecords, Untouched, stores
  <2>3. MoveVerdicts(p)
    BY <1>5, <1>6, <1>7 DEF MoveVerdicts, Untouched, stores
  <2>4. QED
    BY <1>2, <1>3, <1>6, <1>7, <2>1, <2>2, <2>3 DEF Moves
<1>11. QED
  BY <1>8, <1>9, <1>10 DEF Ensures

-----------------------------------------------------------------------------
(* The invariant along a step of one process *)

(* What all processes have in common, one step before the others.          *)
Shared == OneWorker /\ SummonsFit /\ PastFits /\ PulseFits /\ OneStart /\ VerdictFits

LEMMA Fields ==
  ASSUME Typed, \A p \in Proc : Fitting(p)
  PROVE  /\ \A p \in Proc : /\ my[p] \in WorkType /\ pc[p] \in Points
                            /\ my[p].c \in Command \cup {NoCommand}
                            /\ my[p].cmd \in CommandType /\ my[p].out \in CommandType
                            /\ my[p].exe \in ExecutionType /\ my[p].seen \in ExecutionType
                            /\ my[p].cmd.worker \in Worker \cup {NoProc}
                            /\ my[p].out.worker \in Worker \cup {NoProc}
         /\ \A c \in Command : /\ exe[c] \in ExecutionType /\ cmd[c] \in CommandType
                               /\ cmd[c].worker \in Worker \cup {NoProc}
         /\ NoCommand \notin Command /\ First \in Command /\ NoProc \notin Proc
         /\ \A p \in Proc : pc[p] \notin RestPoints => my[p].c \in Command
         /\ \A p \in Proc : my[p].c \in Command => pc[p] \notin RestPoints
<1>1. \A p \in Proc : my[p] \in WorkType /\ pc[p] \in Points
  BY DEF Typed
<1>2. \A p \in Proc : /\ my[p].c \in Command \cup {NoCommand}
                      /\ my[p].cmd \in CommandType /\ my[p].out \in CommandType
                      /\ my[p].exe \in ExecutionType /\ my[p].seen \in ExecutionType
  BY <1>1 DEF WorkType
<1>3. \A r \in CommandType : r.worker \in Worker \cup {NoProc}
  BY DEF CommandType
<1>4. \A c \in Command : exe[c] \in ExecutionType /\ cmd[c] \in CommandType
  BY DEF Typed, StoresTyped
<1>5. NoCommand \notin Command /\ First \in Command /\ NoProc \notin Proc
  BY LifecycleAssumption
<1>6. \A p \in Proc : pc[p] \in RestPoints <=> my[p].c = NoCommand
  BY DEF Fitting
<1> HIDE DEF RestPoints
<1>7. QED
  BY <1>1, <1>2, <1>3, <1>4, <1>5, <1>6

(* Which processes may be where. *)
LEMMA Roles ==
  ASSUME Typed, \A p \in Proc : Fitting(p)
  PROVE  /\ \A p \in Proc : pc[p] \in EarlyPoints \cup UndoPoints \cup {"reserve"} \/ Starting(p) => p \in Launcher
         /\ \A p \in Proc : Summons(p) \/ Requeues(p) => p \in Watcher
         /\ \A k \in Worker : ~Async => pc[k] = "off"
         /\ \A k \in Worker : pc[k] \notin RestPoints \cup {"boot"} => my[k].c = First
         /\ \A k \in Worker : pc[k] \in RestPoints => my[k].c = NoCommand
         /\ \A p \in Proc : p \in Worker \/ p \in Watcher
         /\ \A k \in Worker : k \notin Watcher /\ k \in Proc
         /\ \A p \in Watcher : p \in Proc
         /\ Async \in BOOLEAN
<1>1. \A p \in Proc : pc[p] \in EarlyPoints \cup UndoPoints \cup {"reserve"} \/ Starting(p) => p \in Launcher
  <2>1. \A p \in Proc : pc[p] \in EarlyPoints \cup UndoPoints \cup {"reserve", "prepare"} => p \in Launcher
    BY DEF Fitting, Fits, RoleFits
  <2>2. \A p \in Proc : Writing(p, "prepare") => p \in Launcher
    BY DEF Writing, Fitting, Fits, ExitFits, Exits, End
  <2>3. QED
    BY <2>1, <2>2 DEF Starting
<1>2. \A p \in Proc : Summons(p) \/ Requeues(p) => p \in Watcher
  <2>1. \A p \in Proc : pc[p] \in SummonPoints => p \in Watcher
    BY DEF Fitting, Fits, RoleFits, Proc
  <2>2. \A p \in Proc : Writing(p, "spawn") \/ Requeues(p) => p \in Watcher
    BY DEF Writing, Requeues, Fitting, Fits, ExitFits, Exits, End
  <2>3. QED
    BY <2>1, <2>2 DEF Summons
<1>3. /\ \A k \in Worker : ~Async => pc[k] = "off"
      /\ \A k \in Worker : pc[k] \notin RestPoints \cup {"boot"} => my[k].c = First
  BY DEF Fitting, Fits, RoleFits, Proc
<1>4. /\ \A k \in Worker : pc[k] \in RestPoints => my[k].c = NoCommand
      /\ \A p \in Proc : p \in Worker \/ p \in Watcher
      /\ \A k \in Worker : k \notin Watcher /\ k \in Proc
      /\ \A p \in Watcher : p \in Proc
  BY LifecycleAssumption DEF Fitting, Proc
<1>5. QED
  BY <1>1, <1>2, <1>3, <1>4, WatcherAssumption

(* A step of p on its own Command, from a state of the invariant. *)
Alone(p) ==
  /\ p \in Proc /\ Typed /\ (\A q \in Proc : Fitting(q)) /\ Shared
  /\ Typed' /\ (\A q \in Proc : Fitting(q)') /\ Moves(p)

LEMMA OthersStay ==
  ASSUME NEW p, Alone(p), NEW q \in Proc, q # p
  PROVE  /\ pc'[q] = pc[q] /\ my'[q] = my[q] /\ prov'[q] = prov[q]
         /\ Running(q)' = Running(q) /\ Starting(q)' = Starting(q) /\ Summons(q)' = Summons(q)
         /\ Requeues(q)' = Requeues(q) /\ PutsRaw(q)' = PutsRaw(q) /\ Pulse(q)' = Pulse(q)
BY DEF Alone, Moves, Running, Starting, Summons, Requeues, PutsRaw, Pulse, Writing

(* Once past starting, an Execution stays so. *)
LEMMA PastStays ==
  ASSUME NEW p, Alone(p), NEW d \in Command, Past(d)
  PROVE  Past(d)'
<1>1. p \in Proc /\ my[p].c \in Command /\ my'[p].c \in {my[p].c, NoCommand}
  BY DEF Alone, Moves
<1>2. d # NoCommand
  BY LifecycleAssumption
<1>3. PointsTo(p, pc'[p], my'[p]) /\ CopiesTo(p, pc'[p], my'[p]) /\ MoveRecords(p)
  BY DEF Alone, Moves
<1>4. CASE d # my[p].c
  <2>1. exe'[d] = exe[d]
    BY <1>3, <1>4 DEF MoveRecords
  <2>2. \A q \in Proc : my'[q].c = d => q # p /\ my[q].c = d
    BY <1>1, <1>2, <1>4, OthersStay
  <2>3. QED
    BY <2>1, <2>2, OthersStay DEF Past, Raw
<1>5. CASE d = my[p].c
  <2>1. ~Raw(exe[d]) /\ pc[p] \notin EarlyPoints \cup UndoPoints /\ ~PutsRaw(p)
    BY <1>1, <1>5 DEF Past
  <2>2. pc[p] \in CopyPoints => ~Raw(my[p].exe)
    BY <1>1 DEF Alone, Shared, PastFits
  <2>3. ~Raw(exe'[d])
    BY <1>3, <1>5, <2>1, <2>2 DEF MoveRecords, PutsRaw
  <2>4. pc'[p] \notin EarlyPoints \cup UndoPoints
    BY <1>3, <1>5, <2>1 DEF PointsTo
  <2>5. ~PutsRaw(p)'
    BY <1>3, <1>5, <2>1 DEF CopiesTo, PutsRaw
  <2>6. \A q \in Proc : my'[q].c = d => pc'[q] \notin EarlyPoints \cup UndoPoints /\ ~PutsRaw(q)'
    <3> SUFFICES ASSUME NEW q \in Proc, my'[q].c = d
                 PROVE  pc'[q] \notin EarlyPoints \cup UndoPoints /\ ~PutsRaw(q)'
      OBVIOUS
    <3>1. CASE q = p
      BY <2>4, <2>5, <3>1
    <3>2. CASE q # p
      <4>1. my[q].c = d /\ pc'[q] = pc[q] /\ PutsRaw(q)' = PutsRaw(q)
        BY <3>2, OthersStay
      <4>2. QED
        BY <4>1 DEF Past
    <3>3. QED
      BY <3>1, <3>2
  <2>7. QED
    BY <2>3, <2>6 DEF Past, Raw
<1>6. QED
  BY <1>4, <1>5

(* A process between the reservation and the running gate has no second    *)
(* launcher beside it at the same Command, and none past the gate.         *)
LEMMA SoleLauncher ==
  ASSUME OneWatcher, NEW p, Alone(p), pc[p] \in EarlyPoints, NEW q \in Launcher,
         my[q].c = my[p].c \/ pc[q] \notin RestPoints \cup {"boot"}
  PROVE  q = p
<1>1. p \in Launcher /\ p \in Proc
  BY Roles DEF Alone
<1>2. CASE ~Async
  BY <1>1, <1>2 DEF OneWatcher, Launcher
<1>3. CASE Async
  <2>1. p \in Worker /\ q \in Worker
    BY <1>1, <1>3 DEF Launcher
  <2>2. my[p].c = First /\ (pc[q] \notin RestPoints \cup {"boot"} => my[q].c = First)
    BY <2>1, Roles DEF Alone
  <2>3. First \in Command
    BY LifecycleAssumption
  <2>4. QED
    BY <2>1, <2>2, <2>3 DEF Alone, Shared, OneWorker, Known
<1>4. QED
  BY <1>2, <1>3

(* The running gate is where an Execution goes past starting. *)
LEMMA PastEnters ==
  ASSUME OneWatcher, NEW p, Alone(p), pc[p] = "gate_exec_put", pc'[p] = "write",
         NEW c \in Command, c = my[p].c
  PROVE  Past(c)'
<1>1. p \in Proc /\ p \in Launcher /\ ~Raw(exe'[c])
  BY Roles DEF Alone, Moves, MoveRecords
<1>2. ASSUME NEW q \in Proc, my'[q].c = c, q # p
      PROVE  pc'[q] \notin EarlyPoints \cup UndoPoints /\ ~PutsRaw(q)'
  <2>1. my[q].c = my[p].c /\ pc'[q] = pc[q] /\ PutsRaw(q)' = PutsRaw(q)
    BY <1>2, OthersStay
  <2>2. q \notin Launcher
    BY <1>2, <2>1, SoleLauncher
  <2>3. pc[q] \notin EarlyPoints \cup UndoPoints
    BY <1>2, <2>2, Roles DEF Alone
  <2>4. ~PutsRaw(q)
    <3>1. pc[q] # "off" /\ (q \in Worker => Async)
      BY <1>1, <2>1, Fields, Roles, <1>2 DEF Alone
    <3>2. p \in Worker /\ q \in Watcher
      BY <1>1, <2>2, <3>1, <1>2, Roles DEF Alone, Launcher, OneWatcher
    <3>3. ~Pulse(q)
      BY <2>1, <3>2 DEF Alone, Shared, PulseFits
    <3>4. QED
      BY <3>3 DEF Pulse, PutsRaw
  <2>5. QED
    BY <2>1, <2>3, <2>4
<1>3. pc'[p] \notin EarlyPoints \cup UndoPoints /\ ~PutsRaw(p)'
  BY DEF PutsRaw
<1>4. QED
  BY <1>1, <1>2, <1>3 DEF Past, Raw

LEMMA OneWorkerStays ==
  ASSUME NEW p, Alone(p)
  PROVE  OneWorker'
<1>1. p \in Proc /\ my[p].c \in Command /\ my'[p].c \in {my[p].c, NoCommand} /\ NoCommand \notin Command
  BY LifecycleAssumption DEF Alone, Moves
<1>2. CopiesTo(p, pc'[p], my'[p]) /\ MoveRecords(p) /\ OneWorker
  BY DEF Alone, Moves, Shared
<1>3. \A c \in Command, k \in Worker : Known(c, k)' => Known(c, k)
  <2> SUFFICES ASSUME NEW c \in Command, NEW k \in Worker, my'[k].c = c
               PROVE  my[k].c = c
    BY DEF Known
  <2>1. k \in Proc
    BY DEF Proc
  <2>2. QED
    BY <1>1, <2>1, OthersStay
<1>4. \A c \in Command, k \in Worker : Known(c, k)' => cmd'[c].worker \in {NoProc, k}
  <2> SUFFICES ASSUME NEW c \in Command, NEW k \in Worker, Known(c, k)'
               PROVE  cmd'[c].worker \in {NoProc, k}
    OBVIOUS
  <2>1. cmd[c].worker \in {NoProc, k} /\ Known(c, k)
    BY <1>2, <1>3 DEF OneWorker
  <2>2. c = my[p].c => my[p].out.worker \in {NoProc, k}
    BY <1>1, <1>2, <2>1 DEF OneWorker
  <2>3. QED
    BY <1>2, <2>1, <2>2 DEF MoveRecords
<1>5. \A q \in Proc, c \in Command, k \in Worker : my'[q].c = c /\ Known(c, k)' =>
        {my'[q].cmd.worker, my'[q].out.worker} \subseteq {NoProc, k}
  <2> SUFFICES ASSUME NEW q \in Proc, NEW c \in Command, NEW k \in Worker, my'[q].c = c, Known(c, k)'
               PROVE  {my'[q].cmd.worker, my'[q].out.worker} \subseteq {NoProc, k}
    OBVIOUS
  <2>1. Known(c, k)
    BY <1>3
  <2>2. CASE q # p
    BY <1>2, <2>1, <2>2, OthersStay DEF OneWorker
  <2>3. CASE q = p
    <3>1. my[p].c = c
      BY <1>1, <2>3
    <3>2. {my[p].cmd.worker, my[p].out.worker} \subseteq {NoProc, k} /\ cmd[c].worker \in {NoProc, k}
      BY <1>1, <1>2, <2>1, <3>1 DEF OneWorker
    <3>3. QED
      BY <1>2, <2>3, <3>1, <3>2 DEF CopiesTo
  <2>4. QED
    BY <2>2, <2>3
<1>6. QED
  BY <1>2, <1>3, <1>4, <1>5 DEF OneWorker, Known

LEMMA SummonsStay ==
  ASSUME OneWatcher, NEW p, Alone(p)
  PROVE  SummonsFit'
<1>1. p \in Proc /\ my[p].c \in Command /\ my'[p].c \in {my[p].c, NoCommand} /\ NoCommand \notin Command
  BY LifecycleAssumption DEF Alone, Moves
<1>2. CopiesTo(p, pc'[p], my'[p]) /\ PointsTo(p, pc'[p], my'[p]) /\ MoveRecords(p) /\ SummonsFit /\ OneWorker
  BY DEF Alone, Moves, Shared
<1>3. \A c \in Command, q \in Proc : my'[q].c = c => my[q].c = c
  BY <1>1, OthersStay
<1>4. \A c \in Command : NoWorker(c) => NoWorker(c)'
  BY <1>3 DEF NoWorker, Proc
<1>5. pc[p] = "write_put" => my[p].out.status # "none"
  BY <1>1 DEF Alone, Fitting, Fits, ExitFits
<1>6. \A c \in Command : cmd'[c].status = "none" => \A q \in Proc : my'[q].c # c
  <2> SUFFICES ASSUME NEW c \in Command, cmd'[c].status = "none", NEW q \in Proc, my'[q].c = c
               PROVE  FALSE
    OBVIOUS
  <2>1. cmd[c].status = "none"
    BY <1>2, <1>5 DEF MoveRecords
  <2>2. QED
    BY <1>2, <1>3, <2>1 DEF SummonsFit
<1>7. \A c \in Command : cmd'[c].status = "queued" => NoWorker(c)' /\ cmd'[c].worker = NoProc
  <2> SUFFICES ASSUME NEW c \in Command, cmd'[c].status = "queued"
               PROVE  NoWorker(c) /\ cmd'[c].worker = NoProc
    BY <1>4
  <2>1. CASE cmd'[c] = cmd[c]
    BY <1>2, <2>1 DEF SummonsFit
  <2>2. CASE c = my[p].c /\ pc[p] = "write_put" /\ cmd'[c] = my[p].out
    <3>1. Requeues(p)
      BY <2>2 DEF Requeues
    <3>2. QED
      BY <1>1, <1>2, <2>2, <3>1 DEF SummonsFit
  <2>3. QED
    BY <1>2, <2>1, <2>2 DEF MoveRecords
<1>8. ASSUME NEW q \in Proc, Requeues(q)'
      PROVE  NoWorker(my[q].c)' /\ my'[q].out.worker = NoProc
  <2>1. my'[q].c \in Command
    BY <1>8, Fields DEF Alone, Requeues, Fitting, Typed, WorkType
  <2>2. my'[q].c = my[q].c
    BY <1>3, <2>1
  <2>3. CASE q # p
    BY <1>2, <1>4, <1>8, <2>1, <2>2, <2>3, OthersStay DEF SummonsFit
  <2>4. CASE q = p /\ Requeues(p)
    <3>1. my'[p].out = my[p].out \/ my'[p].out.worker = NoProc
      BY <1>2, <1>8, <2>4 DEF PointsTo, Requeues
    <3>2. QED
      BY <1>2, <1>4, <2>1, <2>2, <2>4, <3>1 DEF SummonsFit
  <2>5. CASE q = p /\ ~Requeues(p)
    <3>1. /\ my'[p].out.worker = NoProc
          /\ my[p].cmd.worker # NoProc /\ ~Alive(my[p].cmd.worker)
      BY <1>2, <1>8, <2>5 DEF PointsTo, Requeues
    <3>2. my[p].cmd.worker \in Worker
      BY <1>1, <3>1, Fields DEF Alone
    <3>3. my[my[p].cmd.worker].c = NoCommand
      BY <3>1, <3>2, Roles DEF Alone, Alive
    <3>4. \A k \in Worker : my[k].c = my[p].c => my[p].cmd.worker \in {NoProc, k}
      BY <1>1, <1>2 DEF OneWorker, Known
    <3>5. NoWorker(my[p].c)
      BY <1>1, <3>1, <3>3, <3>4 DEF NoWorker
    <3>6. QED
      BY <1>4, <2>1, <2>2, <2>5, <3>1, <3>5
  <2>6. QED
    BY <2>3, <2>4, <2>5
<1>9. ASSUME NEW q \in Proc, Summons(q)'
      PROVE  /\ NoWorker(my[q].c)' /\ cmd'[my'[q].c].worker = NoProc /\ my'[q].cmd.worker = NoProc
             /\ pc'[q] \in WritePoints => my'[q].out.worker = NoProc
             /\ pc'[q] = "spawn" => cmd'[my'[q].c].status # "queued"
  <2>1. my'[q].c \in Command
    BY <1>9 DEF Alone, Summons, Writing, Fitting, Typed, WorkType
  <2>2. my'[q].c = my[q].c
    BY <1>3, <2>1
  <2>3. CASE q # p
    <3>1. Summons(q) /\ pc'[q] = pc[q] /\ my'[q] = my[q]
      BY <1>9, <2>3, OthersStay
    <3>2. NoWorker(my[q].c) /\ q \in Watcher
      BY <1>2, <3>1, Roles DEF SummonsFit, Alone
    <3>3. my[q].c # my[p].c
      BY <1>1, <2>3, <3>2, Roles DEF Alone, OneWatcher, NoWorker
    <3>4. cmd'[my[q].c] = cmd[my[q].c]
      BY <1>2, <2>1, <2>2, <3>3 DEF MoveRecords
    <3>5. QED
      BY <1>2, <1>4, <2>1, <2>2, <3>1, <3>4 DEF SummonsFit
  <2>4. CASE q = p
    <3>1. Summons(p)
      BY <1>2, <1>9, <2>4 DEF PointsTo, Summons, Writing
    <3>2. /\ NoWorker(my[p].c) /\ cmd[my[p].c].worker = NoProc /\ my[p].cmd.worker = NoProc
          /\ pc[p] \in WritePoints => my[p].out.worker = NoProc
      BY <1>1, <1>2, <3>1 DEF SummonsFit
    <3>3. cmd'[my[p].c].worker = NoProc
      BY <1>2, <3>2 DEF MoveRecords
    <3>4. my'[p].cmd.worker = NoProc
      BY <1>2, <3>2 DEF CopiesTo
    <3>5. pc'[p] \in WritePoints => my'[p].out.worker = NoProc
      <4>1. pc[p] \notin BlockPoints
        BY <3>1 DEF Summons, Writing
      <4>2. QED
        BY <1>2, <3>2, <4>1 DEF PointsTo
    <3>6. pc'[p] = "spawn" => cmd'[my[p].c].status # "queued"
      BY <1>2 DEF MoveRecords
    <3>7. QED
      BY <1>4, <2>1, <2>2, <2>4, <3>2, <3>3, <3>4, <3>5, <3>6
  <2>5. QED
    BY <2>3, <2>4
<1>10. QED
  BY <1>6, <1>7, <1>8, <1>9 DEF SummonsFit

LEMMA PastFitsStay ==
  ASSUME OneWatcher, NEW p, Alone(p)
  PROVE  PastFits'
<1>1. p \in Proc /\ my[p].c \in Command /\ my'[p].c \in {my[p].c, NoCommand} /\ NoCommand \notin Command
  BY LifecycleAssumption DEF Alone, Moves
<1>2. CopiesTo(p, pc'[p], my'[p]) /\ PointsTo(p, pc'[p], my'[p]) /\ MoveRecords(p) /\ MoveVerdicts(p) /\ PastFits
  BY DEF Alone, Moves, Shared
<1>3. \A c \in Command : Past(c) => Past(c)'
  BY PastStays
<1>4. \A c \in Command : c = my[p].c /\ (Running(p) \/ Ran(my[p].exe) \/ Ran(my[p].seen) \/ Ran(exe[c])) =>
        Past(c) /\ Past(c)'
  BY <1>1, <1>2, <1>3 DEF PastFits
<1>5. \A c \in Command : c = my[p].c /\ pc[p] = "gate_exec_put" /\ pc'[p] = "write" => Past(c)'
  BY PastEnters
<1>6. ~Ran(NewExecution)
  BY DEF NewExecution, Ran, Settled, Terminal
<1>7. ASSUME NEW q \in Proc, Running(q)' \/ Ran(my'[q].exe) \/ Ran(my'[q].seen)
      PROVE  Past(my[q].c)'
  <2>1. my'[q].c \in Command
    <3>1. pc'[q] \in RestPoints => my'[q] = NoWork
      BY DEF Alone, Fitting
    <3>2. pc'[q] \notin RestPoints
      BY <1>6, <1>7, <3>1 DEF NoWork, Running, Writing
    <3>3. QED
      BY <3>2 DEF Alone, Fitting, Typed, WorkType
  <2>2. CASE q # p
    BY <1>2, <1>3, <1>7, <2>1, <2>2, OthersStay DEF PastFits
  <2>3. CASE q = p
    <3>1. my'[p].c = my[p].c
      BY <1>1, <2>1, <2>3
    <3>2. \/ Running(p) \/ Ran(my[p].exe) \/ Ran(my[p].seen) \/ Ran(exe[my[p].c])
          \/ pc[p] = "gate_exec_put" /\ pc'[p] = "write"
      BY <1>2, <1>7, <2>3 DEF PointsTo, CopiesTo, Running, Writing
    <3>3. QED
      BY <1>1, <1>4, <1>5, <2>3, <3>1, <3>2
  <2>4. QED
    BY <2>2, <2>3
<1>8. \A q \in Proc : pc'[q] \in CopyPoints => ~Raw(my'[q].exe)
  <2> SUFFICES ASSUME NEW q \in Proc, pc'[q] \in CopyPoints
               PROVE  ~Raw(my'[q].exe)
    OBVIOUS
  <2>1. CASE q # p
    BY <1>2, <2>1, OthersStay DEF PastFits
  <2>2. CASE q = p
    <3>1. Running(p) /\ (Raw(my'[p].exe) => Raw(exe[my[p].c]))
      BY <1>2, <2>2 DEF CopiesTo
    <3>2. QED
      BY <1>1, <1>4, <2>2, <3>1 DEF Past
  <2>3. QED
    BY <2>1, <2>2
<1>9. \A c \in Command : Ran(exe'[c]) => Past(c)'
  <2> SUFFICES ASSUME NEW c \in Command, Ran(exe'[c])
               PROVE  Past(c)'
    OBVIOUS
  <2>1. CASE c # my[p].c
    BY <1>2, <1>3, <2>1 DEF MoveRecords, PastFits
  <2>2. CASE c = my[p].c
    BY <1>2, <1>4, <2>2 DEF MoveRecords
  <2>3. QED
    BY <2>1, <2>2
<1>10. \A h \in handoff' : h.of \in Command /\ Past(h.of)'
  <2> SUFFICES ASSUME NEW h \in handoff'
               PROVE  h.of \in Command /\ Past(h.of)'
    OBVIOUS
  <2>1. CASE h \in handoff
    BY <1>2, <1>3, <2>1 DEF PastFits
  <2>2. CASE h \notin handoff
    <3>1. pc[p] \in PendingPoints /\ h = VerdictOf(my[p].c, my[p].exe)
      BY <1>2, <2>2 DEF MoveVerdicts
    <3>2. Running(p) /\ h.of = my[p].c
      BY <3>1 DEF Running, VerdictOf
    <3>3. QED
      BY <1>1, <1>4, <3>2
  <2>3. QED
    BY <2>1, <2>2
<1>11. root'.bind # NoVerdict => root'.bind.of = root'.owner /\ root'.owner \in Command /\ Past(root.owner)'
  <2> SUFFICES ASSUME root'.bind # NoVerdict
               PROVE  root'.bind.of = root'.owner /\ root'.owner \in Command /\ Past(root.owner)'
    OBVIOUS
  <2>1. CASE root'.owner = root.owner /\ root'.bind = root.bind
    BY <1>2, <1>3, <2>1 DEF PastFits
  <2>2. CASE Running(p) /\ root'.owner = my[p].c /\ root'.bind.of = my[p].c
    BY <1>1, <1>4, <2>2
  <2>3. NoRoot.bind = NoVerdict
    BY DEF NoRoot
  <2>4. QED
    BY <1>2, <2>1, <2>2, <2>3 DEF MoveVerdicts
<1>12. QED
  BY <1>7, <1>8, <1>9, <1>10, <1>11 DEF PastFits

LEMMA PulseStays ==
  ASSUME OneWatcher, NEW p, Alone(p)
  PROVE  PulseFits'
<1>1. p \in Proc /\ my[p].c \in Command /\ my'[p].c \in {my[p].c, NoCommand} /\ NoCommand \notin Command
  BY LifecycleAssumption DEF Alone, Moves
<1>2. /\ CopiesTo(p, pc'[p], my'[p]) /\ PointsTo(p, pc'[p], my'[p]) /\ MoveRecords(p)
      /\ PulseFits /\ PastFits /\ OneWorker
  BY DEF Alone, Moves, Shared
<1>3. \A e : HasPulse(e) => ~Raw(e)
  BY DEF HasPulse, Raw, Settled, Terminal
<1>4. Running(p) => Past(my[p].c)
  BY <1>1, <1>2 DEF PastFits
<1>5. \A q \in Proc : my'[q].c \in Command => my'[q].c = my[q].c
  BY <1>1, OthersStay
<1>6. \A q \in Proc : pc'[q] \in EarlyPoints \cup BootPoints => my'[q].c \in Command
  BY DEF Alone, Fitting, Typed, WorkType
<1>7. pc[p] \in {"gate_exec_put", "undo_exec", "reserve_put"} => p \in Launcher
  BY <1>1, Roles DEF Alone
<1>8. \A k \in Worker : /\ k \in Proc /\ k \notin Watcher
                        /\ pc[k] \in EarlyPoints \cup BootPoints => Launcher = Worker
                        /\ my[k].c = my[p].c /\ p # k => p \in Watcher /\ p \notin Worker
  <2> SUFFICES ASSUME NEW k \in Worker
               PROVE  /\ k \in Proc /\ k \notin Watcher
                      /\ pc[k] \in EarlyPoints \cup BootPoints => Launcher = Worker
                      /\ my[k].c = my[p].c /\ p # k => p \in Watcher /\ p \notin Worker
    OBVIOUS
  <2>1. k \in Proc /\ k \notin Watcher
    BY Roles DEF Alone
  <2>2. pc[k] \in EarlyPoints \cup BootPoints => Launcher = Worker
    BY Roles DEF Alone, Launcher
  <2>3. my[k].c = my[p].c /\ p # k => p \in Watcher /\ p \notin Worker
    BY <1>1, <1>2, Roles DEF Alone, OneWorker, Known
  <2>4. QED
    BY <2>1, <2>2, <2>3
<1>9. ASSUME NEW k \in Worker, pc'[k] \in EarlyPoints
      PROVE  ~HasPulse(exe'[my'[k].c])
  <2>1. my'[k].c = my[k].c /\ my[k].c \in Command
    BY <1>5, <1>6, <1>8, <1>9
  <2>2. CASE k # p /\ my[k].c # my[p].c
    <3>1. pc[k] \in EarlyPoints /\ exe'[my[k].c] = exe[my[k].c]
      BY <1>2, <1>8, <1>9, <2>1, <2>2, OthersStay DEF MoveRecords
    <3>2. QED
      BY <1>2, <2>1, <3>1 DEF PulseFits
  <2>3. CASE k # p /\ my[k].c = my[p].c
    <3>1. pc[k] \in EarlyPoints /\ p \in Watcher /\ p \notin Launcher
      BY <1>8, <1>9, <2>3, OthersStay
    <3>2. ~HasPulse(exe[my[p].c]) /\ ~Pulse(p)
      BY <1>2, <2>3, <3>1 DEF PulseFits
    <3>3. ~Running(p)
      BY <1>4, <1>8, <2>3, <3>1 DEF Past
    <3>4. pc[p] \notin {"gate_exec_put", "undo_exec", "mark_put"}
      BY <1>7, <3>1, <3>2 DEF Pulse
    <3>5. QED
      BY <1>2, <2>1, <2>3, <3>2, <3>3, <3>4 DEF MoveRecords
  <2>4. CASE k = p
    <3>1. pc[p] \in EarlyPoints \ {"gate_exec_put"} \/ (pc[p] = "reserve" /\ Raw(exe[my[p].c]))
      BY <1>2, <1>9, <2>4 DEF PointsTo
    <3>2. ~HasPulse(exe[my[p].c])
      BY <1>2, <1>3, <2>4, <3>1 DEF PulseFits
    <3>3. ~Running(p) /\ pc[p] \notin {"gate_exec_put", "undo_exec", "mark_put"}
      BY <3>1 DEF Running, Writing
    <3>4. QED
      BY <1>2, <2>1, <2>4, <3>2, <3>3 DEF MoveRecords
  <2>5. QED
    BY <2>2, <2>3, <2>4
<1>10. ASSUME NEW k \in Worker, NEW q \in Watcher, my'[q].c = my'[k].c, pc'[k] \in EarlyPoints \cup BootPoints
       PROVE  /\ pc'[k] \in EarlyPoints => ~Pulse(q)'
              /\ pc'[k] \in BootPoints /\ Pulse(q)' => ~Raw(exe'[my'[k].c]) /\ ~PutsRaw(q)'
  <2>1. q \in Proc /\ q # k /\ my'[k].c = my[k].c /\ my[q].c = my[k].c /\ my[k].c \in Command
    BY <1>5, <1>6, <1>8, <1>10, Roles DEF Alone
  <2>2. /\ pc[k] \in EarlyPoints => ~Pulse(q)
        /\ pc[k] \in BootPoints /\ Pulse(q) => ~Raw(exe[my[k].c]) /\ ~PutsRaw(q)
    BY <1>2, <2>1 DEF PulseFits
  <2>3. CASE p = k
    <3>1. pc'[q] = pc[q] /\ Pulse(q)' = Pulse(q) /\ PutsRaw(q)' = PutsRaw(q)
      BY <2>1, <2>3, OthersStay
    <3>2. pc'[p] \in EarlyPoints => ~Pulse(q)
      BY <1>2, <2>2, <2>3 DEF PointsTo
    <3>3. pc'[p] \in BootPoints => pc[p] \in BootPoints
      BY <1>2, <2>3 DEF PointsTo
    <3>4. pc'[p] \in BootPoints /\ Pulse(q) => ~Raw(exe'[my[p].c])
      BY <1>2, <2>2, <2>3, <3>3 DEF MoveRecords
    <3>5. QED
      BY <2>1, <2>2, <2>3, <3>1, <3>2, <3>3, <3>4
  <2>4. CASE p = q
    <3>1. pc[k] = pc'[k] /\ p \notin Launcher /\ p \in Watcher
      BY <1>8, <1>10, <2>1, <2>4, OthersStay
    <3>2. Pulse(p)' => Pulse(p) \/ HasPulse(exe[my[p].c]) \/ Running(p)
      <4>1. pc[p] = "mark" => HasPulse(my[p].seen)
        BY <1>1 DEF Alone, Fitting, Fits, DataFits
      <4>2. QED
        BY <1>2, <4>1 DEF CopiesTo, Pulse
    <3>3. ASSUME pc[k] \in EarlyPoints
          PROVE  ~Pulse(p)'
      <4>1. ~Pulse(p) /\ ~HasPulse(exe[my[p].c])
        BY <1>2, <2>1, <2>2, <2>4, <3>3 DEF PulseFits
      <4>2. ~Running(p)
        BY <1>4, <1>8, <2>1, <2>4, <3>3 DEF Past
      <4>3. QED
        BY <3>2, <4>1, <4>2
    <3>4. ASSUME pc[k] \in BootPoints, Pulse(p)'
          PROVE  ~Raw(exe'[my[p].c]) /\ ~PutsRaw(p)'
      <4>1. ~Raw(exe[my[p].c])
        BY <1>3, <1>4, <2>1, <2>2, <2>4, <3>2, <3>4 DEF Past
      <4>2. ~PutsRaw(p)
        BY <2>2, <2>4, <3>4 DEF Pulse, PutsRaw
      <4>3. pc[p] \notin {"reserve_put", "undo_exec"}
        BY <1>7, <3>1
      <4>4. pc[p] \in CopyPoints => ~Raw(my[p].exe)
        BY <1>1, <1>2 DEF PastFits
      <4>5. ~Raw(exe'[my[p].c])
        BY <1>2, <4>1, <4>2, <4>3, <4>4 DEF MoveRecords, PutsRaw
      <4>6. ~PutsRaw(p)'
        BY <1>2, <4>1 DEF CopiesTo, PutsRaw
      <4>7. QED
        BY <4>5, <4>6
    <3>5. QED
      BY <2>1, <2>4, <3>1, <3>3, <3>4
  <2>5. CASE p # k /\ p # q
    <3>1. pc'[k] = pc[k] /\ Pulse(q)' = Pulse(q) /\ PutsRaw(q)' = PutsRaw(q)
      BY <1>8, <2>1, <2>5, OthersStay
    <3>2. my[k].c # my[p].c
      BY <1>8, <2>5 DEF OneWatcher
    <3>3. exe'[my[k].c] = exe[my[k].c]
      BY <1>2, <2>1, <3>2 DEF MoveRecords
    <3>4. QED
      BY <2>1, <2>2, <3>1, <3>3
  <2>6. QED
    BY <2>3, <2>4, <2>5
<1>11. QED
  BY <1>9, <1>10 DEF PulseFits

LEMMA OneStartStays ==
  ASSUME OneWatcher, NEW p, Alone(p)
  PROVE  OneStart'
<1>1. p \in Proc /\ my[p].c \in Command /\ First \in Command
  BY LifecycleAssumption DEF Alone, Moves
<1>2. PointsTo(p, pc'[p], my'[p]) /\ MoveRecords(p) /\ OneStart /\ PastFits
  BY DEF Alone, Moves, Shared
<1>3. \A q \in Proc \ {p} : Live(q)' = Live(q) /\ Starting(q)' = Starting(q)
  BY OthersStay DEF Live
<1>4. Live(p)' => Live(p) \/ pc[p] = "prepare"
  BY <1>2 DEF MoveRecords, Live
<1>5. Starting(p)' => Starting(p) \/ (pc[p] = "gate_exec_put" /\ pc'[p] = "write")
  BY <1>2 DEF PointsTo, Starting, Writing
<1>6. ASSUME pc[p] = "gate_exec_put", NEW q \in Proc, q # p
      PROVE  ~Live(q) /\ ~Starting(q)
  <2>1. p \in Launcher
    BY <1>1, <1>6, Roles DEF Alone
  <2>2. ~Starting(q)
    <3>1. SUFFICES ASSUME Starting(q)
                   PROVE  FALSE
      OBVIOUS
    <3>2. q \in Launcher /\ pc[q] \notin RestPoints \cup {"boot"}
      BY <3>1, Roles DEF Alone, Starting, Writing
    <3>3. QED
      BY <1>6, <3>2, SoleLauncher
  <2>3. ~Live(q)
    <3>1. SUFFICES ASSUME Live(q)
                   PROVE  FALSE
      OBVIOUS
    <3>2. q \in Launcher /\ (Async => Past(First))
      BY <1>2, <3>1 DEF OneStart
    <3>3. CASE Async
      <4>1. my[p].c = First
        BY <1>6, <2>1, <3>3, Roles DEF Alone, Launcher
      <4>2. QED
        BY <1>1, <1>6, <3>2, <3>3, <4>1 DEF Past
    <3>4. CASE ~Async
      BY <1>6, <2>1, <3>2, <3>4 DEF Launcher, OneWatcher
    <3>5. QED
      BY <3>3, <3>4
  <2>4. QED
    BY <2>2, <2>3
<1>7. pc[p] = "prepare" => Starting(p)
  BY DEF Starting
<1>8. \A q, r \in Proc : (Live(q)' \/ Starting(q)') /\ (Live(r)' \/ Starting(r)') => q = r
  <2> SUFFICES ASSUME NEW q \in Proc, NEW r \in Proc, Live(q)' \/ Starting(q)', Live(r)' \/ Starting(r)'
               PROVE  q = r
    OBVIOUS
  <2>1. CASE pc[p] = "gate_exec_put" /\ pc'[p] = "write"
    BY <1>3, <1>6, <2>1
  <2>2. CASE ~(pc[p] = "gate_exec_put" /\ pc'[p] = "write")
    <3>1. (Live(q) \/ Starting(q)) /\ (Live(r) \/ Starting(r))
      BY <1>3, <1>4, <1>5, <1>7, <2>2
    <3>2. QED
      BY <1>2, <3>1 DEF OneStart
  <2>3. QED
    BY <2>1, <2>2
<1>9. \A q \in Proc : Live(q)' => q \in Launcher /\ (Async => Past(First)')
  <2> SUFFICES ASSUME NEW q \in Proc, Live(q)'
               PROVE  q \in Launcher /\ (Async => Past(First)')
    OBVIOUS
  <2>1. CASE Live(q)
    BY <1>1, <1>2, <2>1, PastStays DEF OneStart
  <2>2. CASE q = p /\ pc[p] = "prepare"
    <3>1. p \in Launcher
      BY <1>1, <1>7, <2>2, Roles DEF Alone
    <3>2. Async => my[p].c = First
      BY <2>2, <3>1, Roles DEF Alone, Launcher
    <3>3. Running(p)
      BY <2>2 DEF Running
    <3>4. Past(my[p].c)
      BY <1>1, <1>2, <3>3 DEF PastFits
    <3>5. QED
      BY <1>1, <2>2, <3>1, <3>2, <3>4, PastStays
  <2>3. QED
    BY <1>3, <1>4, <2>1, <2>2
<1>10. QED
  BY <1>8, <1>9 DEF OneStart

LEMMA VerdictStays ==
  ASSUME OneWatcher, NEW p, Alone(p)
  PROVE  VerdictFits'
<1> DEFINE c == my[p].c
           b == VerdictOf(c, my[p].exe)
           v == VerdictOf(c, my'[p].exe)
<1>1. p \in Proc /\ c \in Command /\ my'[p].c \in {c, NoCommand} /\ NoCommand \notin Command
  BY LifecycleAssumption DEF Alone, Moves
<1>2. CopiesTo(p, pc'[p], my'[p]) /\ MoveVerdicts(p) /\ VerdictFits /\ PastFits
  BY DEF Alone, Moves, Shared
<1>3. b.of = c /\ v.of = c /\ NoVerdict.of = NoCommand /\ NoRoot.owner = NoCommand
  BY DEF VerdictOf, NoVerdict, NoRoot
<1>4. \A q \in Proc : pc[q] \in PendingPoints \cup WrittenPoints => Running(q)
  BY DEF Running
<1>5. \A u \in Told : u.of \in Command /\ Past(u.of)
  <2> SUFFICES ASSUME NEW u \in Told
               PROVE  u.of \in Command /\ Past(u.of)
    OBVIOUS
  <2>1. CASE u \in handoff
    BY <1>2, <2>1 DEF PastFits
  <2>2. CASE \E q \in Proc : pc[q] \in PendingPoints /\ u = VerdictOf(Mine(q), my[q].exe)
    <3>1. PICK q \in Proc : pc[q] \in PendingPoints /\ u = VerdictOf(Mine(q), my[q].exe)
      BY <2>2
    <3>2. u.of = my[q].c
      BY <3>1 DEF VerdictOf, Mine
    <3>3. my[q].c \in Command
      BY <3>1, Fields DEF Alone
    <3>4. QED
      BY <1>2, <1>4, <3>1, <3>2, <3>3 DEF PastFits
  <2>3. QED
    BY <2>1, <2>2 DEF Told
<1>6. pc[p] \in PendingPoints => b \in Told
  BY <1>1 DEF Told, Mine
<1>7. pc'[p] \in PendingPoints \cup WrittenPoints => my'[p].c = c
  <2>1. pc'[p] \in PendingPoints \cup WrittenPoints => my'[p].c # NoCommand
    BY <1>1 DEF Alone, Fitting
  <2>2. QED
    BY <1>1, <2>1
<1>8. \A u \in Told' : u \in Told \/ (u = v /\ pc'[p] \in PendingPoints)
  <2> SUFFICES ASSUME NEW u \in Told'
               PROVE  u \in Told \/ (u = v /\ pc'[p] \in PendingPoints)
    OBVIOUS
  <2>1. CASE u \in handoff'
    <3>1. u \in handoff \/ (pc[p] \in PendingPoints /\ u = b)
      BY <1>2, <2>1 DEF MoveVerdicts
    <3>2. QED
      BY <1>6, <3>1 DEF Told
  <2>2. CASE \E q \in Proc : pc'[q] \in PendingPoints /\ u = VerdictOf(my'[q].c, my'[q].exe)
    <3>1. PICK q \in Proc : pc'[q] \in PendingPoints /\ u = VerdictOf(my'[q].c, my'[q].exe)
      BY <2>2
    <3>2. CASE q = p
      BY <1>7, <3>1, <3>2
    <3>3. CASE q # p
      <4>1. pc[q] \in PendingPoints /\ u = VerdictOf(my[q].c, my[q].exe)
        BY <3>1, <3>3, OthersStay
      <4>2. QED
        BY <4>1 DEF Told, Mine
    <3>4. QED
      BY <3>2, <3>3
  <2>3. QED
    BY <2>1, <2>2 DEF Told, Mine
<1>9. pc'[p] \in PendingPoints => root.owner = c /\ root'.bind = v /\ root.bind \in {NoVerdict, v} /\ root'.owner = c
  BY <1>2 DEF MoveVerdicts
<1>10. \A u \in Told : pc'[p] \in PendingPoints /\ u.of = c => u = v
  <2> SUFFICES ASSUME NEW u \in Told, pc'[p] \in PendingPoints, u.of = c
               PROVE  u = v
    OBVIOUS
  <2>1. root.bind = u
    BY <1>2, <1>9 DEF VerdictFits
  <2>2. u # NoVerdict
    BY <1>1, <1>3
  <2>3. QED
    BY <1>9, <2>1, <2>2
<1> HIDE DEF c, b, v
<1>11. \A u, w \in Told' : u.of = w.of => u = w
  <2> SUFFICES ASSUME NEW u \in Told', NEW w \in Told', u.of = w.of
               PROVE  u = w
    OBVIOUS
  <2>1. CASE u \in Told /\ w \in Told
    BY <1>2, <2>1 DEF VerdictFits
  <2>2. CASE u \notin Told
    BY <1>3, <1>8, <1>10, <2>2
  <2>3. CASE w \notin Told
    BY <1>3, <1>8, <1>10, <2>3
  <2>4. QED
    BY <2>1, <2>2, <2>3
<1>12. \A u \in Told' : root'.owner = u.of => root'.bind = u
  <2> SUFFICES ASSUME NEW u \in Told', root'.owner = u.of
               PROVE  root'.bind = u
    OBVIOUS
  <2>1. CASE u \notin Told
    BY <1>8, <1>9, <2>1
  <2>2. CASE u \in Told
    <3>1. u.of \in Command /\ Past(u.of) /\ u # NoVerdict /\ (root.owner = u.of => root.bind = u)
      BY <1>1, <1>2, <1>3, <1>5, <2>2 DEF VerdictFits
    <3>2. ~(pc[p] = "claim" /\ root'.owner = c)
      BY <1>1, <3>1 DEF Past, c
    <3>3. QED
      BY <1>1, <1>2, <1>3, <3>1, <3>2 DEF MoveVerdicts, c
  <2>3. QED
    BY <2>1, <2>2
<1>13. handoff \subseteq handoff' /\ (pc[p] \in WrittenPoints => b \in handoff)
  <2>1. pc[p] \in WrittenPoints => b \in handoff
    BY <1>1, <1>2 DEF VerdictFits, Mine, b, c
  <2>2. QED
    BY <1>2, <2>1 DEF MoveVerdicts
<1>14. \A q \in Proc : pc'[q] \in WrittenPoints => VerdictOf(my'[q].c, my'[q].exe) \in handoff'
  <2> SUFFICES ASSUME NEW q \in Proc, pc'[q] \in WrittenPoints
               PROVE  VerdictOf(my'[q].c, my'[q].exe) \in handoff'
    OBVIOUS
  <2>1. CASE q = p
    <3>1. VerdictOf(my'[q].c, my'[q].exe) = v
      BY <1>7, <2>1 DEF v
    <3>2. v \in handoff'
      BY <1>2, <1>13, <2>1 DEF MoveVerdicts, b, c, v
    <3>3. QED
      BY <3>1, <3>2
  <2>2. CASE q # p
    BY <1>2, <1>13, <2>2, OthersStay DEF VerdictFits, Mine
  <2>3. QED
    BY <2>1, <2>2
<1>15. \A q \in Proc : my'[q].task.stamp \in handoff' \cup {NoVerdict}
  <2> SUFFICES ASSUME NEW q \in Proc
               PROVE  my'[q].task.stamp \in handoff' \cup {NoVerdict}
    OBVIOUS
  <2>1. CASE q = p
    BY <1>1, <1>2, <1>13, <2>1 DEF VerdictFits, CopiesTo
  <2>2. CASE q # p
    BY <1>2, <1>13, <2>2, OthersStay DEF VerdictFits
  <2>3. QED
    BY <2>1, <2>2
<1>16. task'.stamp \in handoff' \cup {NoVerdict}
  BY <1>1, <1>2, <1>13 DEF VerdictFits, MoveVerdicts, b, c
<1>17. QED
  BY <1>11, <1>12, <1>14, <1>15, <1>16 DEF VerdictFits, Mine

LEMMA AloneKeeps ==
  ASSUME OneWatcher, NEW p, Alone(p)
  PROVE  WatcherInv'
BY OneWorkerStays, SummonsStay, PastFitsStay, PulseStays, OneStartStays, VerdictStays DEF WatcherInv, Alone

LEMMA ProcessStep ==
  ASSUME OneWatcher, WatcherInv, NEW p \in Proc, Ensures(p)
  PROVE  WatcherInv'
<1>1. ASSUME NEW q \in Proc
      PROVE  Fitting(q)'
  <2>1. CASE q = p
    BY <2>1 DEF Ensures
  <2>2. CASE q # p
    <3>1. pc'[q] = pc[q] /\ my'[q] = my[q] /\ Fitting(q)
      BY <2>2 DEF Ensures, Moves, WatcherInv
    <3>2. QED
      BY <3>1 DEF Fitting
  <2>3. QED
    BY <2>1, <2>2
<1>2. Alone(p)
  BY <1>1 DEF Alone, Shared, WatcherInv, Ensures
<1>3. QED
  BY <1>2, AloneKeeps

-----------------------------------------------------------------------------
(* The steps that are not of one process on its Command in hand *)

(* A step that leaves the records, the verdicts and the turns alone.       *)
Silent == UNCHANGED <<cmd, exe, task, handoff, root, lease, prov>>

LEMMA NothingHeld ==
  /\ NoWork \in WorkType /\ NoWork.c = NoCommand
  /\ ~Ran(NoWork.exe) /\ ~Ran(NoWork.seen) /\ ~HasPulse(NoWork.seen)
  /\ NoWork.cmd.worker = NoProc /\ NoWork.out.worker = NoProc
  /\ NoWork.task.stamp = NoVerdict
BY NewTyped DEF NoWork, NewExecution, NewCommand, Ran, HasPulse, Settled, Terminal

LEMMA TickMoves ==
  ASSUME WatcherInv, NEW p \in Proc, Tick(p)
  PROVE  \E c \in Command, l \in {"reconcile", "take", "retry"}, y \in WorkType :
           /\ pc' = [pc EXCEPT ![p] = l] /\ my' = [my EXCEPT ![p] = y] /\ Silent /\ faults' = faults
           /\ p \in Watcher /\ p \notin Worker /\ pc[p] = "idle"
           /\ y.c = c /\ cmd[c].status # "none"
           /\ l \in {"take", "retry"} => cmd[c].status = "queued"
           /\ l = "retry" => c # First
           /\ y.cmd = cmd[c] /\ y.out.worker = NoProc
           /\ ~Ran(y.exe) /\ ~Ran(y.seen) /\ ~HasPulse(y.seen) /\ y.task.stamp = NoVerdict
<1>1. pc[p] = "idle" /\ p \in Watcher /\ p \notin Worker
  BY DEF Tick, WatcherInv, Fitting, Fits, RoleFits, Proc
<1>2. PICK c \in Command :
        \E l \in {"reconcile", "take", "retry"} :
          /\ Step(p, l, [NoWork EXCEPT !.c = c, !.cmd = cmd[c]])
          /\ cmd[c].status # "none" /\ (l \in {"take", "retry"} => cmd[c].status = "queued")
          /\ l = "retry" => c # First
  BY Zenon DEF Tick, CommandOver
<1>3. PICK l \in {"reconcile", "take", "retry"} :
          /\ Step(p, l, [NoWork EXCEPT !.c = c, !.cmd = cmd[c]])
          /\ cmd[c].status # "none" /\ (l \in {"take", "retry"} => cmd[c].status = "queued")
          /\ l = "retry" => c # First
  BY <1>2
<1> DEFINE y == TakenUp(c, cmd[c])
<1>4. cmd[c] \in CommandType
  BY DEF WatcherInv, Typed, StoresTyped
<1>5. /\ y \in WorkType /\ y.c = c /\ y.cmd = cmd[c] /\ y.out = NoWork.out /\ y.exe = NoWork.exe
      /\ y.seen = NoWork.seen /\ y.task = NoWork.task
  BY <1>4, TakenUpFits
<1>6. Step(p, l, y)
  BY <1>3 DEF TakenUp
<1> HIDE DEF y
<1>7. Kept(l, y) = y
  BY <1>5, KeptKeeps DEF Keeps, WholeAt
<1>8. pc' = [pc EXCEPT ![p] = l] /\ my' = [my EXCEPT ![p] = y] /\ Silent /\ faults' = faults
  BY <1>6, <1>7 DEF Step, GoWith, Silent, Untouched, Well, stores
<1>9. QED
  BY <1>1, <1>3, <1>5, <1>8, NothingHeld

LEMMA TickStep ==
  ASSUME OneWatcher, WatcherInv, NEW p \in Proc, Tick(p)
  PROVE  WatcherInv'
<1>1. PICK c \in Command, l \in {"reconcile", "take", "retry"}, y \in WorkType :
           /\ pc' = [pc EXCEPT ![p] = l] /\ my' = [my EXCEPT ![p] = y] /\ Silent /\ faults' = faults
           /\ p \in Watcher /\ p \notin Worker /\ pc[p] = "idle"
           /\ y.c = c /\ cmd[c].status # "none"
           /\ l \in {"take", "retry"} => cmd[c].status = "queued"
           /\ l = "retry" => c # First
           /\ y.cmd = cmd[c] /\ y.out.worker = NoProc
           /\ ~Ran(y.exe) /\ ~Ran(y.seen) /\ ~HasPulse(y.seen) /\ y.task.stamp = NoVerdict
  BY TickMoves
<1>2. /\ pc'[p] = l /\ my'[p] = y /\ my[p] = NoWork
      /\ \A q \in Proc \ {p} : pc'[q] = pc[q] /\ my'[q] = my[q]
  BY <1>1 DEF WatcherInv, Typed, Fitting
<1>3. Typed /\ (\A q \in Proc : Fitting(q)) /\ NoCommand \notin Command
      /\ OneWorker /\ SummonsFit /\ PastFits /\ PulseFits /\ OneStart /\ VerdictFits
  BY LifecycleAssumption DEF WatcherInv
<1>4. cmd' = cmd /\ exe' = exe /\ task' = task /\ handoff' = handoff /\ root' = root /\ lease' = lease /\ prov' = prov
  BY <1>1 DEF Silent
<1>5. Typed'
  BY <1>1, <1>3, <1>4 DEF Typed, StoresTyped
<1>6. Fitting(p)'
  <2>1. Fits(p, l, y)
    BY <1>1 DEF Fits, ExitFits, DataFits, RoleFits
  <2>2. QED
    BY <1>1, <1>2, <1>3, <2>1 DEF Fitting
<1>7. ASSUME NEW q \in Proc
      PROVE  Fitting(q)'
  <2>1. CASE q = p
    BY <1>6, <2>1
  <2>2. CASE q # p
    <3>1. pc'[q] = pc[q] /\ my'[q] = my[q] /\ Fitting(q)
      BY <1>2, <1>3, <2>2
    <3>2. QED
      BY <3>1 DEF Fitting
  <2>3. QED
    BY <2>1, <2>2
<1>8. /\ ~Running(p)' /\ ~Starting(p)' /\ ~Requeues(p)' /\ ~PutsRaw(p)' /\ ~Pulse(p)'
      /\ pc'[p] \notin EarlyPoints \cup BootPoints \cup UndoPoints \cup {"spawn"} \cup WritePoints \cup CopyPoints
      /\ pc'[p] \notin PendingPoints \cup WrittenPoints
  BY <1>1, <1>2 DEF Running, Starting, Requeues, PutsRaw, Pulse, Writing
<1>9. \A q \in Proc \ {p} :
        /\ Running(q)' = Running(q) /\ Starting(q)' = Starting(q) /\ Requeues(q)' = Requeues(q)
        /\ PutsRaw(q)' = PutsRaw(q) /\ Pulse(q)' = Pulse(q) /\ Summons(q)' = Summons(q)
  BY <1>2 DEF Running, Starting, Requeues, PutsRaw, Pulse, Summons, Writing
<1>10. \A d \in Command : Past(d) => Past(d)'
  BY <1>2, <1>4, <1>8, <1>9 DEF Past
<1>11. \A k \in Worker : k \in Proc /\ k # p /\ my'[k] = my[k] /\ pc'[k] = pc[k]
  BY <1>1, <1>2 DEF Proc
<1>12. OneWorker'
  <2>1. \A d \in Command, k \in Worker : Known(d, k)' = Known(d, k)
    BY <1>11 DEF Known
  <2>2. \A q \in Proc, d \in Command, k \in Worker : my'[q].c = d /\ Known(d, k) =>
          {my'[q].cmd.worker, my'[q].out.worker} \subseteq {NoProc, k}
    BY <1>1, <1>2, <1>3 DEF OneWorker
  <2>3. QED
    BY <1>3, <1>4, <2>1, <2>2 DEF OneWorker
<1>13. SummonsFit'
  <2>1. \A d \in Command : NoWorker(d)' = NoWorker(d)
    BY <1>11 DEF NoWorker
  <2>2. \A d \in Command : cmd[d].status = "none" => \A q \in Proc : my'[q].c # d
    BY <1>1, <1>2, <1>3 DEF SummonsFit
  <2>3. ASSUME NEW q \in Proc, Requeues(q)'
        PROVE  NoWorker(my[q].c)' /\ my'[q].out.worker = NoProc
    BY <1>2, <1>3, <1>8, <1>9, <1>11, <2>3 DEF SummonsFit, NoWorker
  <2>4. ASSUME NEW q \in Proc, Summons(q)'
        PROVE  /\ NoWorker(my[q].c)' /\ cmd'[my'[q].c].worker = NoProc /\ my'[q].cmd.worker = NoProc
               /\ pc'[q] \in WritePoints => my'[q].out.worker = NoProc
               /\ pc'[q] = "spawn" => cmd'[my'[q].c].status # "queued"
    <3>1. CASE q # p
      BY <1>2, <1>3, <1>4, <1>9, <1>11, <2>4, <3>1 DEF SummonsFit, NoWorker
    <3>2. CASE q = p
      <4>1. cmd[c].status = "queued"
        BY <1>1, <1>2, <1>8, <2>4, <3>2 DEF Summons, Writing
      <4>2. NoWorker(c) /\ cmd[c].worker = NoProc
        BY <1>3, <4>1 DEF SummonsFit
      <4>3. QED
        BY <1>1, <1>2, <1>4, <1>8, <1>11, <3>2, <4>2 DEF NoWorker
    <3>3. QED
      BY <3>1, <3>2
  <2>5. \A d \in Command : cmd[d].status = "queued" => NoWorker(d)' /\ cmd'[d].worker = NoProc
    BY <1>3, <1>4, <2>1 DEF SummonsFit
  <2>6. QED
    BY <1>4, <2>2, <2>3, <2>4, <2>5 DEF SummonsFit
<1>14. PastFits'
  <2>1. ASSUME NEW q \in Proc, Running(q)' \/ Ran(my'[q].exe) \/ Ran(my'[q].seen)
        PROVE  Past(my[q].c)'
    <3>1. q # p
      BY <1>1, <1>2, <1>8, <2>1
    <3>2. Past(my[q].c) /\ my'[q] = my[q]
      BY <1>2, <1>3, <1>9, <2>1, <3>1 DEF PastFits
    <3>3. my[q].c \in Command
      <4>1. my[q] # NoWork
        BY <1>3, <2>1, <3>1, <1>9, <3>2, NothingHeld DEF Fitting, Running, Writing
      <4>2. QED
        BY <1>3, <4>1, Fields DEF Fitting
    <3>4. QED
      BY <1>10, <3>2, <3>3
  <2>2. \A q \in Proc : pc'[q] \in CopyPoints => ~Raw(my'[q].exe)
    BY <1>2, <1>3, <1>8 DEF PastFits
  <2>3. QED
    BY <1>3, <1>4, <1>10, <2>1, <2>2 DEF PastFits
<1>15. PulseFits'
  <2>1. \A k \in Worker : pc'[k] \in EarlyPoints => ~HasPulse(exe'[my'[k].c])
    BY <1>3, <1>4, <1>11 DEF PulseFits
  <2>2. ASSUME NEW k \in Worker, NEW q \in Watcher, my'[q].c = my'[k].c
        PROVE  /\ pc'[k] \in EarlyPoints => ~Pulse(q)'
               /\ pc'[k] \in BootPoints /\ Pulse(q)' => ~Raw(exe'[my'[k].c]) /\ ~PutsRaw(q)'
    <3>1. q = p
      BY <1>1 DEF OneWatcher
    <3>2. QED
      BY <1>8, <3>1
  <2>3. QED
    BY <2>1, <2>2 DEF PulseFits
<1>16. OneStart'
  BY <1>3, <1>4, <1>8, <1>9, <1>10, LifecycleAssumption DEF OneStart, Live
<1>17. VerdictFits'
  <2>1. Told' = Told
    <3>1. \A q \in Proc : pc'[q] \in PendingPoints <=> pc[q] \in PendingPoints
      BY <1>1, <1>2, <1>8
    <3>2. \A q \in Proc : pc[q] \in PendingPoints => my'[q] = my[q]
      BY <1>1, <1>2
    <3>3. QED
      BY <1>4, <3>1, <3>2 DEF Told, Mine
  <2>2. \A q \in Proc : pc'[q] \in WrittenPoints => VerdictOf(my'[q].c, my'[q].exe) \in handoff'
    BY <1>2, <1>3, <1>4, <1>8 DEF VerdictFits, Mine
  <2>3. \A q \in Proc : my'[q].task.stamp \in handoff' \cup {NoVerdict}
    BY <1>1, <1>2, <1>3, <1>4 DEF VerdictFits
  <2>4. QED
    BY <1>3, <1>4, <2>1, <2>2, <2>3 DEF VerdictFits, Mine
<1>18. QED
  BY <1>5, <1>7, <1>12, <1>13, <1>14, <1>15, <1>16, <1>17 DEF WatcherInv

LEMMA SpawnsStep ==
  ASSUME OneWatcher, WatcherInv, NEW p \in Proc, pc[p] = "spawn", SpawnsWorker(p)
  PROVE  WatcherInv'
<1>1. Typed /\ (\A q \in Proc : Fitting(q)) /\ NoCommand \notin Command
      /\ OneWorker /\ SummonsFit /\ PastFits /\ PulseFits /\ OneStart /\ VerdictFits
  BY LifecycleAssumption DEF WatcherInv
<1>2. PICK k \in Worker : k = NextSlot /\ pc[k] = "off"
  BY DEF SpawnsWorker, SlotFree, NextSlot
<1> DEFINE c == my[p].c
           r == [my[p].cmd EXCEPT !.worker = k]
           y == Published(my[p], r, "idle", "spawn_failed")
           z == [NoWork EXCEPT !.c = c]
<1>3. /\ k \in Proc /\ p \in Watcher /\ p \notin Worker /\ k # p /\ k \notin Watcher
      /\ Launcher = Worker /\ Async /\ my[p].cmd.status = "claimed" /\ ~HasPulse(my[p].seen)
  <2>1. k \in Proc /\ k \notin Watcher
    BY <1>2, LifecycleAssumption DEF Proc
  <2>2. /\ p \in Watcher /\ p \notin Worker /\ Async /\ my[p].cmd.status = "claimed" /\ ~HasPulse(my[p].seen)
    BY <1>1 DEF Fitting, Fits, RoleFits, DataFits, Proc
  <2>3. QED
    BY <1>2, <2>1, <2>2 DEF Launcher
<1>4. c \in Command /\ c # NoCommand /\ my[p] \in WorkType /\ my[p].cmd \in CommandType /\ my[k] = NoWork
  BY <1>1, <1>2, <1>3, Fields DEF Fitting
<1>5. r \in CommandType /\ r.status = "claimed" /\ r.worker = k
  BY <1>2, <1>3, <1>4 DEF CommandType
<1>6. /\ y \in WorkType /\ y.c = c /\ y.cmd = my[p].cmd /\ y.out = r /\ y.exe = my[p].exe /\ y.seen = my[p].seen
      /\ y.task = my[p].task /\ y.next = "idle" /\ y.onError = "spawn_failed"
  BY <1>4, <1>5, SpawnedFits
<1>7. /\ z \in WorkType /\ z.c = c /\ z.cmd.worker = NoProc /\ z.out.worker = NoProc
      /\ ~Ran(z.exe) /\ ~Ran(z.seen) /\ ~HasPulse(z.seen) /\ z.task.stamp = NoVerdict
  BY <1>4, NothingHeld DEF WorkType
<1>8. /\ pc' = [pc EXCEPT ![p] = "write", ![k] = "boot"] /\ my' = [my EXCEPT ![p] = y, ![k] = z]
      /\ Silent /\ faults' = faults
  BY <1>1, <1>2 DEF SpawnsWorker, Silent, Untouched, Well, stores, Published
<1> HIDE DEF c, r, y, z
<1>9. /\ pc'[p] = "write" /\ my'[p] = y /\ pc'[k] = "boot" /\ my'[k] = z
      /\ \A q \in Proc \ {p, k} : pc'[q] = pc[q] /\ my'[q] = my[q]
  BY <1>1, <1>3, <1>8 DEF Typed
<1>10. cmd' = cmd /\ exe' = exe /\ task' = task /\ handoff' = handoff /\ root' = root /\ lease' = lease /\ prov' = prov
  BY <1>8 DEF Silent
<1>11. Typed'
  <2>1. StoresTyped'
    BY <1>1, <1>8, <1>10 DEF Typed, StoresTyped
  <2>2. pc' \in [Proc -> Points] /\ my' \in [Proc -> WorkType]
    BY <1>1, <1>6, <1>7, <1>8 DEF Typed
  <2>3. QED
    BY <2>1, <2>2 DEF Typed
<1>12. Fitting(p)' /\ Fitting(k)'
  <2>1. Fits(p, "write", y)
    BY <1>3, <1>5, <1>6 DEF Fits, ExitFits, Exits, DataFits, RoleFits
  <2>2. Fits(k, "boot", z)
    BY <1>2, <1>3 DEF Fits, ExitFits, DataFits, RoleFits
  <2>3. Fitting(p)'
    BY <1>3, <1>4, <1>6, <1>9, <2>1 DEF Fitting
  <2>4. Fitting(k)'
    BY <1>4, <1>7, <1>9, <2>2 DEF Fitting
  <2>5. QED
    BY <2>3, <2>4
<1>13. ASSUME NEW q \in Proc
       PROVE  Fitting(q)'
  <2>1. CASE q = p \/ q = k
    <3>1. CASE q = p
      BY <1>12, <3>1
    <3>2. CASE q = k
      BY <1>12, <3>2
    <3>3. QED
      BY <2>1, <3>1, <3>2
  <2>2. CASE ~(q = p \/ q = k)
    <3>1. pc'[q] = pc[q] /\ my'[q] = my[q] /\ Fitting(q)
      BY <1>1, <1>9, <2>2
    <3>2. QED
      BY <3>1 DEF Fitting
  <2>3. QED
    BY <2>1, <2>2
<1>14. /\ NoWorker(c) /\ cmd[c].worker = NoProc /\ my[p].cmd.worker = NoProc
       /\ cmd[c].status \notin {"none", "queued"}
  <2>1. Summons(p)
    BY DEF Summons
  <2>2. NoWorker(c) /\ cmd[c].worker = NoProc /\ my[p].cmd.worker = NoProc /\ cmd[c].status # "queued"
    BY <1>1, <2>1 DEF SummonsFit, c
  <2>3. cmd[c].status # "none"
    BY <1>1, <1>4 DEF SummonsFit, c
  <2>4. QED
    BY <2>2, <2>3
<1>15. \A q \in {p, k} :
         /\ ~Running(q)' /\ ~Starting(q)' /\ ~Requeues(q)' /\ ~PutsRaw(q)' /\ ~Pulse(q)' /\ ~Summons(q)'
         /\ pc'[q] \notin EarlyPoints \cup UndoPoints \cup {"spawn"} \cup CopyPoints
         /\ pc'[q] \notin PendingPoints \cup WrittenPoints
  BY <1>3, <1>5, <1>6, <1>7, <1>9 DEF Running, Starting, Requeues, PutsRaw, Pulse, Summons, Writing
<1>16. \A q \in Proc \ {p, k} :
        /\ Running(q)' = Running(q) /\ Starting(q)' = Starting(q) /\ Requeues(q)' = Requeues(q)
        /\ PutsRaw(q)' = PutsRaw(q) /\ Pulse(q)' = Pulse(q) /\ Summons(q)' = Summons(q)
  BY <1>9 DEF Running, Starting, Requeues, PutsRaw, Pulse, Summons, Writing
<1>17. \A d \in Command : Past(d) => Past(d)'
  BY <1>9, <1>10, <1>15, <1>16 DEF Past
<1>18. \A j \in Worker : j # k => j \in Proc /\ j # p /\ my'[j] = my[j] /\ pc'[j] = pc[j]
  BY <1>3, <1>9 DEF Proc
<1>19. \A j \in Worker : my'[j].c = IF j = k THEN c ELSE my[j].c
  BY <1>7, <1>9, <1>18
<1>20. \A q \in Proc : q \notin Worker => q = p
  BY <1>3 DEF Proc, OneWatcher
<1>21. OneWorker'
  <2>1. \A d \in Command, i, j \in Worker : Known(d, i)' /\ Known(d, j)' => i = j
    BY <1>1, <1>14, <1>19 DEF OneWorker, Known, NoWorker
  <2>2. \A d \in Command, j \in Worker : Known(d, j)' => cmd'[d].worker \in {NoProc, j}
    BY <1>1, <1>10, <1>14, <1>19 DEF OneWorker, Known
  <2>3. ASSUME NEW q \in Proc, NEW d \in Command, NEW j \in Worker, my'[q].c = d, Known(d, j)'
        PROVE  {my'[q].cmd.worker, my'[q].out.worker} \subseteq {NoProc, j}
    <3>1. CASE q = p
      <4>1. d = c
        BY <1>6, <1>9, <2>3, <3>1
      <4>2. j = k
        BY <1>14, <1>19, <2>3, <4>1 DEF Known, NoWorker
      <4>3. QED
        BY <1>5, <1>6, <1>9, <1>14, <3>1, <4>2
    <3>2. CASE q = k
      BY <1>7, <1>9, <3>2
    <3>3. CASE q \notin {p, k}
      <4>1. q \in Worker /\ my'[q] = my[q]
        BY <1>9, <1>20, <3>3
      <4>2. my[j].c = d
        BY <1>14, <1>19, <2>3, <4>1 DEF Known, NoWorker
      <4>3. QED
        BY <1>1, <2>3, <4>1, <4>2 DEF OneWorker, Known
    <3>4. QED
      BY <3>1, <3>2, <3>3
  <2>4. QED
    BY <2>1, <2>2, <2>3 DEF OneWorker
<1>22. SummonsFit'
  <2>1. \A d \in Command : cmd[d].status = "none" => \A q \in Proc : my'[q].c # d
    BY <1>1, <1>6, <1>7, <1>9, <1>14 DEF SummonsFit
  <2>2. \A d \in Command : d # c /\ NoWorker(d) => NoWorker(d)'
    BY <1>19 DEF NoWorker
  <2>3. \A q \in Proc : ~Requeues(q)' /\ ~Summons(q)'
    <3>1. \A q \in Worker : ~Requeues(q) /\ ~Summons(q)
      BY <1>1, Roles
    <3>2. QED
      BY <1>15, <1>16, <1>20, <3>1
  <2>4. QED
    BY <1>1, <1>10, <1>14, <2>1, <2>2, <2>3 DEF SummonsFit
<1>23. PastFits'
  <2>1. ASSUME NEW q \in Proc, Running(q)' \/ Ran(my'[q].exe) \/ Ran(my'[q].seen)
        PROVE  Past(my[q].c)'
    <3>1. q # k
      BY <1>7, <1>9, <1>15, <2>1
    <3>2. Past(my[q].c) /\ my'[q].c = my[q].c /\ my[q].c \in Command
      <4>1. CASE q = p
        BY <1>1, <1>4, <1>6, <1>9, <1>15, <2>1, <4>1 DEF PastFits, c
      <4>2. CASE q # p
        <5>1. my'[q] = my[q] /\ (Running(q) \/ Ran(my[q].exe) \/ Ran(my[q].seen))
          BY <1>9, <1>16, <2>1, <3>1, <4>2
        <5>2. my[q] # NoWork
          BY <1>1, <5>1, NothingHeld DEF Fitting, Running, Writing
        <5>3. QED
          BY <1>1, <5>1, <5>2, Fields DEF Fitting, PastFits
      <4>3. QED
        BY <4>1, <4>2
    <3>3. QED
      BY <1>17, <3>2
  <2>2. \A q \in Proc : pc'[q] \in CopyPoints => ~Raw(my'[q].exe)
    BY <1>1, <1>9, <1>15 DEF PastFits
  <2>3. QED
    BY <1>1, <1>10, <1>17, <2>1, <2>2 DEF PastFits
<1>24. PulseFits'
  <2>1. \A j \in Worker : pc'[j] \in EarlyPoints => ~HasPulse(exe'[my'[j].c])
    BY <1>1, <1>10, <1>15, <1>18 DEF PulseFits
  <2>2. \A q \in Watcher : q = p
    BY <1>3 DEF OneWatcher
  <2>3. QED
    BY <1>15, <2>1, <2>2 DEF PulseFits
<1>25. OneStart'
  BY <1>1, <1>10, <1>15, <1>16, <1>17, LifecycleAssumption DEF OneStart, Live
<1>26. VerdictFits'
  <2>1. Told' = Told
    <3>1. \A q \in Proc : pc'[q] \in PendingPoints <=> pc[q] \in PendingPoints
      BY <1>2, <1>9, <1>15
    <3>2. \A q \in Proc : pc[q] \in PendingPoints => my'[q] = my[q]
      BY <1>2, <1>9
    <3>3. QED
      BY <1>10, <3>1, <3>2 DEF Told, Mine
  <2>2. \A q \in Proc : pc'[q] \in WrittenPoints => VerdictOf(my'[q].c, my'[q].exe) \in handoff'
    BY <1>1, <1>9, <1>10, <1>15 DEF VerdictFits, Mine
  <2>3. \A q \in Proc : my'[q].task.stamp \in handoff' \cup {NoVerdict}
    BY <1>1, <1>6, <1>7, <1>9, <1>10 DEF VerdictFits
  <2>4. QED
    BY <1>1, <1>10, <2>1, <2>2, <2>3 DEF VerdictFits, Mine
<1>27. QED
  BY <1>11, <1>13, <1>21, <1>22, <1>23, <1>24, <1>25, <1>26 DEF WatcherInv

-----------------------------------------------------------------------------
(* Steps that only touch the providers or the queue *)

(* A provider that exits leaves every record and every process as it is.   *)
LEMMA ProviderExitsStep ==
  ASSUME WatcherInv, NEW p \in Proc, ProviderExits(p)
  PROVE  WatcherInv'
<1>1. /\ UNCHANGED <<cmd, exe, task, handoff, root, lease, pc, my, faults>>
      /\ prov' = [prov EXCEPT ![p] = "dead"]
  BY DEF ProviderExits, Starts, Untouched, stores, Well
<1>2. Typed'
  BY <1>1 DEF WatcherInv, Typed, StoresTyped
<1>3. \A q \in Proc : Fitting(q)'
  BY <1>1 DEF WatcherInv, Fitting
<1>4. OneWorker' /\ SummonsFit'
  BY <1>1 DEF WatcherInv, OneWorker, Known, SummonsFit, NoWorker, Requeues, Summons, Writing
<1>5. \A c \in Command : Past(c)' = Past(c)
  BY <1>1 DEF Past, PutsRaw
<1>6. PastFits'
  BY <1>1, <1>5 DEF WatcherInv, PastFits, Past, PutsRaw, Running, Writing
<1>7. PulseFits'
  BY <1>1 DEF WatcherInv, PulseFits, Pulse, PutsRaw
<1>8. OneStart'
  <2>1. \A q \in Proc : Live(q)' => Live(q)
    BY <1>1 DEF WatcherInv, Typed, StoresTyped, Live
  <2>2. \A q \in Proc : Starting(q)' = Starting(q)
    BY <1>1 DEF Starting, Writing
  <2>3. QED
    BY <1>5, <2>1, <2>2, LifecycleAssumption DEF WatcherInv, OneStart
<1>9. VerdictFits'
  BY <1>1 DEF WatcherInv, VerdictFits, Told, Mine
<1>10. QED
  BY <1>2, <1>3, <1>4, <1>6, <1>7, <1>8, <1>9 DEF WatcherInv

(* Nobody has a Command in hand that does not exist yet.                   *)
LEMMA DispatchRetryStep ==
  ASSUME WatcherInv, NEW d \in Command, DispatchRetry(d)
  PROVE  WatcherInv'
<1> DEFINE r == [NewCommand EXCEPT !.status = "queued"]
<1>1. /\ UNCHANGED <<exe, task, handoff, root, lease, prov, pc, my, faults>>
      /\ cmd' = [cmd EXCEPT ![d] = r] /\ cmd[d].status = "none"
  BY DEF DispatchRetry, PutCmd
<1>2. r \in CommandType /\ r.status = "queued" /\ r.worker = NoProc
  BY DEF NewCommand, CommandType
<1> HIDE DEF r
<1>3. /\ cmd'[d] = r /\ cmd' \in [Command -> CommandType]
      /\ \A c \in Command \ {d} : cmd'[c] = cmd[c]
  BY <1>1, <1>2 DEF WatcherInv, Typed, StoresTyped
<1>4. \A q \in Proc : my[q].c # d
  BY <1>1 DEF WatcherInv, SummonsFit
<1>5. Typed'
  BY <1>1, <1>3 DEF WatcherInv, Typed, StoresTyped
<1>6. \A q \in Proc : Fitting(q)'
  BY <1>1 DEF WatcherInv, Fitting
<1>7. \A k \in Worker : k \in Proc
  BY DEF Proc
<1>8. OneWorker'
  <2>1. \A c \in Command, k \in Worker : Known(c, k)' = Known(c, k)
    BY <1>1 DEF Known
  <2>2. \A k \in Worker : ~Known(d, k)
    BY <1>4, <1>7 DEF Known
  <2>3. QED
    BY <1>1, <1>3, <2>1, <2>2 DEF WatcherInv, OneWorker
<1>9. SummonsFit'
  <2>1. \A c \in Command : NoWorker(c)' = NoWorker(c)
    BY <1>1 DEF NoWorker
  <2>2. NoWorker(d)
    BY <1>4, <1>7 DEF NoWorker
  <2>3. \A q \in Proc : Requeues(q)' = Requeues(q) /\ Summons(q)' = Summons(q)
    BY <1>1 DEF Requeues, Summons, Writing
  <2>4. \A q \in Proc : Summons(q) => my[q].c \in Command \ {d}
    <3>1. \A q \in Proc : Summons(q) => pc[q] \notin RestPoints
      BY DEF Summons, Writing
    <3>2. QED
      BY <1>4, <3>1, Fields DEF WatcherInv
  <2>5. \A c \in Command : cmd'[c].status = "none" => \A q \in Proc : my'[q].c # c
    BY <1>1, <1>2, <1>3 DEF WatcherInv, SummonsFit
  <2>6. \A c \in Command : cmd'[c].status = "queued" => NoWorker(c)' /\ cmd'[c].worker = NoProc
    BY <1>2, <1>3, <2>1, <2>2 DEF WatcherInv, SummonsFit
  <2>7. \A q \in Proc : Requeues(q)' => NoWorker(my[q].c)' /\ my'[q].out.worker = NoProc
    BY <1>1, <2>3 DEF WatcherInv, SummonsFit, NoWorker
  <2>8. ASSUME NEW q \in Proc, Summons(q)'
        PROVE  /\ NoWorker(my[q].c)' /\ cmd'[my'[q].c].worker = NoProc /\ my'[q].cmd.worker = NoProc
               /\ pc'[q] \in WritePoints => my'[q].out.worker = NoProc
               /\ pc'[q] = "spawn" => cmd'[my'[q].c].status # "queued"
    <3>1. my[q].c \in Command \ {d} /\ cmd'[my[q].c] = cmd[my[q].c]
      BY <1>3, <2>3, <2>4, <2>8
    <3>2. QED
      BY <1>1, <2>3, <2>8, <3>1 DEF WatcherInv, SummonsFit, NoWorker
  <2>9. QED
    BY <2>5, <2>6, <2>7, <2>8 DEF SummonsFit
<1>10. \A c \in Command : Past(c)' = Past(c)
  BY <1>1 DEF Past, PutsRaw
<1>11. PastFits'
  BY <1>1, <1>10 DEF WatcherInv, PastFits, Past, PutsRaw, Running, Writing
<1>12. PulseFits' /\ OneStart'
  BY <1>1 DEF WatcherInv, PulseFits, Pulse, PutsRaw, OneStart, Live, Starting, Writing, Past
<1>13. VerdictFits'
  BY <1>1 DEF WatcherInv, VerdictFits, Told, Mine
<1>14. QED
  BY <1>5, <1>6, <1>8, <1>9, <1>11, <1>12, <1>13 DEF WatcherInv

-----------------------------------------------------------------------------
(* The invariant *)

LEMMA InitHolds ==
  ASSUME OneWatcher, Init
  PROVE  WatcherInv
<1>1. /\ \A p \in Proc : my[p] = NoWork /\ prov[p] = "none"
      /\ \A p \in Proc : pc[p] = IF p \in Worker THEN "off" ELSE "idle"
      /\ \A c \in Command : exe[c] = NewExecution
      /\ \A c \in Command : cmd[c] = [NewCommand EXCEPT !.status = IF c = First THEN "queued" ELSE "none"]
      /\ root = NoRoot /\ lease = NoLease /\ handoff = {} /\ task.stamp = NoVerdict
  BY DEF Init
<1>2. \A c \in Command : /\ cmd[c] \in CommandType /\ cmd[c].worker = NoProc
                         /\ cmd[c].status \in {"none", "queued"}
  BY ZenonT(60), <1>1 DEF NewCommand, CommandType
<1>3. Typed
  <2>1. task \in TaskType
    BY NewTyped DEF Init, TaskType, TaskIn
  <2>2. /\ cmd \in [Command -> CommandType] /\ exe \in [Command -> ExecutionType]
        /\ prov \in [Proc -> {"none", "live", "dead"}]
    BY <1>1, <1>2, NewTyped DEF Init
  <2>3. faults \in [store : 0 .. MaxFaults, crash : 0 .. MaxCrashes]
    <3>1. 0 \in 0 .. MaxFaults /\ 0 \in 0 .. MaxCrashes
      BY LifecycleAssumption
    <3>2. faults = [store |-> 0, crash |-> 0]
      BY DEF Init
    <3>3. QED
      BY <3>1, <3>2
  <2>4. StoresTyped
    BY <1>1, <2>1, <2>2, <2>3, NewTyped DEF StoresTyped
  <2>5. pc \in [Proc -> Points]
    BY DEF Init, Points, WatchPoints
  <2>6. QED
    BY <2>4, <2>5, NewTyped DEF Init, Typed
<1>4. ASSUME NEW p \in Proc
      PROVE  Fitting(p)
  <2>1. pc[p] \in RestPoints /\ my[p] = NoWork /\ NoWork.c = NoCommand
    BY <1>1, NothingHeld
  <2>2. Fits(p, pc[p], NoWork)
    <3>1. CASE p \in Worker
      BY <1>1, <3>1, LifecycleAssumption DEF Fits, ExitFits, DataFits, RoleFits
    <3>2. CASE p \notin Worker
      BY <1>1, <3>2 DEF Fits, ExitFits, DataFits, RoleFits
    <3>3. QED
      BY <3>1, <3>2
  <2>3. QED
    BY <2>1, <2>2 DEF Fitting
<1>5. \A p \in Proc : /\ pc[p] \in RestPoints /\ my[p].c \notin Command
                      /\ ~Ran(my[p].exe) /\ ~Ran(my[p].seen) /\ my[p].task.stamp = NoVerdict
                      /\ my[p].cmd.worker = NoProc /\ my[p].out.worker = NoProc
                      /\ pc[p] # "mark_put" /\ ~HasPulse(my[p].seen)
  BY <1>1, NothingHeld, LifecycleAssumption
<1>6. \A p \in Proc : ~Running(p) /\ ~Starting(p) /\ ~Requeues(p) /\ ~Summons(p) /\ ~Live(p)
  BY <1>1 DEF Running, Starting, Requeues, Summons, Writing, Live
<1>7. \A k \in Worker : k \in Proc
  BY DEF Proc
<1>8. OneWorker /\ SummonsFit
  BY <1>2, <1>5, <1>6, <1>7 DEF OneWorker, SummonsFit, Known, NoWorker
<1>9. PastFits
  <2>1. \A c \in Command : ~Ran(exe[c])
    BY <1>1 DEF NewExecution, Ran, Settled, Terminal
  <2>2. root.bind = NoVerdict
    BY <1>1 DEF NoRoot
  <2>3. \A p \in Proc : pc[p] \notin CopyPoints
    BY <1>5
  <2>4. QED
    BY <1>1, <1>5, <1>6, <2>1, <2>2, <2>3 DEF PastFits
<1>10. PulseFits
  BY <1>5, <1>7 DEF PulseFits, Pulse
<1>11. OneStart
  BY <1>6 DEF OneStart
<1>12. VerdictFits
  <2>1. Told = {}
    BY <1>1, <1>5 DEF Told
  <2>2. \A p \in Proc : pc[p] \notin WrittenPoints
    BY <1>5
  <2>3. QED
    BY <1>1, <1>5, <2>1, <2>2 DEF VerdictFits
<1>13. QED
  BY <1>3, <1>4, <1>8, <1>9, <1>10, <1>11, <1>12 DEF WatcherInv

LEMMA StutterKeeps ==
  ASSUME WatcherInv, UNCHANGED lifecycleVars
  PROVE  WatcherInv'
<1>1. UNCHANGED <<cmd, exe, task, handoff, root, lease, prov, pc, my, faults>>
  BY DEF lifecycleVars, stores
<1>2. Typed' /\ \A p \in Proc : Fitting(p)'
  BY <1>1 DEF WatcherInv, Typed, StoresTyped, Fitting
<1>3. OneWorker' /\ SummonsFit'
  BY <1>1 DEF WatcherInv, OneWorker, Known, SummonsFit, NoWorker, Requeues, Summons, Writing
<1>4. PastFits'
  BY <1>1 DEF WatcherInv, PastFits, Past, PutsRaw, Running, Writing
<1>5. PulseFits' /\ OneStart'
  BY <1>1 DEF WatcherInv, PulseFits, Pulse, PutsRaw, OneStart, Live, Starting, Writing, Past
<1>6. VerdictFits'
  BY <1>1 DEF WatcherInv, VerdictFits, Told, Mine
<1>7. QED
  BY <1>2, <1>3, <1>4, <1>5, <1>6 DEF WatcherInv

LEMMA NextKeeps ==
  ASSUME OneWatcher, WatcherInv, [Next]_lifecycleVars
  PROVE  WatcherInv'
<1>1. Typed /\ \A p \in Proc : Fitting(p)
  BY DEF WatcherInv
<1>2. ASSUME NEW p \in Proc, Steps(p)
      PROVE  WatcherInv'
  <2>1. CASE Tick(p)
    BY <2>1, TickStep
  <2>2. CASE pc[p] = "spawn" /\ SpawnsWorker(p)
    BY <2>2, SpawnsStep
  <2>3. CASE ~Tick(p) /\ ~(pc[p] = "spawn" /\ SpawnsWorker(p))
    BY <1>1, <1>2, <2>3, AllSteps, ProcessStep
  <2>4. QED
    BY <2>1, <2>2, <2>3
<1>3. ASSUME NEW p \in Proc, ProviderExits(p)
      PROVE  WatcherInv'
  BY <1>3, ProviderExitsStep
<1>4. ASSUME NEW k \in Worker \cap Mortal, CrashWorker(k)
      PROVE  WatcherInv'
  <2>1. k \in Proc /\ k \in Worker
    BY DEF Proc
  <2>2. Ensures(k)
    BY <1>1, <1>4, <2>1, CrashSteps
  <2>3. QED
    BY <2>1, <2>2, ProcessStep
<1>5. ASSUME NEW p \in Watcher \cap Mortal, CrashWatcher(p)
      PROVE  WatcherInv'
  <2>1. p \in Proc /\ p \in Watcher
    BY DEF Proc
  <2>2. Ensures(p)
    <3>1. (CrashWatcher(p) /\ p \in Watcher) \/ (CrashWorker(p) /\ p \in Worker)
      BY <1>5, <2>1
    <3>2. QED
      BY <1>1, <2>1, <3>1, CrashSteps
  <2>3. QED
    BY <2>1, <2>2, ProcessStep
<1>6. ASSUME NEW c \in Command, DispatchRetry(c)
      PROVE  WatcherInv'
  BY <1>6, DispatchRetryStep
<1>7. CASE Rest \/ UNCHANGED lifecycleVars
  BY <1>7, StutterKeeps DEF Rest
<1>8. QED
  BY <1>2, <1>3, <1>4, <1>5, <1>6, <1>7 DEF Next

LEMMA InvariantHolds ==
  ASSUME OneWatcher
  PROVE  Spec => []WatcherInv
<1>1. Init => WatcherInv
  BY InitHolds
<1>2. WatcherInv /\ [Next]_lifecycleVars => WatcherInv'
  BY NextKeeps
<1>3. QED
  BY <1>1, <1>2, PTL DEF Spec

HIDE DEF WritePoints, BlockPoints, RestPoints, EarlyPoints, UndoPoints, RunPoints, BootPoints, SummonPoints, PendingPoints, WrittenPoints,
         HoldPoints, ExitPoints, CallPoints, SettledPoints, CopyPoints, KeptPoints, Points, RecordPoints, LaunchPoints,
         TurnPoints, TerminalizePoints, CleanupPoints, ReportPoints, WatchPoints, MarkPoints, ReconciliationPoints,
         RepairPoints, GiveUpPoints

-----------------------------------------------------------------------------
(* What the cleanup evidence says *)

Leased(c) == lease.active /\ lease.of = c

HandedOff(c, s) == \E h \in handoff : h.of = c /\ h.status = s

(* The evidence ev is true of c, and will stay so.                         *)
Sound(c, ev) ==
  /\ ev.claim = "released" => Past(c) /\ ~ClaimedBy(c)
  /\ ev.writer = "released" => Past(c) /\ ~Leased(c)
  /\ ev.persistence = "complete" => ev.outcome \in Terminal /\ HandedOff(c, ev.outcome)

WindPoints == TerminalizePoints \cup CleanupPoints

(* The verdict in hand has been handed off.                                *)
ToldPoints == {"views", "audit", "audit_put", "free_lease", "free_claim", "clean"}

(* The Execution in hand has the verdict in hand.                          *)
CastPoints == {"bind", "handoff", "task"}

ReleasePoints == {"converge", "strike_note"}

(* Points at which nothing has been freed yet. *)
UnfreedPoints == TurnPoints \cup {"spawn"}

(* What a process with the local variables x holds at l is true before it  *)
(* becomes evidence.                                                       *)
SpeaksAt(l, x) ==
  LET c == x.c
  IN  /\ c \in Command => Sound(c, x.exe.evidence) /\ Sound(c, x.seen.evidence)
      /\ l = "clean" => Sound(c, x.clean)
      /\ l \in ReleasePoints => ~ClaimedBy(c)
      /\ l = "free_claim" /\ Write => ~Leased(c)
      /\ l \in WindPoints /\ x.freed => ~Leased(c)
      /\ l \in ToldPoints => HandedOff(c, x.verdict)
      /\ l \in {"fix_task_view", "fix_audit"} => HandedOff(c, x.exe.status)
      /\ l \in UnfreedPoints \cup WritePoints => ~x.freed
      /\ l \in CastPoints => x.exe.status = x.verdict

SpeaksTrue(p) == SpeaksAt(pc[p], my[p])

TruthInv ==
  /\ \A c \in Command : Sound(c, exe[c].evidence)
  /\ \A p \in Proc : SpeaksTrue(p)

-----------------------------------------------------------------------------
(* What a step of a process says *)

MergePoints == {"retain", "audit", "clean", "fix_audit", "strike_note", "converge"}

(* What p folds into the evidence it has just read.                        *)
Update(p) ==
  CASE pc[p] = "retain"    -> Retained(my[p].verdict, my[p].done)
    [] pc[p] = "audit"     -> AuditUpdate(p)
    [] pc[p] = "clean"     -> my[p].clean
    [] pc[p] = "fix_audit" -> Repaired(my[p].exe.status)
    [] OTHER               -> ClaimReleased

Merges(p, ev) ==
  LET old == exe[my[p].c].evidence
  IN  pc[p] \in MergePoints /\ Mergeable(old, Update(p)) /\ ev = Merge(old, Update(p))

(* Evidence p has at hand, or none.                                        *)
Shown(p) == {NoEvidence, my[p].exe.evidence, my[p].seen.evidence, exe[my[p].c].evidence}

(* p may go on at l with the local variables y.                            *)
Says(p, l, y) ==
  LET x == my[p]
  IN  /\ y.exe.evidence \in Shown(p) \/ Merges(p, y.exe.evidence)
      /\ y.seen.evidence \in Shown(p)
      /\ l = "clean" =>
           \/ pc[p] = "free_lease" /\ y.clean = Cleaned(x.verdict, "failed", "not_attempted")
           \/ /\ pc[p] = "free_claim"
              /\ \E claim \in {"released", "not_released", "failed"} :
                   y.clean = Cleaned(x.verdict, WriterResult(p), claim)
      /\ l \in UnfreedPoints /\ y.freed => x.freed /\ pc[p] \in UnfreedPoints \cup WritePoints
      /\ l \in WindPoints /\ y.freed => pc[p] = "recover_lease" \/ (x.freed /\ pc[p] \in TurnPoints \cup WindPoints)
      /\ l \in ToldPoints => y.verdict = x.verdict /\ pc[p] \in ToldPoints \cup {"task"}
      /\ l \in {"fix_task_view", "fix_audit"} =>
           y.exe.status = x.exe.status /\ pc[p] \in {"fix_task", "fix_task_view"}
      /\ l = "bind" => y.exe.status = y.verdict
      /\ l \in {"handoff", "task"} =>
           y.exe.status = x.exe.status /\ y.verdict = x.verdict /\ pc[p] \in {"bind", "handoff"}

(* Claim and lease are only taken at their points, evidence comes from the *)
(* record in hand.                                                         *)
Spares(p) ==
  LET c == my[p].c
  IN  /\ root'.active => (root.active /\ root'.owner = root.owner) \/ (pc[p] = "claim" /\ root'.owner = c)
      /\ lease'.active => (lease.active /\ lease'.of = lease.of) \/ (pc[p] = "lease" /\ lease'.of = c)
      /\ exe'[c].evidence \in {NoEvidence, exe[c].evidence, my[p].exe.evidence}

(* Before the claim or the lease is called released it is.                 *)
Frees(p) ==
  LET c == my[p].c
  IN  /\ pc'[p] \in ReleasePoints => ~(root'.active /\ root'.owner = c)
      /\ pc'[p] = "free_claim" /\ Write =>
           ~(lease'.active /\ lease'.of = c) \/ (pc[p] = "audit_put" /\ (my[p].exe.evidence.writer = "released" \/ my[p].freed))
      /\ pc[p] = "recover_lease" /\ pc'[p] \in WindPoints => ~(lease'.active /\ lease'.of = c)
      /\ pc[p] = "free_claim" /\ pc'[p] = "clean" /\ my'[p].clean.claim = "released" => ~(root'.active /\ root'.owner = c)

Tells(p) ==
  /\ Says(p, pc'[p], my'[p]) /\ Spares(p) /\ Frees(p)
  /\ pc'[p] \in WritePoints => ~my'[p].freed

(* What is kept of the local variables says no more than they did.         *)
Echoes(l, w, v) ==
  /\ v.exe.evidence \in {w.exe.evidence, NoEvidence}
  /\ v.seen.evidence \in {w.seen.evidence, NoEvidence}
  /\ v.freed \in {w.freed, FALSE}
  /\ l \in WritePoints => ~v.freed
  /\ l = "clean" => v.clean = w.clean
  /\ l \in ToldPoints \cup CastPoints => v.verdict = w.verdict
  /\ l \in CastPoints \cup {"fix_task_view", "fix_audit"} => v.exe.status = w.exe.status

LEMMA NoWorkFields ==
  /\ NoWork.exe = NewExecution /\ NoWork.seen = NewExecution /\ NoWork.freed = FALSE
  /\ NewExecution.evidence = NoEvidence
BY DEF NoWork, NewExecution

LEMMA KeptFields ==
  ASSUME NEW w
  PROVE  /\ Brief(w).exe = NewExecution /\ Brief(w).seen = NewExecution /\ Brief(w).freed = FALSE
         /\ Sighted(w).exe = NewExecution /\ Sighted(w).seen = w.seen /\ Sighted(w).freed = FALSE
         /\ Called(w).exe = NewExecution /\ Called(w).seen = w.seen /\ Called(w).freed = w.freed
         /\ Called(w).verdict = w.verdict
         /\ Glimpse(w.seen).evidence \in {w.seen.evidence, NoEvidence}
         /\ Signed(w.exe).evidence = NoEvidence /\ Signed(w.exe).status = w.exe.status
BY DEF Brief, Sighted, Called, Glimpse, Signed, NoWork, NewExecution

LEMMA KeptEchoes ==
  ASSUME NEW l \in KeptPoints, NEW w \in WorkType
  PROVE  Echoes(l, w, Kept(l, w))
<1> DEFINE v == Kept(l, w)
<1> SUFFICES Echoes(l, w, v)
  OBVIOUS
<1>a. /\ NoWork \in WorkType /\ Brief(w) \in WorkType /\ Sighted(w) \in WorkType /\ Called(w) \in WorkType
  BY NewTyped, BriefFits, SightedFits, CalledFits
<1> HIDE DEF v
<1>1. CASE l \in WritesAt
  <2>1. v = [NoWork EXCEPT !.c = w.c, !.cmd = w.cmd, !.out = w.out, !.token = w.token, !.verdict = w.verdict,
           !.raised = w.raised, !.next = w.next, !.onError = w.onError]
    BY Zenon, <1>1, KeptIs DEF v
  <2>2. /\ v.exe.evidence \in {w.exe.evidence, NoEvidence} /\ v.seen.evidence \in {w.seen.evidence, NoEvidence}
        /\ v.freed \in {w.freed, FALSE}
        /\ ~v.freed
    BY <1>a, <2>1, KeptFields, NoWorkFields DEF WorkType
  <2>3. QED
    BY Zenon, <1>1, <2>2 DEF Echoes, WritePoints, ToldPoints, CastPoints, WritesAt
<1>2. CASE l \in CalledAt
  <2>1. v = Called(w)
    BY Zenon, <1>2, KeptIs DEF v
  <2>2. /\ v.exe.evidence \in {w.exe.evidence, NoEvidence} /\ v.seen.evidence \in {w.seen.evidence, NoEvidence}
        /\ v.freed \in {w.freed, FALSE}
        /\ v.verdict = w.verdict
    BY <1>a, <2>1, KeptFields, NoWorkFields DEF WorkType
  <2>3. QED
    BY Zenon, <1>2, <2>2 DEF Echoes, WritePoints, ToldPoints, CastPoints, CalledAt
<1>3. CASE l \in NotedAt
  <2>1. v = [Brief(w) EXCEPT !.seen = Glimpse(w.seen)]
    BY Zenon, <1>3, KeptIs DEF v
  <2>2. /\ v.exe.evidence \in {w.exe.evidence, NoEvidence} /\ v.seen.evidence \in {w.seen.evidence, NoEvidence}
        /\ v.freed \in {w.freed, FALSE}
    BY <1>a, <2>1, KeptFields, NoWorkFields DEF WorkType
  <2>3. QED
    BY Zenon, <1>3, <2>2 DEF Echoes, WritePoints, ToldPoints, CastPoints, NotedAt
<1>4. CASE l \in PuttingAt
  <2>1. v = [Called(w) EXCEPT !.exe = w.exe]
    BY Zenon, <1>4, KeptIs DEF v
  <2>2. /\ v.exe.evidence \in {w.exe.evidence, NoEvidence} /\ v.seen.evidence \in {w.seen.evidence, NoEvidence}
        /\ v.freed \in {w.freed, FALSE}
        /\ v.verdict = w.verdict
    BY <1>a, <2>1, KeptFields, NoWorkFields DEF WorkType
  <2>3. QED
    BY Zenon, <1>4, <2>2 DEF Echoes, WritePoints, ToldPoints, CastPoints, PuttingAt
<1>5. CASE l \in BriefAt
  <2>1. v = Brief(w)
    BY Zenon, <1>5, KeptIs DEF v
  <2>2. /\ v.exe.evidence \in {w.exe.evidence, NoEvidence} /\ v.seen.evidence \in {w.seen.evidence, NoEvidence}
        /\ v.freed \in {w.freed, FALSE}
    BY <1>a, <2>1, KeptFields, NoWorkFields DEF WorkType
  <2>3. QED
    BY Zenon, <1>5, <2>2 DEF Echoes, WritePoints, ToldPoints, CastPoints, BriefAt
<1>6. CASE l \in WholeAt
  <2>1. v = w
    BY Zenon, <1>6, KeptIs DEF v
  <2>2. /\ v.exe.evidence \in {w.exe.evidence, NoEvidence} /\ v.seen.evidence \in {w.seen.evidence, NoEvidence}
        /\ v.freed \in {w.freed, FALSE}
    BY <1>a, <2>1, KeptFields, NoWorkFields DEF WorkType
  <2>3. QED
    BY Zenon, <1>6, <2>2 DEF Echoes, WritePoints, ToldPoints, CastPoints, WholeAt
<1>7. CASE l \in SightedAt
  <2>1. v = Sighted(w)
    BY Zenon, <1>7, KeptIs DEF v
  <2>2. /\ v.exe.evidence \in {w.exe.evidence, NoEvidence} /\ v.seen.evidence \in {w.seen.evidence, NoEvidence}
        /\ v.freed \in {w.freed, FALSE}
    BY <1>a, <2>1, KeptFields, NoWorkFields DEF WorkType
  <2>3. QED
    BY Zenon, <1>7, <2>2 DEF Echoes, WritePoints, ToldPoints, CastPoints, SightedAt
<1>8. CASE l \in SignedAt
  <2>1. v = [w EXCEPT !.exe = Signed(w.exe)]
    BY Zenon, <1>8, KeptIs DEF v
  <2>2. /\ v.exe.evidence \in {w.exe.evidence, NoEvidence} /\ v.seen.evidence \in {w.seen.evidence, NoEvidence}
        /\ v.freed \in {w.freed, FALSE}
        /\ v.verdict = w.verdict
        /\ v.exe.status = w.exe.status
    BY <1>a, <2>1, KeptFields, NoWorkFields DEF WorkType
  <2>3. QED
    BY Zenon, <1>8, <2>2 DEF Echoes, WritePoints, ToldPoints, CastPoints, SignedAt
<1>9. CASE l \in RestsAt
  <2>1. v = NoWork
    BY Zenon, <1>9, KeptIs DEF v
  <2>2. /\ v.exe.evidence \in {w.exe.evidence, NoEvidence} /\ v.seen.evidence \in {w.seen.evidence, NoEvidence}
        /\ v.freed \in {w.freed, FALSE}
    BY <1>a, <2>1, KeptFields, NoWorkFields DEF WorkType
  <2>3. QED
    BY Zenon, <1>9, <2>2 DEF Echoes, WritePoints, ToldPoints, CastPoints, RestsAt
<1>10. CASE l \in TaskPutAt
  <2>1. v = [Brief(w) EXCEPT !.task = w.task]
    BY Zenon, <1>10, KeptIs DEF v
  <2>2. /\ v.exe.evidence \in {w.exe.evidence, NoEvidence} /\ v.seen.evidence \in {w.seen.evidence, NoEvidence}
        /\ v.freed \in {w.freed, FALSE}
    BY <1>a, <2>1, KeptFields, NoWorkFields DEF WorkType
  <2>3. QED
    BY Zenon, <1>10, <2>2 DEF Echoes, WritePoints, ToldPoints, CastPoints, TaskPutAt
<1>11. CASE l = "mark_put"
  <2>1. v = [Brief(w) EXCEPT !.exe = w.exe]
    BY Zenon, <1>11, KeptIs DEF v
  <2>2. /\ v.exe.evidence \in {w.exe.evidence, NoEvidence} /\ v.seen.evidence \in {w.seen.evidence, NoEvidence}
        /\ v.freed \in {w.freed, FALSE}
    BY <1>a, <2>1, KeptFields, NoWorkFields DEF WorkType
  <2>3. QED
    BY Zenon, <1>11, <2>2 DEF Echoes, WritePoints, ToldPoints, CastPoints
<1>12. CASE l = "finish"
  <2>1. v = [Brief(w) EXCEPT !.verdict = w.verdict, !.raised = w.raised]
    BY Zenon, <1>12, KeptIs DEF v
  <2>2. /\ v.exe.evidence \in {w.exe.evidence, NoEvidence} /\ v.seen.evidence \in {w.seen.evidence, NoEvidence}
        /\ v.freed \in {w.freed, FALSE}
    BY <1>a, <2>1, KeptFields, NoWorkFields DEF WorkType
  <2>3. QED
    BY Zenon, <1>12, <2>2 DEF Echoes, WritePoints, ToldPoints, CastPoints
<1>13. CASE l = "bind"
  <2>1. v = [Called(w) EXCEPT !.exe = Signed(w.exe)]
    BY Zenon, <1>13, KeptIs DEF v
  <2>2. /\ v.exe.evidence \in {w.exe.evidence, NoEvidence} /\ v.seen.evidence \in {w.seen.evidence, NoEvidence}
        /\ v.freed \in {w.freed, FALSE}
        /\ v.verdict = w.verdict
        /\ v.exe.status = w.exe.status
    BY <1>a, <2>1, KeptFields, NoWorkFields DEF WorkType
  <2>3. QED
    BY Zenon, <1>13, <2>2 DEF Echoes, WritePoints, ToldPoints, CastPoints
<1>14. CASE l = "strike"
  <2>1. v = [Sighted(w) EXCEPT !.view = w.view]
    BY Zenon, <1>14, KeptIs DEF v
  <2>2. /\ v.exe.evidence \in {w.exe.evidence, NoEvidence} /\ v.seen.evidence \in {w.seen.evidence, NoEvidence}
        /\ v.freed \in {w.freed, FALSE}
    BY <1>a, <2>1, KeptFields, NoWorkFields DEF WorkType
  <2>3. QED
    BY Zenon, <1>14, <2>2 DEF Echoes, WritePoints, ToldPoints, CastPoints
<1>15. CASE l = "retain"
  <2>1. v = [Called(w) EXCEPT !.done = w.done]
    BY Zenon, <1>15, KeptIs DEF v
  <2>2. /\ v.exe.evidence \in {w.exe.evidence, NoEvidence} /\ v.seen.evidence \in {w.seen.evidence, NoEvidence}
        /\ v.freed \in {w.freed, FALSE}
    BY <1>a, <2>1, KeptFields, NoWorkFields DEF WorkType
  <2>3. QED
    BY Zenon, <1>15, <2>2 DEF Echoes, WritePoints, ToldPoints, CastPoints
<1>16. CASE l = "clean"
  <2>1. v = [Called(w) EXCEPT !.clean = w.clean]
    BY Zenon, <1>16, KeptIs DEF v
  <2>2. /\ v.exe.evidence \in {w.exe.evidence, NoEvidence} /\ v.seen.evidence \in {w.seen.evidence, NoEvidence}
        /\ v.freed \in {w.freed, FALSE}
        /\ v.verdict = w.verdict
        /\ v.clean = w.clean
    BY <1>a, <2>1, KeptFields, NoWorkFields DEF WorkType
  <2>3. QED
    BY Zenon, <1>16, <2>2 DEF Echoes, WritePoints, ToldPoints, CastPoints
<1>17. CASE l \in RepairsAt
  <2>1. v = [Sighted(w) EXCEPT !.exe = w.exe]
    BY Zenon, <1>17, KeptIs DEF v
  <2>2. /\ v.exe.evidence \in {w.exe.evidence, NoEvidence} /\ v.seen.evidence \in {w.seen.evidence, NoEvidence}
        /\ v.freed \in {w.freed, FALSE}
        /\ v.exe.status = w.exe.status
    BY <1>a, <2>1, KeptFields, NoWorkFields DEF WorkType
  <2>3. QED
    BY Zenon, <1>17, <2>2 DEF Echoes, WritePoints, ToldPoints, CastPoints, RepairsAt
<1>18. CASE l \in BlocksAt
  <2>1. v = [NoWork EXCEPT !.c = w.c, !.out = w.out, !.task = w.task, !.next = w.next,
           !.onError = w.onError]
    BY Zenon, <1>18, KeptIs DEF v
  <2>2. /\ v.exe.evidence \in {w.exe.evidence, NoEvidence} /\ v.seen.evidence \in {w.seen.evidence, NoEvidence}
        /\ v.freed \in {w.freed, FALSE}
    BY <1>a, <2>1, KeptFields, NoWorkFields DEF WorkType
  <2>3. QED
    BY Zenon, <1>18, <2>2 DEF Echoes, WritePoints, ToldPoints, CastPoints, BlocksAt
<1>19. QED
  BY <1>1, <1>2, <1>3, <1>4, <1>5, <1>6, <1>7, <1>8, <1>9, <1>10, <1>11, <1>12, <1>13, <1>14, <1>15, <1>16, <1>17, <1>18, PointsKept

LEMMA Spared ==
  ASSUME Typed, NEW p \in Proc, my[p].c \in Command
  PROVE  /\ Untouched => Spares(p)
         /\ \A r : PutCmd(my[p].c, r) => Spares(p)
         /\ \A r : PutTask(r) => Spares(p)
         /\ \A h : PutHandoff(h) => Spares(p)
         /\ PutRoot(RootReleased) => Spares(p)
         /\ \A r : r.owner = root.owner /\ r.active = root.active /\ PutRoot(r) => Spares(p)
         /\ PutLease(LeaseReleased) => Spares(p)
         /\ \A r : r.of = lease.of /\ r.active = lease.active /\ PutLease(r) => Spares(p)
         /\ \A e : e.evidence \in {NoEvidence, exe[my[p].c].evidence, my[p].exe.evidence} /\ PutExe(my[p].c, e) => Spares(p)
<1>1. Untouched => Spares(p)
  BY DEF Untouched, stores, Spares
<1>2. \A r : PutCmd(my[p].c, r) => Spares(p)
  BY DEF PutCmd, Spares
<1>3. \A r : PutTask(r) => Spares(p)
  BY DEF PutTask, Spares
<1>4. \A h : PutHandoff(h) => Spares(p)
  BY DEF PutHandoff, Spares
<1>5. RootReleased.active = FALSE
  BY DEF RootReleased, NoRoot, Typed, StoresTyped, RootType
<1>6. PutRoot(RootReleased) => Spares(p)
  BY <1>5 DEF PutRoot, Spares
<1>7. \A r : r.owner = root.owner /\ r.active = root.active /\ PutRoot(r) => Spares(p)
  BY DEF PutRoot, Spares
<1>8. LeaseReleased.active = FALSE
  BY DEF LeaseReleased, Typed, StoresTyped, LeaseType
<1>9. PutLease(LeaseReleased) => Spares(p)
  BY <1>8 DEF PutLease, Spares
<1>10. \A r : r.of = lease.of /\ r.active = lease.active /\ PutLease(r) => Spares(p)
  BY DEF PutLease, Spares
<1>11. ASSUME NEW e, e.evidence \in {NoEvidence, exe[my[p].c].evidence, my[p].exe.evidence}, PutExe(my[p].c, e)
       PROVE  Spares(p)
  <2>1. exe'[my[p].c] = e /\ root' = root /\ lease' = lease
    BY <1>11 DEF PutExe, Typed, StoresTyped
  <2>2. QED
    BY <1>11, <2>1 DEF Spares
<1>12. QED
  BY <1>1, <1>2, <1>3, <1>4, <1>6, <1>7, <1>9, <1>10, <1>11

(* Where a process may go on without anything having been freed.           *)
FreeingPoints == {"converge", "strike_note", "free_claim"}

LEMMA Speaks ==
  ASSUME Typed, NEW p \in Proc, NEW l \in KeptPoints, NEW w \in WorkType, GoWith(p, l, w),
         Says(p, l, w), Spares(p), Frees(p)
  PROVE  Tells(p)
<1> DEFINE v == Kept(l, w)
<1>1. pc'[p] = l /\ my'[p] = v
  BY DEF GoWith, Typed
<1>2. Echoes(l, w, v)
  BY KeptEchoes
<1> HIDE DEF v
<1>3. NoEvidence \in Shown(p)
  BY DEF Shown
<1>4. Says(p, l, v)
  <2>1. v.exe.evidence \in Shown(p) \/ Merges(p, v.exe.evidence)
    BY Zenon, <1>2, <1>3 DEF Says, Echoes
  <2>2. v.seen.evidence \in Shown(p)
    BY Zenon, <1>2, <1>3 DEF Says, Echoes
  <2>3. l = "clean" => v.clean = w.clean
    BY <1>2 DEF Echoes
  <2>4. v.freed => w.freed
    BY <1>2 DEF Echoes
  <2>5. l \in ToldPoints \cup CastPoints => v.verdict = w.verdict
    BY <1>2 DEF Echoes
  <2>6. l \in CastPoints \cup {"fix_task_view", "fix_audit"} => v.exe.status = w.exe.status
    BY <1>2 DEF Echoes
  <2>7. QED
    BY <2>1, <2>2, <2>3, <2>4, <2>5, <2>6 DEF Says, CastPoints
<1>5. l \in WritePoints => ~v.freed
  BY <1>2 DEF Echoes
<1>6. QED
  BY <1>1, <1>4, <1>5 DEF Tells

LEMMA Tell ==
  ASSUME Typed, NEW p \in Proc, NEW l \in KeptPoints \ FreeingPoints, NEW w \in WorkType, GoWith(p, l, w),
         Says(p, l, w), Spares(p),
         pc[p] = "free_claim" => l # "clean", pc[p] = "recover_lease" => l \notin WindPoints
  PROVE  Tells(p)
<1>1. pc'[p] = l
  BY DEF GoWith, Typed
<1>2. Frees(p)
  BY <1>1 DEF Frees, FreeingPoints, ReleasePoints
<1>3. QED
  BY <1>2, Speaks

(* Points that say nothing but what the evidence in hand says.             *)
QuietPoints == KeptPoints \ UNION {UnfreedPoints, WindPoints, ReleasePoints, {"fix_task_view", "fix_audit"}}

LEMMA Hush ==
  ASSUME Typed, NEW p \in Proc, NEW l \in QuietPoints, NEW w \in WorkType, GoWith(p, l, w), Spares(p),
         w.exe.evidence \in Shown(p) \/ Merges(p, w.exe.evidence), w.seen.evidence \in Shown(p)
  PROVE  Tells(p)
<1>1. /\ l \in KeptPoints \ FreeingPoints /\ l \notin WindPoints /\ l \notin UnfreedPoints
      /\ l \notin ToldPoints \cup {"fix_task_view", "fix_audit", "bind", "handoff", "task", "clean"}
  BY DEF QuietPoints, FreeingPoints, UnfreedPoints, WindPoints, ReleasePoints, ToldPoints, TurnPoints,
         TerminalizePoints, CleanupPoints
<1>2. Says(p, l, w)
  BY Zenon, <1>1 DEF Says
<1>3. QED
  BY <1>1, <1>2, Tell

(* Only the place changes, and perhaps a store.                            *)
LEMMA Drifts ==
  ASSUME Typed, NEW p \in Proc, NEW l \in QuietPoints, GoWith(p, l, my[p]), Spares(p)
  PROVE  Tells(p)
<1>1. my[p] \in WorkType
  BY DEF Typed
<1>2. QED
  BY <1>1, Hush DEF Shown

LEMMA Quiets ==
  {"write", "write_put", "block", "block_put", "boot", "reserve", "reserve_put", "gate", "lease", "claim", "gate_task",
   "gate_task_put", "gate_exec_put", "undo_exec", "undo_task", "undo_claim", "drop_lease", "finish", "handler", "idle",
   "done", "retry", "retry_put", "retry_refused", "take", "spawn_failed", "attention", "mark", "mark_put",
   "mark_task", "mark_task_put", "mark_cmd", "reconcile", "orphan", "orphan_free", "cancel", "cancel_put", "undo_lease",
   "judge", "heal", "heal_put", "recover_lease", "confirm", "confirm_or_raise", "fix", "fix_handoff",
   "fix_handoff_view", "fix_task", "fix_audit_put", "strike", "strike_free", "strike_note_put", "recover",
   "converge_put"} \subseteq QuietPoints
BY SMTT(60) DEF QuietPoints, UnfreedPoints, WindPoints, ReleasePoints, KeptPoints, Points, RecordPoints, LaunchPoints,
   TurnPoints, TerminalizePoints, CleanupPoints, ReportPoints, WatchPoints, MarkPoints, ReconciliationPoints,
   RepairPoints, GiveUpPoints

LEMMA EndQuiet ==
  ASSUME NEW p
  PROVE  End(p) \in QuietPoints
BY Quiets DEF End

(* A read, or a step that computes. *)
LEMMA Looks ==
  ASSUME Typed, NEW p \in Proc, my[p].c \in Command, NEW l \in QuietPoints, Jump(p, l) \/ Unread(p, l)
  PROVE  Tells(p)
BY Drifts, Spared DEF Jump, Step, Unread, UnreadWith

LEMMA Learns ==
  ASSUME Typed, NEW p \in Proc, my[p].c \in Command, NEW l \in QuietPoints, NEW w \in WorkType,
         Step(p, l, w) \/ UnreadWith(p, l, w),
         w.exe.evidence \in Shown(p) \/ Merges(p, w.exe.evidence), w.seen.evidence \in Shown(p)
  PROVE  Tells(p)
BY Hush, Spared DEF Step, UnreadWith

LEMMA AtHand ==
  ASSUME Typed, NEW p \in Proc
  PROVE  /\ NoEvidence \in Shown(p) /\ my[p].exe.evidence \in Shown(p) /\ my[p].seen.evidence \in Shown(p)
         /\ exe[my[p].c].evidence \in Shown(p) /\ my[p] \in WorkType
         /\ NewExecution.evidence \in Shown(p)
BY NoWorkFields DEF Shown, Typed

LEMMA ConclusionTells ==
  ASSUME Typed, NEW p \in Proc, Held(p), NEW r \in CommandType, Conclude(p, r)
  PROVE  Tells(p)
<1> DEFINE w == Conclusion(p, my[p].c, r)
<1>1. w \in WorkType /\ w.exe = NewExecution /\ w.seen = NewExecution
  BY ConclusionFits DEF Held
<1>2. Step(p, "write", w)
  BY DEF Conclude, Publish, Mine, Conclusion
<1> HIDE DEF w
<1>3. QED
  BY <1>1, <1>2, Learns, AtHand, Quiets DEF Held

LEMMA BlockingTells ==
  ASSUME Typed, NEW p \in Proc, Held(p), NEW r \in CommandType,
         BlockThenFail(p, r) \/ UnreadWith(p, "block", Blocking(p, r))
  PROVE  Tells(p)
<1> DEFINE w == Conclusion(p, my[p].c, r)
<1>1. w \in WorkType /\ w.exe = NewExecution /\ w.seen = NewExecution
  BY ConclusionFits DEF Held
<1>2. Step(p, "block", w) \/ UnreadWith(p, "block", w)
  <2>1. Blocking(p, r) = w
    BY DEF Blocking, Conclusion, Mine, NoWork
  <2>2. QED
    BY <2>1 DEF BlockThenFail
<1> HIDE DEF w
<1>3. QED
  BY <1>1, <1>2, Learns, AtHand, Quiets DEF Held

LEMMA RecordsTell ==
  ASSUME Typed, NEW p \in Proc, Held(p), Records(p)
  PROVE  Tells(p)
<1> USE DEF Held
<1>1. ASSUME NEW l \in QuietPoints \cup {"prepare", "close", "spawn"}, GoWith(p, l, my[p]), Spares(p), pc[p] \in WritePoints
      PROVE  Tells(p)
  <2>1. my[p] \in WorkType /\ l \in KeptPoints \ FreeingPoints /\ l \notin WindPoints
        /\ l \notin ToldPoints \cup {"fix_task_view", "fix_audit", "bind", "handoff", "task", "clean"}
    BY DEF QuietPoints, FreeingPoints, WindPoints, ReleasePoints, ToldPoints, TurnPoints, TerminalizePoints,
           CleanupPoints, KeptPoints, Points, WatchPoints
  <2>2. Says(p, l, my[p])
    BY Zenon, <1>1, <2>1, AtHand DEF Says
  <2>3. QED
    BY <1>1, <2>1, <2>2, Tell
<1>2. pc[p] \in WritePoints => {my[p].next, my[p].onError} \subseteq QuietPoints \cup {"prepare", "close", "spawn"}
  BY Quiets, EndQuiet DEF Fits, ExitFits, Exits
<1>3. CASE WriteRead(p)
  BY <1>1, <1>2, <1>3, Spared, Quiets DEF WriteRead, Jump, Step, Unread, UnreadWith, WritePoints
<1>4. CASE WritePut(p)
  BY <1>1, <1>2, <1>4, Spared, Quiets DEF WritePut, Attempt, AttemptWith, WritePoints, Mine
<1>5. CASE BlockRead(p)
  <2> DEFINE w == [my[p] EXCEPT !.task = task]
  <2>1. w \in WorkType /\ w.exe = my[p].exe /\ w.seen = my[p].seen
    BY DEF WorkType
  <2>2. Step(p, "block_put", w) \/ Unread(p, End(p))
    BY <1>5 DEF BlockRead
  <2> HIDE DEF w
  <2>3. QED
    BY <2>1, <2>2, Looks, Learns, AtHand, Quiets, EndQuiet
<1>6. CASE BlockPut(p)
  BY <1>6, Drifts, Spared, Quiets, EndQuiet DEF BlockPut, Attempt, AttemptWith
<1>7. QED
  BY <1>3, <1>4, <1>5, <1>6 DEF Records

LEMMA LaunchTells ==
  ASSUME Typed, NEW p \in Proc, Held(p), Launch(p)
  PROVE  Tells(p)
<1> USE DEF Held
<1>1. CASE WorkerBoot(p)
  <2> DEFINE w == [my[p] EXCEPT !.cmd = cmd[First]]
  <2>1. w \in WorkType /\ w.exe = my[p].exe /\ w.seen = my[p].seen
    BY LifecycleAssumption DEF WorkType, Typed, StoresTyped
  <2>2. Step(p, "reserve", w) \/ Jump(p, "done") \/ Unread(p, "done")
    BY <1>1 DEF WorkerBoot
  <2> HIDE DEF w
  <2>3. QED
    BY <2>1, <2>2, Looks, Learns, AtHand, Quiets
<1>2. CASE Reserve(p)
  BY <1>2, Looks, Quiets DEF Reserve
<1>3. CASE ReservePut(p)
  <2>1. [NewExecution EXCEPT !.status = "reserved"].evidence = NoEvidence
    BY DEF NewExecution
  <2>2. QED
    BY <1>3, <2>1, Drifts, Spared, Quiets DEF ReservePut, Attempt, AttemptWith, Mine
<1>4. CASE GateEntry(p)
  <2> DEFINE w == [my[p] EXCEPT !.exe = exe[my[p].c], !.task = task]
  <2>1. w \in WorkType /\ w.exe = exe[my[p].c] /\ w.seen = my[p].seen
    BY ZenonT(60) DEF WorkType
  <2>2. Step(p, "lease", w) \/ Step(p, "claim", w) \/ Jump(p, "handler") \/ Unread(p, "handler")
    BY <1>4 DEF GateEntry, Mine
  <2> HIDE DEF w
  <2>3. QED
    BY <2>1, <2>2, Looks, Learns, AtHand, Quiets
<1>5. CASE AcquireLease(p)
  <2> DEFINE r == [NoLease EXCEPT !.of = my[p].c, !.token = p, !.active = TRUE]
  <2>1. r.of = my[p].c
    BY DEF NoLease
  <2>2. PutLease(r) => Spares(p)
    BY <1>5, <2>1 DEF AcquireLease, PutLease, Spares
  <2>3. \/ Jump(p, "handler")
        \/ (PutLease(r) \/ Untouched) /\ (GoWith(p, "claim", my[p]) \/ GoWith(p, "handler", my[p]))
    BY <1>5 DEF AcquireLease, Attempt, AttemptWith, Mine
  <2> HIDE DEF r
  <2>4. QED
    BY <2>2, <2>3, Looks, Drifts, Spared, Quiets
<1>6. CASE AcquireRoot(p)
  <2> DEFINE r == [NoRoot EXCEPT !.owner = my[p].c, !.token = p, !.active = TRUE]
  <2>1. r.owner = my[p].c
    BY DEF NoRoot
  <2>2. PutRoot(r) => Spares(p)
    BY <1>6, <2>1 DEF AcquireRoot, PutRoot, Spares
  <2>3. \/ Jump(p, "drop_lease")
        \/ (PutRoot(r) \/ Untouched) /\ (GoWith(p, "gate_task", my[p]) \/ GoWith(p, "handler", my[p]))
    BY <1>6 DEF AcquireRoot, Attempt, AttemptWith, Mine
  <2> HIDE DEF r
  <2>4. QED
    BY <2>2, <2>3, Looks, Drifts, Spared, Quiets
<1>7. CASE GateTask(p)
  BY <1>7, Looks, Quiets DEF GateTask
<1>8. CASE GateTaskPut(p)
  BY <1>8, Drifts, Spared, Quiets DEF GateTaskPut, Attempt, AttemptWith
<1>9. CASE GateExecPut(p)
  <2> DEFINE e == [my[p].exe EXCEPT !.status = "running", !.lease = IF Write THEN p ELSE NoProc]
             w == [my[p] EXCEPT !.out = [my[p].cmd EXCEPT !.status = "running"], !.next = "prepare",
                                !.onError = "close", !.verdict = "interrupted", !.raised = TRUE]
  <2>1. my[p].exe \in ExecutionType /\ my[p].cmd \in CommandType
    BY DEF WorkType
  <2>2. e.evidence = my[p].exe.evidence
    BY <2>1 DEF ExecutionType
  <2>3. [my[p].cmd EXCEPT !.status = "running"] \in CommandType
    BY <2>1 DEF CommandType
  <2>4. "prepare" \in Points /\ "close" \in Points /\ "interrupted" \in Terminal
    BY DEF Points, TurnPoints, Terminal
  <2>5. w \in WorkType /\ w.exe = my[p].exe /\ w.seen = my[p].seen
    BY ZenonT(60), <2>3, <2>4 DEF WorkType
  <2>6. (PutExe(my[p].c, e) \/ Untouched) /\ (GoWith(p, "write", w) \/ GoWith(p, "undo_exec", w))
    BY <1>9 DEF GateExecPut, AttemptWith, Mine
  <2> HIDE DEF e, w
  <2>7. Spares(p)
    BY <2>2, <2>6, Spared
  <2>8. QED
    BY <2>5, <2>6, <2>7, Hush, AtHand, Quiets
<1>10. CASE UndoExec(p)
  BY <1>10, Looks, Drifts, Spared, Quiets DEF UndoExec, Attempt, AttemptWith, Mine
<1>11. CASE UndoTask(p)
  BY <1>11, Looks, Drifts, Spared, Quiets DEF UndoTask, Attempt, AttemptWith, Mine
<1>12. CASE UndoClaim(p)
  BY <1>12, Looks, Drifts, Spared, Quiets DEF UndoClaim, Attempt, AttemptWith, Mine
<1>13. CASE DropLease(p)
  BY <1>13, Looks, Drifts, Spared, Quiets DEF DropLease, Attempt, AttemptWith, Mine
<1>14. QED
  BY <1>1, <1>2, <1>3, <1>4, <1>5, <1>6, <1>7, <1>8, <1>9, <1>10, <1>11, <1>12, <1>13 DEF Launch

(* Points at which a call of terminalize_execution is carried on.          *)
LEMMA OnwardTells ==
  ASSUME Typed, NEW p \in Proc, my[p].c \in Command, NEW w \in WorkType, NEW l,
         \/ l \in TurnPoints /\ pc[p] \in TurnPoints
         \/ l \in {"term", "persist", "persist_put", "retain", "retain_put", "clean_put"}
            /\ pc[p] \in TurnPoints \cup WindPoints,
         GoWith(p, l, w), Spares(p), w.freed = my[p].freed,
         w.exe.evidence \in Shown(p) \/ Merges(p, w.exe.evidence), w.seen.evidence \in Shown(p)
  PROVE  Tells(p)
<1>1. /\ l \in KeptPoints \ FreeingPoints /\ pc[p] # "recover_lease"
      /\ l \notin ToldPoints \cup {"fix_task_view", "fix_audit", "bind", "handoff", "task", "clean"}
  BY DEF KeptPoints, Points, FreeingPoints, WindPoints, ToldPoints, TurnPoints, TerminalizePoints, CleanupPoints
<1>2. l \in UnfreedPoints => pc[p] \in UnfreedPoints \cup WritePoints
  BY DEF UnfreedPoints, TurnPoints, WindPoints, TerminalizePoints, CleanupPoints
<1>3. l \in WindPoints => pc[p] \in TurnPoints \cup WindPoints
  BY DEF TurnPoints, WindPoints, TerminalizePoints, CleanupPoints
<1>4. Says(p, l, w)
  BY Zenon, <1>1, <1>2, <1>3 DEF Says
<1>5. QED
  BY <1>1, <1>4, Tell

LEMMA TouchTells ==
  ASSUME Typed, NEW p \in Proc, Held(p), pc[p] \in TurnPoints, NEW l \in TurnPoints,
         Touches(p, l) \/ Step(p, l, [my[p] EXCEPT !.exe = exe[Mine(p)]])
  PROVE  Tells(p)
<1> DEFINE w == [my[p] EXCEPT !.exe = exe[my[p].c]]
<1>1. w \in WorkType /\ w.exe = exe[my[p].c] /\ w.seen = my[p].seen /\ w.freed = my[p].freed
  BY DEF Held, WorkType
<1>2. Step(p, l, w) \/ Jump(p, "close") \/ Unread(p, "close")
  BY DEF Touches, Mine
<1> HIDE DEF w
<1>3. "close" \in TurnPoints /\ my[p].c \in Command
  BY DEF TurnPoints, Held
<1>4. CASE Step(p, l, w)
  BY <1>1, <1>3, <1>4, OnwardTells, Spared, AtHand DEF Step
<1>5. CASE Jump(p, "close") \/ Unread(p, "close")
  BY <1>3, <1>5, OnwardTells, Spared, AtHand DEF Jump, Step, Unread, UnreadWith
<1>6. QED
  BY <1>2, <1>4, <1>5

LEMMA TouchedTells ==
  ASSUME Typed, NEW p \in Proc, Held(p), pc[p] \in TurnPoints, NEW l \in TurnPoints,
         NEW e, e.evidence = my[p].exe.evidence, PutTouched(p, e, l)
  PROVE  Tells(p)
<1>1. "close" \in TurnPoints /\ my[p].c \in Command
  BY DEF TurnPoints, Held
<1>2. QED
  BY <1>1, OnwardTells, Spared, AtHand DEF PutTouched, Attempt, AttemptWith, Mine

LEMMA TurnTells ==
  ASSUME Typed, NEW p \in Proc, Held(p), Turn(p)
  PROVE  Tells(p)
<1> USE DEF Held
<1>a. {"prepare", "evidence", "evidence_put", "link", "link_put", "link_lease", "turn", "beat_put", "last", "last_put",
       "close"} \subseteq TurnPoints /\ my[p].exe \in ExecutionType
  BY DEF TurnPoints, WorkType
<1>1. CASE Prepare(p)
  <2> DEFINE w == [my[p] EXCEPT !.next = "finish", !.onError = "handler"]
  <2>1. "finish" \in Points /\ "handler" \in Points
    BY DEF Points, ReportPoints
  <2>2. w \in WorkType /\ w.exe = my[p].exe /\ w.seen = my[p].seen /\ w.freed = my[p].freed
    BY <2>1 DEF WorkType
  <2>3. Untouched /\ (GoWith(p, "evidence", w) \/ GoWith(p, "term", w)) /\ pc[p] = "prepare"
    BY <1>1 DEF Prepare
  <2> HIDE DEF w
  <2>4. QED
    BY <1>a, <2>2, <2>3, OnwardTells, Spared, AtHand
<1>2. CASE RecordProvider(p)
  BY <1>a, <1>2, TouchTells DEF RecordProvider
<1>3. CASE RecordProviderPut(p)
  <2> DEFINE e == [my[p].exe EXCEPT !.prov = p]
  <2>1. e.evidence = my[p].exe.evidence
    BY <1>a DEF ExecutionType
  <2>2. pc[p] \in TurnPoints /\ PutTouched(p, e, "link")
    BY <1>a, <1>3 DEF RecordProviderPut
  <2> HIDE DEF e
  <2>3. QED
    BY <1>a, <2>1, <2>2, TouchedTells
<1>4. CASE LinkSession(p)
  <2>1. pc[p] \in TurnPoints /\ (Step(p, "link_put", [my[p] EXCEPT !.exe = exe[Mine(p)]]) \/ Unread(p, "close"))
    BY <1>a, <1>4 DEF LinkSession
  <2>2. QED
    BY <1>a, <2>1, TouchTells DEF Touches
<1>5. CASE LinkSessionPut(p)
  <2> DEFINE e == [my[p].exe EXCEPT !.session = TRUE]
  <2>1. e.evidence = my[p].exe.evidence
    BY <1>a DEF ExecutionType
  <2>2. pc[p] \in TurnPoints /\ (PutTouched(p, e, "link_lease") \/ PutTouched(p, e, "turn"))
    BY <1>a, <1>5 DEF LinkSessionPut
  <2> HIDE DEF e
  <2>3. QED
    BY <1>a, <2>1, <2>2, TouchedTells
<1>6. CASE LinkLease(p)
  <2> DEFINE r == [lease EXCEPT !.linked = TRUE]
  <2>1. r.of = lease.of /\ r.active = lease.active
    BY DEF LeaseType
  <2>2. /\ pc[p] = "link_lease" /\ (PutLease(r) \/ Untouched)
        /\ GoWith(p, "turn", my[p]) \/ GoWith(p, "close", my[p])
    BY <1>6 DEF LinkLease, Attempt, AttemptWith, Jump, Step
  <2> HIDE DEF r
  <2>3. QED
    BY <1>a, <2>1, <2>2, OnwardTells, Spared, AtHand
<1>7. CASE Heartbeat(p)
  BY <1>a, <1>7, TouchTells DEF Heartbeat
<1>8. CASE HeartbeatPut(p)
  BY <1>a, <1>8, TouchedTells DEF HeartbeatPut
<1>9. CASE TurnEnds(p)
  <2>1. CASE Jump(p, "close")
    BY <1>a, <1>9, <2>1, OnwardTells, Spared, AtHand DEF TurnEnds, Jump, Step
  <2>2. ASSUME NEW v \in Verdict, Step(p, "last", [my[p] EXCEPT !.verdict = v, !.raised = FALSE])
        PROVE  Tells(p)
    <3> DEFINE w == [my[p] EXCEPT !.verdict = v, !.raised = FALSE]
    <3>1. v \in Terminal
      BY LifecycleAssumption DEF Terminal
    <3>2. w \in WorkType /\ w.exe = my[p].exe /\ w.seen = my[p].seen /\ w.freed = my[p].freed
      BY ZenonT(60), <3>1 DEF WorkType
    <3>3. pc[p] = "turn" /\ GoWith(p, "last", w) /\ Untouched
      BY <1>9, <2>2 DEF TurnEnds, Step
    <3> HIDE DEF w
    <3>4. QED
      BY <1>a, <3>2, <3>3, OnwardTells, Spared, AtHand
  <2>3. QED
    BY <1>9, <2>1, <2>2 DEF TurnEnds
<1>10. CASE Close(p)
  <2>1. pc[p] = "close" /\ Untouched
    BY Zenon, <1>10 DEF Close
  <2>2. CASE GoWith(p, "handler", my[p])
    BY <2>1, <2>2, Drifts, Spared, Quiets
  <2>3. ASSUME NEW v \in {my[p].verdict} \cup (IF Write /\ my[p].verdict = "completed" THEN {"failed"} ELSE {}),
               GoWith(p, "term", [my[p] EXCEPT !.verdict = v, !.next = "finish", !.onError = "handler"])
        PROVE  Tells(p)
    <3> DEFINE w == [my[p] EXCEPT !.verdict = v, !.next = "finish", !.onError = "handler"]
    <3>1. "finish" \in Points /\ "handler" \in Points
      BY DEF Points, ReportPoints
    <3>2. v \in Terminal \cup {"none"}
      BY DEF WorkType, Terminal
    <3>3. w \in WorkType /\ w.exe = my[p].exe /\ w.seen = my[p].seen /\ w.freed = my[p].freed
      BY ZenonT(60), <3>1, <3>2 DEF WorkType
    <3>4. GoWith(p, "term", w)
      BY <2>3
    <3> HIDE DEF w
    <3>5. QED
      BY <1>a, <2>1, <3>3, <3>4, OnwardTells, Spared, AtHand
  <2>4. QED
    BY Zenon, <1>10, <2>2, <2>3 DEF Close
<1>11. QED
  BY <1>1, <1>2, <1>3, <1>4, <1>5, <1>6, <1>7, <1>8, <1>9, <1>10 DEF Turn

(* A point of the wind-up that says more than OnwardTells covers.          *)
LEMMA SpokenTells ==
  ASSUME Typed, NEW p \in Proc, my[p].c \in Command, NEW w \in WorkType, NEW l \in KeptPoints \ FreeingPoints,
         GoWith(p, l, w), Says(p, l, w), Spares(p), pc[p] \in WindPoints, pc[p] # "free_claim"
  PROVE  Tells(p)
<1>1. pc[p] # "recover_lease"
  BY DEF WindPoints, TerminalizePoints, CleanupPoints
<1>2. QED
  BY <1>1, Tell

(* A record just read, with p's update folded in. *)
LEMMA MergeTells ==
  ASSUME Typed, NEW p \in Proc, Held(p), pc[p] \in MergePoints,
         NEW l \in {"retain_put", "audit_put", "clean_put"} \cup QuietPoints, NEW bad \in QuietPoints,
         l \notin QuietPoints => pc[p] \in WindPoints, l = "audit_put" => pc[p] = "audit",
         Update(p) \in Evidence, MergesInto(p, Update(p), l, bad)
  PROVE  Tells(p)
<1> DEFINE m == [exe[my[p].c] EXCEPT !.evidence = Merge(exe[my[p].c].evidence, Update(p))]
           w == [my[p] EXCEPT !.exe = m]
<1> USE DEF Held
<1>1. m \in ExecutionType
  BY MergedFits
<1>2. m.evidence = Merge(exe[my[p].c].evidence, Update(p))
  BY DEF ExecutionType
<1>3. CASE Jump(p, bad) \/ Unread(p, bad)
  BY <1>3, Looks
<1>4. CASE Mergeable(exe[my[p].c].evidence, Update(p)) /\ Step(p, l, w)
  <2>1. Merges(p, m.evidence)
    BY <1>2, <1>4 DEF Merges
  <2> HIDE DEF m
  <2>2. /\ w \in WorkType /\ w.exe = m /\ w.seen = my[p].seen /\ w.freed = my[p].freed
        /\ w.verdict = my[p].verdict
    BY <1>1 DEF WorkType
  <2>3. GoWith(p, l, w) /\ Untouched
    BY <1>4 DEF Step
  <2> HIDE DEF w
  <2>4. CASE l \in QuietPoints
    BY <2>1, <2>2, <2>3, <2>4, Hush, Spared, AtHand
  <2>5. CASE l \in {"retain_put", "clean_put"}
    BY <2>1, <2>2, <2>3, <2>4, <2>5, OnwardTells, Spared, AtHand
  <2>6. CASE l = "audit_put" /\ pc[p] = "audit"
    <3>1. l \in KeptPoints \ FreeingPoints /\ pc[p] \in WindPoints
      BY <2>6 DEF KeptPoints, Points, FreeingPoints, WindPoints, CleanupPoints
    <3>2. Says(p, l, w)
      BY <2>1, <2>2, <2>6, <3>1, AtHand DEF Says, ToldPoints, UnfreedPoints, TurnPoints
    <3>3. QED
      BY <2>2, <2>3, <2>6, <3>1, <3>2, SpokenTells, Spared
  <2>7. QED
    BY <2>4, <2>5, <2>6
<1>5. QED
  BY <1>3, <1>4 DEF MergesInto, Mine

LEMMA TerminalizeTells ==
  ASSUME Typed, NEW p \in Proc, Held(p), Terminalize(p)
  PROVE  Tells(p)
<1> USE DEF Held
<1>a. /\ {"term", "persist", "persist_put", "bind", "handoff", "task", "views", "retain", "retain_put", "audit",
          "audit_put", "free_lease", "free_claim", "clean", "clean_put"} = WindPoints
      /\ {"bind", "handoff", "task", "views", "audit"} \subseteq KeptPoints \ FreeingPoints
      /\ my[p].exe \in ExecutionType
  BY DEF WindPoints, TerminalizePoints, CleanupPoints, KeptPoints, Points, FreeingPoints, WorkType
<1>b. pc[p] \in WindPoints =>
        /\ {my[p].next, my[p].onError} \subseteq QuietPoints
        /\ my[p].verdict \in Terminal
  BY Quiets, EndQuiet DEF Fits, ExitFits, DataFits, ExitPoints, CallPoints, WindPoints
<1>1. CASE TerminalizeEntry(p)
  <2> DEFINE w == [my[p] EXCEPT !.exe = exe[my[p].c]]
  <2>1. /\ w \in WorkType /\ w.exe = exe[my[p].c] /\ w.seen = my[p].seen /\ w.freed = my[p].freed
        /\ w.verdict = my[p].verdict /\ w.next = my[p].next /\ w.onError = my[p].onError /\ w.c = my[p].c
    BY DEF WorkType
  <2>2. /\ pc[p] = "term"
        /\ \/ Jump(p, my[p].onError) \/ Step(p, my[p].next, w) \/ Step(p, "persist", w)
           \/ exe[my[p].c].status = my[p].verdict /\ Step(p, "bind", w)
           \/ Unread(p, my[p].onError)
    BY <1>1, <2>1 DEF TerminalizeEntry, Mine
  <2> HIDE DEF w
  <2>3. CASE Jump(p, my[p].onError) \/ Unread(p, my[p].onError)
    BY <1>a, <1>b, <2>2, <2>3, Looks
  <2>4. CASE Step(p, my[p].next, w)
    BY <1>a, <1>b, <2>1, <2>2, <2>4, Learns, AtHand
  <2>5. CASE Step(p, "persist", w)
    BY <1>a, <2>1, <2>2, <2>5, OnwardTells, Spared, AtHand DEF Step
  <2>6. CASE exe[my[p].c].status = my[p].verdict /\ Step(p, "bind", w)
    <3>1. Says(p, "bind", w)
      BY <1>a, <2>1, <2>2, <2>6, AtHand DEF Says, UnfreedPoints, TurnPoints, ToldPoints
    <3>2. QED
      BY <1>a, <2>1, <2>2, <2>6, <3>1, SpokenTells, Spared DEF Step
  <2>7. QED
    BY <2>2, <2>3, <2>4, <2>5, <2>6
<1>2. CASE Persist(p)
  <2> DEFINE w == [my[p] EXCEPT !.done = {}]
             wx == [w EXCEPT !.exe = exe[my[p].c]]
  <2>1. w \in WorkType /\ w.exe = my[p].exe /\ w.seen = my[p].seen /\ w.freed = my[p].freed /\ w.c = my[p].c
    BY DEF WorkType
  <2>2. wx \in WorkType /\ wx.exe = exe[my[p].c] /\ wx.seen = my[p].seen /\ wx.freed = my[p].freed
    BY ZenonT(60), <2>1 DEF WorkType
  <2>3. pc[p] = "persist" /\ (Step(p, "persist_put", wx) \/ Step(p, "retain", w) \/ Unread(p, "retain"))
    BY <1>2, <2>1 DEF Persist
  <2> HIDE DEF w, wx
  <2>4. QED
    BY <1>a, <2>1, <2>2, <2>3, OnwardTells, Spared, AtHand DEF Step, Unread, UnreadWith
<1>3. CASE PersistPut(p)
  <2> DEFINE e == [my[p].exe EXCEPT !.status = my[p].verdict, !.ended = p]
             w == [my[p] EXCEPT !.exe = e]
  <2>1. pc[p] = "persist_put"
    BY <1>3 DEF PersistPut
  <2>2. e \in ExecutionType /\ e.evidence = my[p].exe.evidence /\ e.status = my[p].verdict
    BY <1>a, <1>b, <2>1 DEF ExecutionType
  <2>3. (PutExe(my[p].c, e) \/ Untouched) /\ (GoWith(p, "bind", w) \/ GoWith(p, "retain", w))
    BY <1>3 DEF PersistPut, AttemptWith, Mine
  <2> HIDE DEF e
  <2>4. w \in WorkType /\ w.exe = e /\ w.seen = my[p].seen /\ w.freed = my[p].freed /\ w.verdict = my[p].verdict
    BY <2>2 DEF WorkType
  <2> HIDE DEF w
  <2>5. Spares(p)
    BY <2>2, <2>3, Spared
  <2>6. Says(p, "bind", w)
    BY <1>a, <2>1, <2>2, <2>4, AtHand DEF Says, UnfreedPoints, TurnPoints, ToldPoints
  <2>7. CASE GoWith(p, "retain", w)
    BY <1>a, <2>1, <2>2, <2>4, <2>5, <2>7, OnwardTells, AtHand
  <2>8. CASE GoWith(p, "bind", w)
    BY <1>a, <2>1, <2>4, <2>5, <2>6, <2>8, SpokenTells
  <2>9. QED
    BY <2>3, <2>7, <2>8
<1>4. CASE Bind(p)
  <2> DEFINE w == [my[p] EXCEPT !.done = {"execution"}, !.task = task]
             b == VerdictOf(my[p].c, my[p].exe)
  <2>1. /\ w \in WorkType /\ w.exe = my[p].exe /\ w.seen = my[p].seen /\ w.freed = my[p].freed
        /\ w.verdict = my[p].verdict /\ w.c = my[p].c
    BY ZenonT(60) DEF WorkType, AllParts
  <2>2. pc[p] = "bind" /\ (PutRoot(Bound(b)) \/ Untouched) /\ (GoWith(p, "handoff", w) \/ GoWith(p, "retain", w))
    BY <1>4, <2>1 DEF Bind, AttemptWith, Step
  <2>3. Bound(b).owner = root.owner /\ Bound(b).active = root.active
    BY DEF Bound, RootType
  <2> HIDE DEF w, b
  <2>4. Spares(p)
    BY <2>2, <2>3, Spared
  <2>5. Says(p, "handoff", w)
    BY <1>a, <2>1, <2>2, AtHand DEF Says, UnfreedPoints, TurnPoints, ToldPoints
  <2>6. CASE GoWith(p, "retain", w)
    BY <1>a, <2>1, <2>2, <2>4, <2>6, OnwardTells, AtHand
  <2>7. CASE GoWith(p, "handoff", w)
    BY <1>a, <2>1, <2>2, <2>4, <2>5, <2>7, SpokenTells
  <2>8. QED
    BY <2>2, <2>6, <2>7
<1>5. CASE WriteHandoff(p)
  <2>1. /\ pc[p] = "handoff" /\ (PutHandoff(VerdictOf(my[p].c, my[p].exe)) \/ Untouched)
        /\ GoWith(p, "task", my[p]) \/ GoWith(p, "retain", my[p])
    BY <1>5 DEF WriteHandoff, Attempt, AttemptWith, Jump, Step, Mine
  <2>2. Says(p, "task", my[p])
    BY <1>a, <2>1, AtHand DEF Says, UnfreedPoints, TurnPoints, ToldPoints
  <2>3. CASE GoWith(p, "retain", my[p])
    BY <1>a, <2>1, <2>3, OnwardTells, Spared, AtHand
  <2>4. CASE GoWith(p, "task", my[p])
    BY <1>a, <2>1, <2>2, <2>4, SpokenTells, Spared
  <2>5. QED
    BY <2>1, <2>3, <2>4
<1>6. CASE WriteTask(p)
  <2> DEFINE w == [my[p] EXCEPT !.done = {"execution", "handoff"}]
             t == TerminalTask(w.task, w.c, w.exe)
  <2>1. /\ w \in WorkType /\ w.exe = my[p].exe /\ w.seen = my[p].seen /\ w.freed = my[p].freed
        /\ w.verdict = my[p].verdict
    BY DEF WorkType, AllParts
  <2>2. pc[p] = "task" /\ (PutTask(t) \/ Untouched) /\ (GoWith(p, "views", w) \/ GoWith(p, "retain", w))
    BY <1>6 DEF WriteTask, AttemptWith, Step
  <2> HIDE DEF w, t
  <2>3. Says(p, "views", w)
    BY <1>a, <2>1, <2>2, AtHand DEF Says, UnfreedPoints, TurnPoints, ToldPoints
  <2>4. CASE GoWith(p, "retain", w)
    BY <1>a, <2>1, <2>2, <2>4, OnwardTells, Spared, AtHand
  <2>5. CASE GoWith(p, "views", w)
    BY <1>a, <2>1, <2>2, <2>3, <2>5, SpokenTells, Spared
  <2>6. QED
    BY <2>2, <2>4, <2>5
<1>7. CASE VerifyViews(p)
  <2> DEFINE w == [my[p] EXCEPT !.done = AllParts]
             r == [root EXCEPT !.strikes = NoRoot.strikes]
  <2>1. /\ w \in WorkType /\ w.exe = my[p].exe /\ w.seen = my[p].seen /\ w.freed = my[p].freed
        /\ w.verdict = my[p].verdict
    BY DEF WorkType
  <2>2. pc[p] = "views" /\ (PutRoot(r) \/ Untouched) /\ (GoWith(p, "audit", w) \/ GoWith(p, "retain", w))
    BY <1>7 DEF VerifyViews, AttemptWith, Step
  <2>3. r.owner = root.owner /\ r.active = root.active
    BY DEF RootType
  <2> HIDE DEF w, r
  <2>4. Spares(p)
    BY <2>2, <2>3, Spared
  <2>5. Says(p, "audit", w)
    BY <1>a, <2>1, <2>2, AtHand DEF Says, UnfreedPoints, TurnPoints, ToldPoints
  <2>6. CASE GoWith(p, "retain", w)
    BY <1>a, <2>1, <2>2, <2>4, <2>6, OnwardTells, AtHand
  <2>7. CASE GoWith(p, "audit", w)
    BY <1>a, <2>1, <2>2, <2>4, <2>5, <2>7, SpokenTells
  <2>8. QED
    BY <2>2, <2>6, <2>7
<1>8. CASE Retain(p)
  <2>1. pc[p] = "retain" /\ MergesInto(p, Update(p), "retain_put", my[p].onError)
    BY <1>8 DEF Retain, Update
  <2>2. Update(p) \in Evidence
    BY <1>a, <1>b, <2>1, UpdatesFit DEF Update, WorkType
  <2>3. pc[p] \in MergePoints
    BY <2>1 DEF MergePoints
  <2>4. QED
    BY <1>a, <1>b, <2>1, <2>2, <2>3, MergeTells
<1>9. CASE RetainPut(p)
  <2>1. pc[p] = "retain_put" /\ (PutExe(my[p].c, my[p].exe) \/ Untouched) /\ GoWith(p, my[p].onError, my[p])
    BY <1>9 DEF RetainPut, Attempt, AttemptWith, Mine
  <2>2. QED
    BY <1>a, <1>b, <2>1, Drifts, Spared
<1>10. QED
  BY <1>1, <1>2, <1>3, <1>4, <1>5, <1>6, <1>7, <1>8, <1>9 DEF Terminalize

LEMMA CleanupTells ==
  ASSUME Typed, NEW p \in Proc, Held(p), Cleanup(p)
  PROVE  Tells(p)
<1> USE DEF Held
<1>a. /\ {"audit", "audit_put", "free_lease", "free_claim", "clean", "clean_put"} \subseteq WindPoints
      /\ {"free_lease", "clean", "audit_put"} \subseteq KeptPoints \ FreeingPoints
      /\ "free_claim" \in KeptPoints
      /\ my[p].exe \in ExecutionType
  BY DEF WindPoints, TerminalizePoints, CleanupPoints, KeptPoints, Points, FreeingPoints, WorkType
<1>b. pc[p] \in WindPoints =>
        /\ {my[p].next, my[p].onError} \subseteq QuietPoints
        /\ my[p].verdict \in Terminal
  BY Quiets, EndQuiet DEF Fits, ExitFits, DataFits, ExitPoints, CallPoints, WindPoints
<1>1. CASE Audit(p)
  <2>1. pc[p] = "audit" /\ MergesInto(p, Update(p), "audit_put", my[p].onError)
    BY <1>1 DEF Audit, Update
  <2>2. Update(p) \in Evidence
    BY <1>a, <1>b, <2>1, UpdatesFit DEF Update, AuditUpdate, WorkType
  <2>3. pc[p] \in MergePoints
    BY <2>1 DEF MergePoints
  <2>4. QED
    BY <1>a, <1>b, <2>1, <2>2, <2>3, MergeTells
<1>2. CASE AuditPut(p)
  <2> DEFINE held == Write /\ my[p].exe.evidence.writer # "released" /\ ~my[p].freed
  <2>1. /\ pc[p] = "audit_put" /\ (PutExe(my[p].c, my[p].exe) \/ Untouched)
        /\ \/ GoWith(p, my[p].next, my[p])
           \/ held /\ GoWith(p, "free_lease", my[p])
           \/ ~held /\ GoWith(p, "free_claim", my[p])
    BY <1>2 DEF AuditPut, Attempt, AttemptWith, Mine
  <2>2. Spares(p)
    BY <2>1, Spared
  <2>3. CASE GoWith(p, my[p].next, my[p])
    BY <1>a, <1>b, <2>1, <2>2, <2>3, Drifts
  <2>4. CASE GoWith(p, "free_lease", my[p])
    <3>1. Says(p, "free_lease", my[p])
      BY <1>a, <2>1, AtHand DEF Says, UnfreedPoints, TurnPoints, ToldPoints
    <3>2. QED
      BY <1>a, <2>1, <2>2, <2>4, <3>1, SpokenTells
  <2>5. CASE ~held /\ GoWith(p, "free_claim", my[p])
    <3>1. Says(p, "free_claim", my[p])
      BY <1>a, <2>1, AtHand DEF Says, UnfreedPoints, TurnPoints, ToldPoints
    <3>2. pc'[p] = "free_claim"
      BY <2>5 DEF GoWith, Typed
    <3>3. Frees(p)
      BY <2>1, <2>5, <3>2 DEF Frees, ReleasePoints
    <3>4. QED
      BY <1>a, <2>2, <2>5, <3>1, <3>3, Speaks
  <2>6. QED
    BY <2>1, <2>3, <2>4, <2>5
<1>3. CASE FreeLease(p)
  <2> DEFINE w == [my[p] EXCEPT !.clean = Cleaned(my[p].verdict, "failed", "not_attempted")]
  <2>1. pc[p] = "free_lease"
    BY <1>3 DEF FreeLease
  <2>2. Cleaned(my[p].verdict, "failed", "not_attempted") \in Evidence
    BY <1>a, <1>b, <2>1, UpdatesFit
  <2>3. /\ w \in WorkType /\ w.exe = my[p].exe /\ w.seen = my[p].seen /\ w.freed = my[p].freed
        /\ w.verdict = my[p].verdict /\ w.clean = Cleaned(my[p].verdict, "failed", "not_attempted")
    BY <2>2 DEF WorkType
  <2>4. \/ PutLease(LeaseReleased) /\ GoWith(p, "free_claim", my[p])
        \/ (PutLease(LeaseReleased) \/ Untouched) /\ GoWith(p, "clean", w)
    BY <1>3 DEF FreeLease, Step
  <2> HIDE DEF w
  <2>5. Spares(p)
    BY <2>4, Spared
  <2>6. CASE PutLease(LeaseReleased) /\ GoWith(p, "free_claim", my[p])
    <3>1. Says(p, "free_claim", my[p])
      BY <1>a, <2>1, AtHand DEF Says, UnfreedPoints, TurnPoints, ToldPoints
    <3>2. pc'[p] = "free_claim"
      BY <2>6 DEF GoWith, Typed
    <3>3. lease'.active = FALSE
      BY <2>6 DEF PutLease, LeaseReleased, LeaseType
    <3>4. Frees(p)
      BY <2>1, <3>2, <3>3 DEF Frees, ReleasePoints, Leased
    <3>5. QED
      BY <1>a, <2>5, <2>6, <3>1, <3>4, Speaks
  <2>7. CASE GoWith(p, "clean", w)
    <3>1. Says(p, "clean", w)
      BY <1>a, <2>1, <2>3, AtHand DEF Says, UnfreedPoints, TurnPoints, ToldPoints
    <3>2. QED
      BY <1>a, <2>1, <2>3, <2>5, <2>7, <3>1, SpokenTells
  <2>8. QED
    BY <2>4, <2>6, <2>7
<1>4. CASE FreeClaim(p)
  <2> DEFINE w(claim) == [my[p] EXCEPT !.clean = Cleaned(my[p].verdict, WriterResult(p), claim)]
  <2>1. pc[p] = "free_claim"
    BY Zenon, <1>4 DEF FreeClaim
  <2>2. \E claim \in {"released", "not_released", "failed"} :
          /\ GoWith(p, "clean", w(claim)) /\ (PutRoot(RootReleased) \/ Untouched)
          /\ claim = "released" => PutRoot(RootReleased)
    BY <1>4 DEF FreeClaim
  <2> HIDE DEF w
  <2>3. PICK claim \in {"released", "not_released", "failed"} :
          /\ GoWith(p, "clean", w(claim)) /\ (PutRoot(RootReleased) \/ Untouched)
          /\ claim = "released" => PutRoot(RootReleased)
    BY <2>2
  <2> USE DEF w
  <2>4. Cleaned(my[p].verdict, WriterResult(p), claim) \in Evidence
    BY <1>a, <1>b, <2>1, UpdatesFit DEF WriterResult
  <2>5. /\ w(claim) \in WorkType /\ w(claim).exe = my[p].exe /\ w(claim).seen = my[p].seen
        /\ w(claim).freed = my[p].freed /\ w(claim).verdict = my[p].verdict
        /\ w(claim).clean = Cleaned(my[p].verdict, WriterResult(p), claim)
    BY <2>4 DEF WorkType
  <2> DEFINE y == w(claim)
  <2>6. y \in WorkType /\ GoWith(p, "clean", y)
    BY <2>3, <2>5
  <2>7. Says(p, "clean", y)
    BY <1>a, <2>1, <2>5, AtHand DEF Says, UnfreedPoints, TurnPoints, ToldPoints
  <2>8. Spares(p)
    BY <2>3, Spared
  <2>9. Cleaned(my[p].verdict, WriterResult(p), claim).claim = claim
    BY DEF Cleaned
  <2>10. pc'[p] = "clean" /\ my'[p].clean.claim = claim
    <3>1. pc'[p] = "clean" /\ my'[p] = Kept("clean", y)
      BY <2>6 DEF GoWith, Typed
    <3>2. Kept("clean", y).clean = y.clean
      BY <1>a, <2>6, KeptEchoes DEF Echoes
    <3>3. QED
      BY <2>5, <2>9, <3>1, <3>2
  <2> HIDE DEF w, y
  <2>11. RootReleased.active = FALSE
    BY DEF RootReleased, NoRoot, RootType
  <2>12. claim = "released" => ~(root'.active /\ root'.owner = my[p].c)
    BY <2>3, <2>11 DEF PutRoot
  <2>13. Frees(p)
    BY <2>1, <2>10, <2>12 DEF Frees, ReleasePoints
  <2>14. QED
    BY <1>a, <2>6, <2>7, <2>8, <2>13, Speaks
<1>5. CASE Clean(p)
  <2>1. pc[p] = "clean" /\ MergesInto(p, Update(p), "clean_put", my[p].onError)
    BY <1>5 DEF Clean, Update
  <2>2. Update(p) \in Evidence
    BY <2>1 DEF Update, WorkType
  <2>3. pc[p] \in MergePoints
    BY <2>1 DEF MergePoints
  <2>4. QED
    BY <1>a, <1>b, <2>1, <2>2, <2>3, MergeTells
<1>6. CASE CleanPut(p)
  <2>1. pc[p] = "clean_put" /\ (PutExe(my[p].c, my[p].exe) \/ Untouched) /\ GoWith(p, my[p].next, my[p])
    BY <1>6 DEF CleanPut, Attempt, AttemptWith, Mine
  <2>2. QED
    BY <1>a, <1>b, <2>1, Drifts, Spared
<1>7. QED
  BY <1>1, <1>2, <1>3, <1>4, <1>5, <1>6 DEF Cleanup

LEMMA ReportTells ==
  ASSUME Typed, NEW p \in Proc, Held(p), Report(p)
  PROVE  Tells(p)
<1> USE DEF Held
<1>a. my[p].cmd \in CommandType
  BY DEF WorkType
<1>1. CASE Finish(p)
  <2> DEFINE e == [NewExecution EXCEPT !.status = my[p].verdict, !.session = TRUE]
             r == EndedAs(my[p].cmd, e)
  <2>1. my[p].verdict \in Terminal \cup {"none"} /\ e.status = my[p].verdict /\ e.session = TRUE
    BY DEF WorkType, NewExecution
  <2> HIDE DEF e
  <2>2. r \in CommandType
    BY <1>a, <2>1 DEF EndedAs, Ended, CommandType, Terminal
  <2>3. Jump(p, "handler") \/ Conclude(p, r) \/ Unread(p, "handler")
    BY <1>1 DEF Finish, e
  <2> HIDE DEF r
  <2>4. QED
    BY <2>2, <2>3, Looks, ConclusionTells, Quiets
<1>2. CASE Handler(p)
  <2> DEFINE w == [my[p] EXCEPT !.cmd.status = "running", !.observed = TRUE]
             f == FailedWith(my[p].cmd, "error")
             r == EndedAs(my[p].cmd, exe[my[p].c])
  <2>1. [my[p].cmd EXCEPT !.status = "running"] \in CommandType
    BY <1>a DEF CommandType
  <2>2. w \in WorkType /\ w.exe = my[p].exe /\ w.seen = my[p].seen
    BY ZenonT(60), <2>1 DEF WorkType
  <2>3. f \in CommandType
    BY <1>a DEF FailedWith, Ended, CommandType
  <2>4. Settled(exe[my[p].c].status) => r \in CommandType
    BY <1>a DEF EndedAs, Ended, CommandType, ExecutionType, Settled, Terminal
  <2>5. \/ Settled(exe[my[p].c].status) /\ Conclude(p, r)
        \/ BlockThenFail(p, f) \/ Conclude(p, f) \/ Step(p, "reconcile", w) \/ UnreadWith(p, "block", Blocking(p, f))
    BY <1>2 DEF Handler, Mine
  <2> HIDE DEF w, f, r
  <2>6. QED
    BY <2>2, <2>3, <2>4, <2>5, Learns, AtHand, ConclusionTells, BlockingTells, Quiets
<1>3. QED
  BY <1>1, <1>2 DEF Report

LEMMA WatchTells ==
  ASSUME Typed, NEW p \in Proc, Held(p), Watch(p), ~Tick(p), ~(pc[p] = "spawn" /\ SpawnsWorker(p))
  PROVE  Tells(p)
<1> USE DEF Held
<1>a. my[p].cmd \in CommandType
  BY DEF WorkType
<1>b. FailedWith(my[p].cmd, "retry_refused") \in CommandType /\ FailedWith(my[p].cmd, "error") \in CommandType
  BY <1>a DEF FailedWith, Ended, CommandType
<1>1. CASE PrepareRetry(p)
  <2> DEFINE t == RetryReady(my[p].c)
             w == [my[p] EXCEPT !.task = t]
  <2>1. Prior[my[p].c] \in Command
    BY <1>1, LifecycleAssumption DEF PrepareRetry, Fits, DataFits
  <2>2. t \in HeldTask
    BY <2>1 DEF RetryReady, HeldTask, TaskType, TaskIn
  <2>3. \/ Jump(p, "take") \/ Step(p, "retry_put", w) \/ Unread(p, "retry_refused")
        \/ Conclude(p, FailedWith(my[p].cmd, "retry_refused"))
    BY <1>1 DEF PrepareRetry, Mine, Refuses
  <2> HIDE DEF t
  <2>4. w \in WorkType /\ w.exe = my[p].exe /\ w.seen = my[p].seen
    BY <2>2 DEF WorkType
  <2> HIDE DEF w
  <2>5. QED
    BY <1>b, <2>3, <2>4, Looks, Learns, AtHand, ConclusionTells, Quiets
<1>2. CASE PrepareRetryPut(p)
  BY <1>2, Drifts, Spared, Quiets DEF PrepareRetryPut, Attempt, AttemptWith
<1>3. CASE RetryRefused(p)
  BY <1>b, <1>3, ConclusionTells DEF RetryRefused, Refuses
<1>4. CASE Take(p)
  <2> DEFINE r == Claimed(my[p].cmd)
             l == IF Async THEN "spawn" ELSE "reserve"
             v == [my[p] EXCEPT !.cmd = r]
             w == Published(v, r, l, "idle")
  <2>1. Step(p, "write", w)
    BY <1>4 DEF Take, Publish, Published
  <2>2. r \in CommandType
    BY <1>a DEF Claimed, CommandType
  <2>3. l \in Points /\ "idle" \in Points
    BY DEF Points, WatchPoints, LaunchPoints
  <2> HIDE DEF r, l
  <2>4. v \in WorkType /\ v.exe = my[p].exe /\ v.seen = my[p].seen
    BY <2>2 DEF WorkType
  <2>5. w \in WorkType /\ w.exe = v.exe /\ w.seen = v.seen
    <3>1. w = Published(v, r, l, "idle")
      OBVIOUS
    <3> HIDE DEF v, w
    <3>2. QED
      BY <2>2, <2>3, <2>4, <3>1, PublishFits
  <2> HIDE DEF v, w
  <2>6. QED
    BY <2>1, <2>4, <2>5, Learns, AtHand, Quiets
<1>5. CASE Spawn(p)
  <2>1. Unread(p, "spawn_failed") \/ Jump(p, "spawn_failed")
    BY <1>5 DEF Spawn, SpawnsWorker, Mine
  <2>2. QED
    BY <2>1, Looks, Quiets
<1>6. CASE SpawnFailed(p)
  BY <1>b, <1>6, BlockingTells DEF SpawnFailed, SpawnFails
<1>7. QED
  BY <1>1, <1>2, <1>3, <1>4, <1>5, <1>6 DEF Watch

LEMMA MarkTells ==
  ASSUME Typed, NEW p \in Proc, Held(p), Mark(p)
  PROVE  Tells(p)
<1> USE DEF Held
<1>a. my[p].cmd \in CommandType /\ my[p].exe \in ExecutionType /\ my[p].seen \in ExecutionType
  BY DEF WorkType
<1>1. CASE AttentionStart(p)
  BY <1>1, Looks, Quiets, EndQuiet DEF AttentionStart
<1>2. CASE MarkRead(p)
  <2> DEFINE w == [my[p] EXCEPT !.exe = exe[my[p].c]]
             v == [my[p] EXCEPT !.exe = my[p].seen]
  <2>1. w \in WorkType /\ w.exe = exe[my[p].c] /\ w.seen = my[p].seen
    BY DEF WorkType
  <2>2. v \in WorkType /\ v.exe = my[p].seen /\ v.seen = my[p].seen
    BY <1>a DEF WorkType
  <2>3. \/ Step(p, "mark_put", w) \/ Jump(p, "mark_task") \/ Jump(p, "mark_cmd") \/ Unread(p, "mark_task")
        \/ UnreadWith(p, "mark_put", v)
    BY <1>2 DEF MarkRead, Mine
  <2> HIDE DEF w, v
  <2>4. QED
    BY <2>1, <2>2, <2>3, Looks, Learns, AtHand, Quiets
<1>3. CASE MarkPut(p)
  BY <1>3, Drifts, Spared, Quiets, EndQuiet DEF MarkPut, Attempt, AttemptWith, Mine
<1>4. CASE MarkTask(p)
  <2> DEFINE w == [my[p] EXCEPT !.task = task]
  <2>1. w \in WorkType /\ w.exe = my[p].exe /\ w.seen = my[p].seen
    BY DEF WorkType
  <2>2. Step(p, "mark_task_put", w) \/ Jump(p, "mark_cmd") \/ Unread(p, "mark_cmd")
    BY <1>4 DEF MarkTask
  <2> HIDE DEF w
  <2>3. QED
    BY <2>1, <2>2, Looks, Learns, AtHand, Quiets
<1>5. CASE MarkTaskPut(p)
  BY <1>5, Drifts, Spared, Quiets DEF MarkTaskPut, Attempt, AttemptWith
<1>6. CASE MarkCommand(p)
  <2> DEFINE r == Ended(my[p].cmd, "attention", "none", FALSE)
  <2>1. r \in CommandType
    BY <1>a DEF Ended, CommandType
  <2>2. Jump(p, End(p)) \/ Conclude(p, r)
    BY <1>6 DEF MarkCommand
  <2> HIDE DEF r
  <2>3. QED
    BY <2>1, <2>2, Looks, ConclusionTells, EndQuiet
<1>7. QED
  BY <1>1, <1>2, <1>3, <1>4, <1>5, <1>6 DEF Mark

LEMMA JudgeTells ==
  ASSUME Typed, NEW p \in Proc, Held(p), Judge(p)
  PROVE  Tells(p)
<1> USE DEF Held
<1>a. my[p].cmd \in CommandType /\ WriteAssumption
  BY WriteAssumption DEF WorkType
<1>1. CASE Jump(p, End(p)) \/ Attention(p) \/ Unread(p, "attention")
  BY <1>1, Looks, Quiets, EndQuiet DEF Attention
<1>2. CASE Publish(p, my[p], [my[p].cmd EXCEPT !.status = "running"], "heal", End(p))
  <2> DEFINE r == [my[p].cmd EXCEPT !.status = "running"]
             w == Published(my[p], r, "heal", End(p))
  <2>1. Step(p, "write", w)
    BY <1>2 DEF Publish, Published
  <2>2. r \in CommandType
    BY <1>a DEF CommandType
  <2>3. "heal" \in Points /\ End(p) \in Points
    BY DEF Points, WatchPoints, ReconciliationPoints, End
  <2> HIDE DEF r
  <2>4. w \in WorkType /\ w.exe = my[p].exe /\ w.seen = my[p].seen
    <3>1. w = Published(my[p], r, "heal", End(p))
      OBVIOUS
    <3> HIDE DEF w
    <3>2. QED
      BY <2>2, <2>3, <3>1, PublishFits
  <2> HIDE DEF w
  <2>5. QED
    BY <2>1, <2>4, Learns, AtHand, Quiets
<1>3. CASE Step(p, "recover_lease", [[my[p] EXCEPT !.verdict = "interrupted", !.freed = Write]
                                        EXCEPT !.next = "confirm", !.onError = "attention"])
  <2> DEFINE v == [my[p] EXCEPT !.verdict = "interrupted", !.freed = Write]
             w == [v EXCEPT !.next = "confirm", !.onError = "attention"]
  <2>1. v \in WorkType /\ v.exe = my[p].exe /\ v.seen = my[p].seen
    BY ZenonT(60), <1>a DEF WorkType, Terminal, WriteAssumption
  <2>2. "confirm" \in Points /\ "attention" \in Points
    BY DEF Points, MarkPoints, ReconciliationPoints
  <2>3. Step(p, "recover_lease", w)
    BY <1>3
  <2> HIDE DEF v
  <2>4. w \in WorkType /\ w.exe = v.exe /\ w.seen = v.seen
    BY ZenonT(60), <2>1, <2>2 DEF WorkType
  <2> HIDE DEF w
  <2>5. QED
    BY <2>1, <2>3, <2>4, Learns, AtHand, Quiets
<1>4. CASE /\ ~Write /\ pc[p] = "judge"
           /\ Step(p, "term", [[my[p] EXCEPT !.verdict = "interrupted", !.freed = Write]
                                 EXCEPT !.seen = NewExecution, !.next = "confirm_or_raise", !.onError = End(p)])
  <2> DEFINE v == [my[p] EXCEPT !.verdict = "interrupted", !.freed = Write]
             w == [v EXCEPT !.seen = NewExecution, !.next = "confirm_or_raise", !.onError = End(p)]
  <2>1. v \in WorkType /\ v.exe = my[p].exe /\ v.seen = my[p].seen /\ v.freed = Write
    BY ZenonT(60), <1>a DEF WorkType, Terminal, WriteAssumption
  <2>2. "confirm_or_raise" \in Points /\ End(p) \in Points
    BY DEF Points, WatchPoints, ReconciliationPoints, End
  <2>3. GoWith(p, "term", w) /\ Untouched
    BY <1>4 DEF Step
  <2> HIDE DEF v
  <2>4. w \in WorkType /\ w.exe = v.exe /\ w.seen = NewExecution /\ w.freed = v.freed
    BY ZenonT(60), <2>1, <2>2, NewTyped DEF WorkType
  <2> HIDE DEF w
  <2>5. Says(p, "term", w)
    BY <1>4, <2>1, <2>4, AtHand DEF Says, UnfreedPoints, TurnPoints, ToldPoints
  <2>6. "term" \in KeptPoints \ FreeingPoints
    BY DEF KeptPoints, Points, TerminalizePoints, FreeingPoints
  <2>7. QED
    BY <1>4, <2>3, <2>4, <2>5, <2>6, Tell, Spared
<1>5. QED
  BY <1>1, <1>2, <1>3, <1>4 DEF Judge

LEMMA ReconciliationTells ==
  ASSUME Typed, NEW p \in Proc, Held(p), Reconciliation(p)
  PROVE  Tells(p)
<1> USE DEF Held
<1> DEFINE u == [my[p] EXCEPT !.seen = exe[my[p].c]]
           v == [my[p] EXCEPT !.seen = NewExecution]
<1>a. my[p].cmd \in CommandType /\ my[p].exe \in ExecutionType
  BY DEF WorkType
<1>b. /\ FailedWith(my[p].cmd, "error") \in CommandType
      /\ FailedWith(my[p].cmd, "prelaunch_failed") \in CommandType
  BY <1>a DEF FailedWith, Ended, CommandType
<1>c. u \in WorkType /\ u.exe = my[p].exe /\ u.seen = exe[my[p].c]
  BY DEF WorkType
<1>d. v \in WorkType /\ v.exe = my[p].exe /\ v.seen = NewExecution
  BY NewTyped DEF WorkType
<1>1. CASE Reconcile(p)
  <2>1. exe[my[p].c].status \in {"none", "reserved", "running", "cancelled"} \/ Settled(exe[my[p].c].status)
    BY DEF ExecutionType, Settled
  <2>2. exe[my[p].c].status = "none" => ~Settled(exe[my[p].c].status)
    BY DEF Settled, Terminal
  <2>3. \/ Jump(p, End(p)) \/ Unread(p, End(p)) \/ Jump(p, "orphan") \/ Unread(p, "orphan")
        \/ Step(p, "attention", v) \/ UnreadWith(p, "attention", v)
        \/ \E l \in {"attention", "cancel", "undo_lease", "judge", "recover", "fix"} : Step(p, l, u)
    BY <1>1, <2>1, <2>2 DEF Reconcile, Mine, NoExecution, AttendNoExecution, Attend, StillReserved, Settled, Terminal
  <2> HIDE DEF u, v
  <2>4. QED
    BY <1>c, <1>d, <2>3, Looks, Learns, AtHand, Quiets, EndQuiet
<1>2. CASE Orphan(p)
  <2> DEFINE r == [NewCommand EXCEPT !.status = "queued"]
             x == [my[p] EXCEPT !.token = root.token]
             w == Published(x, r, "orphan_free", End(p))
  <2>1. \/ Jump(p, End(p)) \/ Conclude(p, FailedWith(my[p].cmd, "error"))
        \/ Step(p, "attention", v) \/ Step(p, "write", w)
    BY <1>2 DEF Orphan, AttendNoExecution, Attend, Publish, Published, Mine
  <2>2. r \in CommandType
    BY DEF NewCommand, CommandType
  <2> HIDE DEF r
  <2>3. x \in WorkType /\ x.exe = my[p].exe /\ x.seen = my[p].seen
    BY DEF WorkType, RootType
  <2>4. w \in WorkType /\ w.exe = x.exe /\ w.seen = x.seen
    <3>1. w = Published(x, r, "orphan_free", End(p))
      OBVIOUS
    <3> HIDE DEF x, w
    <3>2. QED
      BY <2>2, <2>3, <3>1, RequeueFits
  <2> HIDE DEF u, v, x, w
  <2>5. QED
    BY <1>b, <1>d, <2>1, <2>3, <2>4, Looks, Learns, AtHand, ConclusionTells, Quiets, EndQuiet
<1>3. CASE OrphanFree(p)
  <2>1. \/ Jump(p, End(p))
        \/ (PutRoot(RootReleased) \/ Untouched) /\ (GoWith(p, End(p), v) \/ GoWith(p, "attention", v))
    BY <1>3 DEF OrphanFree, AttemptWith
  <2> HIDE DEF u, v
  <2>2. QED
    BY <1>d, <2>1, Looks, Hush, Spared, AtHand, Quiets, EndQuiet
<1>4. CASE CancelRead(p)
  <2> DEFINE w == [my[p] EXCEPT !.exe = exe[my[p].c]]
  <2>1. w \in WorkType /\ w.exe = exe[my[p].c] /\ w.seen = my[p].seen
    BY DEF WorkType
  <2>2. Jump(p, "undo_lease") \/ Step(p, "cancel_put", w) \/ Jump(p, "attention") \/ Unread(p, "attention")
    BY <1>4 DEF CancelRead, Mine, Attention
  <2> HIDE DEF w, u, v
  <2>3. QED
    BY <2>1, <2>2, Looks, Learns, AtHand, Quiets
<1>5. CASE CancelPut(p)
  <2> DEFINE e == [my[p].exe EXCEPT !.status = "cancelled"]
  <2>1. e.evidence = my[p].exe.evidence
    BY <1>a DEF ExecutionType
  <2>2. (PutExe(my[p].c, e) \/ Untouched) /\ (GoWith(p, "undo_lease", my[p]) \/ GoWith(p, "attention", my[p]))
    BY <1>5 DEF CancelPut, Attempt, AttemptWith, Mine
  <2> HIDE DEF e, u, v
  <2>3. QED
    BY <2>1, <2>2, Drifts, Spared, Quiets
<1>6. CASE UndoLease(p)
  <2> DEFINE r == FailedWith(my[p].cmd, "prelaunch_failed")
             w == [my[p] EXCEPT !.out = r, !.next = End(p), !.onError = End(p)]
  <2>1. \/ Jump(p, "attention") \/ Step(p, "block", w)
        \/ (PutLease(LeaseReleased) \/ Untouched) /\ (GoWith(p, "block", w) \/ GoWith(p, "attention", w))
    BY <1>6 DEF UndoLease, AttemptWith, Attention
  <2>2. End(p) \in Points
    BY DEF Points, WatchPoints, End
  <2> HIDE DEF r
  <2>3. w \in WorkType /\ w.exe = my[p].exe /\ w.seen = my[p].seen
    BY ZenonT(60), <1>b, <2>2 DEF WorkType, r
  <2> HIDE DEF w, u, v
  <2>4. QED
    BY <2>1, <2>3, Looks, Learns, Hush, Spared, AtHand, Quiets
<1>7. CASE Judge(p)
  BY <1>7, JudgeTells
<1>8. CASE Heal(p)
  <2> DEFINE w == [my[p] EXCEPT !.task = task]
  <2>1. w \in WorkType /\ w.exe = my[p].exe /\ w.seen = my[p].seen
    BY DEF WorkType
  <2>2. Step(p, "heal_put", w) \/ Jump(p, End(p))
    BY <1>8 DEF Heal
  <2> HIDE DEF w, u, v
  <2>3. QED
    BY <2>1, <2>2, Looks, Learns, AtHand, Quiets, EndQuiet
<1>9. CASE HealPut(p)
  BY <1>9, Drifts, Spared, EndQuiet DEF HealPut, Attempt, AttemptWith
<1>10. CASE RecoverLease(p)
  <2>1. /\ pc[p] = "recover_lease"
        /\ \/ Jump(p, "attention")
           \/ PutLease(LeaseReleased) /\ GoWith(p, "term", my[p])
           \/ (PutLease(LeaseReleased) \/ Untouched) /\ GoWith(p, "attention", my[p])
    BY <1>10 DEF RecoverLease, Attention, Attempt, AttemptWith
  <2> HIDE DEF u, v
  <2>2. CASE PutLease(LeaseReleased) /\ GoWith(p, "term", my[p])
    <3>1. Says(p, "term", my[p])
      BY <2>1, AtHand DEF Says, UnfreedPoints, TurnPoints, ToldPoints
    <3>2. pc'[p] = "term" /\ lease'.active = FALSE
      BY <2>2 DEF GoWith, Typed, PutLease, LeaseReleased, LeaseType
    <3>3. Frees(p)
      BY <2>1, <3>2 DEF Frees, ReleasePoints, Leased
    <3>4. "term" \in KeptPoints
      BY DEF KeptPoints, Points, TerminalizePoints
    <3>5. QED
      BY <2>2, <3>1, <3>3, <3>4, Speaks, Spared
  <2>3. QED
    BY <2>1, <2>2, Looks, Drifts, Spared, Quiets
<1>11. CASE Confirm(p)
  <2>1. Settled(exe[my[p].c].status) => EndedAs(my[p].cmd, exe[my[p].c]) \in CommandType
    BY <1>a DEF EndedAs, Ended, CommandType, ExecutionType, Settled, Terminal
  <2>2. \/ Settled(exe[my[p].c].status) /\ Conclude(p, EndedAs(my[p].cmd, exe[my[p].c]))
        \/ Jump(p, "attention") \/ Unread(p, "attention") \/ Jump(p, End(p)) \/ Unread(p, End(p))
    BY <1>11 DEF Confirm, Mine, Publishable
  <2> HIDE DEF u, v
  <2>3. QED
    BY <2>1, <2>2, Looks, ConclusionTells, Quiets, EndQuiet
<1>12. QED
  BY <1>1, <1>2, <1>3, <1>4, <1>5, <1>6, <1>7, <1>8, <1>9, <1>10, <1>11 DEF Reconciliation

LEMMA RepairTells ==
  ASSUME Typed, NEW p \in Proc, Held(p), Repair(p)
  PROVE  Tells(p)
<1> USE DEF Held
<1>a. /\ my[p].exe \in ExecutionType /\ my[p] \in WorkType /\ "recover" \in QuietPoints /\ "strike" \in QuietPoints
      /\ {"fix_handoff", "fix_handoff_view", "fix_task", "fix_audit_put"} \subseteq QuietPoints
  BY Quiets, AtHand DEF WorkType
<1>b. ASSUME NEW l \in {"fix_task_view", "fix_audit"}, NEW w \in WorkType, GoWith(p, l, w), Spares(p),
             pc[p] \in {"fix_task", "fix_task_view"}, w.exe = my[p].exe, w.seen = my[p].seen
      PROVE  Tells(p)
  <2>1. /\ l \in KeptPoints \ FreeingPoints /\ l \notin UnfreedPoints /\ l \notin WindPoints /\ l \notin ToldPoints
        /\ l \notin {"clean", "bind", "handoff", "task"}
    BY <1>b DEF KeptPoints, Points, RepairPoints, FreeingPoints, UnfreedPoints, TurnPoints, WindPoints, TerminalizePoints,
                CleanupPoints, ToldPoints
  <2>2. Says(p, l, w)
    BY <1>b, <2>1, AtHand DEF Says
  <2>3. QED
    BY <1>b, <2>1, <2>2, Tell
<1>c. ASSUME NEW v \in Views, NEW l, VerifiesView(p, v, l),
             l \in QuietPoints \/ (l = "fix_audit" /\ pc[p] = "fix_task_view")
      PROVE  Tells(p)
  <2> DEFINE w == [my[p] EXCEPT !.view = "task"]
  <2>1. w \in WorkType /\ w.exe = my[p].exe /\ w.seen = my[p].seen
    BY DEF WorkType, Views
  <2>2. /\ GoWith(p, "strike", w) \/ GoWith(p, l, w)
        /\ PutRoot(Verified(v)) \/ Untouched
    BY <1>c DEF VerifiesView, AttemptWith, Step, Mine
  <2>3. Verified(v).owner = root.owner /\ Verified(v).active = root.active
    BY DEF Verified, RootType
  <2> HIDE DEF w
  <2>4. Spares(p)
    BY <2>2, <2>3, Spared
  <2>5. QED
    BY <1>a, <1>b, <1>c, <2>1, <2>2, <2>4, Hush, AtHand
<1>1. CASE Fix(p)
  <2> DEFINE e == exe[my[p].c]
             w == [my[p] EXCEPT !.exe = e, !.task = task]
             b == VerdictOf(my[p].c, e)
  <2>1. w \in WorkType /\ w.exe = exe[my[p].c] /\ w.seen = my[p].seen
    BY ZenonT(60), <1>a DEF WorkType, Typed, StoresTyped
  <2>2. \/ (PutRoot(Bound(b)) \/ Untouched) /\ (GoWith(p, "fix_handoff", w) \/ GoWith(p, "recover", w))
        \/ Jump(p, "recover") \/ Unread(p, "recover")
    BY <1>1 DEF Fix, AttemptWith, Mine
  <2>3. Bound(b).owner = root.owner /\ Bound(b).active = root.active
    BY DEF Bound, RootType
  <2> HIDE DEF w, b
  <2>4. QED
    BY <1>a, <2>1, <2>2, <2>3, Spared, Hush, Looks, AtHand
<1>2. CASE FixHandoff(p)
  <2>1. ASSUME NEW v \in Views
        PROVE  /\ [my[p] EXCEPT !.view = v] \in WorkType
               /\ [my[p] EXCEPT !.view = v].exe = my[p].exe /\ [my[p] EXCEPT !.view = v].seen = my[p].seen
    BY <1>a DEF WorkType
  <2>2. \E v \in Views :
          \/ Step(p, "strike", [my[p] EXCEPT !.view = v])
          \/ /\ PutHandoff(VerdictOf(my[p].c, my[p].exe)) \/ Untouched
             /\ \/ GoWith(p, "fix_handoff_view", [my[p] EXCEPT !.view = v])
                \/ GoWith(p, "strike", [my[p] EXCEPT !.view = v])
    BY <1>2 DEF FixHandoff, AttemptWith, Mine, Views
  <2>3. PICK v \in Views :
          \/ Step(p, "strike", [my[p] EXCEPT !.view = v])
          \/ /\ PutHandoff(VerdictOf(my[p].c, my[p].exe)) \/ Untouched
             /\ \/ GoWith(p, "fix_handoff_view", [my[p] EXCEPT !.view = v])
                \/ GoWith(p, "strike", [my[p] EXCEPT !.view = v])
    BY <2>2
  <2> DEFINE w == [my[p] EXCEPT !.view = v]
  <2>4. w \in WorkType /\ w.exe = my[p].exe /\ w.seen = my[p].seen
    BY <2>1
  <2>5. /\ PutHandoff(VerdictOf(my[p].c, my[p].exe)) \/ Untouched
        /\ GoWith(p, "fix_handoff_view", w) \/ GoWith(p, "strike", w)
    BY <2>3 DEF Step
  <2> HIDE DEF w
  <2>6. QED
    BY <1>a, <2>4, <2>5, Spared, Hush, AtHand
<1>3. CASE FixHandoffView(p)
  BY <1>3, <1>a, <1>c DEF FixHandoffView, Views
<1>4. CASE FixTask(p)
  <2> DEFINE t == TerminalTask(my[p].task, my[p].c, my[p].exe)
  <2>1. /\ pc[p] = "fix_task" /\ (PutTask(t) \/ Untouched)
        /\ GoWith(p, "fix_task_view", my[p]) \/ GoWith(p, "strike", my[p])
    BY <1>4 DEF FixTask, Attempt, AttemptWith, Jump, Step, Mine
  <2> HIDE DEF t
  <2>2. Spares(p)
    BY <2>1, Spared
  <2>3. QED
    BY <1>a, <1>b, <2>1, <2>2, Drifts
<1>5. CASE FixTaskView(p)
  BY <1>5, <1>a, <1>c DEF FixTaskView, Views
<1>6. CASE FixAudit(p)
  <2>1. pc[p] = "fix_audit" /\ MergesInto(p, Update(p), "fix_audit_put", End(p))
    BY <1>6 DEF FixAudit, Update
  <2>2. my[p].exe.status \in Terminal
    BY <2>1 DEF Fits, DataFits, SettledPoints, Settled, CopyPoints
  <2>3. Update(p) \in Evidence /\ pc[p] \in MergePoints
    BY <2>1, <2>2, UpdatesFit DEF Update, MergePoints
  <2>4. QED
    BY <1>a, <2>1, <2>3, MergeTells, EndQuiet
<1>7. CASE FixAuditPut(p)
  <2> DEFINE w == [my[p] EXCEPT !.seen = my[p].exe]
  <2>1. w \in WorkType /\ w.exe = my[p].exe /\ w.seen = my[p].exe
    BY <1>a DEF WorkType
  <2>2. /\ PutExe(my[p].c, my[p].exe) \/ Untouched
        /\ GoWith(p, "recover", w) \/ GoWith(p, "recover", my[p])
    BY <1>7 DEF FixAuditPut, Mine
  <2> HIDE DEF w
  <2>3. Spares(p)
    BY <2>2, Spared
  <2>4. QED
    BY <1>a, <2>1, <2>2, <2>3, Hush, Drifts, AtHand
<1>8. QED
  BY <1>1, <1>2, <1>3, <1>4, <1>5, <1>6, <1>7 DEF Repair

(* The claim is off before it is called released. *)
LEMMA ReleaseTells ==
  ASSUME Typed, NEW p \in Proc, Held(p), NEW l \in ReleasePoints, GoWith(p, l, my[p]),
         Untouched \/ PutRoot(RootReleased), ~(root'.active /\ root'.owner = my[p].c), pc[p] # "recover_lease"
  PROVE  Tells(p)
<1> USE DEF Held
<1>1. /\ l \in KeptPoints /\ l \notin UnfreedPoints /\ l \notin WindPoints /\ l \notin ToldPoints
      /\ l \notin {"clean", "bind", "handoff", "task", "fix_task_view", "fix_audit", "free_claim"}
  BY DEF ReleasePoints, KeptPoints, Points, GiveUpPoints, UnfreedPoints, TurnPoints, WindPoints, TerminalizePoints, CleanupPoints,
         ToldPoints
<1>2. pc'[p] = l
  BY DEF GoWith, Typed
<1>3. Spares(p)
  BY Spared
<1>4. Says(p, l, my[p])
  BY Zenon, <1>1, AtHand DEF Says
<1>5. Frees(p)
  BY <1>1, <1>2 DEF Frees
<1>6. QED
  BY <1>1, <1>3, <1>4, <1>5, AtHand, Speaks

LEMMA GiveUpTells ==
  ASSUME Typed, NEW p \in Proc, Held(p), GiveUp(p)
  PROVE  Tells(p)
<1> USE DEF Held
<1>a. /\ {"strike_free", "strike_note_put", "recover", "converge_put", "confirm", "attention"} \subseteq QuietPoints
      /\ "strike_note" \in ReleasePoints /\ "converge" \in ReleasePoints
  BY Quiets DEF ReleasePoints
<1>b. RootReleased.active = FALSE
  BY DEF RootReleased, NoRoot, Typed, StoresTyped, RootType
<1>c. PutRoot(RootReleased) => ~(root'.active /\ root'.owner = my[p].c)
  BY <1>b DEF PutRoot
<1>d. ClaimReleased \in Evidence
  BY DEF ClaimReleased, Evidence, NoEvidence, AllParts
<1>1. CASE Strike(p)
  <2> DEFINE v == my[p].view
             n == root.strikes[v] + 1
             r == [root EXCEPT !.strikes[v] = IF n > Threshold THEN @ ELSE n]
  <2>1. r.owner = root.owner /\ r.active = root.active
    BY DEF RootType
  <2>2. \/ (PutRoot(r) \/ Untouched) /\ (GoWith(p, "strike_free", my[p]) \/ GoWith(p, "recover", my[p]))
        \/ Jump(p, "recover")
    BY <1>1 DEF Strike, Attempt, AttemptWith, Mine
  <2> HIDE DEF r, n
  <2>3. QED
    BY <1>a, <2>1, <2>2, Spared, Drifts, Looks
<1>2. CASE StrikeFree(p)
  <2>1. pc[p] = "strike_free"
    BY <1>2 DEF StrikeFree
  <2>2. CASE (PutRoot(RootReleased) \/ Untouched) /\ GoWith(p, "recover", my[p])
    BY <1>a, <2>2, Spared, Drifts
  <2>3. CASE PutRoot(RootReleased) /\ GoWith(p, "strike_note", my[p])
    BY <1>a, <1>c, <2>1, <2>3, ReleaseTells
  <2>4. CASE root.owner # my[p].c /\ Jump(p, "strike_note")
    <3>1. ~(root'.active /\ root'.owner = my[p].c)
      BY <2>4 DEF Jump, Step, Untouched, stores, ClaimedBy
    <3>2. QED
      BY <1>a, <2>1, <2>4, <3>1, ReleaseTells DEF Jump, Step
  <2>5. QED
    BY <1>2, <2>2, <2>3, <2>4 DEF StrikeFree, Attempt, AttemptWith, Mine
<1>3. CASE StrikeNote(p)
  <2>1. pc[p] = "strike_note" /\ MergesInto(p, Update(p), "strike_note_put", "recover")
    BY <1>3 DEF StrikeNote, Update
  <2>2. Update(p) \in Evidence /\ pc[p] \in MergePoints
    BY <1>d, <2>1 DEF Update, MergePoints
  <2>3. QED
    BY <1>a, <2>1, <2>2, MergeTells
<1>4. CASE StrikeNotePut(p)
  BY <1>4, <1>a, Drifts, Spared DEF StrikeNotePut, Attempt, AttemptWith, Mine
<1>5. CASE Recover(p)
  <2>1. pc[p] = "recover"
    BY <1>5 DEF Recover
  <2>2. \/ (PutRoot(RootReleased) \/ Untouched) /\ GoWith(p, "attention", my[p])
        \/ PutRoot(RootReleased) /\ GoWith(p, "converge", my[p])
        \/ Jump(p, "attention") \/ Jump(p, "confirm") \/ Unread(p, "attention")
        \/ ~root.active /\ Jump(p, "converge")
    BY <1>5 DEF Recover, Attention, Attempt, AttemptWith
  <2>3. CASE (PutRoot(RootReleased) \/ Untouched) /\ GoWith(p, "attention", my[p])
    BY <1>a, <2>3, Spared, Drifts
  <2>4. CASE PutRoot(RootReleased) /\ GoWith(p, "converge", my[p])
    BY <1>a, <1>c, <2>1, <2>4, ReleaseTells
  <2>5. CASE Jump(p, "attention") \/ Jump(p, "confirm") \/ Unread(p, "attention")
    BY <1>a, <2>5, Looks
  <2>6. CASE ~root.active /\ Jump(p, "converge")
    <3>1. ~(root'.active /\ root'.owner = my[p].c)
      BY <2>6 DEF Jump, Step, Untouched, stores, ClaimedBy
    <3>2. QED
      BY <1>a, <2>1, <2>6, <3>1, ReleaseTells DEF Jump, Step
  <2>7. QED
    BY <2>2, <2>3, <2>4, <2>5, <2>6
<1>6. CASE Converge(p)
  <2>1. pc[p] = "converge" /\ MergesInto(p, Update(p), "converge_put", "attention")
    BY <1>6 DEF Converge, Update
  <2>2. Update(p) \in Evidence /\ pc[p] \in MergePoints
    BY <1>d, <2>1 DEF Update, MergePoints
  <2>3. QED
    BY <1>a, <2>1, <2>2, MergeTells
<1>7. CASE ConvergePut(p)
  BY <1>7, <1>a, Drifts, Spared DEF ConvergePut, Attempt, AttemptWith, Mine
<1>8. QED
  BY <1>1, <1>2, <1>3, <1>4, <1>5, <1>6, <1>7 DEF GiveUp

LEMMA StepTells ==
  ASSUME Typed, NEW p \in Proc, Held(p), Steps(p), ~Tick(p), ~(pc[p] = "spawn" /\ SpawnsWorker(p))
  PROVE  Tells(p)
<1>1. \/ Records(p) \/ Launch(p) \/ Turn(p) \/ Terminalize(p) \/ Cleanup(p) \/ Report(p) \/ Watch(p) \/ Mark(p)
      \/ Reconciliation(p) \/ Repair(p) \/ GiveUp(p)
  BY DEF Steps, Works, WindsUp, Watches, Recovers
<1>2. QED
  BY <1>1, RecordsTell, LaunchTells, TurnTells, TerminalizeTells, CleanupTells, ReportTells, WatchTells, MarkTells,
     ReconciliationTells, RepairTells, GiveUpTells

LEMMA CrashTells ==
  ASSUME Typed, NEW p \in Proc, my[p].c \in Command, CrashWatcher(p) \/ CrashWorker(p)
  PROVE  Tells(p)
<1>1. Kept("idle", NoWork) = NoWork
  BY NewTyped, KeptKeeps DEF Keeps, KeptPoints, Points, WatchPoints, RestPoints
<1>2. Untouched /\ my'[p] = NoWork /\ pc'[p] \in {"idle", "dead"}
  BY <1>1 DEF CrashWatcher, CrashWorker, GoWith, Typed
<1>3. Spares(p)
  BY <1>2, Spared
<1>4. Says(p, pc'[p], NoWork) /\ Frees(p) /\ ~NoWork.freed
  BY <1>2, NoWorkFields DEF Says, Shown, Frees, ReleasePoints, UnfreedPoints, TurnPoints, WindPoints, TerminalizePoints,
     CleanupPoints, ToldPoints
<1>5. QED
  BY <1>2, <1>3, <1>4 DEF Tells

-----------------------------------------------------------------------------
(* What is true stays true *)

LEMMA MergeSound ==
  ASSUME NEW c, NEW old \in Evidence, NEW new \in Evidence, Mergeable(old, new), Sound(c, old), Sound(c, new)
  PROVE  Sound(c, Merge(old, new))
<1> DEFINE m == Merge(old, new)
<1>1. m.claim = "released" => "released" \in {old.claim, new.claim}
  BY DEF Merge, Sticky
<1>2. m.writer = "released" => "released" \in {old.writer, new.writer}
  BY DEF Merge, Sticky
<1>3. m.persistence = "complete" =>
        \/ old.persistence = "complete" /\ (old.outcome # "none" => m.outcome = old.outcome)
        \/ new.persistence = "complete" /\ (new.outcome # "none" => m.outcome = new.outcome)
  BY DEF Merge, Furthest, Rank, Mergeable, Evidence
<1>m. m = Merge(old, new)
  OBVIOUS
<1> HIDE DEF m
<1>4. \A ev \in {old, new} : ev.persistence = "complete" => ev.outcome # "none"
  BY DEF Sound, Terminal
<1>5. m.persistence = "complete" => m.outcome \in Terminal /\ HandedOff(c, m.outcome)
  BY <1>3, <1>4 DEF Sound
<1>6. QED
  BY <1>m, <1>1, <1>2, <1>5 DEF Sound

(* An Execution past starting is neither claimed nor leased again.         *)
LEMMA FreedStays ==
  ASSUME NEW p, Alone(p), Spares(p), NEW d \in Command, Past(d)
  PROVE  (~ClaimedBy(d) => ~ClaimedBy(d)') /\ (~Leased(d) => ~Leased(d)')
<1>1. p \in Proc /\ (my[p].c = d => pc[p] \notin {"claim", "lease"})
  BY DEF Alone, Past, EarlyPoints
<1>2. root'.active /\ root'.owner = d => root.active /\ root.owner = d
  BY <1>1 DEF Spares
<1>3. lease'.active /\ lease'.of = d => lease.active /\ lease.of = d
  BY <1>1 DEF Spares
<1>4. QED
  BY <1>2, <1>3 DEF ClaimedBy, Leased

LEMMA HandoffStays ==
  ASSUME NEW p, Alone(p), NEW d, NEW s, HandedOff(d, s)
  PROVE  HandedOff(d, s)'
<1>1. handoff \subseteq handoff'
  BY DEF Alone, Moves, MoveVerdicts
<1>2. QED
  BY <1>1 DEF HandedOff

LEMMA SoundStays ==
  ASSUME NEW p, Alone(p), Spares(p), NEW d \in Command, NEW ev, Sound(d, ev)
  PROVE  Sound(d, ev)'
<1>1. Past(d) => Past(d)'
  BY PastStays
<1>2. Past(d) => (~ClaimedBy(d) => ~ClaimedBy(d)') /\ (~Leased(d) => ~Leased(d)')
  BY FreedStays
<1>3. HandedOff(d, ev.outcome) => HandedOff(d, ev.outcome)'
  BY HandoffStays
<1>4. QED
  BY <1>1, <1>2, <1>3 DEF Sound

(* A process whose point and local variables are l and x. *)
LEMMA SpeaksAnew ==
  ASSUME NEW q \in Proc, NEW l, NEW x, pc'[q] = l, my'[q] = x, SpeaksAt(l, x)'
  PROVE  SpeaksTrue(q)'
BY DEF SpeaksTrue, SpeaksAt, Sound, HandedOff, Past, PutsRaw, Raw, ClaimedBy, Leased

(* Where the Execution in hand is past starting. *)
LEMMA PastAt ==
  ASSUME NEW p, Alone(p), NEW q \in Proc,
         pc[q] \in UNION {TurnPoints, WindPoints, RepairPoints, GiveUpPoints, {"recover_lease"}}
  PROVE  my[q].c \in Command /\ Past(my[q].c)
<1>1. pc[q] \in RunPoints /\ pc[q] \notin RestPoints
  BY DEF RunPoints, WindPoints, RestPoints, TurnPoints, TerminalizePoints, CleanupPoints, RepairPoints, GiveUpPoints
<1>2. QED
  BY <1>1, Fields DEF Alone, Shared, PastFits, Running

LEMMA OthersSpeak ==
  ASSUME NEW p, Alone(p), Spares(p), NEW q \in Proc, q # p, SpeaksTrue(q)
  PROVE  SpeaksTrue(q)'
<1>1. PICK l, x : l = pc[q] /\ x = my[q]
  OBVIOUS
<1>2. pc'[q] = l /\ my'[q] = x /\ SpeaksAt(l, x)
  BY <1>1, OthersStay DEF SpeaksTrue
<1>3. l \in UNION {TurnPoints, WindPoints, RepairPoints, GiveUpPoints} => x.c \in Command /\ Past(x.c)
  BY <1>1, PastAt
<1>4. ReleasePoints \subseteq GiveUpPoints /\ "free_claim" \in WindPoints /\ "clean" \in WindPoints
  BY DEF ReleasePoints, GiveUpPoints, WindPoints, CleanupPoints
<1>5. SpeaksAt(l, x)'
  <2>1. x.c \in Command => Sound(x.c, x.exe.evidence)' /\ Sound(x.c, x.seen.evidence)'
    BY <1>2, SoundStays DEF SpeaksAt
  <2>2. l = "clean" => Sound(x.c, x.clean)'
    BY <1>2, <1>3, <1>4, SoundStays DEF SpeaksAt
  <2>3. l \in ReleasePoints => ~ClaimedBy(x.c)'
    BY <1>2, <1>3, <1>4, FreedStays DEF SpeaksAt
  <2>4. l = "free_claim" /\ Write => ~Leased(x.c)'
    BY <1>2, <1>3, <1>4, FreedStays DEF SpeaksAt
  <2>5. l \in WindPoints /\ x.freed => ~Leased(x.c)'
    BY <1>2, <1>3, FreedStays DEF SpeaksAt
  <2>6. l \in ToldPoints => HandedOff(x.c, x.verdict)'
    BY <1>2, HandoffStays DEF SpeaksAt
  <2>7. l \in {"fix_task_view", "fix_audit"} => HandedOff(x.c, x.exe.status)'
    BY <1>2, HandoffStays DEF SpeaksAt
  <2>8. QED
    BY <1>2, <2>1, <2>2, <2>3, <2>4, <2>5, <2>6, <2>7 DEF SpeaksAt
<1>6. QED
  BY <1>2, <1>5, SpeaksAnew

(* What a process folds into the evidence is true. *)
LEMMA UpdateSound ==
  ASSUME NEW p, Alone(p), SpeaksTrue(p), pc[p] \in MergePoints
  PROVE  Update(p) \in Evidence /\ Sound(my[p].c, Update(p))
<1>1. PICK l, x : l = pc[p] /\ x = my[p]
  OBVIOUS
<1> DEFINE c == x.c
<1>2. SpeaksAt(l, x) /\ p \in Proc /\ x \in WorkType
  BY <1>1 DEF SpeaksTrue, Alone, Typed
<1>3. c \in Command /\ Past(c)
  <2>1. pc[p] \in UNION {TurnPoints, WindPoints, RepairPoints, GiveUpPoints, {"recover_lease"}}
    BY DEF MergePoints, WindPoints, TerminalizePoints, CleanupPoints, RepairPoints, GiveUpPoints
  <2>2. QED
    BY <1>1, <1>2, <2>1, PastAt
<1>4. Fits(p, l, x)
  BY <1>1, <1>2 DEF Alone, Fitting
<1>5. l \in {"retain", "audit", "clean"} => x.verdict \in Terminal
  BY <1>4 DEF Fits, DataFits, CallPoints, TerminalizePoints, CleanupPoints
<1>6. CASE l = "retain"
  <2>1. Retained(x.verdict, x.done) \in Evidence
    BY <1>2, <1>5, <1>6, UpdatesFit DEF WorkType
  <2>2. Sound(c, Retained(x.verdict, x.done))
    BY DEF Retained, WriterUnreleased, Sound
  <2>3. QED
    BY <1>1, <1>6, <2>1, <2>2 DEF Update
<1>7. CASE l = "audit"
  <2> DEFINE u == Persisted(x.verdict)
             v == [u EXCEPT !.writer = "released"]
  <2>1. HandedOff(c, x.verdict) /\ (x.freed => ~Leased(c))
    BY <1>2, <1>7 DEF SpeaksAt, ToldPoints, WindPoints, CleanupPoints
  <2>2. u \in Evidence /\ v \in Evidence
    BY <1>2, <1>5, <1>7, UpdatesFit, Zenon DEF AllParts
  <2>3. /\ u.claim = "retained" /\ u.writer # "released" /\ u.outcome = x.verdict
        /\ v.claim = "retained" /\ v.outcome = x.verdict
    BY DEF Persisted, WriterUnreleased
  <2>4. Update(p) = IF x.freed THEN v ELSE u
    BY <1>1, <1>7 DEF Update, AuditUpdate
  <2> HIDE DEF u, v
  <2>5. QED
    BY <1>1, <1>3, <1>5, <1>7, <2>1, <2>2, <2>3, <2>4 DEF Sound
<1>8. CASE l = "clean"
  BY <1>1, <1>2, <1>8 DEF Update, SpeaksAt, WorkType
<1>9. CASE l = "fix_audit"
  <2>1. x.exe.status \in Terminal
    BY <1>4, <1>9 DEF Fits, DataFits, SettledPoints, Settled, CopyPoints
  <2>2. HandedOff(c, x.exe.status)
    BY <1>2, <1>9 DEF SpeaksAt
  <2>3. Repaired(x.exe.status) \in Evidence
    BY <2>1, UpdatesFit
  <2>4. Sound(c, Repaired(x.exe.status))
    BY <2>1, <2>2 DEF Repaired, NoEvidence, Sound
  <2>5. QED
    BY <1>1, <1>9, <2>3, <2>4 DEF Update
<1>10. CASE l \in {"strike_note", "converge"}
  <2>1. ~ClaimedBy(c)
    BY <1>2, <1>10 DEF SpeaksAt, ReleasePoints
  <2>2. ClaimReleased \in Evidence /\ Sound(c, ClaimReleased)
    BY <1>3, <2>1 DEF ClaimReleased, NoEvidence, Sound, Evidence, AllParts
  <2>3. QED
    BY <1>1, <1>10, <2>2 DEF Update
<1>11. QED
  BY <1>1, <1>6, <1>7, <1>8, <1>9, <1>10 DEF MergePoints

LEMMA OwnRecordSound ==
  ASSUME NEW p, Alone(p), Spares(p), TruthInv
  PROVE  \A d \in Command : Sound(d, exe[d].evidence)'
<1> SUFFICES ASSUME NEW d \in Command
             PROVE  Sound(d, exe[d].evidence)'
  OBVIOUS
<1>1. PICK ev : ev = exe'[d].evidence
  OBVIOUS
<1>2. p \in Proc /\ my[p].c \in Command
  BY DEF Alone, Moves
<1>3. Sound(d, ev)
  <2>1. CASE d # my[p].c
    <3>1. exe'[d] = exe[d]
      BY <2>1 DEF Alone, Moves, MoveRecords
    <3>2. QED
      BY <1>1, <3>1 DEF TruthInv
  <2>2. CASE d = my[p].c
    <3>1. ev \in {NoEvidence, exe[d].evidence, my[p].exe.evidence}
      BY <1>1, <2>2 DEF Spares
    <3>2. Sound(d, NoEvidence)
      BY DEF Sound, NoEvidence
    <3>3. Sound(d, exe[d].evidence) /\ Sound(d, my[p].exe.evidence)
      BY <1>2, <2>2 DEF TruthInv, SpeaksTrue, SpeaksAt
    <3>4. QED
      BY <3>1, <3>2, <3>3
  <2>3. QED
    BY <2>1, <2>2
<1>4. Sound(d, ev)'
  BY <1>3, SoundStays
<1>5. QED
  BY <1>1, <1>4 DEF Sound, HandedOff

(* The evidence p goes on with is true of its Command. *)
LEMMA TakesTruth ==
  ASSUME NEW p, Alone(p), Spares(p), TruthInv, NEW c, c = my[p].c, NEW ev,
         ev \in Shown(p) \/ Merges(p, ev)
  PROVE  Sound(c, ev)'
<1>1. p \in Proc /\ c \in Command /\ my[p] \in WorkType /\ exe[c] \in ExecutionType
  BY DEF Alone, Moves, Typed, StoresTyped
<1>2. /\ Sound(c, exe[c].evidence) /\ Sound(c, my[p].exe.evidence) /\ Sound(c, my[p].seen.evidence)
      /\ Sound(c, NoEvidence)
  BY <1>1 DEF TruthInv, SpeaksTrue, SpeaksAt, Sound, NoEvidence
<1>3. CASE ev \in Shown(p)
  <2>1. Sound(c, ev)
    BY <1>2, <1>3 DEF Shown
  <2>2. QED
    BY <1>1, <2>1, SoundStays
<1>4. CASE Merges(p, ev)
  <2>1. PICK u : u = Update(p)
    OBVIOUS
  <2>2. PICK old : old = exe[c].evidence
    OBVIOUS
  <2>3. u \in Evidence /\ Sound(c, u)
    BY <1>1, <1>4, <2>1, UpdateSound DEF Merges, TruthInv
  <2>4. old \in Evidence /\ Sound(c, old) /\ Mergeable(old, u) /\ ev = Merge(old, u)
    BY <1>1, <1>2, <1>4, <2>1, <2>2 DEF Merges, ExecutionType
  <2>5. Sound(c, ev)
    BY <2>3, <2>4, MergeSound
  <2>6. QED
    BY <1>1, <2>5, SoundStays
<1>5. QED
  BY <1>3, <1>4

LEMMA OwnSpeaks ==
  ASSUME NEW p, Alone(p), TruthInv, Tells(p)
  PROVE  SpeaksTrue(p)'
<1>1. PICK l, x, k, y, c : l = pc[p] /\ x = my[p] /\ k = pc'[p] /\ y = my'[p] /\ c = my[p].c
  OBVIOUS
<1>2. p \in Proc /\ c = x.c /\ c \in Command /\ x \in WorkType /\ SpeaksAt(l, x) /\ Spares(p)
  BY <1>1 DEF Alone, Moves, TruthInv, SpeaksTrue, Tells, Typed
<1>3. Says(p, k, y) /\ (k \in WritePoints => ~y.freed)
  BY <1>1 DEF Tells
<1>4. y.c \in {c, NoCommand} /\ (y.c = NoCommand => k \in RestPoints) /\ NoCommand \notin Command
  BY <1>1, <1>2, LifecycleAssumption DEF Alone, Moves, Fitting
<1>5. l \in UNION {TurnPoints, WindPoints, RepairPoints, GiveUpPoints, {"recover_lease"}} => Past(c) /\ Past(c)'
  BY <1>1, <1>2, PastAt, PastStays
<1>6. /\ "clean" \in WindPoints /\ "free_claim" \in WindPoints /\ "audit_put" \in WindPoints
      /\ ToldPoints \subseteq WindPoints /\ CastPoints \subseteq WindPoints
      /\ "free_lease" \in ToldPoints /\ "free_claim" \in ToldPoints /\ "audit_put" \in ToldPoints
  BY DEF WindPoints, TerminalizePoints, CleanupPoints, ToldPoints, CastPoints
<1>7. l \in WindPoints => x.verdict \in Terminal
  <2>1. Fits(p, l, x)
    BY <1>1, <1>2 DEF Alone, Fitting
  <2>2. QED
    BY <2>1 DEF Fits, DataFits, CallPoints, WindPoints
<1>8. l \in WrittenPoints => HandedOff(c, x.exe.status)
  BY <1>1, <1>2 DEF Alone, Shared, VerdictFits, VerdictOf, HandedOff, Mine
<1>9. SpeaksAt(k, y)'
  <2>1. CASE y.c = NoCommand
    <3>1. /\ k \in RestPoints
          /\ k \notin UNION {WindPoints, ReleasePoints, {"fix_task_view", "fix_audit"}, UnfreedPoints, WritePoints}
      BY <1>4, <2>1 DEF RestPoints, WindPoints, ReleasePoints, UnfreedPoints, TurnPoints, WritePoints, TerminalizePoints, CleanupPoints
    <3>2. QED
      BY <1>4, <1>6, <2>1, <3>1 DEF SpeaksAt
  <2>2. CASE y.c = c
    <3>1. Sound(c, y.exe.evidence)' /\ Sound(c, y.seen.evidence)'
      BY <1>1, <1>2, <1>3, TakesTruth DEF Says
    <3>2. k \in ReleasePoints => ~ClaimedBy(c)'
      BY <1>1 DEF Tells, Frees, ClaimedBy
    <3>3. k = "free_claim" /\ Write => ~Leased(c)'
      <4> SUFFICES ASSUME k = "free_claim", Write, lease'.active /\ lease'.of = c
                   PROVE  FALSE
        BY DEF Leased
      <4>1. l = "audit_put" /\ (x.exe.evidence.writer = "released" \/ x.freed)
        BY <1>1 DEF Tells, Frees
      <4>2. ~Leased(c)
        BY <1>2, <1>6, <4>1 DEF SpeaksAt, Sound
      <4>3. ~Leased(c)'
        BY <1>2, <1>5, <1>6, <4>1, <4>2, FreedStays
      <4>4. QED
        BY <4>3 DEF Leased
    <3>4. k \in WindPoints /\ y.freed => ~Leased(c)'
      <4>1. CASE l = "recover_lease" /\ k \in WindPoints
        BY <1>1, <4>1 DEF Tells, Frees, Leased
      <4>2. CASE x.freed /\ l \in TurnPoints \cup WindPoints
        <5>1. l \in WindPoints /\ ~Leased(c)
          BY <1>2, <4>2 DEF SpeaksAt, UnfreedPoints
        <5>2. QED
          BY <1>2, <1>5, <5>1, FreedStays
      <4>3. QED
        BY <1>1, <1>3, <4>1, <4>2 DEF Says
    <3>5. k \in ToldPoints => HandedOff(c, y.verdict)'
      <4> SUFFICES ASSUME k \in ToldPoints
                   PROVE  HandedOff(c, y.verdict)'
        OBVIOUS
      <4>1. y.verdict = x.verdict /\ l \in ToldPoints \cup {"task"}
        BY <1>1, <1>3 DEF Says
      <4>2. HandedOff(c, x.verdict)
        BY <1>2, <1>8, <4>1 DEF SpeaksAt, CastPoints, WrittenPoints
      <4>3. QED
        BY <4>1, <4>2, HandoffStays
    <3>6. k \in {"fix_task_view", "fix_audit"} => HandedOff(c, y.exe.status)'
      <4> SUFFICES ASSUME k \in {"fix_task_view", "fix_audit"}
                   PROVE  HandedOff(c, y.exe.status)'
        OBVIOUS
      <4>1. y.exe.status = x.exe.status /\ l \in {"fix_task", "fix_task_view"}
        BY <1>1, <1>3 DEF Says
      <4>2. HandedOff(c, x.exe.status)
        BY <1>2, <1>8, <4>1 DEF SpeaksAt, WrittenPoints
      <4>3. QED
        BY <4>1, <4>2, HandoffStays
    <3>7. k = "clean" => Sound(c, y.clean)'
      <4> SUFFICES ASSUME k = "clean"
                   PROVE  Sound(c, y.clean)'
        OBVIOUS
      <4>1. HandedOff(c, y.verdict)' /\ y.verdict = x.verdict
        BY <1>1, <1>3, <3>5 DEF Says, ToldPoints
      <4>2. CASE l = "free_lease" /\ y.clean = Cleaned(x.verdict, "failed", "not_attempted")
        <5>1. /\ y.clean.claim = "not_attempted" /\ y.clean.writer = "failed" /\ y.clean.outcome = x.verdict
          BY <4>2 DEF Cleaned
        <5>2. x.verdict \in Terminal
          BY <1>6, <1>7, <4>2
        <5>3. QED
          BY <4>1, <5>1, <5>2 DEF Sound
      <4>3. ASSUME l = "free_claim",
                   NEW claim \in {"released", "not_released", "failed"},
                   y.clean = Cleaned(x.verdict, WriterResult(p), claim)
            PROVE  Sound(c, y.clean)'
        <5>1. /\ y.clean.claim = claim /\ y.clean.outcome = x.verdict
              /\ y.clean.writer = IF Write THEN "released" ELSE "not_required"
          BY <4>3 DEF Cleaned, WriterResult
        <5>2. x.verdict \in Terminal /\ Past(c) /\ Past(c)'
          BY <1>5, <1>6, <1>7, <4>3
        <5>3. Write => ~Leased(c)'
          BY <1>2, <4>3, <5>2, FreedStays DEF SpeaksAt
        <5>4. claim = "released" => ~ClaimedBy(c)'
          BY <1>1, <4>3, <5>1 DEF Tells, Frees, ClaimedBy
        <5>5. QED
          BY <4>1, <5>1, <5>2, <5>3, <5>4 DEF Sound
      <4>4. QED
        BY <1>1, <1>3, <4>2, <4>3 DEF Says
    <3>8. k \in UnfreedPoints \cup WritePoints => ~y.freed
      <4>1. k \in UnfreedPoints /\ y.freed => x.freed /\ l \in UnfreedPoints \cup WritePoints
        BY <1>1, <1>3 DEF Says
      <4>2. QED
        BY <1>2, <1>3, <4>1 DEF SpeaksAt
    <3>9. k \in CastPoints => y.exe.status = y.verdict
      <4>1. k = "bind" => y.exe.status = y.verdict
        BY <1>3 DEF Says
      <4>2. k \in {"handoff", "task"} => y.exe.status = x.exe.status /\ y.verdict = x.verdict /\ l \in CastPoints
        BY <1>1, <1>3 DEF Says, CastPoints
      <4>3. QED
        BY <1>2, <4>1, <4>2 DEF SpeaksAt, CastPoints
    <3>10. QED
      BY <2>2, <3>1, <3>2, <3>3, <3>4, <3>5, <3>6, <3>7, <3>8, <3>9 DEF SpeaksAt
  <2>3. QED
    BY <1>4, <2>1, <2>2
<1>10. QED
  BY <1>1, <1>2, <1>9, SpeaksAnew

(* A step of one process keeps to the truth. *)
LEMMA TruthStays ==
  ASSUME NEW p, Alone(p), TruthInv, Tells(p)
  PROVE  TruthInv'
<1>1. Spares(p)
  BY DEF Tells
<1>2. \A q \in Proc : SpeaksTrue(q)'
  BY <1>1, OwnSpeaks, OthersSpeak DEF TruthInv
<1>3. QED
  BY <1>1, <1>2, OwnRecordSound DEF TruthInv

-----------------------------------------------------------------------------
(* The evidence along the other steps *)

(* p takes up a Command, or hands it to a worker.                          *)
TakesUp(p) ==
  /\ pc'[p] \in {"reconcile", "take", "retry", "write", "boot"}
  /\ my'[p].freed = FALSE
  /\ my'[p].exe.evidence = NoEvidence \/ (my'[p].exe = my[p].exe /\ my'[p].c = my[p].c)
  /\ my'[p].seen.evidence = NoEvidence \/ (my'[p].seen = my[p].seen /\ my'[p].c = my[p].c)

LEMMA QuietTruth ==
  ASSUME WatcherInv, TruthInv, UNCHANGED <<exe, root, lease, handoff>>,
         \A q \in Proc : (pc'[q] = pc[q] /\ my'[q] = my[q]) \/ TakesUp(q)
  PROVE  TruthInv'
<1>1. ASSUME NEW c \in Command, Past(c)
      PROVE  Past(c)'
  <2>1. \A q \in Proc : my'[q].c = c => pc'[q] \notin EarlyPoints \cup UndoPoints /\ ~PutsRaw(q)'
    BY <1>1 DEF Past, PutsRaw, TakesUp, EarlyPoints, UndoPoints
  <2>2. QED
    BY <1>1, <2>1 DEF Past
<1>2. ASSUME NEW c \in Command, NEW ev, Sound(c, ev)
      PROVE  Sound(c, ev)'
  <2>1. Past(c) => Past(c)'
    BY <1>1
  <2>2. QED
    BY <1>2, <2>1 DEF Sound, ClaimedBy, Leased, HandedOff
<1>3. \A c \in Command : Sound(c, exe[c].evidence)'
  <2> SUFFICES ASSUME NEW c \in Command
               PROVE  Sound(c, exe[c].evidence)'
    OBVIOUS
  <2>1. PICK ev : ev = exe[c].evidence
    OBVIOUS
  <2>2. Sound(c, ev)'
    BY <1>2, <2>1 DEF TruthInv
  <2>3. QED
    BY <2>1, <2>2 DEF Sound, HandedOff
<1>4. ASSUME NEW q \in Proc
      PROVE  SpeaksTrue(q)'
  <2>1. PICK k, y : k = pc'[q] /\ y = my'[q]
    OBVIOUS
  <2>2. SpeaksAt(pc[q], my[q])
    BY DEF TruthInv, SpeaksTrue
  <2>3. CASE pc'[q] = pc[q] /\ my'[q] = my[q]
    <3>1. SpeaksAt(k, y)
      BY <2>1, <2>2, <2>3
    <3>2. k = "clean" => y.c \in Command
      BY <2>1, <2>3, Fields DEF WatcherInv, RestPoints
    <3>3. /\ y.c \in Command => Sound(y.c, y.exe.evidence)' /\ Sound(y.c, y.seen.evidence)'
          /\ k = "clean" => Sound(y.c, y.clean)'
      BY <1>2, <3>1, <3>2 DEF SpeaksAt
    <3>4. SpeaksAt(k, y)'
      BY <3>1, <3>3 DEF SpeaksAt, ClaimedBy, Leased, HandedOff
    <3>5. QED
      BY <2>1, <3>4, SpeaksAnew
  <2>4. CASE TakesUp(q)
    <3>1. y.c \in Command => Sound(y.c, NoEvidence)'
      BY DEF Sound, NoEvidence
    <3>2. ASSUME y.c \in Command
          PROVE  Sound(y.c, y.exe.evidence)' /\ Sound(y.c, y.seen.evidence)'
      <4>1. /\ y.exe.evidence = NoEvidence \/ Sound(y.c, y.exe.evidence)
            /\ y.seen.evidence = NoEvidence \/ Sound(y.c, y.seen.evidence)
        BY <2>1, <2>2, <2>4, <3>2 DEF TakesUp, SpeaksAt
      <4>2. QED
        BY <1>2, <3>1, <3>2, <4>1
    <3>3. /\ k \notin UNION {WindPoints, ReleasePoints, {"fix_task_view", "fix_audit"}}
          /\ y.freed = FALSE
      BY <2>1, <2>4 DEF TakesUp, WindPoints, ReleasePoints, TerminalizePoints, CleanupPoints
    <3>4. "clean" \in WindPoints /\ "free_claim" \in WindPoints /\ ToldPoints \subseteq WindPoints
          /\ CastPoints \subseteq WindPoints
      BY DEF WindPoints, TerminalizePoints, CleanupPoints, ToldPoints, CastPoints
    <3>5. SpeaksAt(k, y)'
      BY <3>2, <3>3, <3>4 DEF SpeaksAt
    <3>6. QED
      BY <2>1, <3>5, SpeaksAnew
  <2>5. QED
    BY <2>3, <2>4
<1>5. QED
  BY <1>3, <1>4 DEF TruthInv

LEMMA TickTruth ==
  ASSUME WatcherInv, TruthInv, NEW p \in Proc, Tick(p)
  PROVE  TruthInv'
<1>1. PICK c \in Command :
        \E l \in {"reconcile", "take", "retry"} : Step(p, l, [NoWork EXCEPT !.c = c, !.cmd = cmd[c]])
  BY Zenon DEF Tick, CommandOver
<1>2. PICK l \in {"reconcile", "take", "retry"} : Step(p, l, TakenUp(c, cmd[c]))
  BY <1>1 DEF TakenUp
<1>3. PICK y : y = TakenUp(c, cmd[c])
  OBVIOUS
<1>4. y \in WorkType /\ y.exe = NewExecution /\ y.seen = NewExecution /\ y.freed = FALSE
  <2>1. cmd[c] \in CommandType
    BY DEF WatcherInv, Typed, StoresTyped
  <2>2. y.freed = FALSE
    BY <1>3, NewTyped, NoWorkFields DEF TakenUp, WorkType
  <2>3. QED
    BY <1>3, <2>1, <2>2, TakenUpFits, NoWorkFields
<1>5. Kept(l, y) = y
  BY <1>4, KeptKeeps DEF Keeps, WholeAt, KeptPoints, Points, WatchPoints, ReconciliationPoints
<1>6. pc' = [pc EXCEPT ![p] = l] /\ my' = [my EXCEPT ![p] = y] /\ UNCHANGED <<exe, root, lease, handoff>>
  BY <1>2, <1>3, <1>5 DEF Step, GoWith, Untouched, stores
<1>7. pc'[p] = l /\ my'[p] = y /\ \A q \in Proc \ {p} : pc'[q] = pc[q] /\ my'[q] = my[q]
  BY <1>6 DEF WatcherInv, Typed
<1>8. TakesUp(p)
  BY <1>4, <1>7, NoWorkFields DEF TakesUp
<1>9. QED
  BY <1>6, <1>7, <1>8, QuietTruth

LEMMA SpawnsTruth ==
  ASSUME WatcherInv, TruthInv, NEW p \in Proc, pc[p] = "spawn", SpawnsWorker(p)
  PROVE  TruthInv'
<1>1. PICK k \in Worker : k = NextSlot /\ pc[k] = "off"
  BY DEF SpawnsWorker, SlotFree, NextSlot
<1>2. k \in Proc /\ k # p /\ Typed
  BY <1>1 DEF Proc, WatcherInv
<1>3. PICK y, z, r :
        /\ r = [my[p].cmd EXCEPT !.worker = k]
        /\ y = [my[p] EXCEPT !.out = r, !.next = "idle", !.onError = "spawn_failed"]
        /\ z = [NoWork EXCEPT !.c = my[p].c]
  OBVIOUS
<1>4. y.exe = my[p].exe /\ y.seen = my[p].seen /\ y.freed = my[p].freed /\ y.c = my[p].c
  BY <1>2, <1>3 DEF Typed, WorkType
<1>5. z.exe.evidence = NoEvidence /\ z.seen.evidence = NoEvidence /\ z.freed = FALSE
  BY <1>3, NewTyped, NoWorkFields DEF WorkType
<1>6. /\ pc' = [pc EXCEPT ![p] = "write", ![k] = "boot"] /\ my' = [my EXCEPT ![p] = y, ![k] = z]
      /\ UNCHANGED <<exe, root, lease, handoff>>
  BY <1>1, <1>3 DEF SpawnsWorker, Untouched, stores
<1>7. /\ pc'[p] = "write" /\ my'[p] = y /\ pc'[k] = "boot" /\ my'[k] = z
      /\ \A q \in Proc \ {p, k} : pc'[q] = pc[q] /\ my'[q] = my[q]
  BY <1>2, <1>6 DEF Typed
<1>8. my[p].freed = FALSE
  BY <1>2 DEF TruthInv, SpeaksTrue, SpeaksAt, UnfreedPoints, Typed, WorkType
<1>9. TakesUp(p) /\ TakesUp(k)
  BY <1>4, <1>5, <1>7, <1>8 DEF TakesUp
<1>10. QED
  BY <1>6, <1>7, <1>9, QuietTruth

LEMMA OwnTruth ==
  ASSUME OneWatcher, WatcherInv, TruthInv, NEW p \in Proc, Ensures(p), Tells(p)
  PROVE  TruthInv'
<1>1. WatcherInv'
  BY ProcessStep
<1>2. Alone(p)
  BY <1>1 DEF Alone, Shared, WatcherInv, Ensures
<1>3. QED
  BY <1>2, TruthStays

LEMMA InitTruth ==
  ASSUME Init
  PROVE  TruthInv
<1>1. ASSUME NEW c
      PROVE  Sound(c, NoEvidence)
  BY DEF Sound, NoEvidence
<1>2. \A c \in Command : exe[c].evidence = NoEvidence
  BY NoWorkFields DEF Init
<1>3. ASSUME NEW p \in Proc
      PROVE  SpeaksTrue(p)
  <2>1. my[p] = NoWork /\ pc[p] \in {"off", "idle"}
    BY DEF Init
  <2>2. pc[p] \notin UNION {WindPoints, ReleasePoints, {"fix_task_view", "fix_audit"}, UnfreedPoints, WritePoints}
    BY <2>1 DEF WindPoints, ReleasePoints, UnfreedPoints, TurnPoints, WritePoints, TerminalizePoints, CleanupPoints
  <2>3. "clean" \in WindPoints /\ "free_claim" \in WindPoints /\ ToldPoints \subseteq WindPoints
        /\ CastPoints \subseteq WindPoints
    BY DEF WindPoints, TerminalizePoints, CleanupPoints, ToldPoints, CastPoints
  <2>4. QED
    BY <1>1, <2>1, <2>2, <2>3, NoWorkFields DEF SpeaksTrue, SpeaksAt
<1>4. QED
  BY <1>1, <1>2, <1>3 DEF TruthInv

LEMMA NextTruth ==
  ASSUME OneWatcher, WatcherInv, TruthInv, [Next]_lifecycleVars
  PROVE  TruthInv'
<1>1. Typed /\ (\A p \in Proc : Fitting(p)) /\ NoCommand \notin Command
  BY LifecycleAssumption DEF WatcherInv
<1>2. ASSUME NEW p \in Proc, Steps(p)
      PROVE  TruthInv'
  <2>1. CASE Tick(p)
    BY <2>1, TickTruth
  <2>2. CASE pc[p] = "spawn" /\ SpawnsWorker(p)
    BY <2>2, SpawnsTruth
  <2>3. CASE ~Tick(p) /\ ~(pc[p] = "spawn" /\ SpawnsWorker(p))
    <3>1. Ensures(p)
      BY <1>1, <1>2, <2>3, AllSteps
    <3>2. pc[p] \notin RestPoints
      BY <1>1, <3>1, Fields DEF Ensures, Moves
    <3>3. Held(p)
      BY <1>1, <3>2, Hands
    <3>4. Tells(p)
      BY <1>1, <1>2, <2>3, <3>3, StepTells
    <3>5. QED
      BY <3>1, <3>4, OwnTruth
  <2>4. QED
    BY <2>1, <2>2, <2>3
<1>3. ASSUME NEW p \in Proc, (CrashWatcher(p) /\ p \in Watcher) \/ (CrashWorker(p) /\ p \in Worker)
      PROVE  TruthInv'
  <2>1. Ensures(p)
    BY <1>1, <1>3, CrashSteps
  <2>2. Tells(p)
    BY <1>1, <1>3, <2>1, CrashTells DEF Ensures, Moves
  <2>3. QED
    BY <2>1, <2>2, OwnTruth
<1>4. ASSUME UNCHANGED <<exe, root, lease, handoff, pc, my>>
      PROVE  TruthInv'
  BY <1>4, QuietTruth
<1>5. ASSUME NEW p \in Proc, ProviderExits(p)
      PROVE  TruthInv'
  BY <1>4, <1>5 DEF ProviderExits, Untouched, stores
<1>6. ASSUME NEW c \in Command, DispatchRetry(c)
      PROVE  TruthInv'
  BY <1>4, <1>6 DEF DispatchRetry, PutCmd
<1>7. CASE Rest \/ UNCHANGED lifecycleVars
  BY <1>4, <1>7 DEF Rest, lifecycleVars, stores
<1>8. QED
  BY <1>2, <1>3, <1>5, <1>6, <1>7 DEF Next, Proc


-----------------------------------------------------------------------------
(* When a claim is given up *)

StrikePoints == {"strike", "strike_free"}

(* Whoever holds the claim for c has its verdict bound. *)
BoundFor(c) == root.owner = c => root.bind # NoVerdict

(* That verdict is handed off, or a view of it has failed for good. *)
GivenUp(c) == root.owner = c => root.bind \in handoff \/ \E v \in Views : root.strikes[v] >= Threshold

ReleaseInv ==
  \A p \in Proc : pc[p] \in StrikePoints => BoundFor(my[p].c) /\ (pc[p] = "strike_free" => GivenUp(my[p].c))

(* Where p may go, what becomes of the failures counted on the Task Root,  *)
(* and who gives the claim up.                                             *)
Yields(p) ==
  LET c == my[p].c
  IN  /\ pc'[p] \in StrikePoints => pc[p] \in {"fix_handoff", "fix_handoff_view", "fix_task", "fix_task_view", "strike"}
      /\ pc'[p] = "strike_free" => pc[p] = "strike" /\ \E v \in Views : root'.strikes[v] >= Threshold
      /\ \/ root'.strikes = root.strikes
         \/ root'.bind = NoVerdict
         \/ pc[p] \in {"views", "fix_handoff_view", "fix_task_view"} /\ root.owner = c
         \/ \A v \in Views : root'.strikes[v] >= root.strikes[v]
      /\ root.active =>
           \/ root'.active /\ root'.owner = root.owner
           \/ pc[p] \in {"undo_claim", "orphan_free", "free_claim", "strike_free"} /\ root.owner = c
           \/ pc[p] = "recover" /\ Recoverable(root.owner)

LEMMA Passes ==
  ASSUME Typed, NEW p \in Proc, NEW l, l \notin StrikePoints, NEW w, GoWith(p, l, w), root' = root
  PROVE  Yields(p)
<1>1. pc'[p] = l
  BY DEF GoWith, Typed
<1>2. QED
  BY <1>1 DEF Yields, StrikePoints

LEMMA Looking ==
  ASSUME Typed, NEW p \in Proc, NEW l, l \notin StrikePoints, NEW w, Step(p, l, w) \/ UnreadWith(p, l, w)
  PROVE  Yields(p)
BY Passes DEF Step, UnreadWith, Untouched, stores

(* Where the rest of a call leads. *)
LEMMA Ways ==
  ASSUME NEW p, Held(p)
  PROVE  /\ pc[p] \in WritePoints \cup BlockPoints \cup ExitPoints =>
              my[p].next \notin StrikePoints /\ my[p].onError \notin StrikePoints
         /\ End(p) \notin StrikePoints
BY DEF Held, Fits, ExitFits, Exits, End, StrikePoints, WritePoints, BlockPoints, ExitPoints

LEMMA RecordsYield ==
  ASSUME Typed, NEW p \in Proc, Held(p), Records(p)
  PROVE  Yields(p)
<1>1. "write_put" \notin StrikePoints /\ "block_put" \notin StrikePoints /\ "write" \notin StrikePoints
  BY DEF StrikePoints
<1>2. CASE WriteRead(p)
  BY <1>1, <1>2, Looking, Ways DEF WriteRead, Jump, Unread, WritePoints
<1>3. CASE WritePut(p)
  BY <1>3, Passes, Ways DEF WritePut, Attempt, AttemptWith, PutCmd, Untouched, stores, WritePoints
<1>4. CASE BlockRead(p)
  BY <1>1, <1>4, Looking, Ways DEF BlockRead, Unread
<1>5. CASE BlockPut(p)
  BY <1>1, <1>5, Passes, Ways DEF BlockPut, Attempt, AttemptWith, PutTask, Untouched, stores
<1>6. QED
  BY <1>2, <1>3, <1>4, <1>5 DEF Records

LEMMA LaunchYields ==
  ASSUME Typed, NEW p \in Proc, Held(p), Launch(p)
  PROVE  Yields(p)
<1>a. \A l \in LaunchPoints \cup {"done", "handler", "write"} : l \notin StrikePoints
  BY DEF StrikePoints, LaunchPoints
<1> USE Looking DEF Jump, Unread, LaunchPoints
<1>1. CASE WorkerBoot(p) \/ Reserve(p)
  BY <1>a, <1>1 DEF WorkerBoot, Reserve
<1>2. CASE GateEntry(p)
  <2>1. (IF Write THEN "lease" ELSE "claim") \notin StrikePoints
    BY DEF StrikePoints
  <2>2. QED
    BY <1>a, <1>2, <2>1 DEF GateEntry
<1>3. CASE GateTask(p)
  BY <1>a, <1>3 DEF GateTask
<1>4. CASE ReservePut(p) \/ AcquireLease(p) \/ GateTaskPut(p) \/ GateExecPut(p)
  BY <1>a, <1>4, Passes DEF ReservePut, AcquireLease, GateTaskPut, GateExecPut, Attempt, AttemptWith, PutExe, PutLease,
     PutTask, Untouched, stores
<1>5. CASE UndoExec(p) \/ UndoTask(p) \/ DropLease(p)
  BY <1>a, <1>5, Passes DEF UndoExec, UndoTask, DropLease, Attempt, AttemptWith, PutExe, PutLease,
     PutTask, Untouched, stores
<1>6. CASE AcquireRoot(p)
  <2>1. CASE ~Claimable
    BY <1>a, <1>6, <2>1 DEF AcquireRoot
  <2>2. CASE Claimable
    <3> DEFINE r == [NoRoot EXCEPT !.owner = Mine(p), !.token = p, !.active = TRUE]
    <3>1. PICK l \in {"gate_task", "handler"} : GoWith(p, l, my[p]) /\ (PutRoot(r) \/ Untouched)
      BY <1>6, <2>2 DEF AcquireRoot, Attempt, AttemptWith
    <3>2. pc'[p] = l /\ l \notin StrikePoints
      BY <3>1 DEF GoWith, Typed, StrikePoints
    <3>3. root' = root \/ (~root.active /\ root'.bind = NoVerdict)
      BY <2>2, <3>1 DEF PutRoot, NoRoot, Claimable, Unclaimed, Untouched, stores
    <3>4. QED
      BY <3>2, <3>3 DEF Yields, StrikePoints
  <2>3. QED
    BY <2>1, <2>2
<1>7. CASE UndoClaim(p)
  <2>1. PICK l \in {"drop_lease", "handler"} : GoWith(p, l, my[p])
    BY <1>7 DEF UndoClaim, Attempt, AttemptWith, Step
  <2>2. pc'[p] = l /\ l \notin StrikePoints
    BY <2>1 DEF GoWith, Typed, StrikePoints
  <2>3. root' = root \/ (root.owner = my[p].c /\ pc[p] = "undo_claim" /\ root' = RootReleased)
    BY <1>7 DEF UndoClaim, Attempt, AttemptWith, Step, PutRoot, Untouched, stores, Mine
  <2>4. RootReleased.strikes = root.strikes \/ RootReleased.bind = NoVerdict
    BY DEF RootReleased, NoRoot, Typed, StoresTyped, RootType
  <2>5. QED
    BY <2>2, <2>3, <2>4 DEF Yields, StrikePoints
<1>8. QED
  BY <1>1, <1>2, <1>3, <1>4, <1>5, <1>6, <1>7 DEF Launch

LEMMA TurnYields ==
  ASSUME Typed, NEW p \in Proc, Held(p), Turn(p)
  PROVE  Yields(p)
<1>a. \A l \in TurnPoints \cup {"term", "handler"} : l \notin StrikePoints
  BY DEF StrikePoints, TurnPoints
<1> USE Looking DEF Jump, Unread, TurnPoints
<1>1. CASE Prepare(p) \/ Close(p)
  BY <1>a, <1>1, Passes DEF Prepare, Close, Untouched, stores
<1>2. CASE RecordProvider(p) \/ LinkSession(p) \/ Heartbeat(p) \/ TurnEnds(p)
  BY <1>a, <1>2 DEF RecordProvider, LinkSession, Heartbeat, TurnEnds, Touches
<1>3. CASE RecordProviderPut(p) \/ LinkLease(p) \/ HeartbeatPut(p)
  BY <1>a, <1>3, Passes DEF RecordProviderPut, LinkLease, HeartbeatPut, PutTouched, Attempt, AttemptWith,
     PutExe, PutLease, Untouched, stores
<1>4. CASE LinkSessionPut(p)
  <2>1. (IF Write THEN "link_lease" ELSE "turn") \notin StrikePoints
    BY DEF StrikePoints
  <2>2. QED
    BY <1>a, <1>4, <2>1, Passes DEF LinkSessionPut, PutTouched, Attempt, AttemptWith, PutExe, Untouched, stores
<1>5. QED
  BY <1>1, <1>2, <1>3, <1>4 DEF Turn

(* Folding evidence in. *)
LEMMA MergeYields ==
  ASSUME Typed, NEW p \in Proc, NEW l, l \notin StrikePoints, NEW bad, bad \notin StrikePoints,
         NEW u, MergesInto(p, u, l, bad)
  PROVE  Yields(p)
BY Looking DEF MergesInto, Jump, Unread

(* Putting an Execution back. *)
LEMMA PutExeYields ==
  ASSUME Typed, NEW p \in Proc, NEW good, good \notin StrikePoints, NEW bad, bad \notin StrikePoints, NEW w, NEW e,
         AttemptWith(p, PutExe(Mine(p), e), good, bad, w)
  PROVE  Yields(p)
BY Passes DEF AttemptWith, PutExe, Untouched, stores

LEMMA TerminalizeYields ==
  ASSUME Typed, NEW p \in Proc, Held(p), Terminalize(p)
  PROVE  Yields(p)
<1>a. \A l \in TerminalizePoints \cup {"audit"} : l \notin StrikePoints
  BY DEF StrikePoints, TerminalizePoints
<1>b. /\ TerminalizePoints = {"term", "persist", "persist_put", "bind", "handoff", "task", "views", "retain", "retain_put"}
      /\ pc[p] \in TerminalizePoints => my[p].next \notin StrikePoints /\ my[p].onError \notin StrikePoints
  BY Ways DEF TerminalizePoints, ExitPoints
<1> USE Looking DEF Jump, Unread
<1>1. CASE TerminalizeEntry(p)
  <2>1. PICK l, w : (Step(p, l, w) \/ UnreadWith(p, l, w)) /\ l \in {my[p].next, my[p].onError, "persist", "bind"}
    BY <1>1 DEF TerminalizeEntry
  <2>2. QED
    BY <1>1, <1>a, <1>b, <2>1 DEF TerminalizeEntry
<1>2. CASE Persist(p)
  BY <1>a, <1>b, <1>2 DEF Persist
<1>3. CASE PersistPut(p)
  BY <1>a, <1>b, <1>3, PutExeYields DEF PersistPut
<1>4. CASE Bind(p)
  <2> DEFINE w == [my[p] EXCEPT !.done = {"execution"}, !.task = task]
             b == VerdictOf(w.c, w.exe)
  <2>1. PICK l \in {"handoff", "retain"} : GoWith(p, l, w) /\ (PutRoot(Bound(b)) \/ Untouched)
    BY <1>4 DEF Bind, AttemptWith, Step
  <2>2. pc'[p] = l /\ l \notin StrikePoints
    BY <2>1, <1>a, <1>b DEF GoWith, Typed
  <2>3. root' = root \/ root' = Bound(b)
    BY <2>1 DEF PutRoot, Untouched, stores
  <2>4. Bound(b).strikes = root.strikes /\ Bound(b).active = root.active /\ Bound(b).owner = root.owner
    BY DEF Bound, Typed, StoresTyped, RootType
  <2>5. QED
    BY <2>2, <2>3, <2>4 DEF Yields, StrikePoints
<1>5. CASE WriteHandoff(p) \/ WriteTask(p)
  BY <1>a, <1>b, <1>5, Passes DEF WriteHandoff, WriteTask, Attempt, AttemptWith, PutHandoff, PutTask, Untouched, stores
<1>6. CASE VerifyViews(p)
  <2> DEFINE w == [my[p] EXCEPT !.done = AllParts]
             r == [root EXCEPT !.strikes = NoRoot.strikes]
  <2>1. PICK l \in {"audit", "retain"} : GoWith(p, l, w) /\ ((root.owner = my[p].c /\ PutRoot(r)) \/ Untouched)
    <3>1. w.c = my[p].c
      BY DEF Held, WorkType
    <3>2. QED
      BY <1>6, <3>1 DEF VerifyViews, AttemptWith, Step
  <2>2. pc'[p] = l /\ l \notin StrikePoints
    BY <2>1, <1>a, <1>b DEF GoWith, Typed
  <2>3. root' = root \/ (root.owner = my[p].c /\ root' = r)
    BY <2>1 DEF PutRoot, Untouched, stores
  <2>4. r.active = root.active /\ r.owner = root.owner /\ pc[p] = "views"
    BY <1>6 DEF VerifyViews, Typed, StoresTyped, RootType
  <2>5. QED
    BY <2>2, <2>3, <2>4 DEF Yields, StrikePoints
<1>7. CASE Retain(p)
  BY <1>a, <1>b, <1>7, MergeYields DEF Retain
<1>8. CASE RetainPut(p)
  BY <1>a, <1>b, <1>8, PutExeYields DEF RetainPut, Attempt
<1>9. QED
  BY <1>1, <1>2, <1>3, <1>4, <1>5, <1>6, <1>7, <1>8 DEF Terminalize

LEMMA CleanupYields ==
  ASSUME Typed, NEW p \in Proc, Held(p), Cleanup(p)
  PROVE  Yields(p)
<1>a. \A l \in CleanupPoints : l \notin StrikePoints
  BY DEF StrikePoints, CleanupPoints
<1>b. /\ CleanupPoints = {"audit", "audit_put", "free_lease", "free_claim", "clean", "clean_put"}
      /\ pc[p] \in CleanupPoints => my[p].next \notin StrikePoints /\ my[p].onError \notin StrikePoints
  BY Ways DEF CleanupPoints, ExitPoints
<1>1. CASE Audit(p) \/ Clean(p)
  BY <1>a, <1>b, <1>1, MergeYields DEF Audit, Clean
<1>2. CASE AuditPut(p)
  <2>1. PICK l \in {"free_lease", "free_claim"} : Attempt(p, PutExe(Mine(p), my[p].exe), l, my[p].next)
    BY <1>2 DEF AuditPut
  <2>2. QED
    BY <1>a, <1>b, <1>2, <2>1, PutExeYields DEF AuditPut, Attempt
<1>3. CASE FreeLease(p)
  BY <1>a, <1>b, <1>3, Passes DEF FreeLease, Step, PutLease, Untouched, stores
<1>4. CASE FreeClaim(p)
  <2>1. pc'[p] = "clean" /\ pc[p] = "free_claim"
    BY <1>4 DEF FreeClaim, GoWith, Typed
  <2>2. root' = root \/ (root.owner = my[p].c /\ root' = RootReleased)
    BY <1>4 DEF FreeClaim, PutRoot, Untouched, stores, Mine
  <2>3. RootReleased.strikes = root.strikes \/ RootReleased.bind = NoVerdict
    BY DEF RootReleased, NoRoot, Typed, StoresTyped, RootType
  <2>4. QED
    BY <2>1, <2>2, <2>3 DEF Yields, StrikePoints
<1>5. CASE CleanPut(p)
  BY <1>a, <1>b, <1>5, PutExeYields DEF CleanPut, Attempt
<1>6. QED
  BY <1>1, <1>2, <1>3, <1>4, <1>5 DEF Cleanup

LEMMA ReportYields ==
  ASSUME Typed, NEW p \in Proc, Held(p), Report(p)
  PROVE  Yields(p)
<1>a. \A l \in {"handler", "block", "write", "reconcile"} : l \notin StrikePoints
  BY DEF StrikePoints
<1>1. CASE Finish(p) \/ Handler(p)
  BY <1>a, <1>1, Looking DEF Finish, Handler, Jump, Unread, Conclude, Publish, BlockThenFail
<1>2. QED
  BY <1>1 DEF Report

LEMMA WatchYields ==
  ASSUME Typed, NEW p \in Proc, Held(p), Watch(p), ~Tick(p), ~(pc[p] = "spawn" /\ SpawnsWorker(p))
  PROVE  Yields(p)
<1>a. \A l \in WatchPoints \cup {"write", "block"} : l \notin StrikePoints
  BY DEF StrikePoints, WatchPoints
<1> USE Looking DEF WatchPoints
<1>1. CASE PrepareRetry(p) \/ RetryRefused(p)
  BY <1>a, <1>1 DEF PrepareRetry, RetryRefused, Refuses, Conclude, Publish, Jump, Unread
<1>2. CASE PrepareRetryPut(p)
  BY <1>a, <1>2, Passes DEF PrepareRetryPut, Attempt, AttemptWith, PutTask, Untouched, stores
<1>3. CASE Take(p)
  BY <1>a, <1>3 DEF Take, Publish
<1>4. CASE Spawn(p)
  BY <1>a, <1>4 DEF Spawn, SpawnsWorker, Mine, Jump, Unread
<1>5. CASE SpawnFailed(p)
  BY <1>a, <1>5 DEF SpawnFailed, SpawnFails, BlockThenFail
<1>6. QED
  BY <1>1, <1>2, <1>3, <1>4, <1>5 DEF Watch

LEMMA MarkYields ==
  ASSUME Typed, NEW p \in Proc, Held(p), Mark(p)
  PROVE  Yields(p)
<1>a. \A l \in MarkPoints \cup {"write", End(p)} : l \notin StrikePoints
  BY Ways DEF StrikePoints, MarkPoints
<1> USE Looking DEF MarkPoints, Jump, Unread
<1>1. CASE AttentionStart(p)
  <2>1. (IF HasPulse(my[p].seen) THEN "mark" ELSE "mark_cmd") \notin StrikePoints
    BY DEF StrikePoints
  <2>2. QED
    BY <1>a, <1>1, <2>1 DEF AttentionStart
<1>2. CASE MarkRead(p)
  BY <1>a, <1>2 DEF MarkRead
<1>3. CASE MarkPut(p)
  BY <1>a, <1>3, PutExeYields DEF MarkPut, Attempt
<1>4. CASE MarkTask(p) \/ MarkCommand(p)
  BY <1>a, <1>4 DEF MarkTask, MarkCommand, Conclude, Publish
<1>5. CASE MarkTaskPut(p)
  BY <1>a, <1>5, Passes DEF MarkTaskPut, Attempt, AttemptWith, PutTask, Untouched, stores
<1>6. QED
  BY <1>1, <1>2, <1>3, <1>4, <1>5 DEF Mark

LEMMA ReconciliationYields ==
  ASSUME Typed, NEW p \in Proc, Held(p), Reconciliation(p)
  PROVE  Yields(p)
<1>a. \A l \in ReconciliationPoints \cup {"write", "attention", "recover", "fix", "block", "term", End(p)} : l \notin StrikePoints
  BY Ways DEF StrikePoints, ReconciliationPoints
<1> USE Looking DEF ReconciliationPoints, Jump, Unread
<1>1. CASE Reconcile(p)
  <2> DEFINE u == [my[p] EXCEPT !.seen = exe[my[p].c]]
             v == [my[p] EXCEPT !.seen = NewExecution]
  <2>1. exe[my[p].c].status \in {"none", "reserved", "running", "cancelled"} \/ Settled(exe[my[p].c].status)
    BY DEF Held, ExecutionType, Settled
  <2>2. exe[my[p].c].status = "none" => ~Settled(exe[my[p].c].status)
    BY DEF Settled, Terminal
  <2>3. \/ Jump(p, End(p)) \/ Unread(p, End(p)) \/ Jump(p, "orphan") \/ Unread(p, "orphan")
        \/ Step(p, "attention", v) \/ UnreadWith(p, "attention", v)
        \/ \E l \in {"attention", "cancel", "undo_lease", "judge", "recover", "fix"} : Step(p, l, u)
    BY <1>1, <2>1, <2>2 DEF Reconcile, Mine, NoExecution, AttendNoExecution, Attend, StillReserved, Settled, Terminal
  <2> HIDE DEF u, v
  <2>4. QED
    BY <1>a, <2>3
<1>2. CASE Orphan(p)
  BY <1>a, <1>2 DEF Orphan, Conclude, Publish, AttendNoExecution, Attend
<1>3. CASE OrphanFree(p)
  <2>1. CASE Jump(p, End(p))
    BY <1>a, <2>1
  <2>2. CASE ~Jump(p, End(p))
    <3>1. PICK l, w : GoWith(p, l, w) /\ l \in {End(p), "attention"} /\ root.owner = my[p].c
                      /\ (PutRoot(RootReleased) \/ Untouched)
      BY <1>3, <2>2 DEF OrphanFree, AttemptWith, Mine
    <3>2. pc'[p] = l /\ l \notin StrikePoints /\ pc[p] = "orphan_free"
      BY <1>a, <1>3, <3>1 DEF GoWith, Typed, OrphanFree
    <3>3. root' = root \/ root' = RootReleased
      BY <3>1 DEF PutRoot, Untouched, stores
    <3>4. RootReleased.strikes = root.strikes \/ RootReleased.bind = NoVerdict
      BY DEF RootReleased, NoRoot, Typed, StoresTyped, RootType
    <3>5. QED
      BY <3>1, <3>2, <3>3, <3>4 DEF Yields, StrikePoints
  <2>3. QED
    BY <2>1, <2>2
<1>4. CASE CancelRead(p)
  BY <1>a, <1>4 DEF CancelRead, Attention
<1>5. CASE CancelPut(p)
  BY <1>a, <1>5, PutExeYields DEF CancelPut, Attempt
<1>6. CASE UndoLease(p) \/ RecoverLease(p)
  BY <1>a, <1>6, Passes DEF UndoLease, RecoverLease, Attention, Attempt, AttemptWith, PutLease, Untouched, stores
<1>7. CASE Judge(p)
  BY <1>a, <1>7 DEF Judge, Publish, Attention
<1>8. CASE Heal(p) \/ HealPut(p)
  BY <1>a, <1>8, Passes DEF Heal, HealPut, Attempt, AttemptWith, PutTask, Untouched, stores
<1>9. CASE Confirm(p)
  <2>1. (IF pc[p] = "confirm" THEN "attention" ELSE End(p)) \notin StrikePoints
    BY <1>a
  <2>2. QED
    BY <1>a, <1>9, <2>1 DEF Confirm, Conclude, Publish
<1>10. QED
  BY <1>1, <1>2, <1>3, <1>4, <1>5, <1>6, <1>7, <1>8, <1>9 DEF Reconciliation

LEMMA VerifiesYields ==
  ASSUME Typed, NEW p \in Proc, NEW v, NEW good, good \notin StrikePoints,
         pc[p] \in {"fix_handoff_view", "fix_task_view"}, VerifiesView(p, v, good)
  PROVE  Yields(p)
<1> DEFINE w == [my[p] EXCEPT !.view = "task"]
<1>1. PICK l \in {good, "strike"} : GoWith(p, l, w) /\ ((root.owner = my[p].c /\ PutRoot(Verified(v))) \/ Untouched)
  BY DEF VerifiesView, AttemptWith, Step, Mine
<1>2. pc'[p] = l /\ l # "strike_free"
  BY <1>1 DEF GoWith, Typed, StrikePoints
<1>3. root' = root \/ (root.owner = my[p].c /\ root' = Verified(v))
  BY <1>1 DEF PutRoot, Untouched, stores
<1>4. Verified(v).active = root.active /\ Verified(v).owner = root.owner
  BY DEF Verified, Typed, StoresTyped, RootType
<1>5. QED
  BY <1>1, <1>2, <1>3, <1>4 DEF Yields, StrikePoints

LEMMA RepairYields ==
  ASSUME Typed, NEW p \in Proc, Held(p), Repair(p)
  PROVE  Yields(p)
<1>a. \A l \in RepairPoints \cup {"recover", End(p)} : l \notin StrikePoints
  BY Ways DEF StrikePoints, RepairPoints
<1>b. RepairPoints = {"fix", "fix_handoff", "fix_handoff_view", "fix_task", "fix_task_view", "fix_audit", "fix_audit_put"}
  BY DEF RepairPoints
<1> USE Looking DEF Jump, Unread
<1>1. CASE Fix(p)
  <2> DEFINE b == VerdictOf(my[p].c, exe[my[p].c])
  <2>1. PICK l, w : GoWith(p, l, w) /\ l \in {"fix_handoff", "recover"} /\ (PutRoot(Bound(b)) \/ Untouched)
    BY <1>1 DEF Fix, AttemptWith, Step, UnreadWith, Mine
  <2>2. pc'[p] = l /\ l \notin StrikePoints
    BY <2>1, <1>a, <1>b DEF GoWith, Typed
  <2>3. root' = root \/ root' = Bound(b)
    BY <2>1 DEF PutRoot, Untouched, stores
  <2>4. Bound(b).strikes = root.strikes /\ Bound(b).active = root.active /\ Bound(b).owner = root.owner
    BY DEF Bound, Typed, StoresTyped, RootType
  <2>5. QED
    BY <2>2, <2>3, <2>4 DEF Yields, StrikePoints
<1>2. CASE FixHandoff(p) \/ FixTask(p)
  <2>1. PICK l, w : GoWith(p, l, w) /\ l \in {"fix_handoff_view", "fix_task_view", "strike"}
    BY <1>2 DEF FixHandoff, FixTask, Attempt, AttemptWith, Step
  <2>2. pc'[p] = l /\ l # "strike_free" /\ pc[p] \in {"fix_handoff", "fix_task"}
    BY <1>2, <2>1 DEF GoWith, Typed, FixHandoff, FixTask
  <2>3. root' = root
    BY <1>2 DEF FixHandoff, FixTask, Attempt, AttemptWith, Step, PutHandoff, PutTask, Untouched, stores
  <2>4. QED
    BY <2>1, <2>2, <2>3 DEF Yields
<1>3. CASE FixHandoffView(p) \/ FixTaskView(p)
  BY <1>a, <1>b, <1>3, VerifiesYields DEF FixHandoffView, FixTaskView
<1>4. CASE FixAudit(p)
  BY <1>a, <1>b, <1>4, MergeYields DEF FixAudit
<1>5. CASE FixAuditPut(p)
  BY <1>a, <1>b, <1>5, Passes DEF FixAuditPut, PutExe, Untouched, stores
<1>6. QED
  BY <1>1, <1>2, <1>3, <1>4, <1>5 DEF Repair

LEMMA GiveUpYields ==
  ASSUME Typed, NEW p \in Proc, Held(p), GiveUp(p)
  PROVE  Yields(p)
<1>a. \A l \in {"strike_note", "strike_note_put", "recover", "attention", "converge", "converge_put", "confirm"} :
        l \notin StrikePoints
  BY DEF StrikePoints
<1>r. RootReleased.strikes = root.strikes \/ RootReleased.bind = NoVerdict
  BY DEF RootReleased, NoRoot, Typed, StoresTyped, RootType
<1> USE Looking DEF Jump, Unread
<1>1. CASE Strike(p)
  <2> DEFINE v == my[p].view
             n == root.strikes[v] + 1
             r == [root EXCEPT !.strikes[v] = IF n > Threshold THEN @ ELSE n]
  <2>1. CASE root.owner # my[p].c
    BY <1>a, <1>1, <2>1 DEF Strike, Mine
  <2>2. CASE root.owner = my[p].c
    <3>1. PICK l \in {"strike_free", "recover"} :
            /\ GoWith(p, l, my[p]) /\ (PutRoot(r) \/ Untouched)
            /\ l = "strike_free" => n >= Threshold /\ PutRoot(r)
      BY <1>1, <2>2 DEF Strike, Mine, Attempt, AttemptWith
    <3>2. pc'[p] = l /\ pc[p] = "strike"
      BY <1>1, <3>1 DEF GoWith, Typed, Strike
    <3>3. v \in Views /\ root.strikes \in [Views -> 0 .. Threshold] /\ Threshold \in Nat
      BY WatcherAssumption DEF Held, WorkType, RootType
    <3>4. r.strikes = [root.strikes EXCEPT ![v] = IF n > Threshold THEN root.strikes[v] ELSE n]
          /\ r.active = root.active /\ r.owner = root.owner
      BY DEF Held, RootType
    <3>5. \A u \in Views : r.strikes[u] >= root.strikes[u]
      BY <3>3, <3>4
    <3>6. n >= Threshold => r.strikes[v] >= Threshold
      BY <3>3, <3>4
    <3> HIDE DEF r, n, v
    <3>7. root' = root \/ root' = r
      BY <3>1 DEF PutRoot, Untouched, stores
    <3>8. l = "strike_free" => root' = r /\ r.strikes[v] >= Threshold
      BY <3>1, <3>6 DEF PutRoot
    <3>9. QED
      BY <3>2, <3>3, <3>4, <3>5, <3>7, <3>8 DEF Yields
  <2>3. QED
    BY <2>1, <2>2
<1>2. CASE StrikeFree(p)
  <2>1. CASE root.owner # my[p].c
    BY <1>a, <1>2, <2>1 DEF StrikeFree, Mine
  <2>2. CASE root.owner = my[p].c
    <3>1. PICK l \in {"strike_note", "recover"} : GoWith(p, l, my[p]) /\ (PutRoot(RootReleased) \/ Untouched)
      BY <1>2, <2>2 DEF StrikeFree, Mine, Attempt, AttemptWith
    <3>2. pc'[p] = l /\ l \notin StrikePoints /\ pc[p] = "strike_free"
      BY <1>a, <1>2, <3>1 DEF GoWith, Typed, StrikeFree
    <3>3. root' = root \/ root' = RootReleased
      BY <3>1 DEF PutRoot, Untouched, stores
    <3>4. QED
      BY <1>r, <2>2, <3>2, <3>3 DEF Yields, StrikePoints
  <2>3. QED
    BY <2>1, <2>2
<1>3. CASE StrikeNote(p) \/ Converge(p)
  BY <1>a, <1>3, MergeYields DEF StrikeNote, Converge
<1>4. CASE StrikeNotePut(p) \/ ConvergePut(p)
  BY <1>a, <1>4, PutExeYields DEF StrikeNotePut, ConvergePut, Attempt
<1>5. CASE Recover(p)
  <2>1. PICK l, w : GoWith(p, l, w) /\ l \in {"converge", "attention", "confirm"}
                    /\ (Untouched \/ (PutRoot(RootReleased) /\ Recoverable(root.owner)))
    BY <1>5 DEF Recover, Attempt, AttemptWith, Attention, Step, UnreadWith
  <2>2. pc'[p] = l /\ l \notin StrikePoints /\ pc[p] = "recover"
    BY <1>a, <1>5, <2>1 DEF GoWith, Typed, Recover
  <2>3. root' = root \/ (root' = RootReleased /\ Recoverable(root.owner))
    BY <2>1 DEF PutRoot, Untouched, stores
  <2>4. QED
    BY <1>r, <2>2, <2>3 DEF Yields, StrikePoints
<1>6. QED
  BY <1>1, <1>2, <1>3, <1>4, <1>5 DEF GiveUp

LEMMA StepYields ==
  ASSUME Typed, NEW p \in Proc, Held(p), Steps(p), ~Tick(p), ~(pc[p] = "spawn" /\ SpawnsWorker(p))
  PROVE  Yields(p)
<1>1. \/ Records(p) \/ Launch(p) \/ Turn(p) \/ Terminalize(p) \/ Cleanup(p) \/ Report(p) \/ Watch(p) \/ Mark(p)
      \/ Reconciliation(p) \/ Repair(p) \/ GiveUp(p)
  BY DEF Steps, Works, WindsUp, Watches, Recovers
<1>2. QED
  BY <1>1, RecordsYield, LaunchYields, TurnYields, TerminalizeYields, CleanupYields, ReportYields, WatchYields,
     MarkYields, ReconciliationYields, RepairYields, GiveUpYields

-----------------------------------------------------------------------------
(* What a release finds *)

(* A verdict handed off is the one bound. *)
LEMMA HandedBound ==
  ASSUME VerdictFits, NEW c \in Command, NEW s, HandedOff(c, s), root.owner = c
  PROVE  root.bind \in handoff /\ root.bind # NoVerdict
<1>1. PICK h \in handoff : h.of = c
  BY DEF HandedOff
<1>2. root.bind = h
  BY <1>1 DEF VerdictFits, Told
<1>3. QED
  BY <1>1, <1>2, LifecycleAssumption DEF NoVerdict

(* Where the verdict of the Command in hand has been handed off. *)
LEMMA HandedAt ==
  ASSUME Shared, TruthInv, NEW p \in Proc, my[p].c \in Command,
         pc[p] \in {"views", "free_claim", "fix_handoff_view", "fix_task", "fix_task_view"}
  PROVE  \E s : HandedOff(my[p].c, s)
<1>1. CASE pc[p] \in {"views", "free_claim", "fix_task_view"}
  BY <1>1 DEF TruthInv, SpeaksTrue, SpeaksAt, ToldPoints
<1>2. CASE pc[p] \in {"fix_handoff_view", "fix_task"}
  BY <1>2 DEF Shared, VerdictFits, WrittenPoints, HandedOff, VerdictOf, Mine
<1>3. QED
  BY <1>1, <1>2

(* The Task Root of an Execution past starting changes hands only one way. *)
LEMMA RootMoves ==
  ASSUME NEW p, Alone(p), NEW d \in Command, Past(d), BoundFor(d), root'.owner = d
  PROVE  root.owner = d /\ root'.bind = root.bind
<1>1. p \in Proc /\ (my[p].c = d => pc[p] # "claim")
  BY DEF Alone, Moves, Past, EarlyPoints
<1>2. NoRoot.owner # d
  BY LifecycleAssumption DEF NoRoot
<1>3. QED
  BY <1>1, <1>2 DEF Alone, Moves, MoveVerdicts, BoundFor

LEMMA BoundStays ==
  ASSUME NEW p, Alone(p), NEW d \in Command, Past(d), BoundFor(d)
  PROVE  BoundFor(d)'
BY RootMoves DEF BoundFor

LEMMA GivenUpStays ==
  ASSUME NEW p, Alone(p), TruthInv, Yields(p), NEW d \in Command, Past(d), BoundFor(d), GivenUp(d)
  PROVE  GivenUp(d)'
<1> SUFFICES ASSUME root'.owner = d
             PROVE  root'.bind \in handoff' \/ \E v \in Views : root'.strikes[v] >= Threshold
  BY DEF GivenUp
<1>1. p \in Proc /\ my[p].c \in Command /\ Shared /\ handoff \subseteq handoff'
  BY DEF Alone, Moves, MoveVerdicts
<1>2. root.owner = d /\ root'.bind = root.bind /\ root.bind # NoVerdict
  BY RootMoves DEF BoundFor
<1>3. CASE root.bind \in handoff
  BY <1>1, <1>2, <1>3
<1>4. ASSUME NEW v \in Views, root.strikes[v] >= Threshold
      PROVE  root'.bind \in handoff' \/ \E u \in Views : root'.strikes[u] >= Threshold
  <2>1. CASE root'.strikes = root.strikes
    BY <1>4, <2>1
  <2>2. CASE pc[p] \in {"views", "fix_handoff_view", "fix_task_view"} /\ root.owner = my[p].c
    BY <1>1, <1>2, <2>2, HandedAt, HandedBound DEF Shared
  <2>3. CASE \A u \in Views : root'.strikes[u] >= root.strikes[u]
    <3>1. root.strikes[v] \in Nat /\ root'.strikes[v] \in Nat /\ Threshold \in Nat
      BY WatcherAssumption DEF Alone, Typed, StoresTyped, RootType
    <3>2. root'.strikes[v] >= Threshold
      BY <1>4, <2>3, <3>1
    <3>3. QED
      BY <3>2
  <2>4. QED
    BY <1>2, <2>1, <2>2, <2>3 DEF Yields
<1>5. QED
  BY <1>2, <1>3, <1>4 DEF GivenUp

LEMMA ReleaseStays ==
  ASSUME NEW p, Alone(p), TruthInv, ReleaseInv, Yields(p)
  PROVE  ReleaseInv'
<1> SUFFICES ASSUME NEW q \in Proc, pc'[q] \in StrikePoints
             PROVE  BoundFor(my[q].c)' /\ (pc'[q] = "strike_free" => GivenUp(my[q].c)')
  BY DEF ReleaseInv
<1>a. p \in Proc /\ my[p].c \in Command /\ my'[p].c \in {my[p].c, NoCommand} /\ Shared
  BY DEF Alone, Moves
<1>b. /\ StrikePoints \subseteq GiveUpPoints
      /\ {"fix_handoff", "fix_handoff_view", "fix_task", "fix_task_view", "strike"} \subseteq RepairPoints \cup GiveUpPoints
  BY DEF StrikePoints, RepairPoints, GiveUpPoints
<1>1. CASE q # p
  <2>1. pc'[q] = pc[q] /\ my'[q] = my[q]
    BY <1>1, OthersStay
  <2>2. my[q].c \in Command /\ Past(my[q].c)
    BY <1>b, <2>1, PastAt
  <2>3. PICK c \in Command : c = my[q].c
    BY <2>2
  <2>4. BoundFor(c) /\ (pc[q] = "strike_free" => GivenUp(c))
    BY <2>1, <2>3 DEF ReleaseInv
  <2>5. BoundFor(c)' /\ (pc[q] = "strike_free" => GivenUp(c)')
    BY <2>2, <2>3, <2>4, BoundStays, GivenUpStays
  <2>6. QED
    BY <2>1, <2>3, <2>5 DEF BoundFor, GivenUp
<1>2. CASE q = p
  <2>1. pc[p] \in {"fix_handoff", "fix_handoff_view", "fix_task", "fix_task_view", "strike"}
    BY <1>2 DEF Yields
  <2>2. PICK c \in Command : c = my[p].c
    BY <1>a
  <2>3. Past(c)
    BY <1>a, <1>b, <2>1, <2>2, PastAt
  <2>4. my'[p].c = c
    <3>1. pc'[p] \notin RestPoints
      BY <1>2 DEF StrikePoints, RestPoints
    <3>2. QED
      BY <1>a, <2>2, <3>1 DEF Alone, Fitting
  <2>5. BoundFor(c)
    <3>1. CASE pc[p] = "strike"
      BY <1>a, <2>2, <3>1 DEF ReleaseInv, StrikePoints
    <3>2. CASE pc[p] = "fix_handoff"
      <4>1. VerdictOf(Mine(p), my[p].exe) \in Told /\ VerdictOf(Mine(p), my[p].exe).of = c
        BY <1>a, <2>2, <3>2 DEF Told, PendingPoints, VerdictOf, Mine
      <4>2. root.owner = c => root.bind.of = c
        BY <1>a, <4>1 DEF Shared, VerdictFits
      <4>3. QED
        BY <4>2, LifecycleAssumption DEF BoundFor, NoVerdict
    <3>3. CASE pc[p] \in {"fix_handoff_view", "fix_task", "fix_task_view"}
      BY <1>a, <2>2, <3>3, HandedAt, HandedBound DEF BoundFor, Shared
    <3>4. QED
      BY <2>1, <3>1, <3>2, <3>3
  <2>6. BoundFor(c)'
    BY <2>3, <2>5, BoundStays
  <2>7. pc'[p] = "strike_free" => GivenUp(c)'
    BY DEF Yields, GivenUp
  <2>8. QED
    BY <1>2, <2>4, <2>6, <2>7 DEF BoundFor, GivenUp
<1>3. QED
  BY <1>1, <1>2

LEMMA QuietRelease ==
  ASSUME ReleaseInv, UNCHANGED <<root, handoff>>,
         \A q \in Proc : (pc'[q] = pc[q] /\ my'[q] = my[q]) \/ pc'[q] \notin StrikePoints
  PROVE  ReleaseInv'
BY DEF ReleaseInv, BoundFor, GivenUp

LEMMA TickReleases ==
  ASSUME WatcherInv, NEW p \in Proc, Tick(p)
  PROVE  /\ UNCHANGED <<root, handoff>>
         /\ pc'[p] \notin StrikePoints /\ \A q \in Proc \ {p} : pc'[q] = pc[q] /\ my'[q] = my[q]
<1>1. PICK c \in Command :
        \E l \in {"reconcile", "take", "retry"} : Step(p, l, [NoWork EXCEPT !.c = c, !.cmd = cmd[c]])
  BY Zenon DEF Tick, CommandOver
<1>2. PICK l \in {"reconcile", "take", "retry"} : Step(p, l, TakenUp(c, cmd[c]))
  BY <1>1 DEF TakenUp
<1>3. QED
  BY <1>2 DEF Step, GoWith, Untouched, stores, WatcherInv, Typed, StrikePoints

LEMMA NextRelease ==
  ASSUME OneWatcher, WatcherInv, TruthInv, ReleaseInv, [Next]_lifecycleVars
  PROVE  ReleaseInv'
<1>1. Typed /\ (\A p \in Proc : Fitting(p)) /\ WatcherInv'
  BY NextKeeps DEF WatcherInv
<1>2. ASSUME NEW p \in Proc, Steps(p)
      PROVE  ReleaseInv'
  <2>1. CASE Tick(p)
    BY <2>1, TickReleases, QuietRelease
  <2>2. CASE pc[p] = "spawn" /\ SpawnsWorker(p)
    <3>1. UNCHANGED <<root, handoff>> /\ pc' = [pc EXCEPT ![p] = "write", ![NextSlot] = "boot"]
      BY <2>2 DEF SpawnsWorker, Untouched, stores
    <3>2. \A q \in Proc : (pc'[q] = pc[q] /\ my'[q] = my[q]) \/ pc'[q] \notin StrikePoints
      BY <1>1, <2>2 DEF SpawnsWorker, Typed, StrikePoints
    <3>3. QED
      BY <3>1, <3>2, QuietRelease
  <2>3. CASE ~Tick(p) /\ ~(pc[p] = "spawn" /\ SpawnsWorker(p))
    <3>1. Ensures(p)
      BY <1>1, <1>2, <2>3, AllSteps
    <3>2. pc[p] \notin RestPoints
      BY <1>1, <3>1, Fields DEF Ensures, Moves
    <3>3. Yields(p)
      BY <1>1, <1>2, <2>3, <3>2, Hands, StepYields
    <3>4. Alone(p)
      BY <1>1, <3>1 DEF Alone, Shared, WatcherInv, Ensures
    <3>5. QED
      BY <3>3, <3>4, ReleaseStays
  <2>4. QED
    BY <2>1, <2>2, <2>3
<1>3. ASSUME NEW p \in Proc, CrashWatcher(p) \/ CrashWorker(p)
      PROVE  ReleaseInv'
  <2>1. UNCHANGED <<root, handoff>>
    BY <1>3 DEF CrashWatcher, CrashWorker, Untouched, stores
  <2>2. \A q \in Proc : (pc'[q] = pc[q] /\ my'[q] = my[q]) \/ pc'[q] \notin StrikePoints
    BY <1>1, <1>3 DEF CrashWatcher, CrashWorker, GoWith, Typed, StrikePoints
  <2>3. QED
    BY <2>1, <2>2, QuietRelease
<1>4. ASSUME UNCHANGED <<root, handoff, pc, my>>
      PROVE  ReleaseInv'
  BY <1>4, QuietRelease
<1>5. ASSUME NEW p \in Proc, ProviderExits(p)
      PROVE  ReleaseInv'
  BY <1>4, <1>5 DEF ProviderExits, Untouched, stores
<1>6. ASSUME NEW c \in Command, DispatchRetry(c)
      PROVE  ReleaseInv'
  BY <1>4, <1>6 DEF DispatchRetry, PutCmd
<1>7. CASE Rest \/ UNCHANGED lifecycleVars
  BY <1>4, <1>7 DEF Rest, lifecycleVars, stores
<1>8. QED
  BY <1>2, <1>3, <1>5, <1>6, <1>7 DEF Next, Proc

LEMMA InitRelease ==
  ASSUME Init
  PROVE  ReleaseInv
BY DEF Init, ReleaseInv, StrikePoints

(* The running gate is undone only where no provider was started. *)
LEMMA UndoneUnstarted ==
  ASSUME Async, WatcherInv, NEW p \in Proc, pc[p] = "undo_claim", root.owner = my[p].c
  PROVE  root.bind = NoVerdict /\ \A q \in Proc : ~Live(q)
<1>1. p \in Worker /\ my[p].c = First
  BY LifecycleAssumption DEF WatcherInv, Fitting, Fits, RoleFits, UndoPoints, Launcher
<1>2. ~Past(First)
  BY <1>1 DEF Past, UndoPoints
<1>3. QED
  BY <1>1, <1>2 DEF WatcherInv, PastFits, OneStart

(* A step gives a claim up only for a reason. *)
LEMMA ReleaseEarned ==
  ASSUME OneWatcher, Async, WatcherInv, TruthInv, ReleaseInv, [Next]_lifecycleVars,
         NEW c \in Command, ClaimedBy(c), ~ClaimedBy(c)', \A p \in Proc : pc[p] # "orphan_free"
  PROVE  IF root.bind = NoVerdict
         THEN \A p \in Proc : ~Live(p)
         ELSE root.bind \in handoff \/ \E v \in Views : root.strikes[v] >= Threshold
<1>1. Typed /\ (\A p \in Proc : Fitting(p)) /\ Shared /\ VerdictFits
  BY DEF WatcherInv, Shared
<1>2. root.active /\ root.owner = c /\ ~(root'.active /\ root'.owner = root.owner)
  BY DEF ClaimedBy
<1>3. PICK p \in Proc : Steps(p) /\ ~Tick(p) /\ ~(pc[p] = "spawn" /\ SpawnsWorker(p))
  <2>1. root' # root
    BY <1>2
  <2>2. PICK p \in Proc : Steps(p)
    BY <2>1 DEF Next, Rest, ProviderExits, CrashWorker, CrashWatcher, DispatchRetry, PutCmd, Untouched, stores,
       lifecycleVars
  <2>3. ~Tick(p) /\ ~SpawnsWorker(p)
    BY <2>1, TickReleases DEF SpawnsWorker, Untouched, stores
  <2>4. QED
    BY <2>2, <2>3
<1>4. my[p].c \in Command /\ Held(p)
  <2>1. Ensures(p)
    BY <1>1, <1>3, AllSteps
  <2>2. my[p].c \in Command /\ pc[p] \notin RestPoints
    BY <1>1, <2>1, Fields DEF Ensures, Moves
  <2>3. QED
    BY <1>1, <2>2, Hands
<1>5. Yields(p)
  BY <1>1, <1>3, <1>4, StepYields
<1>6. CASE pc[p] = "undo_claim" /\ root.owner = my[p].c
  BY <1>6, UndoneUnstarted
<1>7. CASE pc[p] = "free_claim" /\ root.owner = my[p].c
  BY <1>1, <1>4, <1>7, HandedAt, HandedBound
<1>8. CASE pc[p] = "strike_free" /\ root.owner = my[p].c
  BY <1>8 DEF ReleaseInv, StrikePoints, BoundFor, GivenUp
<1>9. CASE Recoverable(root.owner)
  <2>1. exe[c].evidence.persistence = "complete"
    BY <1>2, <1>9 DEF Recoverable
  <2>2. HandedOff(c, exe[c].evidence.outcome)
    BY <2>1 DEF TruthInv, Sound
  <2>3. QED
    BY <1>1, <1>2, <2>2, HandedBound
<1>10. QED
  BY <1>2, <1>5, <1>6, <1>7, <1>8, <1>9 DEF Yields

-----------------------------------------------------------------------------
(* Theorems *)

LEMMA InvariantImplies ==
  ASSUME WatcherInv
  PROVE  TypeOK /\ OneProvider /\ OneVerdict
<1>1. Typed /\ OneStart /\ VerdictFits
  BY DEF WatcherInv
<1>2. TypeOK
  <2>1. \A c \in Command : exe[c] \in ExecutionType
    BY <1>1 DEF Typed, StoresTyped
  <2>2. \A c \in Command :
       /\ exe[c].status \in {"none", "reserved", "running", "cancelled"} \cup Terminal
       /\ {exe[c].prov, exe[c].lease, exe[c].ended} \subseteq Proc \cup {NoProc}
       /\ exe[c].evidence \in Evidence
    BY <2>1 DEF ExecutionType
  <2>3. \A p \in Proc : my[p].c \in Command \cup {NoCommand}
    BY <1>1 DEF Typed, WorkType
  <2>4. QED
    BY <1>1, <2>2, <2>3 DEF TypeOK, Typed, StoresTyped, CommandType, TaskType, TaskIn, RootType, LeaseType
<1>3. OneProvider
  BY <1>1 DEF OneProvider, OneStart
<1>4. OneVerdict
  BY <1>1 DEF OneVerdict, VerdictFits, Told
<1>5. QED
  BY <1>2, <1>3, <1>4

(* Every Command, Execution, Task, Task Root and lease record the watcher  *)
(* and its workers write keeps to its schema, and every process is at a    *)
(* point of its code, however stores fail and processes crash.             *)
THEOREM WatcherTyped ==
  ASSUME OneWatcher
  PROVE  Spec => []TypeOK
<1>1. WatcherInv => TypeOK
  BY InvariantImplies
<1>2. QED
  BY <1>1, InvariantHolds, PTL

(* One Task never has two providers at work at once: with one watcher, no  *)
(* crash, requeued claim, orphan check or retry lets a second launch get   *)
(* past the reservation and the running gate while the first one's         *)
(* provider lives (command_watcher.py, execution_lifecycle.py).            *)
THEOREM OneProviderAlways ==
  ASSUME OneWatcher
  PROVE  Spec => []OneProvider
<1>1. WatcherInv => OneProvider
  BY InvariantImplies
<1>2. QED
  BY <1>1, InvariantHolds, PTL

(* Worker and watcher may wind up one Execution side by side and with      *)
(* different outcomes, retry it, repair it or give it up; its handoffs,    *)
(* the bind on its Task Root and the stamp on the Task tell one verdict    *)
(* (terminalize_execution, repair_terminal_execution).                     *)
THEOREM OneVerdictAlways ==
  ASSUME OneWatcher
  PROVE  Spec => []OneVerdict
<1>1. WatcherInv => OneVerdict
  BY InvariantImplies
<1>2. QED
  BY <1>1, InvariantHolds, PTL

(* What the cleanup evidence of an Execution claims is true of the Task    *)
(* Root, the lease and the handoffs, whoever merged it in, in whatever     *)
(* order and through whatever failed writes and crashes: a claim or lease  *)
(* it calls released is free, persistence it calls complete has its        *)
(* handoff (execution_lifecycle.py:27-106).                                *)
THEOREM AttemptTruthful ==
  ASSUME OneWatcher
  PROVE  Spec => []AttemptInv
<1>1. Init => WatcherInv /\ TruthInv
  BY InitHolds, InitTruth
<1>2. WatcherInv /\ TruthInv /\ [Next]_lifecycleVars => (WatcherInv /\ TruthInv)'
  BY NextKeeps, NextTruth
<1>3. WatcherInv /\ TruthInv => AttemptInv
  BY InvariantImplies DEF AttemptInv, EvidenceTruthful, TruthInv, Sound, Leased, HandedOff
<1>4. QED
  BY <1>1, <1>2, <1>3, PTL DEF Spec

(* A worker, the watcher or a repair gives a claim up only when no         *)
(* provider was started for it, when its verdict has been handed off, or   *)
(* when a view of that verdict has failed for good (cleanup_execution,     *)
(* release_runtime_claim, _attention_note, recover_task_claim); the        *)
(* watcher spawns workers, as its scheduled task does.                     *)
THEOREM ReleaseAfterVerdict ==
  ASSUME OneWatcher, Async
  PROVE  Spec => VerdictBeforeRelease
<1>1. Init => WatcherInv /\ TruthInv /\ ReleaseInv
  BY InitHolds, InitTruth, InitRelease
<1>2. WatcherInv /\ TruthInv /\ ReleaseInv /\ [Next]_lifecycleVars => (WatcherInv /\ TruthInv /\ ReleaseInv)'
  BY NextKeeps, NextTruth, NextRelease
<1>3. WatcherInv /\ TruthInv /\ ReleaseInv /\ [Next]_lifecycleVars =>
        [\A c \in Command : ClaimedBy(c) /\ ~ClaimedBy(c)' /\ (\A p \in Proc : pc[p] # "orphan_free") =>
           IF root.bind = NoVerdict
           THEN \A p \in Proc : ~Live(p)
           ELSE root.bind \in handoff \/ \E v \in Views : root.strikes[v] >= Threshold]_root
  BY ReleaseEarned
<1>4. QED
  BY <1>1, <1>2, <1>3, PTL DEF Spec, VerdictBeforeRelease
=============================================================================

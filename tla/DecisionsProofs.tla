--------------------------- MODULE DecisionsProofs ---------------------------
(***************************************************************************)
(* Two parts of DecisionsSpec: the repository a Task writes (RepoWrite),   *)
(* for any workers, paths and scope and any number of launches and faults; *)
(* and the refreshes of quota (QuotaRefresh), for any accounts and limits. *)
(***************************************************************************)
EXTENDS MCDecisions, Naturals, Sequences, FiniteSets, FiniteSetTheorems, TLAPS

-----------------------------------------------------------------------------
(* A Task that writes its repository *)

Steps == {"idle", "gate"} \cup Repo!Making \cup Repo!Running

\* Where a worker is once there is a worktree.
Made == {"reset", "clean", "mark", "persist", "gate"} \cup Repo!Running

\* Where it has not launched its provider yet.
Before == {"gate"} \cup Repo!Making

Recorded ==
    [run : 1 .. MaxRuns, sha : Seq(SUBSET Repo!AllEdits), tests : {"passed", "failed", "not_required"},
     tested : SUBSET Repo!AllEdits]

RepoTyped ==
    /\ checkout \in {"none", "partial", "ready"} /\ named \in BOOLEAN
    /\ taskstatus \in {"ready", "in_progress", "blocked", "completed"}
    /\ worktree \in Repo!Trees \cup {Absent} /\ remote \in Seq(SUBSET Repo!AllEdits)
    /\ lease \in Workers \cup {Free} /\ step \in [Workers -> Steps]
    /\ run \in [Workers -> 0 .. MaxRuns] /\ runs \in 0 .. MaxRuns /\ files_changed \in [Workers -> SUBSET Paths]
    /\ repo_evidence \subseteq Recorded /\ wrote \subseteq 1 .. runs /\ wiped \subseteq 1 .. runs
    /\ repo_faults \in 0 .. MaxFaults

InTree == Repo!Edits(worktree.head) \cup worktree.files

\* The lease is of the one worker that runs.
OneWriter == \A w \in Workers : lease = w <=> step[w] \in Repo!Running

\* No two launches under way have one number, and none that of an evidence.
RunsApart ==
    /\ \A w \in Workers : step[w] # "idle" => run[w] \in 1 .. runs
    /\ \A v, w \in Workers : v # w /\ step[v] # "idle" /\ step[w] # "idle" => run[v] # run[w]
    /\ \A e \in repo_evidence : e.run <= runs /\ \A w \in Workers : step[w] # "idle" => run[w] # e.run

\* What a launch knows as long as nobody has reset the worktree under it: its provider's edits
\* are still there, what it has found is all there is, and what it has committed is everything.
Untouched(w, at_) ==
    /\ at_ \in Repo!Running /\ run[w] \in wrote => \E p \in Paths : <<run[w], p>> \in InTree
    /\ at_ = "commit" => files_changed[w] = Repo!Changed(worktree)
    /\ at_ \in {"push", "verify", "validate"} => worktree.files = {}
    /\ at_ = "nochange" => InTree = {}
    /\ at_ = "validate" => worktree.head = remote

WorkerFit(w, at_) ==
    /\ at_ \in Made => worktree # Absent
    /\ at_ \in Before => run[w] \notin wrote
    /\ at_ \in {"commit", "push"} => Repo!Changed(worktree) \subseteq Scope
    /\ at_ = "validate" => remote # <<>>
    /\ run[w] \in wiped \/ Untouched(w, at_)

RepoInv ==
    /\ RepoTyped /\ OneWriter /\ RunsApart
    /\ (named => worktree # Absent) /\ \A w \in Workers : WorkerFit(w, step[w])
    /\ Repo!EvidenceStays /\ Repo!PushedInScope /\ Repo!TestedIsPushed /\ Repo!NoChangeIsNone

-----------------------------------------------------------------------------
(* Branches and edits *)

LEMMA EditsOfNone == Repo!Edits(<<>>) = {}
BY DEF Repo!Edits, Repo!ToSet

LEMMA EditsOfMore ==
    ASSUME NEW E, NEW h \in Seq(SUBSET E), NEW F \in SUBSET E
    PROVE  Append(h, F) \in Seq(SUBSET E) /\ Repo!Edits(Append(h, F)) = Repo!Edits(h) \cup F
           /\ Append(h, F) # <<>>
<1>1. /\ Append(h, F) \in Seq(SUBSET E) /\ Len(Append(h, F)) = Len(h) + 1
      /\ DOMAIN Append(h, F) = 1 .. Len(h) + 1 /\ DOMAIN h = 1 .. Len(h) /\ Len(h) \in Nat
  OBVIOUS
<1>2. Append(h, F)[Len(h) + 1] = F /\ \A i \in 1 .. Len(h) : Append(h, F)[i] = h[i]
  OBVIOUS
<1>3. Repo!ToSet(Append(h, F)) = Repo!ToSet(h) \cup {F}
  BY <1>1, <1>2 DEF Repo!ToSet
<1>4. QED
  BY <1>1, <1>3 DEF Repo!Edits

LEMMA EditsTyped ==
    ASSUME NEW E, NEW h \in Seq(SUBSET E)
    PROVE  Repo!Edits(h) \subseteq E
BY DEF Repo!Edits, Repo!ToSet

LEMMA PrefixOfItself == ASSUME NEW E, NEW s \in Seq(E) PROVE Repo!IsPrefix(s, s)
BY DEF Repo!IsPrefix

LEMMA PrefixElements ==
    ASSUME NEW E, NEW s \in Seq(E), NEW t \in Seq(E)
    PROVE  Repo!IsPrefix(s, t) <=> Len(s) <= Len(t) /\ \A i \in 1 .. Len(s) : s[i] = t[i]
<1>1. SubSeq(s, 1, Len(s)) = s
  OBVIOUS
<1>2. ASSUME Len(s) <= Len(t)
      PROVE  SubSeq(t, 1, Len(s)) \in Seq(E) /\ Len(SubSeq(t, 1, Len(s))) = Len(s)
             /\ \A i \in 1 .. Len(s) : SubSeq(t, 1, Len(s))[i] = t[i]
  BY <1>2
<1>3. QED
  BY <1>1, <1>2 DEF Repo!IsPrefix

LEMMA PrefixOfMore ==
    ASSUME NEW E, NEW s \in Seq(E), NEW t \in Seq(E), NEW u \in Seq(E), Repo!IsPrefix(s, t), Repo!IsPrefix(t, u)
    PROVE  Repo!IsPrefix(s, u)
<1>1. Len(s) \in Nat /\ Len(t) \in Nat /\ Len(u) \in Nat
  OBVIOUS
<1>2. QED
  BY <1>1, PrefixElements

LEMMA PrefixNotEmpty ==
    ASSUME NEW E, NEW s \in Seq(E), NEW t \in Seq(E), Repo!IsPrefix(s, t), s # <<>>
    PROVE  t # <<>>
<1>1. Len(s) # 0
  OBVIOUS
<1>2. QED
  BY <1>1, PrefixElements

LEMMA PrefixOfAll ==
    ASSUME NEW E, NEW s \in Seq(E)
    PROVE  <<>> \in Seq(E) /\ Repo!IsPrefix(<<>>, s)
<1>1. Len(<<>>) = 0 /\ Len(s) \in Nat /\ SubSeq(<<>>, 1, 0) = <<>> /\ SubSeq(s, 1, 0) = <<>>
  OBVIOUS
<1>2. QED
  BY <1>1 DEF Repo!IsPrefix

-----------------------------------------------------------------------------
(* The steps of a launch *)

LEMMA InitRepo == DecisionsInit => RepoInv
<1> SUFFICES ASSUME Repo!Init PROVE RepoInv
  BY DEF DecisionsInit
<1>1. worktree = Absent /\ remote = <<>> /\ lease = Free /\ step = [w \in Workers |-> "idle"]
      /\ named = FALSE /\ repo_evidence = {} /\ wrote = {} /\ wiped = {} /\ runs = 0
  BY DEF Repo!Init
<1>2. \A w \in Workers : step[w] = "idle"
  BY <1>1
<1>3. RepoTyped
  <2>1. /\ run = [w \in Workers |-> 0] /\ files_changed = [w \in Workers |-> {}] /\ repo_faults = 0
        /\ checkout \in {"none", "ready"} /\ taskstatus = "ready"
    BY DEF Repo!Init
  <2>2. step \in [Workers -> Steps] /\ <<>> \in Seq(SUBSET Repo!AllEdits)
    BY <1>1 DEF Steps
  <2>3. run \in [Workers -> 0 .. MaxRuns] /\ files_changed \in [Workers -> SUBSET Paths] /\ 0 \in 0 .. MaxFaults
        /\ runs \in 0 .. MaxRuns
    BY <1>1, <2>1, RepoAssumption
  <2>4. QED
    BY <1>1, <2>1, <2>2, <2>3 DEF RepoTyped
<1>4. OneWriter
  BY <1>1, <1>2, RepoAssumption DEF OneWriter, Repo!Running
<1>5. \A w \in Workers : WorkerFit(w, step[w])
  BY <1>2 DEF WorkerFit, Untouched, Made, Before, Repo!Running, Repo!Making
<1>6. Repo!EvidenceStays /\ Repo!PushedInScope /\ Repo!TestedIsPushed /\ Repo!NoChangeIsNone /\ RunsApart
  BY <1>1, <1>2, EditsOfNone DEF Repo!EvidenceStays, Repo!PushedInScope, Repo!TestedIsPushed, Repo!NoChangeIsNone, RunsApart
<1>7. QED
  BY <1>1, <1>3, <1>4, <1>5, <1>6 DEF RepoInv

LEMMA TreeTyped ==
    ASSUME RepoTyped, worktree # Absent
    PROVE  /\ worktree \in Repo!Trees /\ worktree.head \in Seq(SUBSET Repo!AllEdits)
           /\ worktree.files \subseteq Repo!AllEdits /\ InTree \subseteq Repo!AllEdits
           /\ Repo!Changed(worktree) \subseteq Paths
           /\ \A e \in InTree : Repo!Path(e) \in Repo!Changed(worktree)
<1>1. worktree \in Repo!Trees
  BY DEF RepoTyped
<1>2. worktree.head \in Seq(SUBSET Repo!AllEdits) /\ worktree.files \subseteq Repo!AllEdits
  BY <1>1 DEF Repo!Trees
<1>3. Repo!Edits(worktree.head) \subseteq Repo!AllEdits
  BY <1>2, EditsTyped
<1>4. \A e \in Repo!AllEdits : Repo!Path(e) \in Paths
  BY DEF Repo!AllEdits, Repo!Path
<1>5. QED
  BY <1>1, <1>2, <1>3, <1>4 DEF InTree, Repo!Changed

\* Only one worker runs.
LEMMA OneRuns ==
    ASSUME RepoInv, NEW v \in Workers, NEW w \in Workers, step[v] \in Repo!Running, step[w] \in Repo!Running
    PROVE  v = w
BY DEF RepoInv, OneWriter

\* A worker goes on, and may take or give up the lease; the worktree and the branch stay.
LEMMA MoveKeeps ==
    ASSUME RepoInv, NEW w \in Workers, NEW to \in Steps, step' = [step EXCEPT ![w] = to], step[w] # "idle",
           WorkerFit(w, to),
           \/ to \in Repo!Running /\ lease \in {Free, w} /\ lease' = w
           \/ to \notin Repo!Running /\ lease = w /\ lease' = Free
           \/ to \notin Repo!Running /\ lease # w /\ lease' = lease,
           checkout' \in {"none", "partial", "ready"}, named' \in BOOLEAN, named' => worktree # Absent,
           taskstatus' \in {"ready", "in_progress", "blocked", "completed"}, repo_faults' \in 0 .. MaxFaults,
           UNCHANGED <<worktree, remote, run, runs, files_changed, repo_evidence, wrote, wiped>>
    PROVE  RepoInv'
<1>1. RepoTyped /\ OneWriter /\ RunsApart
  BY DEF RepoInv
<1>2. step' \in [Workers -> Steps] /\ step'[w] = to /\ \A v \in Workers \ {w} : step'[v] = step[v]
  BY <1>1 DEF RepoTyped
<1>3. RepoTyped'
  BY <1>1, <1>2 DEF RepoTyped
<1>4. OneWriter'
  BY <1>1, <1>2, RepoAssumption DEF OneWriter
<1>5. RunsApart'
  BY <1>1, <1>2 DEF RunsApart
<1>6. \A v \in Workers : WorkerFit(v, step[v])
  BY DEF RepoInv
<1>7. \A v \in Workers : WorkerFit(v, step[v])'
  <2>1. (\A v \in Workers \ {w} : WorkerFit(v, step'[v])) /\ WorkerFit(w, step'[w])
    BY <1>2, <1>6
  <2>2. QED
    BY <2>1 DEF WorkerFit, Untouched, InTree
<1>8. (Repo!EvidenceStays /\ Repo!PushedInScope /\ Repo!TestedIsPushed /\ Repo!NoChangeIsNone)'
  BY DEF RepoInv, Repo!EvidenceStays, Repo!PushedInScope, Repo!TestedIsPushed, Repo!NoChangeIsNone
<1>9. QED
  BY <1>3, <1>4, <1>5, <1>7, <1>8 DEF RepoInv

\* What the steps of a worker need to know of it.
LEMMA WorkerKnown ==
    ASSUME RepoInv, NEW w \in Workers
    PROVE  /\ WorkerFit(w, step[w]) /\ step[w] \in Steps /\ repo_faults \in 0 .. MaxFaults
           /\ checkout \in {"none", "partial", "ready"} /\ named \in BOOLEAN /\ (named => worktree # Absent)
           /\ taskstatus \in {"ready", "in_progress", "blocked", "completed"}
           /\ (lease = w <=> step[w] \in Repo!Running) /\ (Repo!Fault => repo_faults' \in 0 .. MaxFaults)
BY RepoAssumption DEF RepoInv, RepoTyped, OneWriter, Repo!Fault

\* The turn of a worker ends, or is given up.
LEMMA IdleFits == ASSUME NEW w \in Workers PROVE WorkerFit(w, "idle") /\ "idle" \in Steps /\ "idle" \notin Repo!Running
BY DEF WorkerFit, Untouched, Made, Before, Steps, Repo!Running, Repo!Making

LEMMA EndKeeps ==
    ASSUME RepoInv, NEW w \in Workers, step[w] # "idle", Repo!Terminal(w, "completed") \/ Repo!Terminal(w, "failed"),
           lease = w, repo_faults' \in 0 .. MaxFaults,
           UNCHANGED <<checkout, named, worktree, remote, run, runs, files_changed, repo_evidence, wrote, wiped>>
    PROVE  RepoInv'
<1>1. /\ step' = [step EXCEPT ![w] = "idle"] /\ lease' = Free /\ taskstatus' \in {"blocked", "completed"}
  BY DEF Repo!Terminal, Repo!Moves
<1>2. QED
  BY <1>1, WorkerKnown, IdleFits, MoveKeeps

LEMMA GivesUpKeeps ==
    ASSUME RepoInv, NEW w \in Workers, step[w] # "idle", step[w] \notin Repo!Running, Repo!GivesUp(w),
           checkout' \in {"none", "partial", "ready"}, named' \in BOOLEAN, named' => worktree # Absent,
           repo_faults' \in 0 .. MaxFaults,
           UNCHANGED <<taskstatus, lease, worktree, remote, run, runs, files_changed, repo_evidence, wrote, wiped>>
    PROVE  RepoInv'
<1>1. step' = [step EXCEPT ![w] = "idle"]
  BY DEF Repo!GivesUp, Repo!Moves
<1>2. QED
  BY <1>1, WorkerKnown, IdleFits, MoveKeeps

\* Before the gate a launch has written nothing, and there is nothing else to know of it.
LEMMA EarlyFits ==
    ASSUME RepoInv, NEW w \in Workers, step[w] \in Before, NEW to \in Before, to \in Made => worktree # Absent
    PROVE  WorkerFit(w, to) /\ to \in Steps /\ to \notin Repo!Running /\ lease # w /\ step[w] # "idle"
           /\ step[w] \notin Repo!Running
<1>1. run[w] \notin wrote /\ (lease = w <=> step[w] \in Repo!Running)
  BY WorkerKnown DEF WorkerFit
<1>2. QED
  BY <1>1 DEF WorkerFit, Untouched, Before, Steps, Repo!Running, Repo!Making

LEMMA EarlyKeeps ==
    ASSUME RepoInv, NEW w \in Workers, step[w] \in Before, NEW to \in Before, Repo!Moves(w, to),
           to \in Made => worktree # Absent,
           checkout' \in {"none", "partial", "ready"}, named' \in BOOLEAN, named' => worktree # Absent,
           repo_faults' \in 0 .. MaxFaults,
           UNCHANGED <<taskstatus, lease, worktree, remote, run, runs, files_changed, repo_evidence, wrote, wiped>>
    PROVE  RepoInv'
<1>1. step' = [step EXCEPT ![w] = to] /\ taskstatus' \in {"ready", "in_progress", "blocked", "completed"}
  BY WorkerKnown DEF Repo!Moves
<1>2. QED
  BY <1>1, EarlyFits, MoveKeeps

LEMMA PreparesKeeps ==
    ASSUME RepoInv, NEW w \in Workers,
           Repo!EnsureCheckout(w) \/ Repo!Clone(w) \/ Repo!ListWorktrees(w) \/ Repo!PersistTask(w)
    PROVE  RepoInv'
<1> USE DEF Repo!shared, Repo!known
<1>1. {"checkout", "clone", "list", "persist", "gate", "add", "reset"} \subseteq Before
      /\ Before \cap Repo!Running = {} /\ "idle" \notin Before
      /\ {"clone", "list", "add"} \cap Made = {}
  BY DEF Before, Made, Repo!Making, Repo!Running
<1>2. CASE Repo!EnsureCheckout(w)
  <2>1. step[w] = "checkout" /\ repo_faults' \in 0 .. MaxFaults /\ named' = named
        /\ UNCHANGED <<taskstatus, lease, worktree, remote, run, runs, files_changed, repo_evidence, wrote, wiped>>
    BY <1>2, WorkerKnown DEF Repo!EnsureCheckout
  <2>2. \/ checkout' \in {"none", "partial", "ready"} /\ (Repo!Moves(w, "clone") \/ Repo!Moves(w, "list"))
        \/ checkout' \in {"none", "partial", "ready"} /\ Repo!GivesUp(w)
    BY <1>2, WorkerKnown DEF Repo!EnsureCheckout
  <2>3. QED
    BY <1>1, <2>1, <2>2, WorkerKnown, EarlyKeeps, GivesUpKeeps
<1>3. CASE Repo!Clone(w)
  <2>1. step[w] = "clone" /\ named' = named
        /\ UNCHANGED <<taskstatus, lease, worktree, remote, run, runs, files_changed, repo_evidence, wrote, wiped>>
    BY <1>3 DEF Repo!Clone
  <2>2. /\ checkout' \in {"none", "partial", "ready"} /\ repo_faults' \in 0 .. MaxFaults
        /\ (Repo!Moves(w, "list") \/ Repo!GivesUp(w))
    BY <1>3, WorkerKnown DEF Repo!Clone
  <2>3. QED
    BY <1>1, <2>1, <2>2, WorkerKnown, EarlyKeeps, GivesUpKeeps
<1>4. CASE Repo!ListWorktrees(w)
  <2>1. step[w] = "list" /\ checkout' = checkout /\ named' = named /\ repo_faults' = repo_faults
        /\ UNCHANGED <<taskstatus, lease, worktree, remote, run, runs, files_changed, repo_evidence, wrote, wiped>>
    BY <1>4 DEF Repo!ListWorktrees
  <2>2. Repo!Moves(w, "add") \/ (worktree # Absent /\ (Repo!Moves(w, "reset") \/ Repo!GivesUp(w)))
    BY <1>4 DEF Repo!ListWorktrees, Repo!Found
  <2>3. QED
    BY <1>1, <2>1, <2>2, WorkerKnown, EarlyKeeps, GivesUpKeeps
<1>5. CASE Repo!PersistTask(w)
  <2>1. step[w] = "persist" /\ checkout' = checkout /\ worktree # Absent
        /\ UNCHANGED <<taskstatus, lease, worktree, remote, run, runs, files_changed, repo_evidence, wrote, wiped>>
    BY <1>5, WorkerKnown DEF Repo!PersistTask, WorkerFit, Made
  <2>2. named' \in BOOLEAN /\ repo_faults' \in 0 .. MaxFaults /\ (Repo!Moves(w, "gate") \/ Repo!GivesUp(w))
    BY <1>5, WorkerKnown DEF Repo!PersistTask
  <2>3. QED
    BY <1>1, <2>1, <2>2, WorkerKnown, EarlyKeeps, GivesUpKeeps
<1>6. QED
  BY <1>2, <1>3, <1>4, <1>5

LEMMA GateKeeps ==
    ASSUME RepoInv, NEW w \in Workers, Repo!RunningGate(w)
    PROVE  RepoInv'
<1> USE DEF Repo!shared, Repo!known
<1>1. step[w] = "gate" /\ checkout' = checkout /\ named' = named /\ repo_faults' = repo_faults
      /\ UNCHANGED <<worktree, remote, run, runs, files_changed, repo_evidence, wrote, wiped>>
  BY DEF Repo!RunningGate
<1>2. "gate" \in Before /\ "gate" \in Made /\ "gate" \notin Repo!Running /\ "run" \in Steps /\ "run" \in Repo!Running
      /\ "run" \notin Before
  BY DEF Before, Made, Steps, Repo!Running, Repo!Making
<1>3. worktree # Absent /\ run[w] \notin wrote
  BY <1>1, <1>2, WorkerKnown DEF WorkerFit
<1>4. WorkerFit(w, "run")
  BY <1>2, <1>3 DEF WorkerFit, Untouched
<1>5. CASE Repo!Moves(w, "run") /\ lease = Free /\ lease' = w /\ taskstatus' = "in_progress"
  BY <1>1, <1>2, <1>4, <1>5, WorkerKnown, MoveKeeps DEF Repo!Moves
<1>6. CASE Repo!GivesUp(w) /\ UNCHANGED <<taskstatus, lease>>
  BY <1>1, <1>2, <1>6, WorkerKnown, GivesUpKeeps
<1>7. QED
  BY <1>5, <1>6 DEF Repo!RunningGate

\* A worker that runs goes on to look at what it has.
LEMMA RunsOn ==
    ASSUME RepoInv, NEW w \in Workers, step[w] \in Repo!Running, NEW to \in Repo!Running, Repo!Moves(w, to),
           WorkerFit(w, to), repo_faults' \in 0 .. MaxFaults,
           UNCHANGED <<checkout, named, taskstatus, lease, worktree, remote, run, runs, files_changed,
                       repo_evidence, wrote, wiped>>
    PROVE  RepoInv'
<1>1. step' = [step EXCEPT ![w] = to] /\ to \in Steps /\ step[w] # "idle"
  BY DEF Repo!Moves, Steps, Repo!Running
<1>2. QED
  BY <1>1, WorkerKnown, MoveKeeps

LEMMA StopsKeeps ==
    ASSUME RepoInv, NEW w \in Workers, Repo!Stops(w)
    PROVE  RepoInv'
<1> USE DEF Repo!shared, Repo!known
<1>1. step[w] = "run" /\ checkout' = checkout /\ named' = named /\ repo_faults' = repo_faults
      /\ UNCHANGED <<worktree, remote, run, runs, files_changed, repo_evidence, wrote, wiped>>
  BY DEF Repo!Stops
<1>2. {"run", "enforce"} \subseteq Repo!Running /\ {"run", "enforce"} \subseteq Made /\ {"run", "enforce"} \cap Before = {}
      /\ "idle" \notin Repo!Running
  BY DEF Before, Made, Repo!Running, Repo!Making
<1>3. WorkerFit(w, "enforce")
  BY <1>1, <1>2, WorkerKnown DEF WorkerFit, Untouched
<1>4. CASE Repo!Moves(w, "enforce") /\ UNCHANGED <<taskstatus, lease>>
  BY <1>1, <1>2, <1>3, <1>4, WorkerKnown, RunsOn
<1>5. CASE Repo!Terminal(w, "failed")
  BY <1>1, <1>2, <1>5, WorkerKnown, EndKeeps
<1>6. QED
  BY <1>4, <1>5 DEF Repo!Stops

LEMMA VerifyKeeps ==
    ASSUME RepoInv, NEW w \in Workers, Repo!VerifyRemote(w)
    PROVE  RepoInv'
<1> USE DEF Repo!shared, Repo!known
<1>1. step[w] = "verify" /\ checkout' = checkout /\ named' = named
      /\ UNCHANGED <<worktree, remote, run, runs, files_changed, repo_evidence, wrote, wiped>>
  BY DEF Repo!VerifyRemote
<1>2. repo_faults' \in 0 .. MaxFaults
  BY WorkerKnown DEF Repo!VerifyRemote
<1>3. {"verify", "validate"} \subseteq Repo!Running /\ {"verify", "validate"} \subseteq Made
      /\ {"verify", "validate"} \cap Before = {} /\ "idle" \notin Repo!Running
  BY DEF Before, Made, Repo!Running, Repo!Making
<1>4. CASE worktree.head # <<>> /\ worktree.head = remote /\ Repo!Moves(w, "validate") /\ UNCHANGED <<taskstatus, lease>>
  <2>1. WorkerFit(w, "validate")
    BY <1>1, <1>3, <1>4, WorkerKnown DEF WorkerFit, Untouched
  <2>2. QED
    BY <1>1, <1>2, <1>3, <1>4, <2>1, RunsOn
<1>5. CASE Repo!Terminal(w, "failed")
  BY <1>1, <1>2, <1>3, <1>5, WorkerKnown, EndKeeps
<1>6. QED
  BY <1>4, <1>5 DEF Repo!VerifyRemote

LEMMA DiesKeeps ==
    ASSUME RepoInv, NEW w \in Workers, Repo!Dies(w)
    PROVE  RepoInv'
<1> USE DEF Repo!shared, Repo!known
<1>1. step[w] # "idle" /\ checkout' = checkout /\ named' = named
      /\ UNCHANGED <<worktree, remote, run, runs, files_changed, repo_evidence, wrote, wiped>>
  BY DEF Repo!Dies
<1>2. repo_faults' \in 0 .. MaxFaults
  BY WorkerKnown DEF Repo!Dies
<1>3. CASE lease = w
  <2>1. Repo!Terminal(w, "interrupted")
    BY <1>3 DEF Repo!Dies
  <2>2. Repo!Terminal(w, "failed")
    BY <2>1 DEF Repo!Terminal
  <2>3. QED
    BY <1>1, <1>2, <1>3, <2>2, EndKeeps
<1>4. CASE lease # w
  <2>1. Repo!Moves(w, "idle") /\ UNCHANGED <<taskstatus, lease>> /\ step[w] \notin Repo!Running
    BY <1>4, WorkerKnown DEF Repo!Dies
  <2>2. QED
    BY <1>1, <1>2, <2>1, WorkerKnown, GivesUpKeeps DEF Repo!GivesUp
<1>5. QED
  BY <1>3, <1>4

LEMMA RepoSame ==
    ASSUME RepoInv, UNCHANGED <<checkout, named, worktree, remote, lease, step, run, files_changed, runs, repo_evidence,
                                wrote, wiped, repo_faults>>,
           taskstatus' \in {"ready", "in_progress", "blocked", "completed"}
    PROVE  RepoInv'
<1>1. (RepoTyped /\ OneWriter /\ RunsApart)' /\ (named => worktree # Absent)'
  BY DEF RepoInv, RepoTyped, OneWriter, RunsApart
<1>2. (\A w \in Workers : WorkerFit(w, step[w]))'
  BY DEF RepoInv, WorkerFit, Untouched, InTree
<1>3. (Repo!EvidenceStays /\ Repo!PushedInScope /\ Repo!TestedIsPushed /\ Repo!NoChangeIsNone)'
  BY DEF RepoInv, Repo!EvidenceStays, Repo!PushedInScope, Repo!TestedIsPushed, Repo!NoChangeIsNone
<1>4. QED
  BY <1>1, <1>2, <1>3 DEF RepoInv

\* A new launch has a number nobody has.
LEMMA LaunchKeeps ==
    ASSUME RepoInv, NEW w \in Workers, Repo!Launch(w)
    PROVE  RepoInv'
<1> USE DEF Repo!shared
<1>1. RepoTyped /\ OneWriter /\ RunsApart /\ (named => worktree # Absent)
  BY DEF RepoInv
<1> DEFINE to == IF named THEN "gate" ELSE "checkout"
<1>2. /\ step[w] = "idle" /\ runs < MaxRuns /\ runs' = runs + 1 /\ run' = [run EXCEPT ![w] = runs']
      /\ step' = [step EXCEPT ![w] = to]
      /\ UNCHANGED <<checkout, named, taskstatus, remote, lease, worktree, files_changed, repo_evidence, wrote, wiped,
                     repo_faults>>
  BY DEF Repo!Launch, Repo!Moves
<1>3. to \in Before /\ to \in Steps /\ to \notin Repo!Running /\ to # "idle" /\ (to \in Made => worktree # Absent)
      /\ "idle" \notin Repo!Running
  BY <1>1 DEF Before, Steps, Made, Repo!Making, Repo!Running
<1> HIDE DEF to
<1>4. runs \in Nat /\ runs' \in 0 .. MaxRuns /\ runs' = runs + 1 /\ runs' \in 1 .. runs' /\ 1 .. runs \subseteq 1 .. runs'
      /\ runs' \notin 1 .. runs
  BY <1>1, <1>2, RepoAssumption DEF RepoTyped
<1>5. /\ step' \in [Workers -> Steps] /\ step'[w] = to /\ \A v \in Workers \ {w} : step'[v] = step[v]
      /\ run' \in [Workers -> 0 .. MaxRuns] /\ run'[w] = runs' /\ \A v \in Workers \ {w} : run'[v] = run[v]
  BY <1>1, <1>2, <1>3, <1>4 DEF RepoTyped
<1>6. RepoTyped'
  BY <1>1, <1>2, <1>4, <1>5 DEF RepoTyped
<1>7. OneWriter'
  BY <1>1, <1>2, <1>3, <1>5 DEF OneWriter
<1>8. RunsApart'
  <2>1. \A e \in repo_evidence : e.run \in Nat /\ e.run <= runs
    BY <1>1 DEF RunsApart, RepoTyped, Recorded
  <2>2. \A v \in Workers \ {w} : step[v] # "idle" => run[v] \in 1 .. runs
    BY <1>1 DEF RunsApart
  <2>3. QED
    BY <1>1, <1>2, <1>4, <1>5, <2>1, <2>2 DEF RunsApart
<1>9. (\A v \in Workers : WorkerFit(v, step[v]))'
  <2>1. runs' \notin wrote
    BY <1>1, <1>4 DEF RepoTyped
  <2>2. WorkerFit(w, step[w])'
    BY <1>2, <1>3, <1>5, <2>1 DEF WorkerFit, Untouched, Before, Repo!Making, Repo!Running
  <2>3. ASSUME NEW v \in Workers \ {w} PROVE WorkerFit(v, step[v])'
    BY <1>2, <1>5, <2>3, WorkerKnown DEF WorkerFit, Untouched, InTree
  <2>4. QED
    BY <2>2, <2>3
<1>10. (Repo!EvidenceStays /\ Repo!PushedInScope /\ Repo!TestedIsPushed /\ Repo!NoChangeIsNone)'
  BY <1>2 DEF RepoInv, Repo!EvidenceStays, Repo!PushedInScope, Repo!TestedIsPushed, Repo!NoChangeIsNone
<1>11. QED
  BY <1>1, <1>2, <1>6, <1>7, <1>8, <1>9, <1>10 DEF RepoInv

-----------------------------------------------------------------------------
(* The worktree is made, reset, or marked *)

\* Edits are taken out of the worktree, and whoever runs in it is told; or none are.
LEMMA TreeKeeps ==
    ASSUME RepoInv, NEW w \in Workers, step[w] \in Before, NEW to \in Before \cup {"idle"}, Repo!Moves(w, to),
           worktree' \in Repo!Trees, worktree # Absent => InTree' \subseteq InTree,
           wiped \subseteq wiped', wiped' \subseteq 1 .. runs,
           \A v \in Workers : step[v] \in Repo!Running =>
             run[v] \in wiped' \/ (worktree'.head = worktree.head /\ worktree'.files = worktree.files),
           repo_faults' \in 0 .. MaxFaults,
           UNCHANGED <<checkout, named, taskstatus, lease, remote, run, runs, files_changed, repo_evidence, wrote>>
    PROVE  RepoInv'
<1>1. RepoTyped /\ OneWriter /\ RunsApart /\ worktree' # Absent
  BY RepoAssumption DEF RepoInv
<1>2. to \in Steps /\ to \notin Repo!Running /\ step[w] \notin Repo!Running /\ step[w] # "idle"
  BY DEF Before, Steps, Repo!Running, Repo!Making
<1>3. step' \in [Workers -> Steps] /\ step'[w] = to /\ \A v \in Workers \ {w} : step'[v] = step[v]
  BY <1>1, <1>2 DEF RepoTyped, Repo!Moves
<1>4. RepoTyped'
  BY <1>1, <1>3 DEF RepoTyped
<1>5. OneWriter' /\ RunsApart'
  BY <1>1, <1>2, <1>3 DEF OneWriter, RunsApart
<1>6. WorkerFit(w, step[w])'
  <2>1. run[w] \notin wrote
    BY WorkerKnown DEF WorkerFit
  <2>2. QED
    BY <1>1, <1>3, <2>1 DEF WorkerFit, Untouched, Before, Repo!Running, Repo!Making
<1>7. ASSUME NEW v \in Workers \ {w} PROVE WorkerFit(v, step[v])'
  <2>1. WorkerFit(v, step[v])
    BY WorkerKnown
  <2>2. step[v] \in {"commit", "push"} => Repo!Changed(worktree)' \subseteq Scope
    <3>1. SUFFICES ASSUME step[v] \in {"commit", "push"} PROVE Repo!Changed(worktree)' \subseteq Scope
      OBVIOUS
    <3>2. worktree # Absent /\ Repo!Changed(worktree) \subseteq Scope
      BY <2>1, <3>1 DEF WorkerFit, Made, Repo!Running
    <3>3. QED
      BY <3>2 DEF Repo!Changed, InTree
  <2>3. (run[v] \in wiped \/ Untouched(v, step[v]))'
    <3>1. CASE step[v] \in Repo!Running /\ worktree'.head = worktree.head /\ worktree'.files = worktree.files
      BY <1>3, <2>1, <3>1 DEF WorkerFit, Untouched, InTree, Repo!Changed
    <3>2. CASE step[v] \notin Repo!Running
      BY <1>3, <3>2 DEF Untouched, Repo!Running
    <3>3. QED
      BY <3>1, <3>2
  <2>4. QED
    BY <1>1, <1>3, <2>1, <2>2, <2>3 DEF WorkerFit
<1>8. (Repo!EvidenceStays /\ Repo!PushedInScope /\ Repo!TestedIsPushed /\ Repo!NoChangeIsNone)'
  BY DEF RepoInv, Repo!EvidenceStays, Repo!PushedInScope, Repo!TestedIsPushed, Repo!NoChangeIsNone
<1>9. QED
  BY <1>1, <1>4, <1>5, <1>6, <1>7, <1>8 DEF RepoInv

LEMMA UnderTyped ==
    ASSUME RepoInv, NEW w \in Workers
    PROVE  wiped \cup Repo!Under(w) \subseteq 1 .. runs
BY DEF RepoInv, RunsApart, RepoTyped, Repo!Under, Repo!Running

LEMMA AddKeeps ==
    ASSUME RepoInv, NEW w \in Workers, Repo!AddWorktree(w)
    PROVE  RepoInv'
<1> USE DEF Repo!shared, Repo!known
<1>1. step[w] = "add" /\ checkout' = checkout /\ named' = named
      /\ UNCHANGED <<taskstatus, lease, remote, run, runs, files_changed, repo_evidence, wrote, wiped>>
  BY DEF Repo!AddWorktree
<1>2. {"add", "reset", "mark"} \subseteq Before /\ "add" \notin Repo!Running /\ repo_faults' \in 0 .. MaxFaults
  BY WorkerKnown DEF Before, Repo!Running, Repo!Making, Repo!AddWorktree
<1>3. CASE worktree # Absent
  <2>1. worktree' = worktree /\ (Repo!Moves(w, "reset") \/ Repo!GivesUp(w))
    BY <1>3 DEF Repo!AddWorktree, Repo!Found
  <2>2. QED
    BY <1>1, <1>2, <1>3, <2>1, WorkerKnown, EarlyKeeps, GivesUpKeeps
<1>4. CASE worktree = Absent /\ worktree' = [head |-> <<>>, files |-> {}, marked |-> FALSE] /\ Repo!Moves(w, "mark")
  <2>1. worktree' \in Repo!Trees
    BY <1>4 DEF Repo!Trees
  <2>2. \A v \in Workers : step[v] \notin Repo!Running
    BY <1>4, WorkerKnown DEF WorkerFit, Made
  <2>3. wiped \subseteq 1 .. runs
    BY UnderTyped
  <2>4. QED
    BY <1>1, <1>2, <1>4, <2>1, <2>2, <2>3, TreeKeeps
<1>5. CASE worktree' = worktree /\ Repo!GivesUp(w)
  BY <1>1, <1>2, <1>5, WorkerKnown, GivesUpKeeps
<1>6. QED
  BY <1>3, <1>4, <1>5 DEF Repo!AddWorktree

LEMMA ResetKeeps ==
    ASSUME RepoInv, NEW w \in Workers, Repo!ResetHard(w) \/ Repo!Clean(w)
    PROVE  RepoInv'
<1> USE DEF Repo!shared, Repo!known
<1>1. /\ step[w] \in {"reset", "clean"} /\ wiped' = wiped \cup Repo!Under(w)
      /\ UNCHANGED <<checkout, named, taskstatus, lease, remote, run, runs, files_changed, repo_evidence, wrote>>
      /\ Repo!Moves(w, "clean") \/ Repo!Moves(w, "mark") \/ Repo!Moves(w, "idle")
  BY DEF Repo!ResetHard, Repo!Clean, Repo!GivesUp
<1>2. {"reset", "clean", "mark"} \subseteq Before /\ {"reset", "clean"} \subseteq Made
      /\ {"reset", "clean"} \cap Repo!Running = {} /\ repo_faults' \in 0 .. MaxFaults
  BY WorkerKnown DEF Before, Made, Repo!Running, Repo!Making, Repo!ResetHard, Repo!Clean
<1>3. worktree # Absent /\ worktree \in Repo!Trees
  <2>1. worktree # Absent
    BY <1>1, <1>2, WorkerKnown DEF WorkerFit
  <2>2. QED
    BY <2>1 DEF RepoInv, RepoTyped
<1>4. worktree' \in Repo!Trees /\ InTree' \subseteq InTree
  <2>1. CASE Repo!ResetHard(w)
    <3> DEFINE kept == {e \in worktree.files : Repo!Path(e) \in Untracked}
    <3>1. worktree' = [worktree EXCEPT !.head = <<>>, !.files = kept]
      BY <2>1 DEF Repo!ResetHard
    <3>2. worktree' \in Repo!Trees /\ worktree'.head = <<>> /\ worktree'.files \subseteq worktree.files
      <4>1. kept \subseteq worktree.files /\ kept \in SUBSET Repo!AllEdits /\ <<>> \in Seq(SUBSET Repo!AllEdits)
        BY <1>3 DEF Repo!Trees
      <4> HIDE DEF kept
      <4>2. QED
        BY <1>3, <3>1, <4>1 DEF Repo!Trees
    <3>3. QED
      BY <3>2, EditsOfNone DEF InTree
  <2>2. CASE Repo!Clean(w)
    <3>1. worktree' = [worktree EXCEPT !.files = {}, !.marked = FALSE]
      BY <2>2 DEF Repo!Clean
    <3>2. worktree' \in Repo!Trees /\ worktree'.head = worktree.head /\ worktree'.files = {}
      BY <1>3, <3>1 DEF Repo!Trees
    <3>3. QED
      BY <3>2 DEF InTree
  <2>3. QED
    BY <2>1, <2>2
<1>5. \A v \in Workers : step[v] \in Repo!Running => run[v] \in wiped'
  BY <1>1, <1>2 DEF Repo!Under
<1>6. wiped' \subseteq 1 .. runs
  BY <1>1, UnderTyped
<1>7. QED
  BY <1>1, <1>2, <1>4, <1>5, <1>6, TreeKeeps

LEMMA MarkKeeps ==
    ASSUME RepoInv, NEW w \in Workers, Repo!WriteMarker(w)
    PROVE  RepoInv'
<1> USE DEF Repo!shared, Repo!known
<1>1. /\ step[w] = "mark" /\ Repo!Moves(w, "persist") /\ worktree' = [worktree EXCEPT !.marked = TRUE]
      /\ UNCHANGED <<checkout, named, taskstatus, lease, remote, run, runs, files_changed, repo_evidence, wrote, wiped,
                     repo_faults>>
  BY DEF Repo!WriteMarker
<1>2. {"mark", "persist"} \subseteq Before /\ "mark" \in Made
  BY DEF Before, Made, Repo!Making
<1>3. worktree \in Repo!Trees /\ wiped \subseteq 1 .. runs /\ repo_faults \in 0 .. MaxFaults
  <2>1. worktree # Absent
    BY <1>1, <1>2, WorkerKnown DEF WorkerFit
  <2>2. QED
    BY <2>1, UnderTyped, WorkerKnown DEF RepoInv, RepoTyped
<1>4. worktree' \in Repo!Trees /\ worktree'.head = worktree.head /\ worktree'.files = worktree.files
  BY <1>1, <1>3 DEF Repo!Trees
<1>5. InTree' \subseteq InTree
  BY <1>4 DEF InTree
<1>6. QED
  BY <1>1, <1>2, <1>3, <1>4, <1>5, TreeKeeps

-----------------------------------------------------------------------------
(* The provider, and what is made of its edits *)

\* A step of the one worker that runs: nothing else is known of the others.
LEMMA TurnKeeps ==
    ASSUME RepoInv, NEW w \in Workers, step[w] \in Repo!Running, RepoTyped', OneWriter', RunsApart',
           \A v \in Workers \ {w} : step'[v] = step[v], UNCHANGED <<named, run>>, worktree' # Absent,
           \A v \in Workers \ {w} : step[v] # "idle" /\ run[v] \notin wrote => run[v] \notin wrote',
           WorkerFit(w, step[w])',
           (Repo!EvidenceStays /\ Repo!PushedInScope /\ Repo!TestedIsPushed /\ Repo!NoChangeIsNone)'
    PROVE  RepoInv'
<1>1. ASSUME NEW v \in Workers \ {w} PROVE WorkerFit(v, step[v])'
  <2>1. step[v] \notin Repo!Running /\ WorkerFit(v, step[v])
    BY WorkerKnown, OneRuns
  <2>2. step'[v] = step[v] /\ run'[v] = run[v] /\ step[v] \notin {"commit", "push", "verify", "validate", "nochange"}
    BY <2>1 DEF Repo!Running
  <2>3. Untouched(v, step[v])'
    BY <2>1, <2>2 DEF Untouched
  <2>4. step[v] \in Before => run[v] \notin wrote'
    BY <2>1 DEF WorkerFit, Before, Repo!Making
  <2>5. QED
    BY <2>2, <2>3, <2>4 DEF WorkerFit
<1>2. QED
  BY <1>1 DEF RepoInv

LEMMA RunningKnown ==
    ASSUME RepoInv, NEW w \in Workers, step[w] \in Repo!Running
    PROVE  /\ RepoTyped /\ OneWriter /\ RunsApart /\ worktree # Absent /\ lease = w
           /\ step[w] # "idle" /\ run[w] \in 1 .. runs /\ run[w] \in 1 .. MaxRuns
           /\ Repo!EvidenceStays /\ Repo!PushedInScope /\ Repo!TestedIsPushed /\ Repo!NoChangeIsNone
<1>1. step[w] # "idle" /\ step[w] \in Made
  BY DEF Repo!Running, Made
<1>2. worktree # Absent /\ lease = w
  BY <1>1, WorkerKnown DEF WorkerFit
<1>3. run[w] \in 1 .. runs /\ runs \in 0 .. MaxRuns
  BY <1>1 DEF RepoInv, RunsApart, RepoTyped
<1>4. QED
  BY <1>1, <1>2, <1>3, RepoAssumption DEF RepoInv

LEMMA WritesKeeps ==
    ASSUME RepoInv, NEW w \in Workers, NEW p \in Paths, Repo!Writes(w, p)
    PROVE  RepoInv'
<1> USE DEF Repo!shared
<1> DEFINE new == <<run[w], p>>
<1>1. /\ step[w] = "run" /\ "run" \in Repo!Running
      /\ worktree' = [worktree EXCEPT !.files = @ \cup {new}] /\ wrote' = wrote \cup {run[w]}
      /\ UNCHANGED <<checkout, named, taskstatus, remote, lease, step, run, files_changed, runs, repo_evidence, wiped,
                     repo_faults>>
  BY DEF Repo!Writes, Repo!Running
<1>2. /\ RepoTyped /\ OneWriter /\ RunsApart /\ worktree # Absent /\ run[w] \in 1 .. runs /\ run[w] \in 1 .. MaxRuns
      /\ Repo!EvidenceStays /\ Repo!PushedInScope /\ Repo!TestedIsPushed /\ Repo!NoChangeIsNone
  BY <1>1, RunningKnown
<1>3. worktree \in Repo!Trees /\ new \in Repo!AllEdits
  BY <1>2, TreeTyped DEF Repo!AllEdits
<1>4. worktree' \in Repo!Trees /\ worktree'.head = worktree.head /\ worktree'.files = worktree.files \cup {new}
  <2> HIDE DEF new
  <2>1. QED
    BY <1>1, <1>3 DEF Repo!Trees
<1>5. RepoTyped' /\ worktree' # Absent
  BY <1>1, <1>2, <1>4, RepoAssumption DEF RepoTyped
<1>6. OneWriter' /\ RunsApart'
  BY <1>1, <1>2 DEF OneWriter, RunsApart
<1>7. WorkerFit(w, step[w])'
  <2>1. new \in InTree'
    BY <1>4 DEF InTree
  <2>2. QED
    BY <1>1, <1>5, <2>1 DEF WorkerFit, Untouched, Before, Repo!Making, InTree
<1>8. \A v \in Workers \ {w} : step[v] # "idle" => run[v] # run[w]
  BY <1>1, <1>2 DEF RunsApart
<1>9. (Repo!EvidenceStays /\ Repo!PushedInScope /\ Repo!TestedIsPushed)'
  BY <1>1, <1>2 DEF Repo!EvidenceStays, Repo!PushedInScope, Repo!TestedIsPushed
<1>10. Repo!NoChangeIsNone'
  BY <1>1, <1>2 DEF Repo!NoChangeIsNone, RunsApart
<1>11. QED
  BY <1>1, <1>5, <1>6, <1>7, <1>8, <1>9, <1>10, TurnKeeps

LEMMA CommitsKeeps ==
    ASSUME RepoInv, NEW w \in Workers, Repo!Commits(w)
    PROVE  RepoInv'
<1> USE DEF Repo!shared, Repo!known
<1>1. /\ step[w] = "run" /\ "run" \in Repo!Running
      /\ worktree' = [worktree EXCEPT !.head = Append(@, worktree.files), !.files = {}]
      /\ UNCHANGED <<checkout, named, taskstatus, remote, lease, step, run, files_changed, runs, repo_evidence, wrote,
                     wiped, repo_faults>>
  BY DEF Repo!Commits, Repo!Running
<1>2. /\ RepoTyped /\ OneWriter /\ RunsApart /\ worktree # Absent
      /\ Repo!EvidenceStays /\ Repo!PushedInScope /\ Repo!TestedIsPushed /\ Repo!NoChangeIsNone
  BY <1>1, RunningKnown
<1>3. worktree \in Repo!Trees /\ worktree.head \in Seq(SUBSET Repo!AllEdits) /\ worktree.files \in SUBSET Repo!AllEdits
  BY <1>2, TreeTyped
<1> DEFINE head == Append(worktree.head, worktree.files)
<1>4. head \in Seq(SUBSET Repo!AllEdits) /\ Repo!Edits(head) = Repo!Edits(worktree.head) \cup worktree.files
  <2>1. \A h \in Seq(SUBSET Repo!AllEdits), F \in SUBSET Repo!AllEdits :
          Append(h, F) \in Seq(SUBSET Repo!AllEdits) /\ Repo!Edits(Append(h, F)) = Repo!Edits(h) \cup F
    BY EditsOfMore
  <2>2. QED
    BY <1>3, <2>1
<1> HIDE DEF head
<1>5. worktree' \in Repo!Trees /\ worktree'.head = head /\ worktree'.files = {}
  BY <1>1, <1>3, <1>4 DEF Repo!Trees, head
<1>6. RepoTyped' /\ worktree' # Absent
  BY <1>1, <1>2, <1>5, RepoAssumption DEF RepoTyped
<1>7. OneWriter' /\ RunsApart'
  BY <1>1, <1>2 DEF OneWriter, RunsApart
<1>8. WorkerFit(w, step[w])'
  <2>1. InTree' = InTree
    BY <1>4, <1>5 DEF InTree
  <2>2. QED
    BY <1>1, <1>6, <2>1, WorkerKnown DEF WorkerFit, Untouched, Before, Repo!Making
<1>9. (Repo!EvidenceStays /\ Repo!PushedInScope /\ Repo!TestedIsPushed /\ Repo!NoChangeIsNone)'
  BY <1>1, <1>2 DEF Repo!EvidenceStays, Repo!PushedInScope, Repo!TestedIsPushed, Repo!NoChangeIsNone
<1>10. QED
  BY <1>1, <1>6, <1>7, <1>8, <1>9, TurnKeeps

\* The worker that runs goes on, or is at its end.
LEMMA TurnMoves ==
    ASSUME RepoInv, NEW w \in Workers, step[w] \in Repo!Running, NEW to \in Repo!Running \cup {"idle"},
           \/ to # "idle" /\ Repo!Moves(w, to) /\ UNCHANGED <<taskstatus, lease>>
           \/ to = "idle" /\ (Repo!Terminal(w, "completed") \/ Repo!Terminal(w, "failed"))
    PROVE  /\ step' \in [Workers -> Steps] /\ step'[w] = to /\ \A v \in Workers \ {w} : step'[v] = step[v]
           /\ lease' \in Workers \cup {Free} /\ taskstatus' \in {"ready", "in_progress", "blocked", "completed"}
           /\ OneWriter'
<1>1. RepoTyped /\ OneWriter /\ lease = w /\ to \in Steps /\ "idle" \notin Repo!Running
  BY RunningKnown DEF Steps, Repo!Running
<1>2. step' = [step EXCEPT ![w] = to]
  BY DEF Repo!Moves, Repo!Terminal
<1>3. step' \in [Workers -> Steps] /\ step'[w] = to /\ \A v \in Workers \ {w} : step'[v] = step[v]
  BY <1>1, <1>2 DEF RepoTyped
<1>4. /\ (to # "idle" => lease' = lease /\ taskstatus' = taskstatus)
      /\ (to = "idle" => lease' = Free /\ taskstatus' \in {"blocked", "completed"})
  BY <1>1 DEF Repo!Terminal
<1>5. OneWriter'
  BY <1>1, <1>3, <1>4, RepoAssumption DEF OneWriter
<1>6. QED
  BY <1>1, <1>3, <1>4, <1>5 DEF RepoTyped

LEMMA EnforceKeeps ==
    ASSUME RepoInv, NEW w \in Workers, Repo!EnforceAllowedPaths(w)
    PROVE  RepoInv'
<1>1. /\ step[w] = "enforce" /\ "enforce" \in Repo!Running /\ {"commit", "nochange"} \subseteq Repo!Running
      /\ files_changed' = [files_changed EXCEPT ![w] = Repo!Changed(worktree)]
      /\ UNCHANGED <<checkout, named, remote, worktree, run, runs, repo_evidence, wrote, wiped, repo_faults>>
  BY DEF Repo!EnforceAllowedPaths, Repo!Running
<1>2. /\ RepoTyped /\ OneWriter /\ RunsApart /\ worktree # Absent /\ step[w] # "idle"
      /\ Repo!EvidenceStays /\ Repo!PushedInScope /\ Repo!TestedIsPushed /\ Repo!NoChangeIsNone
  BY <1>1, RunningKnown
<1>3. PICK to \in {"commit", "nochange", "idle"} :
        /\ \/ to # "idle" /\ Repo!Moves(w, to) /\ UNCHANGED <<taskstatus, lease>>
           \/ to = "idle" /\ (Repo!Terminal(w, "completed") \/ Repo!Terminal(w, "failed"))
        /\ to = "commit" => Repo!Violations(worktree) = {}
        /\ to = "nochange" => Repo!Changed(worktree) = {}
  BY Zenon DEF Repo!EnforceAllowedPaths
<1>4. /\ step' \in [Workers -> Steps] /\ step'[w] = to /\ \A v \in Workers \ {w} : step'[v] = step[v]
      /\ lease' \in Workers \cup {Free} /\ taskstatus' \in {"ready", "in_progress", "blocked", "completed"}
      /\ OneWriter'
  BY <1>1, <1>3, TurnMoves
<1>5. Repo!Changed(worktree) \subseteq Paths /\ \A e \in InTree : Repo!Path(e) \in Repo!Changed(worktree)
  BY <1>2, TreeTyped
<1>6. files_changed' \in [Workers -> SUBSET Paths] /\ files_changed'[w] = Repo!Changed(worktree)
  BY <1>1, <1>2, <1>5 DEF RepoTyped
<1>7. RepoTyped'
  BY <1>1, <1>2, <1>4, <1>6 DEF RepoTyped
<1>8. RunsApart'
  BY <1>1, <1>2, <1>4 DEF RunsApart
<1>9. WorkerFit(w, step[w])'
  <2>1. to = "commit" => Repo!Changed(worktree) \subseteq Scope
    BY <1>3 DEF Repo!Violations
  <2>2. to = "nochange" => InTree = {}
    BY <1>3, <1>5
  <2>3. run[w] \in wrote /\ run[w] \notin wiped => \E p \in Paths : <<run[w], p>> \in InTree
    BY <1>1, WorkerKnown DEF WorkerFit, Untouched
  <2>4. InTree' = InTree /\ Repo!Changed(worktree)' = Repo!Changed(worktree)
    BY <1>1 DEF InTree, Repo!Changed
  <2>5. to \in {"commit", "nochange", "idle"} /\ "idle" \notin Repo!Running /\ to \notin Before
    BY <1>3 DEF Repo!Running, Before, Repo!Making
  <2>6. (run[w] \in wiped \/ Untouched(w, step[w]))'
    BY <1>1, <1>4, <1>6, <2>2, <2>3, <2>4, <2>5 DEF Untouched
  <2>7. QED
    BY <1>1, <1>2, <1>4, <2>1, <2>4, <2>5, <2>6 DEF WorkerFit
<1>10. (Repo!EvidenceStays /\ Repo!PushedInScope /\ Repo!TestedIsPushed /\ Repo!NoChangeIsNone)'
  BY <1>1, <1>2 DEF Repo!EvidenceStays, Repo!PushedInScope, Repo!TestedIsPushed, Repo!NoChangeIsNone
<1>11. QED
  BY <1>1, <1>2, <1>4, <1>7, <1>8, <1>9, <1>10, TurnKeeps

LEMMA CommitKeeps ==
    ASSUME RepoInv, NEW w \in Workers, Repo!CommitChanges(w)
    PROVE  RepoInv'
<1> USE DEF Repo!shared, Repo!known
<1>1. /\ step[w] = "commit" /\ {"commit", "push"} \subseteq Repo!Running /\ {"commit", "push"} \cap Before = {}
      /\ UNCHANGED <<checkout, named, remote, run, files_changed, runs, repo_evidence, wrote, wiped>>
  BY DEF Repo!CommitChanges, Repo!Running, Before, Repo!Making
<1>2. /\ RepoTyped /\ OneWriter /\ RunsApart /\ worktree # Absent /\ lease = w /\ step[w] # "idle"
      /\ Repo!EvidenceStays /\ Repo!PushedInScope /\ Repo!TestedIsPushed /\ Repo!NoChangeIsNone
  BY <1>1, RunningKnown
<1>3. repo_faults' \in 0 .. MaxFaults
  BY WorkerKnown DEF Repo!CommitChanges
<1> DEFINE staged == {e \in worktree.files : Repo!Path(e) \in files_changed[w]}
           head == Append(worktree.head, staged)
<1>4. CASE Repo!Terminal(w, "failed") /\ UNCHANGED worktree
  BY <1>1, <1>2, <1>3, <1>4, EndKeeps
<1>5. CASE /\ worktree' = [worktree EXCEPT !.head = head, !.files = @ \ staged]
           /\ Repo!Moves(w, "push") /\ UNCHANGED <<taskstatus, lease, repo_faults>>
  <2>1. /\ worktree \in Repo!Trees /\ worktree.head \in Seq(SUBSET Repo!AllEdits)
        /\ worktree.files \in SUBSET Repo!AllEdits /\ staged \in SUBSET Repo!AllEdits /\ staged \subseteq worktree.files
    BY <1>2, TreeTyped
  <2>2. head \in Seq(SUBSET Repo!AllEdits) /\ Repo!Edits(head) = Repo!Edits(worktree.head) \cup staged
    BY <2>1, EditsOfMore
  <2>3. \A e \in worktree.files : e \in staged <=> Repo!Path(e) \in files_changed[w]
    OBVIOUS
  <2> HIDE DEF head, staged
  <2>4. worktree' \in Repo!Trees /\ worktree'.head = head /\ worktree'.files = worktree.files \ staged
    BY <1>5, <2>1, <2>2 DEF Repo!Trees
  <2>5. /\ step' \in [Workers -> Steps] /\ step'[w] = "push" /\ \A v \in Workers \ {w} : step'[v] = step[v]
        /\ OneWriter'
    BY <1>1, <1>5, TurnMoves
  <2>6. RepoTyped' /\ worktree' # Absent
    BY <1>1, <1>2, <1>3, <1>5, <2>4, <2>5, RepoAssumption DEF RepoTyped
  <2>7. RunsApart'
    BY <1>1, <1>2, <2>5 DEF RunsApart
  <2>8. InTree' = InTree
    BY <2>1, <2>2, <2>4 DEF InTree
  <2>9. Repo!Changed(worktree)' = Repo!Changed(worktree)
    BY <2>8 DEF InTree, Repo!Changed
  <2>10. WorkerFit(w, step[w])'
    <3>1. WorkerFit(w, "commit")
      BY <1>1, WorkerKnown
    <3>2. run[w] \notin wiped => worktree'.files = {}
      <4>1. SUFFICES ASSUME run[w] \notin wiped PROVE worktree.files \subseteq staged
        BY <2>4
      <4>2. files_changed[w] = Repo!Changed(worktree)
        BY <3>1, <4>1 DEF WorkerFit, Untouched
      <4>3. QED
        BY <1>2, <2>3, <4>2, TreeTyped DEF InTree
    <3>3. QED
      BY <1>1, <2>5, <2>6, <2>8, <2>9, <3>1, <3>2 DEF WorkerFit, Untouched
  <2>11. (Repo!EvidenceStays /\ Repo!PushedInScope /\ Repo!TestedIsPushed /\ Repo!NoChangeIsNone)'
    BY <1>1, <1>2 DEF Repo!EvidenceStays, Repo!PushedInScope, Repo!TestedIsPushed, Repo!NoChangeIsNone
  <2>12. QED
    BY <1>1, <1>2, <2>5, <2>6, <2>7, <2>10, <2>11, TurnKeeps
<1>6. QED
  BY <1>4, <1>5 DEF Repo!CommitChanges

LEMMA PushKeeps ==
    ASSUME RepoInv, NEW w \in Workers, Repo!Push(w)
    PROVE  RepoInv'
<1> USE DEF Repo!shared, Repo!known
<1>1. /\ step[w] = "push" /\ {"push", "verify"} \subseteq Repo!Running /\ {"push", "verify"} \cap Before = {}
      /\ "idle" \notin Before /\ "idle" \notin Repo!Running
      /\ UNCHANGED <<checkout, named, worktree, run, files_changed, runs, repo_evidence, wrote, wiped>>
  BY DEF Repo!Push, Repo!Running, Before, Repo!Making
<1>2. /\ RepoTyped /\ OneWriter /\ RunsApart /\ worktree # Absent /\ lease = w /\ step[w] # "idle"
      /\ Repo!EvidenceStays /\ Repo!PushedInScope /\ Repo!TestedIsPushed /\ Repo!NoChangeIsNone
  BY <1>1, RunningKnown
<1>3. repo_faults' \in 0 .. MaxFaults
  BY WorkerKnown DEF Repo!Push
<1>4. PICK to \in {"verify", "idle"} :
        /\ \/ to # "idle" /\ Repo!Moves(w, to) /\ UNCHANGED <<taskstatus, lease>>
           \/ to = "idle" /\ (Repo!Terminal(w, "completed") \/ Repo!Terminal(w, "failed"))
  BY Zenon DEF Repo!Push
<1>5. remote' = remote \/ (remote' = worktree.head /\ Repo!IsPrefix(remote, worktree.head))
  BY DEF Repo!Push
<1>6. /\ step' \in [Workers -> Steps] /\ step'[w] = to /\ \A v \in Workers \ {w} : step'[v] = step[v]
      /\ lease' \in Workers \cup {Free} /\ taskstatus' \in {"ready", "in_progress", "blocked", "completed"}
      /\ OneWriter'
  BY <1>1, <1>4, TurnMoves
<1>7. /\ remote \in Seq(SUBSET Repo!AllEdits) /\ remote' \in Seq(SUBSET Repo!AllEdits)
      /\ Repo!IsPrefix(remote, remote')
  <2>1. remote \in Seq(SUBSET Repo!AllEdits) /\ worktree.head \in Seq(SUBSET Repo!AllEdits)
    BY <1>2, TreeTyped DEF RepoTyped
  <2>2. Repo!IsPrefix(remote, remote)
    BY <2>1, PrefixOfItself
  <2>3. QED
    BY <1>5, <2>1, <2>2
<1>8. RepoTyped'
  BY <1>1, <1>2, <1>3, <1>6, <1>7 DEF RepoTyped
<1>9. RunsApart'
  BY <1>1, <1>2, <1>6 DEF RunsApart
<1>10. WorkerFit(w, step[w])
  BY WorkerKnown
<1>11. WorkerFit(w, step[w])'
  BY <1>1, <1>2, <1>4, <1>6, <1>10 DEF WorkerFit, Untouched, InTree
<1>12. Repo!EvidenceStays'
  <2>1. SUFFICES ASSUME NEW e \in repo_evidence PROVE Repo!IsPrefix(e.sha, remote')
    BY <1>1 DEF Repo!EvidenceStays
  <2>2. e.sha \in Seq(SUBSET Repo!AllEdits) /\ Repo!IsPrefix(e.sha, remote)
    BY <1>2 DEF RepoTyped, Recorded, Repo!EvidenceStays
  <2>3. QED
    BY <1>7, <2>2, PrefixOfMore
<1>13. Repo!PushedInScope'
  <2>1. CASE remote' = remote
    BY <1>2, <2>1 DEF Repo!PushedInScope
  <2>2. CASE remote' = worktree.head
    <3>1. Repo!Changed(worktree) \subseteq Scope
      BY <1>1, <1>10 DEF WorkerFit
    <3>2. \A e \in Repo!Edits(worktree.head) : Repo!Path(e) \in Scope
      BY <3>1 DEF Repo!Changed
    <3>3. QED
      BY <2>2, <3>2 DEF Repo!PushedInScope
  <2>3. QED
    BY <1>5, <2>1, <2>2
<1>14. (Repo!TestedIsPushed /\ Repo!NoChangeIsNone)'
  BY <1>1, <1>2 DEF Repo!TestedIsPushed, Repo!NoChangeIsNone
<1>15. QED
  BY <1>1, <1>2, <1>6, <1>8, <1>9, <1>11, <1>12, <1>13, <1>14, TurnKeeps

\* An evidence that says what the branch and the worktree show.
LEMMA RecordKeeps ==
    ASSUME RepoInv, NEW w \in Workers, step[w] \in Repo!Running, NEW sha, NEW tests \in {"passed", "failed", "not_required"},
           sha \in {remote, <<>>}, Repo!Record(w, sha, tests),
           run[w] \notin wiped => InTree = Repo!Edits(sha),
           sha = <<>> /\ run[w] \notin wiped => run[w] \notin wrote,
           UNCHANGED <<checkout, named, remote, worktree, run, files_changed, runs, wrote, wiped>>
    PROVE  RepoInv'
<1>1. /\ RepoTyped /\ OneWriter /\ RunsApart /\ worktree # Absent /\ lease = w /\ step[w] # "idle"
      /\ run[w] \in 1 .. runs /\ run[w] \in 1 .. MaxRuns
      /\ Repo!EvidenceStays /\ Repo!PushedInScope /\ Repo!TestedIsPushed /\ Repo!NoChangeIsNone
  BY RunningKnown
<1>2. repo_faults' \in 0 .. MaxFaults
  BY WorkerKnown DEF Repo!Record
<1> DEFINE new == Repo!Evidence(w, sha, tests)
<1>3. (repo_evidence' = repo_evidence \/ repo_evidence' = repo_evidence \cup {new})
      /\ (Repo!Terminal(w, "completed") \/ Repo!Terminal(w, "failed"))
  BY DEF Repo!Record
<1>4. remote \in Seq(SUBSET Repo!AllEdits) /\ sha \in Seq(SUBSET Repo!AllEdits) /\ InTree \subseteq Repo!AllEdits
      /\ <<>> \in Seq(SUBSET Repo!AllEdits)
  <2>1. remote \in Seq(SUBSET Repo!AllEdits) /\ InTree \subseteq Repo!AllEdits
    BY <1>1, TreeTyped DEF RepoTyped
  <2>2. QED
    BY <2>1, PrefixOfAll
<1>5. new \in Recorded /\ new.run = run[w] /\ new.sha = sha /\ new.tests = tests /\ new.tested = InTree
  BY <1>1, <1>4 DEF Repo!Evidence, InTree, Recorded
<1> HIDE DEF new
<1>6. /\ step' \in [Workers -> Steps] /\ step'[w] = "idle" /\ \A v \in Workers \ {w} : step'[v] = step[v]
      /\ lease' \in Workers \cup {Free} /\ taskstatus' \in {"ready", "in_progress", "blocked", "completed"}
      /\ OneWriter'
  BY <1>3, TurnMoves
<1>7. RepoTyped'
  BY <1>1, <1>2, <1>3, <1>5, <1>6 DEF RepoTyped
<1>8. RunsApart'
  <2>1. new.run <= runs /\ \A v \in Workers : step'[v] # "idle" => run[v] # new.run
    BY <1>1, <1>5, <1>6 DEF RunsApart, RepoTyped
  <2>2. QED
    BY <1>1, <1>3, <1>6, <2>1 DEF RunsApart
<1>9. WorkerFit(w, step[w])'
  BY <1>6 DEF WorkerFit, Untouched, Made, Before, Repo!Running, Repo!Making
<1>10. Repo!EvidenceStays'
  <2>1. Repo!IsPrefix(sha, remote)
    <3>1. CASE sha = remote
      BY <1>4, <3>1, PrefixOfItself
    <3>2. CASE sha = <<>>
      BY <1>4, <3>2, PrefixOfAll
    <3>3. QED
      BY <3>1, <3>2
  <2>2. QED
    BY <1>1, <1>3, <1>5, <2>1 DEF Repo!EvidenceStays
<1>11. (Repo!PushedInScope /\ Repo!TestedIsPushed)'
  BY <1>1, <1>3, <1>5 DEF Repo!PushedInScope, Repo!TestedIsPushed
<1>12. Repo!NoChangeIsNone'
  BY <1>1, <1>3, <1>5 DEF Repo!NoChangeIsNone
<1>13. QED
  BY <1>1, <1>6, <1>7, <1>8, <1>9, <1>10, <1>11, <1>12, TurnKeeps

LEMMA NoChangeKeeps ==
    ASSUME RepoInv, NEW w \in Workers, Repo!NoChangeEvidence(w)
    PROVE  RepoInv'
<1>1. step[w] = "nochange" /\ "nochange" \in Repo!Running
      /\ UNCHANGED <<checkout, named, remote, worktree, run, files_changed, runs, wrote, wiped>>
  BY DEF Repo!NoChangeEvidence, Repo!Running
<1>2. PICK tests \in {"passed", "failed", "not_required"} : Repo!Record(w, <<>>, tests)
  BY DEF Repo!NoChangeEvidence
<1>3. run[w] \notin wiped => InTree = {} /\ run[w] \notin wrote
  BY <1>1, WorkerKnown DEF WorkerFit, Untouched
<1>4. QED
  BY <1>1, <1>2, <1>3, EditsOfNone, RecordKeeps

LEMMA ValidateKeeps ==
    ASSUME RepoInv, NEW w \in Workers, Repo!ValidateAndRecord(w)
    PROVE  RepoInv'
<1>1. step[w] = "validate" /\ "validate" \in Repo!Running
      /\ UNCHANGED <<checkout, named, remote, worktree, run, files_changed, runs, wrote, wiped>>
  BY DEF Repo!ValidateAndRecord, Repo!Running
<1>2. PICK tests \in {"passed", "failed", "not_required"} : Repo!Record(w, remote, tests)
  BY DEF Repo!ValidateAndRecord
<1>3. remote # <<>> /\ (run[w] \notin wiped => InTree = Repo!Edits(remote))
  BY <1>1, WorkerKnown DEF WorkerFit, Untouched, InTree
<1>4. QED
  BY <1>1, <1>2, <1>3, RecordKeeps

-----------------------------------------------------------------------------

LEMMA RepoKept ==
    ASSUME RepoInv, [DecisionsNext]_allvars
    PROVE  RepoInv'
<1>1. Repo!Next \/ UNCHANGED repovars
  BY DEF DecisionsNext, allvars
<1>2. CASE Repo!Next
  <2>1. ASSUME NEW w \in Workers, Repo!Worker(w) PROVE RepoInv'
    BY <2>1, PreparesKeeps, AddKeeps, ResetKeeps, MarkKeeps, GateKeeps, EnforceKeeps, NoChangeKeeps, CommitKeeps,
       PushKeeps, VerifyKeeps, ValidateKeeps DEF Repo!Worker
  <2>2. ASSUME NEW w \in Workers,
               Repo!Launch(w) \/ Repo!Dies(w) \/ Repo!Commits(w) \/ Repo!Stops(w) \/ \E p \in Paths : Repo!Writes(w, p)
        PROVE  RepoInv'
    BY <2>2, LaunchKeeps, DiesKeeps, CommitsKeeps, StopsKeeps, WritesKeeps
  <2>3. CASE Repo!Reopen
    BY <2>3, RepoSame DEF Repo!Reopen, Repo!known
  <2>4. QED
    BY <1>2, <2>1, <2>2, <2>3 DEF Repo!Next
<1>3. CASE UNCHANGED repovars
  <2>1. taskstatus \in {"ready", "in_progress", "blocked", "completed"}
    BY DEF RepoInv, RepoTyped
  <2>2. QED
    BY <1>3, <2>1, RepoSame DEF repovars
<1>4. QED
  BY <1>1, <1>2, <1>3

LEMMA RepoHolds == RepoInv => WriteEnforced
<1> SUFFICES ASSUME RepoInv
             PROVE  /\ Repo!TypeOK /\ Repo!EvidenceStays /\ Repo!PushedInScope
                    /\ Repo!TestedIsPushed /\ Repo!NoChangeIsNone
  BY DEF WriteEnforced
<1>1. RepoTyped /\ (worktree # Absent => worktree \in Repo!Trees)
  BY DEF RepoInv, RepoTyped
<1>2. 1 .. runs \subseteq 1 .. MaxRuns
  BY <1>1, RepoAssumption DEF RepoTyped
<1>3. Repo!TypeOK
  BY <1>1, <1>2 DEF RepoTyped, Repo!TypeOK, Steps
<1>4. QED
  BY <1>3 DEF RepoInv

(* A Task that writes its repository (repo_write_enforcement.py, worktree_materializer.py): what is     *)
(* pushed stays in scope, what an evidence names stays on the remote, tests that passed were run on     *)
(* what was pushed, and success without a change is a provider that changed nothing: for any workers,   *)
(* paths and scope, any number of launches, and workers that die or reset the worktree at any step.     *)
THEOREM WriteEnforcedAlways == DecisionsSpec => []WriteEnforced
<1>1. DecisionsInit => RepoInv
  BY InitRepo
<1>2. RepoInv /\ [DecisionsNext]_allvars => RepoInv'
  BY RepoKept
<1>3. RepoInv => WriteEnforced
  BY RepoHolds
<1>4. QED
  BY <1>1, <1>2, <1>3, PTL DEF DecisionsSpec

-----------------------------------------------------------------------------
(* Refreshes of quota *)

Snaps == Refresh!AccountSet \X (1 .. MaxTime)

\* Where a refresh has its own document, and where that has an entry of this refresh.
Holding == {"collect", "load", "append", "publish"}
Adding == {"load", "append"}

Latest(w) == doc[w][Accounts[turn[w]]]

RefreshTyped ==
    /\ time \in 2 .. MaxTime /\ pruned \in 2 .. time /\ faults \in 0 .. MaxFaults
    /\ tokens \in [Refresh!Dirs -> {"good", "stale", "missing"}] /\ payload \in [Refresh!Dirs -> 0 .. time]
    /\ lock \in Workers \cup {Free} /\ at \in [Workers -> {"idle", "read"} \cup Holding]
    /\ turn \in [Workers -> 1 .. Len(Accounts) + 1] /\ doc \in [Workers -> Refresh!Documents \cup {Absent}]
    /\ asked \in [Workers -> [Refresh!Dirs -> Refresh!Answers]]
    /\ drive \in Refresh!Documents /\ runtime \in Refresh!Documents \cup {Absent}
    /\ history \subseteq recorded /\ recorded \subseteq Snaps
    /\ copy \in [Workers \cup {Refresh!Operator} -> (SUBSET recorded) \cup {Absent}]

NotBehind(d) == \A a \in Refresh!AccountSet : d[a].updated >= drive[a].updated

\* The lock is of the one refresh under way.  What it holds is not older than what Drive has, and
\* it publishes what it has written here.
OneRefresh ==
    \A w \in Workers :
        /\ lock = w <=> at[w] # "idle"
        /\ at[w] \in Holding => doc[w] # Absent /\ NotBehind(doc[w])
        /\ at[w] \in Adding => turn[w] <= Len(Accounts) /\ Latest(w).updated # 0
        /\ at[w] = "append" => copy[w] \in SUBSET recorded
        /\ at[w] = "publish" => runtime = doc[w]

After(S, s) == {o \in Refresh!OfAccount(S, s[1]) : o[2] > s[2]}

\* What a pruning at time t leaves of a set of snapshots.
Newest(S, t) ==
    {s \in S : s[2] + Retention >= t /\ Cardinality(After(S, s)) < Keep}

\* Of any of these snapshots there is a last one.
HaveLast(S) == \A T \in SUBSET S : T # {} => \E m \in T : \A o \in T : o[2] <= m[2]

HistoryFits ==
    /\ IsFiniteSet(recorded) /\ HaveLast(recorded)
    /\ raced \/ history = Newest(recorded, pruned)

RefreshInv ==
    /\ RefreshTyped /\ OneRefresh /\ HistoryFits
    /\ Refresh!RuntimeNotBehind /\ Refresh!OwnNumbers

-----------------------------------------------------------------------------
(* Pruning *)

LEMMA SameCardinality == \A S : Refresh!Cardinality(S) = Cardinality(S)
BY DEF Refresh!Cardinality, Cardinality

LEMMA PruneIsNewest == ASSUME NEW S PROVE Refresh!Prune(S) = Newest(S, time)
BY SameCardinality DEF Refresh!Prune, Newest, After

LEMMA Counts ==
    ASSUME NEW S, IsFiniteSet(S), NEW T \in SUBSET S
    PROVE  IsFiniteSet(T) /\ Cardinality(T) \in Nat /\ Cardinality(S) \in Nat /\ Cardinality(T) <= Cardinality(S)
BY FS_Subset, FS_CardinalityType

LEMMA AfterIn == ASSUME NEW S, NEW s PROVE After(S, s) \in SUBSET S
BY DEF After, Refresh!OfAccount

\* A history of R that was pruned at t may be pruned again at u, with A added.
Prunable(R, A, t, u) ==
    /\ R \cup A \in SUBSET Snaps /\ IsFiniteSet(R \cup A) /\ HaveLast(R \cup A)
    /\ t \in Nat /\ u \in Nat /\ t <= u

\* Pruned again later, with more, a pruned history is as good as everything.
LEMMA NewestAgain ==
    ASSUME NEW R, NEW A, NEW t, NEW u, Prunable(R, A, t, u)
    PROVE  Newest(Newest(R, t) \cup A, u) = Newest(R \cup A, u)
<1> R \cup A \in SUBSET Snaps /\ IsFiniteSet(R \cup A) /\ HaveLast(R \cup A) /\ t \in Nat /\ u \in Nat /\ t <= u
  BY DEF Prunable
<1> DEFINE H == Newest(R, t) \cup A
<1>0. Keep \in Nat /\ Retention \in Nat
  BY RefreshAssumption
<1>1. H \in SUBSET (R \cup A) /\ Newest(R, t) \in SUBSET R
  BY DEF Newest
<1>2. \A s \in R \cup A : s[1] \in Refresh!AccountSet /\ s[2] \in Nat
  BY DEF Snaps
<1>3. ASSUME NEW S, NEW T \in SUBSET S, S \in SUBSET (R \cup A), NEW s
      PROVE  /\ Cardinality(After(T, s)) \in Nat /\ Cardinality(After(S, s)) \in Nat
             /\ Cardinality(After(T, s)) <= Cardinality(After(S, s))
  <2>1. After(T, s) \in SUBSET After(S, s) /\ After(S, s) \in SUBSET (R \cup A)
    BY <1>3 DEF After, Refresh!OfAccount
  <2>2. IsFiniteSet(After(S, s))
    BY <2>1, Counts
  <2>3. QED
    BY <2>1, <2>2, Counts
<1>4. ASSUME NEW s \in Newest(R \cup A, u) PROVE s \in Newest(H, u)
  <2>1. s \in R \cup A /\ s[2] + Retention >= u /\ Cardinality(After(R \cup A, s)) < Keep
    BY DEF Newest
  <2>2. s[2] + Retention >= t
    BY <2>1, <1>0, <1>2
  <2>3. Cardinality(After(R, s)) < Keep
    <3>1. /\ Cardinality(After(R, s)) \in Nat /\ Cardinality(After(R \cup A, s)) \in Nat
          /\ Cardinality(After(R, s)) <= Cardinality(After(R \cup A, s))
      BY <1>3
    <3>2. QED
      BY <3>1, <2>1, <1>0
  <2>4. s \in H
    BY <2>1, <2>2, <2>3 DEF Newest
  <2>5. Cardinality(After(H, s)) < Keep
    <3>1. /\ Cardinality(After(H, s)) \in Nat /\ Cardinality(After(R \cup A, s)) \in Nat
          /\ Cardinality(After(H, s)) <= Cardinality(After(R \cup A, s))
      BY <1>1, <1>3
    <3>2. QED
      BY <3>1, <2>1, <1>0
  <2>6. QED
    BY <2>1, <2>4, <2>5 DEF Newest
<1>5. ASSUME NEW s \in Newest(H, u) PROVE s \in Newest(R \cup A, u)
  <2>1. s \in H /\ s[2] + Retention >= u /\ Cardinality(After(H, s)) < Keep /\ s \in R \cup A
    BY <1>1 DEF Newest
  <2>2. After(R \cup A, s) \in SUBSET H
    <3> DEFINE T == After(R \cup A, s) \ H
    <3>1. SUFFICES ASSUME T # {} PROVE FALSE
      OBVIOUS
    <3>2. T \in SUBSET (R \cup A)
      BY AfterIn
    <3>3. PICK m \in T : \A o \in T : o[2] <= m[2]
      BY <3>1, <3>2 DEF HaveLast
    <3>4. m \in R /\ m \notin Newest(R, t) /\ m[1] = s[1] /\ m[2] > s[2] /\ m[2] \in Nat /\ s[2] \in Nat
      BY <1>2, <2>1, <3>2 DEF After, Refresh!OfAccount
    <3>5. m[2] + Retention >= t
      BY <3>4, <2>1, <1>0
    <3>6. ~(Cardinality(After(R, m)) < Keep)
      BY <3>4, <3>5 DEF Newest
    <3>7. After(R, m) \in SUBSET After(H, s)
      <4>1. SUFFICES ASSUME NEW o \in After(R, m) PROVE o \in After(H, s)
        OBVIOUS
      <4>2. o \in R /\ o[1] = s[1] /\ o[2] > m[2] /\ o[2] \in Nat
        BY <3>4, <1>2 DEF After, Refresh!OfAccount
      <4>3. o[2] > s[2] /\ ~(o[2] <= m[2])
        BY <4>2, <3>4
      <4>4. o \in After(R \cup A, s)
        BY <4>2, <4>3 DEF After, Refresh!OfAccount
      <4>5. o \in H
        BY <4>4, <4>3, <3>3
      <4>6. QED
        BY <4>2, <4>3, <4>5 DEF After, Refresh!OfAccount
    <3>8. IsFiniteSet(After(H, s))
      <4>1. After(H, s) \in SUBSET (R \cup A)
        BY AfterIn, <1>1
      <4>2. QED
        BY <4>1, Counts
    <3>9. /\ Cardinality(After(R, m)) \in Nat /\ Cardinality(After(H, s)) \in Nat
          /\ Cardinality(After(R, m)) <= Cardinality(After(H, s))
      BY <3>7, <3>8, Counts
    <3>10. QED
      BY <3>6, <3>9, <2>1, <1>0
  <2>3. After(R \cup A, s) = After(H, s)
    BY <2>2, <1>1 DEF After, Refresh!OfAccount
  <2>4. QED
    BY <2>1, <2>3 DEF Newest
<1>6. QED
  BY <1>4, <1>5

LEMMA LastWithOneMore ==
    ASSUME NEW R \in SUBSET Snaps, HaveLast(R), NEW s \in Snaps
    PROVE  HaveLast(R \cup {s})
<1>1. \A o \in R \cup {s} : o[2] \in Nat
  BY DEF Snaps
<1>2. SUFFICES ASSUME NEW T \in SUBSET (R \cup {s}), T # {}
               PROVE  \E m \in T : \A o \in T : o[2] <= m[2]
  BY DEF HaveLast
<1>3. CASE T \ {s} = {}
  BY <1>1, <1>2, <1>3
<1>4. CASE T \ {s} # {}
  <2>1. PICK m \in T \ {s} : \A o \in T \ {s} : o[2] <= m[2]
    BY <1>4 DEF HaveLast
  <2>2. \A o \in T : o[2] <= m[2] \/ o = s
    BY <2>1
  <2>3. m[2] \in Nat /\ s[2] \in Nat /\ m \in T
    BY <2>1, <1>1
  <2>4. CASE s \in T /\ s[2] > m[2]
    <3>1. \A o \in T : o[2] <= s[2]
      BY <2>2, <2>3, <2>4, <1>1
    <3>2. QED
      BY <3>1, <2>4
  <2>5. CASE ~(s \in T /\ s[2] > m[2])
    <3>1. \A o \in T : o[2] <= m[2]
      BY <2>2, <2>3, <2>5
    <3>2. QED
      BY <3>1, <2>3
  <2>6. QED
    BY <2>4, <2>5
<1>5. QED
  BY <1>3, <1>4
-----------------------------------------------------------------------------
(* The steps of a refresh *)

LEMMA InitRefresh == DecisionsInit => RefreshInv
<1> SUFFICES ASSUME Refresh!Init PROVE RefreshInv
  BY DEF DecisionsInit
<1> USE RefreshAssumption, RepoAssumption
<1>1. Refresh!Nothing.updated = 0 /\ Refresh!Nothing.from = "none" /\ Refresh!Nothing \in Refresh!Entries
  BY DEF Refresh!Nothing, Refresh!Entries
<1>2. drive \in Refresh!Documents /\ \A a \in Refresh!AccountSet : drive[a] = Refresh!Nothing
  BY <1>1 DEF Refresh!Init, Refresh!Documents
<1>3. /\ \A w \in Workers : at[w] = "idle" /\ doc[w] = Absent
      /\ lock = Free /\ history = {} /\ recorded = {} /\ pruned = 2 /\ time = 2
  BY DEF Refresh!Init
<1>4. RefreshTyped
  <2>1. Len(Accounts) \in Nat
    OBVIOUS
  <2>2. turn \in [Workers -> 1 .. Len(Accounts) + 1] /\ at \in [Workers -> {"idle", "read"} \cup Holding]
    BY <2>1 DEF Refresh!Init
  <2>3. tokens \in [Refresh!Dirs -> {"good", "stale", "missing"}] /\ payload \in [Refresh!Dirs -> 0 .. time]
    <3>1. {0, 1} \in SUBSET (0 .. time)
      BY <1>3
    <3>2. QED
      BY <3>1 DEF Refresh!Init
  <2>4. asked \in [Workers -> [Refresh!Dirs -> Refresh!Answers]]
    BY DEF Refresh!Init, Refresh!Answers
  <2>5. /\ doc \in [Workers -> Refresh!Documents \cup {Absent}] /\ runtime = Absent /\ faults = 0
        /\ copy \in [Workers \cup {Refresh!Operator} -> (SUBSET recorded) \cup {Absent}]
    <3> HIDE RefreshAssumption, RepoAssumption
    <3>1. /\ doc = [w \in Workers |-> Absent] /\ runtime = Absent /\ faults = 0
          /\ copy = [w \in Workers \cup {Refresh!Operator} |-> Absent]
      BY DEF Refresh!Init
    <3>2. doc \in [Workers -> Refresh!Documents \cup {Absent}]
      BY <3>1, Zenon
    <3>3. copy \in [Workers \cup {Refresh!Operator} -> (SUBSET recorded) \cup {Absent}]
      <4> DEFINE Copies == (SUBSET recorded) \cup {Absent}
      <4>1. Absent \in Copies
        OBVIOUS
      <4> HIDE DEF Copies
      <4>2. copy \in [Workers \cup {Refresh!Operator} -> Copies]
        BY <3>1, <4>1
      <4>3. QED
        BY <4>2 DEF Copies
    <3>4. QED
      BY <3>1, <3>2, <3>3
  <2>6. QED
    BY <1>2, <1>3, <2>2, <2>3, <2>4, <2>5 DEF RefreshTyped
<1>5. OneRefresh
  BY <1>3 DEF OneRefresh, Holding, Adding
<1>6. HistoryFits
  BY <1>3, FS_EmptySet DEF HistoryFits, HaveLast, Newest
<1>7. Refresh!RuntimeNotBehind /\ Refresh!OwnNumbers
  BY <1>1, <1>2, <1>3 DEF Refresh!RuntimeNotBehind, Refresh!OwnNumbers
<1>8. QED
  BY <1>4, <1>5, <1>6, <1>7 DEF RefreshInv

\* What Drive has of an account does not become older.
NoneOlder == \A a \in Refresh!AccountSet : drive'[a].updated >= drive[a].updated

LEMMA EntryTyped ==
    ASSUME NEW d \in Refresh!Documents, NEW a \in Refresh!AccountSet
    PROVE  d[a] \in Refresh!Entries /\ d[a].updated \in Nat /\ d[a].updated <= MaxTime
BY RefreshAssumption DEF Refresh!Documents, Refresh!Entries

LEMMA NoneOlderWhenSame == ASSUME RefreshInv, UNCHANGED drive PROVE NoneOlder
BY EntryTyped DEF RefreshInv, RefreshTyped, NoneOlder

LEMMA HistorySame ==
    ASSUME RefreshInv, UNCHANGED <<history, recorded, pruned, raced>>
    PROVE  HistoryFits'
BY DEF RefreshInv, HistoryFits, HaveLast, Newest, After, Refresh!OfAccount

LEMMA DocumentsSame ==
    ASSUME RefreshInv, UNCHANGED <<drive, runtime>>, \A w \in Workers : doc'[w] = doc[w] \/ doc'[w] = Absent
    PROVE  Refresh!RuntimeNotBehind' /\ Refresh!OwnNumbers'
BY DEF RefreshInv, Refresh!RuntimeNotBehind, Refresh!OwnNumbers

LEMMA Alone ==
    ASSUME RefreshInv, NEW w \in Workers, at[w] # "idle"
    PROVE  lock = w /\ \A v \in Workers : v # w => at[v] = "idle"
BY DEF RefreshInv, OneRefresh

LEMMA HoldsDocument ==
    ASSUME RefreshInv, NEW w \in Workers, at[w] \in Holding
    PROVE  doc[w] \in Refresh!Documents /\ NotBehind(doc[w])
BY DEF RefreshInv, OneRefresh, RefreshTyped

\* A step of the refresh under way, that leaves Drive alone and knows what OneRefresh says of it.
LEMMA GoesOn ==
    ASSUME RefreshInv, NEW w \in Workers, at[w] # "idle", NEW l \in {"read"} \cup Holding,
           at' = [at EXCEPT ![w] = l], UNCHANGED lock,
           l \in Holding => doc'[w] # Absent /\ NotBehind(doc[w])',
           l \in Adding => turn'[w] <= Len(Accounts) /\ Latest(w)'.updated # 0,
           l = "append" => copy'[w] \in SUBSET recorded',
           l = "publish" => runtime' = doc'[w]
    PROVE  OneRefresh' /\ at' \in [Workers -> {"idle", "read"} \cup Holding]
<1>1. lock = w /\ \A v \in Workers : v # w => at[v] = "idle"
  BY Alone
<1>2. at \in [Workers -> {"idle", "read"} \cup Holding]
  BY DEF RefreshInv, RefreshTyped
<1>3. at'[w] = l /\ \A v \in Workers : v # w => at'[v] = "idle"
  BY <1>1, <1>2
<1>4. l # "idle"
  BY DEF Holding
<1>5. ASSUME NEW v \in Workers
      PROVE  /\ lock' = v <=> at'[v] # "idle"
             /\ at'[v] \in Holding => doc'[v] # Absent /\ NotBehind(doc[v])'
             /\ at'[v] \in Adding => turn'[v] <= Len(Accounts) /\ Latest(v)'.updated # 0
             /\ at'[v] = "append" => copy'[v] \in SUBSET recorded'
             /\ at'[v] = "publish" => runtime' = doc'[v]
  <2>1. CASE v = w
    BY <2>1, <1>1, <1>3, <1>4
  <2>2. CASE v # w
    BY <2>2, <1>1, <1>3 DEF Holding, Adding
  <2>3. QED
    BY <2>1, <2>2
<1>6. at' \in [Workers -> {"idle", "read"} \cup Holding]
  BY <1>2
<1>7. QED
  BY <1>5, <1>6 DEF OneRefresh

LEMMA StartKeeps ==
    ASSUME RefreshInv, NEW w \in Workers, Refresh!Start(w)
    PROVE  RefreshInv' /\ NoneOlder
<1>1. /\ lock = Free /\ lock' = w /\ at' = [at EXCEPT ![w] = "read"]
      /\ UNCHANGED <<time, tokens, payload, turn, doc, asked, drive, runtime, history, recorded, pruned, raced, copy, faults>>
  BY DEF Refresh!Start, Refresh!Moves, Refresh!files, Refresh!store
<1>2. \A v \in Workers : at[v] = "idle"
  BY <1>1, RepoAssumption DEF RefreshInv, OneRefresh
<1>3. RefreshTyped'
  BY <1>1 DEF RefreshInv, RefreshTyped
<1>4. OneRefresh'
  <2>1. at'[w] = "read" /\ \A v \in Workers : v # w => at'[v] = "idle"
    BY <1>1, <1>2 DEF RefreshInv, RefreshTyped
  <2>2. QED
    BY <1>1, <2>1 DEF OneRefresh, Holding, Adding
<1>5. QED
  BY <1>1, <1>3, <1>4, NoneOlderWhenSame, HistorySame, DocumentsSame DEF RefreshInv

LEMMA ReadDriveKeeps ==
    ASSUME RefreshInv, NEW w \in Workers, Refresh!ReadDrive(w)
    PROVE  RefreshInv' /\ NoneOlder
<1>1. /\ at[w] = "read" /\ at' = [at EXCEPT ![w] = "collect"] /\ doc' = [doc EXCEPT ![w] = drive]
      /\ UNCHANGED <<time, tokens, payload, lock, turn, asked, drive, runtime, history, recorded, pruned, raced, copy, faults>>
  BY DEF Refresh!ReadDrive, Refresh!Moves, Refresh!files, Refresh!store
<1>2. drive \in Refresh!Documents /\ doc \in [Workers -> Refresh!Documents \cup {Absent}]
  BY DEF RefreshInv, RefreshTyped
<1>3. doc'[w] = drive /\ \A v \in Workers : v # w => doc'[v] = doc[v]
  BY <1>1, <1>2
<1>4. drive # Absent /\ NotBehind(drive)
  BY <1>2, EntryTyped, RefreshAssumption DEF NotBehind
<1>5. OneRefresh' /\ at' \in [Workers -> {"idle", "read"} \cup Holding]
  BY <1>1, <1>3, <1>4, GoesOn DEF NotBehind, Holding, Adding
<1>6. RefreshTyped'
  BY <1>1, <1>2, <1>5 DEF RefreshInv, RefreshTyped
<1>7. Refresh!RuntimeNotBehind' /\ Refresh!OwnNumbers'
  BY <1>1, <1>3 DEF RefreshInv, Refresh!RuntimeNotBehind, Refresh!OwnNumbers
<1>8. QED
  BY <1>1, <1>5, <1>6, <1>7, NoneOlderWhenSame, HistorySame DEF RefreshInv
LEMMA TurnTyped ==
    ASSUME RefreshInv, NEW w \in Workers
    PROVE  /\ turn[w] \in 1 .. Len(Accounts) + 1 /\ Len(Accounts) \in Nat
           /\ turn[w] <= Len(Accounts) =>
                /\ Accounts[turn[w]] \in Refresh!AccountSet /\ Dir(Accounts[turn[w]]) \in Refresh!Dirs
                /\ turn[w] + 1 \in 1 .. Len(Accounts) + 1
<1>1. turn[w] \in 1 .. Len(Accounts) + 1
  BY DEF RefreshInv, RefreshTyped
<1>2. Accounts \in Seq(Refresh!AccountSet)
  BY RefreshAssumption
<1>3. Len(Accounts) \in Nat /\ DOMAIN Accounts = 1 .. Len(Accounts)
  BY <1>2
<1>4. ASSUME turn[w] <= Len(Accounts)
      PROVE  /\ Accounts[turn[w]] \in Refresh!AccountSet /\ Dir(Accounts[turn[w]]) \in Refresh!Dirs
             /\ turn[w] + 1 \in 1 .. Len(Accounts) + 1
  <2>1. turn[w] \in DOMAIN Accounts
    BY <1>1, <1>3, <1>4
  <2>2. Accounts[turn[w]] \in Refresh!AccountSet /\ Dir(Accounts[turn[w]]) \in Refresh!Dirs
    BY <2>1 DEF Refresh!AccountSet, Refresh!Dirs
  <2>3. QED
    BY <2>2, <1>1, <1>3, <1>4
<1>5. QED
  BY <1>1, <1>3, <1>4

\* Whoever is asked and fails, or answers with nothing, has used a fault.
LEMMA AnswerCounts ==
    ASSUME RefreshInv, NEW w \in Workers, NEW d \in Refresh!Dirs,
           NEW answer \in Refresh!Answers, NEW token \in {"good", "stale", "missing"},
           Refresh!Ask(w, d, answer, token), asked[w][d] = "none", token = "good", answer # "success"
    PROVE  faults < MaxFaults
<1>1. answer \in Refresh!Usage("good")
  BY DEF Refresh!Ask, Refresh!Collect
<1>2. QED
  BY <1>1 DEF Refresh!Usage

LEMMA LearnedFits ==
    ASSUME RefreshInv, NEW w \in Workers, turn[w] <= Len(Accounts), NEW answer
    PROVE  /\ Refresh!Learned(w, answer) \in Refresh!Entries
           /\ Refresh!Learned(w, answer).from \in {Dir(Accounts[turn[w]]), "none"}
<1> DEFINE d == Dir(Accounts[turn[w]])
<1>1. d \in Refresh!Dirs
  BY TurnTyped
<1>2. time \in 0 .. MaxTime /\ payload[d] \in 0 .. MaxTime
  <2>1. time \in 2 .. MaxTime /\ payload[d] \in 0 .. time
    BY <1>1 DEF RefreshInv, RefreshTyped
  <2>2. QED
    BY <2>1, RefreshAssumption
<1>3. 0 \in 0 .. MaxTime
  BY RefreshAssumption
<1> HIDE DEF d
<1>4. \A u \in 0 .. MaxTime : [updated |-> u, from |-> d] \in Refresh!Entries
  BY <1>1 DEF Refresh!Entries
<1>5. [updated |-> 0, from |-> "none"] \in Refresh!Entries
  BY <1>3 DEF Refresh!Entries
<1>6. Refresh!Learned(w, answer) \in
        {[updated |-> time, from |-> d], [updated |-> payload[d], from |-> d], [updated |-> 0, from |-> "none"]}
  <2>1. CASE answer = "success"
    BY <2>1 DEF Refresh!Learned, d
  <2>2. CASE answer = "unavailable"
    BY <2>2 DEF Refresh!Learned, d
  <2>3. CASE answer # "success" /\ answer # "unavailable"
    BY <2>3 DEF Refresh!Learned, Refresh!Nothing
  <2>4. QED
    BY <2>1, <2>2, <2>3
<1>7. QED
  BY <1>2, <1>4, <1>5, <1>6 DEF d

LEMMA CollectAccountKeeps ==
    ASSUME RefreshInv, NEW w \in Workers, Refresh!CollectAccount(w)
    PROVE  RefreshInv' /\ NoneOlder
<1> DEFINE a == Accounts[turn[w]]
           d == Dir(a)
<1>1. PICK answer \in Refresh!Answers \ {"none"}, token \in {"good", "stale", "missing"} :
        /\ Refresh!Ask(w, d, answer, token)
        /\ asked' = [asked EXCEPT ![w][d] = answer]
        /\ tokens' = [tokens EXCEPT ![d] = token]
        /\ faults' = (IF asked[w][d] = "none" /\ tokens'[d] = "good" /\ answer # "success"
                      THEN faults + 1 ELSE faults)
        /\ \/ /\ Refresh!Newer(Refresh!Learned(w, answer), doc[w][a])
              /\ doc' = [doc EXCEPT ![w][a] = Refresh!Learned(w, answer)]
              /\ at' = [at EXCEPT ![w] = "load"] /\ turn' = turn
           \/ turn' = [turn EXCEPT ![w] = @ + 1] /\ doc' = doc /\ at' = at
  BY DEF Refresh!CollectAccount, Refresh!Moves
<1>2. /\ at[w] = "collect" /\ turn[w] <= Len(Accounts)
      /\ UNCHANGED <<time, payload, lock, drive, runtime, history, recorded, pruned, raced, copy>>
  BY DEF Refresh!CollectAccount, Refresh!files, Refresh!store
<1>3. a \in Refresh!AccountSet /\ d \in Refresh!Dirs /\ turn[w] + 1 \in 1 .. Len(Accounts) + 1
  BY <1>2, TurnTyped
<1>4. doc[w] \in Refresh!Documents /\ NotBehind(doc[w]) /\ doc[w] # Absent
  BY <1>2, HoldsDocument DEF Holding, RefreshInv, OneRefresh
<1> HIDE DEF d
<1>5. asked' \in [Workers -> [Refresh!Dirs -> Refresh!Answers]]
      /\ tokens' \in [Refresh!Dirs -> {"good", "stale", "missing"}] /\ faults' \in 0 .. MaxFaults
  <2>1. asked' \in [Workers -> [Refresh!Dirs -> Refresh!Answers]]
    BY <1>1, <1>3 DEF RefreshInv, RefreshTyped
  <2>2. tokens' \in [Refresh!Dirs -> {"good", "stale", "missing"}] /\ tokens'[d] = token
    BY <1>1, <1>3 DEF RefreshInv, RefreshTyped
  <2>3. faults \in 0 .. MaxFaults /\ MaxFaults \in Nat
    BY RepoAssumption DEF RefreshInv, RefreshTyped
  <2>4. faults' = faults \/ (faults' = faults + 1 /\ faults < MaxFaults)
    <3>1. CASE asked[w][d] = "none" /\ token = "good" /\ answer # "success"
      <4>1. faults < MaxFaults
        BY <1>1, <1>3, <3>1, AnswerCounts
      <4>2. QED
        BY <4>1, <2>2, <3>1, <1>1
    <3>2. CASE ~(asked[w][d] = "none" /\ token = "good" /\ answer # "success")
      <4>1. faults' = (IF asked[w][d] = "none" /\ tokens'[d] = "good" /\ answer # "success"
                       THEN faults + 1 ELSE faults)
        BY <1>1
      <4>2. QED
        BY <4>1, <2>2, <3>2
    <3>3. QED
      BY <3>1, <3>2
  <2>5. faults' \in 0 .. MaxFaults
    BY <2>3, <2>4
  <2>6. QED
    BY <2>1, <2>2, <2>5
<1>6. CASE /\ Refresh!Newer(Refresh!Learned(w, answer), doc[w][a])
           /\ doc' = [doc EXCEPT ![w][a] = Refresh!Learned(w, answer)]
           /\ at' = [at EXCEPT ![w] = "load"] /\ turn' = turn
  <2> DEFINE entry == Refresh!Learned(w, answer)
  <2>1. entry \in Refresh!Entries /\ entry.from \in {Dir(a), "none"} /\ entry.updated \in Nat
    <3>1. entry \in Refresh!Entries /\ entry.from \in {Dir(a), "none"}
      BY <1>2, LearnedFits
    <3>2. QED
      BY <3>1 DEF Refresh!Entries
  <2> HIDE DEF entry, a
  <2>2. doc \in [Workers -> Refresh!Documents \cup {Absent}]
    BY DEF RefreshInv, RefreshTyped
  <2>3. doc' = [doc EXCEPT ![w] = [doc[w] EXCEPT ![a] = entry]]
    BY <1>6, <2>2 DEF entry
  <2>4. doc'[w] = [doc[w] EXCEPT ![a] = entry] /\ \A v \in Workers : v # w => doc'[v] = doc[v]
    BY <2>2, <2>3
  <2>5. [doc[w] EXCEPT ![a] = entry] \in Refresh!Documents
    BY <1>3, <1>4, <2>1 DEF Refresh!Documents
  <2>6. doc' \in [Workers -> Refresh!Documents \cup {Absent}]
    BY <2>2, <2>3, <2>5
  <2>7. doc'[w][a] = entry /\ \A b \in Refresh!AccountSet : b # a => doc'[w][b] = doc[w][b]
    BY <1>3, <1>4, <2>4 DEF Refresh!Documents
  <2>8. entry.updated > doc[w][a].updated /\ doc[w][a].updated \in Nat
    BY <1>3, <1>4, <1>6, EntryTyped DEF Refresh!Newer, entry
  <2>9. \A b \in Refresh!AccountSet : doc'[w][b].updated >= drive[b].updated
    <3>1. doc[w][a].updated >= drive[a].updated /\ drive[a].updated \in Nat
      BY <1>3, <1>4, EntryTyped DEF NotBehind, RefreshInv, RefreshTyped
    <3>2. entry.updated >= drive[a].updated
      BY <3>1, <2>1, <2>8
    <3>3. QED
      BY <3>2, <2>7, <1>4 DEF NotBehind
  <2>10. OneRefresh' /\ at' \in [Workers -> {"idle", "read"} \cup Holding]
    <3>1. doc'[w] # Absent
      BY <2>4, <2>5, RefreshAssumption
    <3>2. NotBehind(doc[w])'
      BY <2>9, <1>2 DEF NotBehind
    <3>3. turn'[w] <= Len(Accounts) /\ Latest(w)'.updated # 0
      BY <1>2, <1>6, <2>1, <2>7, <2>8 DEF Latest, a
    <3>4. QED
      BY <1>2, <1>6, <3>1, <3>2, <3>3, GoesOn DEF Holding
  <2>11. RefreshTyped'
    BY <1>2, <1>5, <1>6, <2>6, <2>10 DEF RefreshInv, RefreshTyped
  <2>12. Refresh!OwnNumbers'
    <3>1. \A b \in Refresh!AccountSet : doc'[w][b].from \in {Dir(b), "none"}
      BY <2>1, <2>7, <1>4 DEF RefreshInv, Refresh!OwnNumbers
    <3>2. QED
      BY <3>1, <2>4, <1>2 DEF RefreshInv, Refresh!OwnNumbers
  <2>13. Refresh!RuntimeNotBehind'
    BY <1>2 DEF RefreshInv, Refresh!RuntimeNotBehind
  <2>14. QED
    BY <1>2, <2>10, <2>11, <2>12, <2>13, NoneOlderWhenSame, HistorySame DEF RefreshInv
<1>7. CASE turn' = [turn EXCEPT ![w] = @ + 1] /\ doc' = doc /\ at' = at
  <2>1. turn' \in [Workers -> 1 .. Len(Accounts) + 1]
    BY <1>3, <1>7 DEF RefreshInv, RefreshTyped
  <2>2. RefreshTyped'
    BY <1>2, <1>5, <1>7, <2>1 DEF RefreshInv, RefreshTyped
  <2>3. OneRefresh'
    <3>1. \A v \in Workers : v # w => at[v] = "idle"
      BY <1>2, Alone
    <3>2. QED
      BY <1>2, <1>7, <3>1 DEF RefreshInv, OneRefresh, NotBehind, Holding, Adding
  <2>4. QED
    BY <1>2, <1>7, <2>2, <2>3, NoneOlderWhenSame, HistorySame, DocumentsSame DEF RefreshInv
<1>8. QED
  BY <1>1, <1>6, <1>7
LEMMA SnapshotFits ==
    ASSUME RefreshInv, NEW w \in Workers, at[w] \in Adding
    PROVE  Refresh!Snapshot(w) \in Snaps
<1> DEFINE a == Accounts[turn[w]]
<1>1. turn[w] <= Len(Accounts) /\ Latest(w).updated # 0 /\ doc[w] \in Refresh!Documents
  BY HoldsDocument DEF RefreshInv, OneRefresh, Adding, Holding
<1>2. a \in Refresh!AccountSet
  BY <1>1, TurnTyped
<1>3. doc[w][a].updated \in 1 .. MaxTime
  BY <1>1, <1>2, EntryTyped, RefreshAssumption DEF Latest
<1>4. QED
  BY <1>2, <1>3 DEF Refresh!Snapshot, Snaps

LEMMA LoadHistoryKeeps ==
    ASSUME RefreshInv, NEW w \in Workers, Refresh!LoadHistory(w)
    PROVE  RefreshInv' /\ NoneOlder
<1>1. /\ at[w] = "load" /\ at' = [at EXCEPT ![w] = "append"]
      /\ UNCHANGED <<time, tokens, payload, lock, turn, doc, asked, drive, runtime, history, recorded, pruned>>
  BY DEF Refresh!LoadHistory, Refresh!Moves, Refresh!files
<1>2. PICK read \in {history, {}} :
        /\ copy' = [copy EXCEPT ![w] = read]
        /\ \/ raced' = raced /\ faults' = faults
           \/ raced' = TRUE /\ faults < MaxFaults /\ faults' = faults + 1
  <2>1. CASE copy' = [copy EXCEPT ![w] = history] /\ UNCHANGED <<raced, faults>>
    BY <2>1
  <2>2. CASE Refresh!Fault /\ copy' = [copy EXCEPT ![w] = {}] /\ raced' = TRUE
    BY <2>2 DEF Refresh!Fault
  <2>3. QED
    BY <2>1, <2>2 DEF Refresh!LoadHistory
<1>3. read \in SUBSET recorded
  BY <1>2 DEF RefreshInv, RefreshTyped
<1>4. copy' \in [Workers \cup {Refresh!Operator} -> (SUBSET recorded) \cup {Absent}] /\ copy'[w] \in SUBSET recorded
  BY <1>2, <1>3 DEF RefreshInv, RefreshTyped
<1>5. faults' \in 0 .. MaxFaults
  BY <1>2, RepoAssumption DEF RefreshInv, RefreshTyped
<1>6. OneRefresh' /\ at' \in [Workers -> {"idle", "read"} \cup Holding]
  <2>1. doc[w] # Absent /\ NotBehind(doc[w]) /\ NotBehind(doc[w])'
    BY <1>1 DEF RefreshInv, OneRefresh, Holding, NotBehind
  <2>2. turn[w] <= Len(Accounts) /\ Latest(w).updated # 0 /\ Latest(w)' = Latest(w)
    BY <1>1 DEF RefreshInv, OneRefresh, Adding, Latest
  <2>3. QED
    BY <1>1, <1>4, <2>1, <2>2, GoesOn DEF Holding
<1>7. RefreshTyped'
  BY <1>1, <1>4, <1>5, <1>6 DEF RefreshInv, RefreshTyped
<1>8. HistoryFits'
  BY <1>1, <1>2 DEF RefreshInv, HistoryFits, HaveLast, Newest, After, Refresh!OfAccount
<1>9. QED
  BY <1>1, <1>6, <1>7, <1>8, NoneOlderWhenSame, DocumentsSame DEF RefreshInv

\* A pruning of a history that was read before: what is kept was recorded, and if nobody came between
\* it is the newest of all that was.
LEMMA PrunedFits ==
    ASSUME RefreshInv, NEW read \in SUBSET recorded, NEW A \in SUBSET Snaps, IsFiniteSet(recorded \cup A),
           HaveLast(recorded \cup A), history' = Refresh!Prune(read \cup A), recorded' = recorded \cup A,
           pruned' = time, raced' = (raced \/ read # history)
    PROVE  HistoryFits' /\ history' \in SUBSET recorded'
<1>1. history' = Newest(read \cup A, time)
  BY PruneIsNewest
<1>2. history' \in SUBSET recorded'
  BY <1>1 DEF Newest
<1>3. ASSUME ~raced' PROVE history' = Newest(recorded \cup A, time)
  <2>1. read = history /\ history = Newest(recorded, pruned)
    BY <1>3 DEF RefreshInv, HistoryFits
  <2>2. pruned \in Nat /\ time \in Nat /\ pruned <= time /\ recorded \in SUBSET Snaps
    BY RefreshAssumption DEF RefreshInv, RefreshTyped
  <2>3. QED
    <3>1. Prunable(recorded, A, pruned, time)
      BY <2>2 DEF Prunable
    <3>2. QED
      BY <1>1, <2>1, <3>1, NewestAgain
<1>4. IsFiniteSet(recorded') /\ HaveLast(recorded)'
  BY DEF HaveLast
<1>5. Newest(recorded, pruned)' = Newest(recorded \cup A, time)
  BY DEF Newest, After, Refresh!OfAccount
<1>6. QED
  BY <1>2, <1>3, <1>4, <1>5 DEF HistoryFits

LEMMA PrunedTyped ==
    ASSUME RefreshInv, time' = time, pruned' = time
    PROVE  pruned' \in 2 .. time'
BY DEF RefreshInv, RefreshTyped
LEMMA SaveHistoryKeeps ==
    ASSUME RefreshInv, NEW w \in Workers, Refresh!SaveHistory(w)
    PROVE  RefreshInv' /\ NoneOlder
<1>1. /\ at[w] = "append" /\ at' = [at EXCEPT ![w] = "collect"] /\ copy' = [copy EXCEPT ![w] = Absent]
      /\ turn' = [turn EXCEPT ![w] = @ + 1]
      /\ UNCHANGED <<time, tokens, payload, lock, doc, asked, drive, runtime>>
  BY DEF Refresh!SaveHistory, Refresh!Moves, Refresh!files
<1>2. \/ /\ history' = Refresh!Prune(copy[w] \cup {Refresh!Snapshot(w)})
         /\ recorded' = recorded \cup {Refresh!Snapshot(w)} /\ pruned' = time
         /\ raced' = (raced \/ copy[w] # history) /\ faults' = faults
      \/ Refresh!Fault /\ UNCHANGED <<history, recorded, pruned, raced>>
  BY DEF Refresh!SaveHistory, Refresh!store
<1>3. OneRefresh' /\ at' \in [Workers -> {"idle", "read"} \cup Holding]
  <2>1. doc[w] # Absent /\ NotBehind(doc[w]) /\ NotBehind(doc[w])'
    BY <1>1 DEF RefreshInv, OneRefresh, Holding, NotBehind
  <2>2. QED
    BY <1>1, <2>1, GoesOn DEF Holding, Adding
<1>4. turn' \in [Workers -> 1 .. Len(Accounts) + 1]
  <2>1. turn[w] <= Len(Accounts)
    BY <1>1 DEF RefreshInv, OneRefresh, Adding
  <2>2. turn[w] + 1 \in 1 .. Len(Accounts) + 1
    BY <2>1, TurnTyped
  <2>3. QED
    BY <1>1, <2>2 DEF RefreshInv, RefreshTyped
<1>5. /\ HistoryFits' /\ history' \subseteq recorded' /\ recorded' \subseteq Snaps /\ recorded \subseteq recorded'
      /\ pruned' \in 2 .. time' /\ faults' \in 0 .. MaxFaults
  <2>1. CASE /\ history' = Refresh!Prune(copy[w] \cup {Refresh!Snapshot(w)})
             /\ recorded' = recorded \cup {Refresh!Snapshot(w)} /\ pruned' = time
             /\ raced' = (raced \/ copy[w] # history) /\ faults' = faults
    <3>1. Refresh!Snapshot(w) \in Snaps /\ copy[w] \in SUBSET recorded
      BY <1>1, SnapshotFits DEF RefreshInv, OneRefresh, Adding
    <3>2. IsFiniteSet(recorded) /\ HaveLast(recorded) /\ recorded \in SUBSET Snaps
      BY DEF RefreshInv, HistoryFits, RefreshTyped
    <3>3. IsFiniteSet(recorded \cup {Refresh!Snapshot(w)})
      BY <3>2, FS_AddElement
    <3>4. HaveLast(recorded \cup {Refresh!Snapshot(w)})
      BY <3>1, <3>2, LastWithOneMore
    <3>5. HistoryFits' /\ history' \in SUBSET recorded'
      BY <2>1, <3>1, <3>3, <3>4, PrunedFits
    <3>6. pruned' \in 2 .. time'
      BY <1>1, <2>1, PrunedTyped
    <3>7. faults' \in 0 .. MaxFaults
      BY <2>1 DEF RefreshInv, RefreshTyped
    <3>8. QED
      BY <2>1, <3>1, <3>2, <3>5, <3>6, <3>7
  <2>2. CASE Refresh!Fault /\ UNCHANGED <<history, recorded, pruned, raced>>
    BY <1>1, <2>2, HistorySame, RepoAssumption DEF RefreshInv, RefreshTyped, Refresh!Fault
  <2>3. QED
    BY <1>2, <2>1, <2>2
<1>6. copy' \in [Workers \cup {Refresh!Operator} -> (SUBSET recorded') \cup {Absent}]
  BY <1>1, <1>5 DEF RefreshInv, RefreshTyped
<1>7. RefreshTyped'
  BY <1>1, <1>3, <1>4, <1>5, <1>6 DEF RefreshInv, RefreshTyped
<1>8. QED
  BY <1>1, <1>3, <1>5, <1>7, NoneOlderWhenSame, DocumentsSame DEF RefreshInv

LEMMA WriteRuntimeKeeps ==
    ASSUME RefreshInv, NEW w \in Workers, Refresh!WriteRuntime(w)
    PROVE  RefreshInv' /\ NoneOlder
<1>1. /\ at[w] = "collect" /\ at' = [at EXCEPT ![w] = "publish"] /\ runtime' = doc[w]
      /\ UNCHANGED <<time, tokens, payload, lock, turn, doc, asked, drive, history, recorded, pruned, raced, copy, faults>>
  BY DEF Refresh!WriteRuntime, Refresh!Moves, Refresh!store
<1>2. doc[w] \in Refresh!Documents /\ doc[w] # Absent /\ NotBehind(doc[w]) /\ NotBehind(doc[w])'
  <2>1. doc[w] \in Refresh!Documents /\ doc[w] # Absent /\ NotBehind(doc[w])
    BY <1>1, HoldsDocument DEF Holding, RefreshInv, OneRefresh
  <2>2. QED
    BY <1>1, <2>1 DEF NotBehind
<1>3. OneRefresh' /\ at' \in [Workers -> {"idle", "read"} \cup Holding]
  BY <1>1, <1>2, GoesOn DEF Holding, Adding
<1>4. RefreshTyped'
  BY <1>1, <1>2, <1>3 DEF RefreshInv, RefreshTyped
<1>5. Refresh!RuntimeNotBehind' /\ Refresh!OwnNumbers'
  BY <1>1, <1>2 DEF RefreshInv, Refresh!RuntimeNotBehind, Refresh!OwnNumbers, NotBehind
<1>6. QED
  BY <1>1, <1>3, <1>4, <1>5, NoneOlderWhenSame, HistorySame DEF RefreshInv

\* The end of a refresh, whatever ends it: the lock comes free, its memory is gone.
LEMMA EndsFits ==
    ASSUME RefreshInv, NEW w \in Workers, at[w] # "idle", Refresh!Ends(w), UNCHANGED recorded
    PROVE  /\ OneRefresh' /\ \A v \in Workers : doc'[v] = doc[v] \/ doc'[v] = Absent
           /\ lock' = Free /\ at' \in [Workers -> {"idle", "read"} \cup Holding]
           /\ turn' \in [Workers -> 1 .. Len(Accounts) + 1]
           /\ doc' \in [Workers -> Refresh!Documents \cup {Absent}]
           /\ asked' \in [Workers -> [Refresh!Dirs -> Refresh!Answers]]
           /\ copy' \in [Workers \cup {Refresh!Operator} -> (SUBSET recorded') \cup {Absent}]
<1>1. /\ lock' = (IF lock = w THEN Free ELSE lock) /\ at' = [at EXCEPT ![w] = "idle"]
      /\ turn' = [turn EXCEPT ![w] = 1] /\ doc' = [doc EXCEPT ![w] = Absent]
      /\ asked' = [asked EXCEPT ![w] = [d \in Refresh!Dirs |-> "none"]]
      /\ copy' = [copy EXCEPT ![w] = Absent]
  BY DEF Refresh!Ends, Refresh!Moves
<1>2. lock = w /\ \A v \in Workers : v # w => at[v] = "idle"
  BY Alone
<1>3. at \in [Workers -> {"idle", "read"} \cup Holding]
  BY DEF RefreshInv, RefreshTyped
<1>4. lock' = Free /\ \A v \in Workers : at'[v] = "idle"
  BY <1>1, <1>2, <1>3
<1>5. OneRefresh'
  BY <1>4, RepoAssumption DEF OneRefresh, Holding, Adding
<1>6. at' \in [Workers -> {"idle", "read"} \cup Holding]
  BY <1>1, <1>3
<1>7. turn' \in [Workers -> 1 .. Len(Accounts) + 1]
  <2>1. 1 \in 1 .. Len(Accounts) + 1
    BY TurnTyped
  <2>2. QED
    BY <1>1, <2>1 DEF RefreshInv, RefreshTyped
<1>8. doc' \in [Workers -> Refresh!Documents \cup {Absent}] /\ \A v \in Workers : doc'[v] = doc[v] \/ doc'[v] = Absent
  BY <1>1 DEF RefreshInv, RefreshTyped
<1>9. asked' \in [Workers -> [Refresh!Dirs -> Refresh!Answers]]
  <2>1. [d \in Refresh!Dirs |-> "none"] \in [Refresh!Dirs -> Refresh!Answers]
    BY DEF Refresh!Answers
  <2>2. QED
    BY <1>1, <2>1 DEF RefreshInv, RefreshTyped
<1>10. copy' \in [Workers \cup {Refresh!Operator} -> (SUBSET recorded') \cup {Absent}]
  BY <1>1 DEF RefreshInv, RefreshTyped
<1>11. QED
  BY <1>4, <1>5, <1>6, <1>7, <1>8, <1>9, <1>10

LEMMA PublishKeeps ==
    ASSUME RefreshInv, NEW w \in Workers, Refresh!Publish(w)
    PROVE  RefreshInv' /\ NoneOlder
<1>1. /\ at[w] = "publish" /\ Refresh!Ends(w)
      /\ UNCHANGED <<time, tokens, payload, runtime, history, recorded, pruned, raced>>
      /\ drive' = doc[w] \/ drive' = drive
      /\ faults' = faults \/ (faults < MaxFaults /\ faults' = faults + 1)
  BY DEF Refresh!Publish, Refresh!store, Refresh!Fault
<1>2. doc[w] \in Refresh!Documents /\ NotBehind(doc[w]) /\ runtime = doc[w] /\ doc[w] # Absent
  BY <1>1, HoldsDocument DEF Holding, RefreshInv, OneRefresh
<1>3. drive' \in Refresh!Documents /\ NoneOlder
  BY <1>1, <1>2, EntryTyped DEF NoneOlder, NotBehind, RefreshInv, RefreshTyped
<1>4. OneRefresh' /\ \A v \in Workers : doc'[v] = doc[v] \/ doc'[v] = Absent
  BY <1>1, EndsFits
<1>5. faults' \in 0 .. MaxFaults
  BY <1>1, RepoAssumption DEF RefreshInv, RefreshTyped
<1>6. RefreshTyped'
  BY <1>1, <1>3, <1>5, EndsFits DEF RefreshInv, RefreshTyped
<1>7. Refresh!RuntimeNotBehind'
  BY <1>1, <1>2, EntryTyped DEF RefreshInv, Refresh!RuntimeNotBehind
<1>8. Refresh!OwnNumbers'
  BY <1>1, <1>2, <1>4 DEF RefreshInv, Refresh!OwnNumbers
<1>9. QED
  BY <1>1, <1>3, <1>4, <1>6, <1>7, <1>8, HistorySame DEF RefreshInv

LEMMA DiesKeepsRefresh ==
    ASSUME RefreshInv, NEW w \in Workers, Refresh!Dies(w)
    PROVE  RefreshInv' /\ NoneOlder
<1>1. /\ at[w] # "idle" /\ Refresh!Ends(w) /\ faults < MaxFaults /\ faults' = faults + 1
      /\ UNCHANGED <<time, tokens, payload, drive, runtime, history, recorded, pruned, raced>>
  BY DEF Refresh!Dies, Refresh!store, Refresh!files, Refresh!Fault
<1>2. OneRefresh' /\ \A v \in Workers : doc'[v] = doc[v] \/ doc'[v] = Absent
  BY <1>1, EndsFits
<1>3. faults' \in 0 .. MaxFaults
  BY <1>1, RepoAssumption DEF RefreshInv, RefreshTyped
<1>4. RefreshTyped'
  BY <1>1, <1>3, EndsFits DEF RefreshInv, RefreshTyped
<1>5. QED
  BY <1>1, <1>2, <1>4, NoneOlderWhenSame, HistorySame, DocumentsSame DEF RefreshInv
-----------------------------------------------------------------------------
(* The operator, and the world *)

\* What leaves refreshes and their documents alone.
LEMMA OthersMove ==
    ASSUME RefreshInv, UNCHANGED <<lock, at, turn, doc, asked, drive, runtime>>,
           \A w \in Workers : copy'[w] = copy[w], recorded' = recorded
    PROVE  OneRefresh' /\ Refresh!RuntimeNotBehind' /\ Refresh!OwnNumbers' /\ NoneOlder
<1>1. OneRefresh'
  BY DEF RefreshInv, OneRefresh, NotBehind, Latest
<1>2. QED
  BY <1>1, NoneOlderWhenSame, DocumentsSame

LEMMA OperatorKeeps ==
    ASSUME RefreshInv, Refresh!OperatorLoads \/ Refresh!OperatorSaves \/ Refresh!OperatorClears
    PROVE  RefreshInv' /\ NoneOlder
<1> USE DEF Refresh!files, Refresh!store, Refresh!Fault
<1>0. Refresh!Operator \notin Workers
  BY RefreshAssumption
<1>1. ASSUME NEW held \in (SUBSET recorded) \cup {Absent}, copy' = [copy EXCEPT ![Refresh!Operator] = held]
      PROVE  /\ copy' \in [Workers \cup {Refresh!Operator} -> (SUBSET recorded) \cup {Absent}]
             /\ \A w \in Workers : copy'[w] = copy[w]
  BY <1>0, <1>1 DEF RefreshInv, RefreshTyped
<1>2. ASSUME faults < MaxFaults, faults' = faults + 1 PROVE faults' \in 0 .. MaxFaults
  BY <1>2, RepoAssumption DEF RefreshInv, RefreshTyped
<1>3. CASE Refresh!OperatorLoads
  <2>1. /\ copy' = [copy EXCEPT ![Refresh!Operator] = history] /\ history \in SUBSET recorded
        /\ UNCHANGED <<time, tokens, payload, lock, at, turn, doc, asked, drive, runtime, history, recorded, pruned, raced, faults>>
    BY <1>3 DEF Refresh!OperatorLoads, RefreshInv, RefreshTyped
  <2>2. /\ copy' \in [Workers \cup {Refresh!Operator} -> (SUBSET recorded) \cup {Absent}]
        /\ \A w \in Workers : copy'[w] = copy[w]
    BY <1>1, <2>1
  <2>3. RefreshTyped'
    BY <2>1, <2>2 DEF RefreshInv, RefreshTyped
  <2>4. QED
    BY <2>1, <2>2, <2>3, OthersMove, HistorySame DEF RefreshInv
<1>4. CASE Refresh!OperatorSaves
  <2>1. /\ copy[Refresh!Operator] # Absent /\ faults < MaxFaults /\ faults' = faults + 1
        /\ history' = Refresh!Prune(copy[Refresh!Operator]) /\ pruned' = time
        /\ raced' = (raced \/ copy[Refresh!Operator] # history)
        /\ copy' = [copy EXCEPT ![Refresh!Operator] = Absent]
        /\ UNCHANGED <<time, tokens, payload, lock, at, turn, doc, asked, drive, runtime, recorded>>
    BY <1>4 DEF Refresh!OperatorSaves
  <2>2. copy[Refresh!Operator] \in SUBSET recorded
    BY <2>1 DEF RefreshInv, RefreshTyped
  <2>3. /\ copy' \in [Workers \cup {Refresh!Operator} -> (SUBSET recorded) \cup {Absent}]
        /\ \A w \in Workers : copy'[w] = copy[w]
    BY <1>1, <2>1
  <2>4. HistoryFits' /\ history' \in SUBSET recorded'
    <3>1. IsFiniteSet(recorded) /\ HaveLast(recorded)
      BY DEF RefreshInv, HistoryFits
    <3>2. recorded \cup {} = recorded /\ copy[Refresh!Operator] \cup {} = copy[Refresh!Operator]
      OBVIOUS
    <3>3. QED
      BY <2>1, <2>2, <3>1, <3>2, PrunedFits
  <2>5. RefreshTyped'
    BY <1>2, <2>1, <2>3, <2>4, PrunedTyped DEF RefreshInv, RefreshTyped
  <2>6. QED
    BY <2>1, <2>3, <2>4, <2>5, OthersMove DEF RefreshInv
<1>5. CASE Refresh!OperatorClears
  <2>1. /\ history' = {} /\ pruned' = time /\ raced' = TRUE /\ faults < MaxFaults /\ faults' = faults + 1
        /\ UNCHANGED <<time, tokens, payload, lock, at, turn, doc, asked, drive, runtime, recorded, copy>>
    BY <1>5 DEF Refresh!OperatorClears
  <2>2. HistoryFits'
    BY <2>1 DEF RefreshInv, HistoryFits, HaveLast
  <2>3. RefreshTyped'
    BY <1>2, <2>1, PrunedTyped DEF RefreshInv, RefreshTyped
  <2>4. QED
    BY <2>1, <2>2, <2>3, OthersMove DEF RefreshInv
<1>6. QED
  BY <1>3, <1>4, <1>5

LEMMA WorldKeeps ==
    ASSUME RefreshInv,
           Refresh!Clock \/ \E d \in Refresh!Dirs : Refresh!Statusline(d) \/ Refresh!TokenAges(d)
    PROVE  RefreshInv' /\ NoneOlder
<1> USE DEF Refresh!files, Refresh!store, Refresh!Fault
<1>1. /\ UNCHANGED <<lock, at, turn, doc, asked, drive, runtime, history, recorded, pruned, raced, copy>>
      /\ time' \in {time, time + 1}
  BY DEF Refresh!Clock, Refresh!Statusline, Refresh!TokenAges
<1>2. time \in Nat /\ pruned \in Nat /\ 2 <= time /\ time <= MaxTime /\ 2 <= pruned /\ pruned <= time
      /\ MaxTime \in Nat /\ payload \in [Refresh!Dirs -> 0 .. time]
  BY RefreshAssumption DEF RefreshInv, RefreshTyped
<1>3. CASE Refresh!Clock
  <2>1. time < MaxTime /\ time' = time + 1 /\ UNCHANGED <<tokens, payload, faults>>
    BY <1>3 DEF Refresh!Clock
  <2>2. time' \in 2 .. MaxTime /\ pruned' \in 2 .. time'
    BY <1>1, <1>2, <2>1
  <2>3. payload' \in [Refresh!Dirs -> 0 .. time']
    <3>1. \A n \in 0 .. time : n \in 0 .. time'
      BY <1>2, <2>1
    <3>2. QED
      BY <1>2, <2>1, <3>1
  <2>4. RefreshTyped'
    BY <1>1, <2>1, <2>2, <2>3 DEF RefreshInv, RefreshTyped
  <2>5. QED
    BY <1>1, <2>4, OthersMove, HistorySame DEF RefreshInv
<1>4. ASSUME NEW d \in Refresh!Dirs, Refresh!Statusline(d) PROVE RefreshInv' /\ NoneOlder
  <2>1. payload' = [payload EXCEPT ![d] = time] /\ UNCHANGED <<time, tokens, faults>>
    BY <1>4 DEF Refresh!Statusline
  <2>2. payload' \in [Refresh!Dirs -> 0 .. time']
    BY <1>2, <2>1
  <2>3. RefreshTyped'
    BY <1>1, <2>1, <2>2 DEF RefreshInv, RefreshTyped
  <2>4. QED
    BY <1>1, <2>3, OthersMove, HistorySame DEF RefreshInv
<1>5. ASSUME NEW d \in Refresh!Dirs, Refresh!TokenAges(d) PROVE RefreshInv' /\ NoneOlder
  <2>1. /\ tokens' \in [Refresh!Dirs -> {"good", "stale", "missing"}]
        /\ UNCHANGED <<time, payload>> /\ faults < MaxFaults /\ faults' = faults + 1
    BY <1>5 DEF Refresh!TokenAges, RefreshInv, RefreshTyped
  <2>2. faults' \in 0 .. MaxFaults
    BY <2>1, RepoAssumption DEF RefreshInv, RefreshTyped
  <2>3. RefreshTyped'
    BY <1>1, <2>1, <2>2 DEF RefreshInv, RefreshTyped
  <2>4. QED
    BY <1>1, <2>3, OthersMove, HistorySame DEF RefreshInv
<1>6. QED
  BY <1>3, <1>4, <1>5

LEMMA RefreshKept ==
    ASSUME RefreshInv, [DecisionsNext]_allvars
    PROVE  RefreshInv' /\ (\A a \in DOMAIN drive : drive'[a].updated >= drive[a].updated)
<1>1. Refresh!Next \/ UNCHANGED refreshvars
  BY DEF DecisionsNext, allvars
<1>2. RefreshInv' /\ NoneOlder
  <2>1. ASSUME NEW w \in Workers, Refresh!Start(w) \/ Refresh!Worker(w) \/ Refresh!Dies(w)
        PROVE  RefreshInv' /\ NoneOlder
    BY <2>1, StartKeeps, ReadDriveKeeps, CollectAccountKeeps, LoadHistoryKeeps, SaveHistoryKeeps,
       WriteRuntimeKeeps, PublishKeeps, DiesKeepsRefresh DEF Refresh!Worker
  <2>2. CASE UNCHANGED refreshvars
    <3>1. /\ UNCHANGED <<time, tokens, payload, lock, at, turn, doc, asked, drive, runtime>>
          /\ UNCHANGED <<history, copy, recorded, pruned, raced, faults>>
      BY <2>2 DEF refreshvars
    <3>2. RefreshTyped'
      BY <3>1 DEF RefreshInv, RefreshTyped
    <3>3. QED
      BY <3>1, <3>2, OthersMove, HistorySame DEF RefreshInv
  <2>3. QED
    BY <1>1, <2>1, <2>2, OperatorKeeps, WorldKeeps DEF Refresh!Next
<1>3. DOMAIN drive = Refresh!AccountSet
  BY DEF RefreshInv, RefreshTyped, Refresh!Documents
<1>4. QED
  BY <1>2, <1>3 DEF NoneOlder

LEMMA RefreshHolds ==
    RefreshInv => Refresh!TypeOK /\ Refresh!RuntimeNotBehind /\ Refresh!OwnNumbers /\ Refresh!HistoryIsNewest
<1> SUFFICES ASSUME RefreshInv
             PROVE  Refresh!TypeOK /\ Refresh!RuntimeNotBehind /\ Refresh!OwnNumbers /\ Refresh!HistoryIsNewest
  OBVIOUS
<1>1. Refresh!HistoryIsNewest
  BY SameCardinality DEF RefreshInv, HistoryFits, Newest, After, Refresh!HistoryIsNewest
<1>2. Refresh!TypeOK
  <2>1. 2 .. time \subseteq 2 .. MaxTime /\ history \subseteq Snaps
    BY RefreshAssumption DEF RefreshInv, RefreshTyped
  <2>2. QED
    BY <2>1 DEF RefreshInv, RefreshTyped, Refresh!TypeOK, Holding, Snaps
<1>3. QED
  BY <1>1, <1>2 DEF RefreshInv

(* Refreshes of quota (refresh_status.py, quota_history.py, collectors/claude_oauth.py): no entry Drive *)
(* has becomes older, none is ahead of the local document or from another account's directory, and the  *)
(* history, pruned at every entry and by the operator, is the newest of all that was recorded unless    *)
(* somebody came between a read and its write: for any refreshes, accounts, directories and limits, and *)
(* refreshes that fail or die at any step.                                                              *)
THEOREM RefreshSoundAlways == DecisionsSpec => RefreshSound
<1>1. DecisionsInit => RefreshInv
  BY InitRefresh
<1>2. RefreshInv /\ [DecisionsNext]_allvars => RefreshInv'
  BY RefreshKept
<1>3. RefreshInv => Refresh!TypeOK /\ Refresh!RuntimeNotBehind /\ Refresh!OwnNumbers /\ Refresh!HistoryIsNewest
  BY RefreshHolds
<1>4. RefreshInv /\ [DecisionsNext]_allvars =>
        [\A a \in DOMAIN drive : drive'[a].updated >= drive[a].updated]_(Refresh!refreshvars)
  BY RefreshKept
<1>5. QED
  BY <1>1, <1>2, <1>3, <1>4, PTL DEF DecisionsSpec, RefreshSound, Refresh!PublishedNeverOlder
=============================================================================

------------------------------ MODULE RepoWrite ------------------------------
(***************************************************************************)
(* Bounded repository writes: the worktree of a Task                       *)
(* (manager/worktree_materializer.py), the scope of what its provider may  *)
(* change, the commit, push, test and evidence of what it did change       *)
(* (manager/repo_write_enforcement.py, manager/remote_readback.py), as     *)
(* manager/execution_runner.py calls them.                                 *)
(*                                                                         *)
(* A Task keeps the name of its worktree once it has been made ready, and  *)
(* only a worker that reads the Task before that makes it ready.  Nothing  *)
(* holds off another worker until the running gate.                        *)
(*                                                                         *)
(* A commit is the set of edits it adds to the Task's baseline_head, a     *)
(* branch the sequence of its commits, and an edit <<run, path>> names the *)
(* run of the provider that made it.  Files that git ignores, and those the *)
(* validation command writes, are left out.                                *)
(***************************************************************************)
EXTENDS Naturals, Sequences, SequencesExt, FiniteSets

CONSTANTS
    Workers,      \* processes that run the Task
    Paths,        \* what a provider may touch
    Scope,        \* the paths of allowed_paths
    Untracked,    \* the paths that baseline_head has no file at
    Tests,        \* the Task declares a validation_command
    NoChange,     \* the Task allows success without a change
    MaxRuns,      \* bound of the model: launches
    MaxFaults,    \* bound of the model: commands that fail, workers that die
    Free,         \* the writer lease's holder when there is none
    Absent        \* no worktree

VARIABLES
    checkout,     \* the project's canonical checkout: "none", "partial" or "ready"
    named,        \* the Task names its worktree
    status,       \* the Task's: "ready", "in_progress", "blocked" or "completed"
    tree,         \* its worktree: [head, files, marked]
    remote,       \* its branch on the remote, <<>> while there is none
    lease,        \* the repository's writer
    at,           \* where each worker is
    run,          \* the number of its launch
    files_changed,\* what it has found changed
    runs,         \* launches so far
    evidence,     \* the repo_write_evidence of the Executions
    wrote,        \* the runs whose provider changed something
    wiped,        \* the runs whose worktree was reset under them
    faults

repovars == <<checkout, named, status, tree, remote, lease, at, run, files_changed, runs,
              evidence, wrote, wiped, faults>>
shared == <<checkout, named, status, remote, lease>>
known == <<run, files_changed, runs, evidence, wrote>>

Running == {"run", "enforce", "commit", "push", "verify", "validate", "nochange"}
Making == {"checkout", "clone", "list", "add", "reset", "clean", "mark", "persist"}

Init ==
    /\ checkout \in {"none", "ready"}
    /\ named = FALSE /\ status = "ready"
    /\ tree = Absent /\ remote = <<>>
    /\ lease = Free
    /\ at = [w \in Workers |-> "idle"]
    /\ run = [w \in Workers |-> 0]
    /\ files_changed = [w \in Workers |-> {}]
    /\ runs = 0 /\ evidence = {} /\ wrote = {} /\ wiped = {}
    /\ faults = 0

Fault == faults < MaxFaults /\ faults' = faults + 1
Moves(w, to) == at' = [at EXCEPT ![w] = to]

Edits(head) == UNION ToSet(head)
Path(edit) == edit[2]

-----------------------------------------------------------------------------
(* Making the worktree ready.                                              *)

\* The worker of a Command, a second worker of it, an operator: each reads the Task as it is.
Launch(w) ==
    /\ at[w] = "idle" /\ runs < MaxRuns
    /\ runs' = runs + 1
    /\ run' = [run EXCEPT ![w] = runs']
    /\ Moves(w, IF named THEN "gate" ELSE "checkout")
    /\ UNCHANGED <<shared, tree, files_changed, evidence, wrote, wiped, faults>>

GivesUp(w) == Moves(w, "idle")

\* A path that exists is never cloned to again; the lineage check fails on half a clone.
EnsureCheckout(w) ==
    /\ at[w] = "checkout"
    /\ CASE checkout = "none" -> checkout' = "partial" /\ Moves(w, "clone")
         [] checkout = "partial" -> GivesUp(w) /\ UNCHANGED checkout
         [] checkout = "ready" -> Moves(w, "list") /\ UNCHANGED checkout
    /\ UNCHANGED <<named, status, remote, lease, tree, known, wiped, faults>>

\* A clone that fails removes what it has made.
Clone(w) ==
    /\ at[w] = "clone"
    /\ \/ checkout' = "ready" /\ Moves(w, "list") /\ UNCHANGED faults
       \/ Fault /\ checkout' = "none" /\ GivesUp(w)
    /\ UNCHANGED <<named, status, remote, lease, tree, known, wiped>>

\* A registered worktree is reset if its marker names this Task, and refused otherwise.
Found(w) == IF tree.marked THEN Moves(w, "reset") ELSE GivesUp(w)

ListWorktrees(w) ==
    /\ at[w] = "list"
    /\ IF tree = Absent THEN Moves(w, "add") ELSE Found(w)
    /\ UNCHANGED <<shared, tree, known, wiped, faults>>

\* Whoever loses the race to add it looks again.
AddWorktree(w) ==
    /\ at[w] = "add"
    /\ IF tree # Absent THEN Found(w) /\ UNCHANGED <<tree, faults>>
       ELSE \/ /\ tree' = [head |-> <<>>, files |-> {}, marked |-> FALSE]
               /\ Moves(w, "mark") /\ UNCHANGED faults
            \/ Fault /\ GivesUp(w) /\ UNCHANGED tree
    /\ UNCHANGED <<shared, known, wiped>>

\* The launches under way that hold the lease, of other workers.
Under(w) == {run[v] : v \in {v \in Workers \ {w} : at[v] \in Running}}

\* git reset --hard leaves the files that git does not know.
ResetHard(w) ==
    /\ at[w] = "reset"
    /\ tree' = [tree EXCEPT !.head = <<>>, !.files = {e \in @ : Path(e) \in Untracked}]
    /\ wiped' = wiped \cup Under(w)
    /\ Moves(w, "clean")
    /\ UNCHANGED <<shared, known, faults>>

\* git clean -fdx takes them, the owner's marker among them.  A provider that writes meanwhile
\* may leave the worktree unclean, and the worker gives up.
Clean(w) ==
    /\ at[w] = "clean"
    /\ tree' = [tree EXCEPT !.files = {}, !.marked = FALSE]
    /\ wiped' = wiped \cup Under(w)
    /\ \/ Moves(w, "mark") /\ UNCHANGED faults
       \/ Fault /\ GivesUp(w)
    /\ UNCHANGED <<shared, known>>

WriteMarker(w) ==
    /\ at[w] = "mark"
    /\ tree' = [tree EXCEPT !.marked = TRUE]
    /\ Moves(w, "persist")
    /\ UNCHANGED <<shared, known, wiped, faults>>

\* An update that fails may have been written.
PersistTask(w) ==
    /\ at[w] = "persist"
    /\ \/ named' = TRUE /\ Moves(w, "gate") /\ UNCHANGED faults
       \/ Fault /\ named' \in {named, TRUE} /\ GivesUp(w)
    /\ UNCHANGED <<checkout, status, remote, lease, tree, known, wiped>>

\* The Task must be ready, no other writer on the repository, and HEAD the baseline_head.
RunningGate(w) ==
    /\ at[w] = "gate"
    /\ IF status = "ready" /\ lease = Free /\ tree.head = <<>>
       THEN status' = "in_progress" /\ lease' = w /\ Moves(w, "run")
       ELSE GivesUp(w) /\ UNCHANGED <<status, lease>>
    /\ UNCHANGED <<checkout, named, remote, tree, known, wiped, faults>>

-----------------------------------------------------------------------------
(* The provider, in the worktree.                                          *)

Writes(w, p) ==
    /\ at[w] = "run"
    /\ <<run[w], p>> \notin Edits(tree.head) \cup tree.files
    /\ tree' = [tree EXCEPT !.files = @ \cup {<<run[w], p>>}]
    /\ wrote' = wrote \cup {run[w]}
    /\ UNCHANGED <<shared, at, run, files_changed, runs, evidence, wiped, faults>>

\* It is not asked to, but a provider may commit.
Commits(w) ==
    /\ at[w] = "run" /\ tree.files # {}
    /\ tree' = [tree EXCEPT !.head = Append(@, tree.files), !.files = {}]
    /\ UNCHANGED <<shared, at, known, wiped, faults>>

\* The Execution's end: the Task is its outcome, and the lease is free.
Terminal(w, verdict) ==
    /\ status' = (IF verdict = "completed" THEN "completed" ELSE "blocked")
    /\ lease' = Free
    /\ Moves(w, "idle")

\* The provider has stopped: only a completed turn is looked into.
Stops(w) ==
    /\ at[w] = "run"
    /\ \/ Moves(w, "enforce") /\ UNCHANGED <<status, lease>>
       \/ Terminal(w, "failed")
    /\ UNCHANGED <<checkout, named, remote, tree, known, wiped, faults>>

-----------------------------------------------------------------------------
(* Scope, commit, push, evidence.                                          *)

\* Every path that differs from baseline_head, committed or not, known to git or not.
Changed(t) == {Path(e) : e \in Edits(t.head) \cup t.files}

Violations(t) == Changed(t) \ Scope

EnforceAllowedPaths(w) ==
    /\ at[w] = "enforce"
    /\ files_changed' = [files_changed EXCEPT ![w] = Changed(tree)]
    /\ \/ /\ Violations(tree) # {}
          /\ Terminal(w, "failed")
       \/ /\ Violations(tree) = {} /\ Changed(tree) # {}
          /\ Moves(w, "commit") /\ UNCHANGED <<status, lease>>
       \/ /\ Violations(tree) = {} /\ Changed(tree) = {}
          /\ IF NoChange /\ Tests THEN Moves(w, "nochange") /\ UNCHANGED <<status, lease>>
             ELSE Terminal(w, "failed")
    /\ UNCHANGED <<checkout, named, remote, tree, run, runs, evidence, wrote, wiped, faults>>

Evidence(w, sha, tests) == [run |-> run[w], sha |-> sha, tests |-> tests, tested |-> Edits(tree.head) \cup tree.files]

\* The evidence is on the Execution before the verdict is; if it is not seen there the verdict is
\* failed, and what was pushed stays.
Record(w, sha, tests) ==
    \/ /\ evidence' = evidence \cup {Evidence(w, sha, tests)}
       /\ Terminal(w, IF tests = "failed" THEN "failed" ELSE "completed")
       /\ UNCHANGED faults
    \/ Fault /\ Terminal(w, "failed") /\ evidence' \in {evidence, evidence \cup {Evidence(w, sha, tests)}}

NoChangeEvidence(w) ==
    /\ at[w] = "nochange"
    /\ \E tests \in {"passed", "failed"} : Record(w, <<>>, tests)
    /\ UNCHANGED <<checkout, named, remote, tree, run, files_changed, runs, wrote, wiped>>

\* What was found is staged by name: a new file that has gone since is an error, and so is a
\* commit of nothing.
CommitChanges(w) ==
    /\ at[w] = "commit"
    /\ LET staged == {e \in tree.files : Path(e) \in files_changed[w]}
           gone == (files_changed[w] \cap Untracked) \ Changed(tree)
       IN \/ /\ staged # {} /\ gone = {}
             /\ tree' = [tree EXCEPT !.head = Append(@, staged), !.files = @ \ staged]
             /\ Moves(w, "push")
             /\ UNCHANGED <<status, lease, faults>>
          \/ /\ staged = {} \/ gone # {}
             /\ Terminal(w, "failed")
             /\ UNCHANGED <<tree, faults>>
          \/ Fault /\ Terminal(w, "failed") /\ UNCHANGED tree
    /\ UNCHANGED <<checkout, named, remote, known, wiped>>

\* Mutant: the push is forced.
PushMutant(w) ==
    /\ at[w] = "push"
    /\ remote' = tree.head /\ Moves(w, "verify")
    /\ UNCHANGED <<checkout, named, status, lease, tree, known, wiped, faults>>

\* Never forced: the remote takes only what extends its branch.  A push that fails may have
\* arrived.
Push(w) ==
    /\ at[w] = "push"
    /\ \/ /\ IsPrefix(remote, tree.head)
          /\ remote' = tree.head /\ Moves(w, "verify")
          /\ UNCHANGED <<status, lease, faults>>
       \/ /\ ~IsPrefix(remote, tree.head)
          /\ Terminal(w, "failed")
          /\ UNCHANGED <<remote, faults>>
       \/ /\ Fault
          /\ remote' \in (IF IsPrefix(remote, tree.head) THEN {tree.head, remote} ELSE {remote})
          /\ Terminal(w, "failed")
    /\ UNCHANGED <<checkout, named, tree, known, wiped>>

\* The commits since the baseline, and the remote's own word that it has the last of them.
VerifyRemote(w) ==
    /\ at[w] = "verify"
    /\ \/ /\ tree.head # <<>> /\ tree.head = remote
          /\ Moves(w, "validate") /\ UNCHANGED <<status, lease, faults>>
       \/ /\ tree.head = <<>> \/ tree.head # remote
          /\ Terminal(w, "failed") /\ UNCHANGED faults
       \/ Fault /\ Terminal(w, "failed")
    /\ UNCHANGED <<checkout, named, remote, tree, known, wiped>>

ValidateAndRecord(w) ==
    /\ at[w] = "validate"
    /\ \E tests \in (IF Tests THEN {"passed", "failed"} ELSE {"not_required"}) : Record(w, remote, tests)
    /\ UNCHANGED <<checkout, named, remote, tree, run, files_changed, runs, wrote, wiped>>

-----------------------------------------------------------------------------

\* The worker dies.  Recovery ends its Execution as interrupted once its provider is gone.
Dies(w) ==
    /\ at[w] # "idle"
    /\ Fault
    /\ IF lease = w THEN Terminal(w, "interrupted") ELSE Moves(w, "idle") /\ UNCHANGED <<status, lease>>
    /\ UNCHANGED <<checkout, named, remote, tree, known, wiped>>

\* A retry, or an operator: the Task is ready again.
Reopen ==
    /\ status = "blocked"
    /\ status' = "ready"
    /\ UNCHANGED <<checkout, named, remote, lease, tree, at, known, wiped, faults>>

Worker(w) ==
    \/ EnsureCheckout(w) \/ Clone(w) \/ ListWorktrees(w) \/ AddWorktree(w) \/ ResetHard(w) \/ Clean(w)
    \/ WriteMarker(w) \/ PersistTask(w) \/ RunningGate(w)
    \/ EnforceAllowedPaths(w) \/ NoChangeEvidence(w) \/ CommitChanges(w) \/ Push(w)
    \/ VerifyRemote(w) \/ ValidateAndRecord(w)

Next ==
    \/ \E w \in Workers :
         \/ Launch(w) \/ Worker(w) \/ Dies(w)
         \/ Commits(w) \/ Stops(w) \/ \E p \in Paths : Writes(w, p)
    \/ Reopen

Spec == Init /\ [][Next]_repovars

-----------------------------------------------------------------------------

AllEdits == (1 .. MaxRuns) \X Paths
Trees == [head : Seq(SUBSET AllEdits), files : SUBSET AllEdits, marked : BOOLEAN]

TypeOK ==
    /\ checkout \in {"none", "partial", "ready"} /\ named \in BOOLEAN
    /\ status \in {"ready", "in_progress", "blocked", "completed"}
    /\ tree # Absent => tree \in Trees
    /\ remote \in Seq(SUBSET AllEdits)
    /\ lease \in Workers \cup {Free}
    /\ at \in [Workers -> {"idle", "gate"} \cup Making \cup Running]
    /\ wrote \cup wiped \subseteq 1 .. MaxRuns /\ faults \in 0 .. MaxFaults

(* What the evidence of an Execution names is on the remote, and stays there *)
(* whatever later launches of the Task reset, commit and push                *)
(* (repo_write_enforcement.py:218-247, remote_readback.py:41-76).            *)
EvidenceStays ==
    \A e \in evidence : IsPrefix(e.sha, remote)

(* Nothing outside allowed_paths reaches the remote: not what a provider     *)
(* committed itself, nor what an earlier run left in the worktree            *)
(* (repo_write_enforcement.py:201-215, execution_runner.py:616-653).         *)
PushedInScope == \A e \in Edits(remote) : Path(e) \in Scope

(* Tests that passed were run on what was pushed, to the last file, unless   *)
(* another worker reset the worktree meanwhile                               *)
(* (repo_write_enforcement.py:436-512).                                      *)
TestedIsPushed ==
    \A e \in evidence : e.tests = "passed" /\ e.run \notin wiped => e.tested = Edits(e.sha)

(* Success without a change is a provider that changed nothing, in a         *)
(* worktree where nothing was left of earlier runs                           *)
(* (execution_runner.py:620-645).                                            *)
NoChangeIsNone ==
    \A e \in evidence : e.sha = <<>> /\ e.run \notin wiped => e.run \notin wrote

(* The doc of the retry's reset: what an earlier run left never survives     *)
(* into a retry (worktree_materializer.py:229-246).                          *)
RunStartsClean ==
    [][\A w \in Workers : at[w] # "run" /\ at'[w] = "run" => tree.files = {}]_repovars
=============================================================================

--------------------------- MODULE DispatchIngress ---------------------------
(***************************************************************************)
(* How one external request becomes one Task and one Command.             *)
(*                                                                         *)
(* Pollers (the Drive, GitHub file and GitHub issue ingresses, and the     *)
(* HTTP one) hand the same request again and again to handle_dispatch      *)
(* (cloud/dispatch_ingress.py).  A claim record in GCS, changed only by    *)
(* create-if-absent and compare-and-swap on its generation, decides who    *)
(* creates the Drive records; a Task admitted without usable quota gets    *)
(* its Command later from the promotion sweep of the Command watcher.      *)
(* Drive records are put whole: written, then read back and compared.      *)
(***************************************************************************)
EXTENDS Naturals, FiniteSets

CONSTANTS
    Requests,        \* external request ids of one project
    Others,          \* other Tasks of the project, put in it by other callers
    Pollers,         \* processes that run an ingress poll
    Sweepers,        \* watchers that run the promotion sweep
    Scopes,          \* the write contracts a submission of a request may declare
    ReadOnly,        \* the one of them that writes nothing
    MaxFaults,       \* failed quota reads, lost replies of a claim create,
                     \* crashes, and Project puts of other callers
    MaxGenerations   \* generations of a claim record (bound of the model)

ASSUME BoundsAreNumbers ==
    /\ MaxFaults \in Nat
    /\ MaxGenerations \in Nat \ {0}

ASSUME ScopesAreContracts == ReadOnly \in Scopes /\ "unset" \notin Scopes

Kinds == {"auto", "local", "retry"}

NoTask == [exists |-> FALSE, recommended |-> FALSE, assessed |-> FALSE, scope |-> "unset"]

TaskDocs == [exists : BOOLEAN, recommended : BOOLEAN, assessed : BOOLEAN,
             scope : Scopes \cup {"unset"}]

NoClaim == [status |-> "none", generation |-> 0]

CreatorPcs == {"dispatch", "createTask", "putProject", "verifyProject", "stampRead", "stampWrite", "stampVerify",
               "putCommand", "verifyCommand", "markDispatched"}

FailurePcs == {"findTask", "findCommand", "markFailed"}

PollerPcs == {"idle", "retryCas", "lookCommand", "lookTask"} \cup CreatorPcs \cup FailurePcs

SweeperPcs == {"idle", "promote", "recheck", "putCommand", "verifyCommand",
               "updateRead", "updateWrite"}

VARIABLES
    kind,     \* kind[r]: what the request asks for
    claim,    \* claim[r]: the claim record in GCS
    task,     \* task[r]: the Task record in Drive
    command,  \* command[r]: the Command record in Drive
    project,  \* active_tasks of the Project record in Drive
    my,       \* my[p]: the call poller p is in
    sweep,    \* sweep[s]: the promotion sweeper s is in
    answers,  \* answers[r]: what callers were told about r
    doubt,    \* doubt[r]: the events after which ownership of r is not definite
    faults    \* how many faults may still happen

vars == <<kind, claim, task, command, project, my, sweep, answers, doubt, faults>>
records == <<claim, task, command, project>>

IdleCall == [pc |-> "idle", request |-> "none", scope |-> "unset", generation |-> 0,
             own |-> FALSE, retry |-> FALSE, waiting |-> FALSE, doc |-> NoTask,
             active |-> {}]

IdleSweep == [pc |-> "idle", request |-> "none", doc |-> NoTask]

TypeOK ==
    /\ kind \in [Requests -> Kinds]
    /\ claim \in [Requests -> [status : {"none", "accepted", "dispatched", "failed"},
                               generation : 0 .. MaxGenerations]]
    /\ task \in [Requests -> TaskDocs]
    /\ command \in [Requests -> {"none", "queued", "taken"}]
    /\ project \in SUBSET (Requests \cup Others)
    /\ my \in [Pollers -> [pc : PollerPcs, request : Requests \cup {"none"},
                           scope : Scopes \cup {"unset"}, generation : 0 .. MaxGenerations,
                           own : BOOLEAN, retry : BOOLEAN, waiting : BOOLEAN, doc : TaskDocs,
                           active : SUBSET (Requests \cup Others)]]
    /\ sweep \in [Sweepers -> [pc : SweeperPcs, request : Requests \cup {"none"}, doc : TaskDocs]]
    /\ answers \in [Requests -> SUBSET {"queued", "waiting_quota"}]
    /\ doubt \in [Requests -> SUBSET {"ambiguous", "refailed", "crashed", "clashed"}]
    /\ faults \in 0 .. MaxFaults

(* A retry asks for a new Command of a Task that an earlier request made. *)
ExistingTask(scope) == [exists |-> TRUE, recommended |-> TRUE, assessed |-> TRUE, scope |-> scope]

Init ==
    /\ kind \in [Requests -> Kinds]
    /\ claim = [r \in Requests |-> NoClaim]
    /\ task \in [Requests -> {NoTask} \cup {ExistingTask(s) : s \in Scopes}]
    /\ \A r \in Requests : task[r].exists <=> kind[r] = "retry"
    /\ command = [r \in Requests |-> "none"]
    /\ project = {}
    /\ my = [p \in Pollers |-> IdleCall]
    /\ sweep = [s \in Sweepers |-> IdleSweep]
    /\ answers = [r \in Requests |-> {}]
    /\ doubt = [r \in Requests |-> {}]
    /\ faults = MaxFaults

Goto(p, pc) == my' = [my EXCEPT ![p].pc = pc]

Finish(p) == my' = [my EXCEPT ![p] = IdleCall]

(* The call returns with "accepted", or raises a DispatchIngressError. *)
Answer(p, what) ==
    /\ answers' = [answers EXCEPT ![my[p].request] = @ \cup {what}]
    /\ Finish(p)

Refuse(p) == Finish(p) /\ UNCHANGED answers

Fault == faults > 0 /\ faults' = faults - 1

Creating(p, r) == my[p].request = r /\ my[p].pc \in CreatorPcs

-----------------------------------------------------------------------------
(* The claim                                                              *)

(* Variants named ...Mutant are faulty forms of the definition that follows
   or precedes them: each is a bug that one of the properties rules out. *)

(* The first step of create() for a request of this kind. *)
FirstStep(r) ==
    CASE kind[r] = "auto" -> "dispatch"
      [] kind[r] = "local" -> "createTask"
      [] kind[r] = "retry" -> "putCommand"

NewCall(r, s, pc, generation, own) ==
    [IdleCall EXCEPT !.pc = pc, !.request = r, !.scope = s,
                     !.generation = generation, !.own = own, !.active = project]

(* A local action and a retry never declare a write. *)
Submits(r, s) == s \in Scopes /\ (kind[r] # "auto" => s = ReadOnly)

(* No claim record: create-if-absent makes this call the definite winner. *)
WinClaim(p, r, s) ==
    /\ my[p].pc = "idle"
    /\ Submits(r, s)
    /\ claim[r] = NoClaim
    /\ claim' = [claim EXCEPT ![r] = [status |-> "accepted", generation |-> 1]]
    /\ my' = [my EXCEPT ![p] = NewCall(r, s, FirstStep(r), 1, TRUE)]
    /\ UNCHANGED <<kind, task, command, project, sweep, answers, doubt, faults>>

RetryStepMutant(r) == "lookCommand"
RetryStepClaimedMutant(r) == FirstStep(r)

(* A record exists (412): what the caller does with its status. *)
RetryStep(r) ==
    IF claim[r].status = "failed" /\ kind[r] # "retry" THEN "retryCas" ELSE "lookCommand"

LoseClaim(p, r, s) ==
    /\ my[p].pc = "idle"
    /\ Submits(r, s)
    /\ claim[r] # NoClaim
    /\ my' = [my EXCEPT ![p] = NewCall(r, s, RetryStep(r), claim[r].generation, FALSE)]
    /\ UNCHANGED <<kind, records, sweep, answers, doubt, faults>>

(* The reply of the create is lost: whatever record is there, this call's
   or another's, the caller goes on as a claimant that does not own it. *)
AmbiguousClaim(p, r, s) ==
    /\ my[p].pc = "idle"
    /\ Submits(r, s)
    /\ Fault
    /\ claim' = [claim EXCEPT ![r] = IF @ = NoClaim
                                     THEN [status |-> "accepted", generation |-> 1] ELSE @]
    /\ doubt' = [doubt EXCEPT ![r] = @ \cup {"ambiguous"}]
    /\ my' = [my EXCEPT ![p] = NewCall(r, s, FirstStep(r), claim'[r].generation, FALSE)]
    /\ UNCHANGED <<kind, task, command, project, sweep, answers>>

(* mark_dispatch_request_status: a swap on the generation the caller holds. *)
CanMarkMutant(p) == my[p].generation < MaxGenerations

CanMark(p) ==
    /\ claim[my[p].request].generation = my[p].generation
    /\ my[p].generation < MaxGenerations

Mark(p, status) ==
    claim' = [claim EXCEPT ![my[p].request] =
                [status |-> status, generation |-> my[p].generation + 1]]

(* One caller wins the swap from failed back to accepted and creates again. *)
RetryFailed(p) ==
    /\ my[p].pc = "retryCas"
    /\ IF CanMark(p)
       THEN /\ Mark(p, "accepted")
            /\ my' = [my EXCEPT ![p].pc = FirstStep(my[p].request),
                                ![p].retry = TRUE, ![p].generation = @ + 1]
       ELSE Goto(p, "lookCommand") /\ UNCHANGED claim
    /\ UNCHANGED <<kind, task, command, project, sweep, answers, doubt, faults>>

-----------------------------------------------------------------------------
(* create(): dispatch, the Task, its policies, the Command                *)

(* The except clauses around create().  A retry-linked call has none. *)
FailurePc(p) ==
    IF kind[my[p].request] = "retry" THEN "idle"
    ELSE IF my[p].retry THEN "markFailed"
    ELSE IF my[p].own THEN "findTask"
    ELSE "idle"

Fail(p) ==
    my' = [my EXCEPT ![p] = IF FailurePc(p) = "idle" THEN IdleCall
                            ELSE [@ EXCEPT !.pc = FailurePc(p)]]

(* dispatch() reads quota first: it may fail, be usable, or be exhausted. *)
DispatchFails(p) ==
    /\ my[p].pc = "dispatch"
    /\ Fault
    /\ Fail(p)
    /\ UNCHANGED <<kind, records, sweep, answers, doubt>>

Dispatch(p, usable) ==
    /\ my[p].pc = "dispatch"
    /\ my' = [my EXCEPT ![p].waiting = ~usable, ![p].active = project,
                        ![p].pc = IF task[my[p].request].exists THEN "stampRead" ELSE "createTask"]
    /\ UNCHANGED <<kind, records, sweep, answers, doubt, faults>>

(* create_task puts the whole document, over whatever is there by now. *)
CreateTask(p) ==
    /\ my[p].pc = "createTask"
    /\ task' = [task EXCEPT ![my[p].request] =
                  [exists |-> TRUE, scope |-> "unset",
                   recommended |-> kind[my[p].request] = "auto" /\ ~my[p].waiting,
                   assessed |-> kind[my[p].request] = "auto"]]
    /\ Goto(p, "putProject")
    /\ UNCHANGED <<kind, claim, command, project, sweep, answers, doubt, faults>>

(* The Project is put whole, from the copy read before the Task was made,
   and read back: another caller's put in between fails this one. *)
PutProject(p) ==
    /\ my[p].pc = "putProject"
    /\ project' = my[p].active \cup {my[p].request}
    /\ Goto(p, "verifyProject")
    /\ UNCHANGED <<kind, claim, task, command, sweep, answers, doubt, faults>>

VerifyProject(p) ==
    /\ my[p].pc = "verifyProject"
    /\ IF project = my[p].active \cup {my[p].request}
       THEN my' = [my EXCEPT ![p].pc = "stampRead", ![p].active = {}] /\ UNCHANGED doubt
       ELSE Fail(p) /\ doubt' = [doubt EXCEPT ![my[p].request] = @ \cup {"clashed"}]
    /\ UNCHANGED <<kind, records, sweep, answers, faults>>

(* update_task: get the document, put it back with the policies, and the
   put reads its file again: a concurrent put in between fails it. *)
StampRead(p) ==
    /\ my[p].pc = "stampRead"
    /\ my' = [my EXCEPT ![p].doc = [task[my[p].request] EXCEPT !.scope = my[p].scope],
                        ![p].scope = "unset", ![p].pc = "stampWrite"]
    /\ UNCHANGED <<kind, records, sweep, answers, doubt, faults>>

StampWrite(p) ==
    /\ my[p].pc = "stampWrite"
    /\ task' = [task EXCEPT ![my[p].request] = my[p].doc]
    /\ Goto(p, "stampVerify")
    /\ UNCHANGED <<kind, claim, command, project, sweep, answers, doubt, faults>>

StampVerify(p) ==
    /\ my[p].pc = "stampVerify"
    /\ IF task[my[p].request] = my[p].doc
       THEN my' = [my EXCEPT ![p].doc = NoTask,
                             ![p].pc = IF my[p].waiting THEN "markDispatched" ELSE "putCommand"]
       ELSE Fail(p)
    /\ UNCHANGED <<kind, records, sweep, answers, doubt, faults>>

PutCommand(p) ==
    /\ my[p].pc = "putCommand"
    /\ command' = [command EXCEPT ![my[p].request] = "queued"]
    /\ Goto(p, "verifyCommand")
    /\ UNCHANGED <<kind, claim, task, project, sweep, answers, doubt, faults>>

VerifyCommand(p) ==
    /\ my[p].pc = "verifyCommand"
    /\ IF command[my[p].request] # "queued"
       THEN Fail(p) /\ UNCHANGED answers
       ELSE IF kind[my[p].request] = "retry"
            THEN Answer(p, "queued")
            ELSE Goto(p, "markDispatched") /\ UNCHANGED answers
    /\ UNCHANGED <<kind, records, sweep, doubt, faults>>

(* The swap to dispatched is best effort: a lost one changes nothing. *)
MarkDispatched(p) ==
    /\ my[p].pc = "markDispatched"
    /\ IF CanMark(p) THEN Mark(p, "dispatched") ELSE UNCHANGED claim
    /\ Answer(p, IF my[p].waiting THEN "waiting_quota" ELSE "queued")
    /\ UNCHANGED <<kind, task, command, project, sweep, doubt, faults>>

-----------------------------------------------------------------------------
(* The failure of create()                                                *)

(* _mark_pre_artifact_failure: the owner looks for a Task, then for a
   Command or an Execution, and marks the claim failed only without one. *)
FindTaskMutant(p) ==
    /\ my[p].pc = "findTask"
    /\ Goto(p, "findCommand")
    /\ UNCHANGED <<kind, records, sweep, answers, doubt, faults>>

FindTask(p) ==
    /\ my[p].pc = "findTask"
    /\ IF task[my[p].request].exists THEN Finish(p) ELSE Goto(p, "findCommand")
    /\ UNCHANGED <<kind, records, sweep, answers, doubt, faults>>

FindCommand(p) ==
    /\ my[p].pc = "findCommand"
    /\ IF command[my[p].request] # "none" THEN Finish(p) ELSE Goto(p, "markFailed")
    /\ UNCHANGED <<kind, records, sweep, answers, doubt, faults>>

(* _mark_retry_failure comes here directly, without the two looks. *)
MarkFailed(p) ==
    /\ my[p].pc = "markFailed"
    /\ IF CanMark(p) THEN Mark(p, "failed") ELSE UNCHANGED claim
    /\ doubt' = [doubt EXCEPT ![my[p].request] =
                   IF my[p].retry /\ CanMark(p) THEN @ \cup {"refailed"} ELSE @]
    /\ Finish(p)
    /\ UNCHANGED <<kind, task, command, project, sweep, answers, faults>>

-----------------------------------------------------------------------------
(* _resolve_existing_claim                                                *)

ScopeMatches(p) ==
    \/ kind[my[p].request] = "retry"
    \/ task[my[p].request].scope = my[p].scope
    \/ task[my[p].request].scope = "unset" /\ my[p].scope = ReadOnly

(* A Command: the replay is answered if it declares the scope on record.
   None after the last attempt: look whether the Task waits for quota. *)
LookCommand(p) ==
    /\ my[p].pc = "lookCommand"
    /\ IF command[my[p].request] # "none"
       THEN IF ScopeMatches(p) THEN Answer(p, "queued") ELSE Refuse(p)
       ELSE Goto(p, "lookTask") /\ UNCHANGED answers
    /\ UNCHANGED <<kind, records, sweep, doubt, faults>>

LookTask(p) ==
    /\ my[p].pc = "lookTask"
    /\ LET t == task[my[p].request]
       IN  IF t.exists /\ ~t.recommended /\ kind[my[p].request] # "retry"
           THEN Answer(p, "waiting_quota") ELSE Refuse(p)
    /\ UNCHANGED <<kind, records, sweep, doubt, faults>>

-----------------------------------------------------------------------------
(* The promotion sweep and the watcher                                    *)

(* _enumerate_waiting_quota_tasks, then the first look for a Command. *)
Waiting(t) == t.exists /\ ~t.recommended /\ t.assessed

SweepGoto(s, pc) == sweep' = [sweep EXCEPT ![s].pc = pc]

StopSweep(s) == sweep' = [sweep EXCEPT ![s] = IdleSweep]

FindWaiting(s, r) ==
    /\ sweep[s].pc = "idle"
    /\ Waiting(task[r])
    /\ command[r] = "none"
    /\ sweep' = [sweep EXCEPT ![s] = [pc |-> "promote", request |-> r, doc |-> NoTask]]
    /\ UNCHANGED <<kind, records, my, answers, doubt, faults>>

(* dispatch() again: still no quota ends the promotion without a change. *)
Promote(s, usable) ==
    /\ sweep[s].pc = "promote"
    /\ IF usable THEN SweepGoto(s, "recheck") ELSE StopSweep(s)
    /\ UNCHANGED <<kind, records, my, answers, doubt, faults>>

Recheck(s) ==
    /\ sweep[s].pc = "recheck"
    /\ IF command[sweep[s].request] = "none" THEN SweepGoto(s, "putCommand") ELSE StopSweep(s)
    /\ UNCHANGED <<kind, records, my, answers, doubt, faults>>

SweepPutCommand(s) ==
    /\ sweep[s].pc = "putCommand"
    /\ command' = [command EXCEPT ![sweep[s].request] = "queued"]
    /\ SweepGoto(s, "verifyCommand")
    /\ UNCHANGED <<kind, claim, task, project, my, answers, doubt, faults>>

SweepVerifyCommand(s) ==
    /\ sweep[s].pc = "verifyCommand"
    /\ IF command[sweep[s].request] = "queued" THEN SweepGoto(s, "updateRead") ELSE StopSweep(s)
    /\ UNCHANGED <<kind, records, my, answers, doubt, faults>>

(* The Task's recommended_provider is written back with a get and a put;
   nothing follows the put, so its read-back decides nothing. *)
UpdateRead(s) ==
    /\ sweep[s].pc = "updateRead"
    /\ sweep' = [sweep EXCEPT ![s].pc = "updateWrite",
                              ![s].doc = [task[sweep[s].request] EXCEPT !.recommended = TRUE]]
    /\ UNCHANGED <<kind, records, my, answers, doubt, faults>>

UpdateWrite(s) ==
    /\ sweep[s].pc = "updateWrite"
    /\ task' = [task EXCEPT ![sweep[s].request] = sweep[s].doc]
    /\ StopSweep(s)
    /\ UNCHANGED <<kind, claim, command, project, my, answers, doubt, faults>>

(* verify_trusted_ingress_admission, before the watcher claims a Command. *)
Admissible(r) ==
    /\ claim[r] # NoClaim
    /\ task[r].scope \in (IF kind[r] = "retry" THEN {ReadOnly} ELSE Scopes)

Take(r) ==
    /\ command[r] = "queued"
    /\ Admissible(r)
    /\ command' = [command EXCEPT ![r] = "taken"]
    /\ UNCHANGED <<kind, claim, task, project, my, sweep, answers, doubt, faults>>

-----------------------------------------------------------------------------
CrashPoller(p) ==
    /\ my[p].pc # "idle"
    /\ Fault
    /\ doubt' = [doubt EXCEPT ![my[p].request] = @ \cup {"crashed"}]
    /\ Finish(p)
    /\ UNCHANGED <<kind, records, sweep, answers>>

(* Another caller puts its Task into the Project, from its own copy of it. *)
OtherProjectPut ==
    /\ Fault
    /\ \E o \in Others, copy \in {{}, project} : project' = copy \cup {o}
    /\ UNCHANGED <<kind, claim, task, command, my, sweep, answers, doubt>>

CrashSweeper(s) ==
    /\ sweep[s].pc # "idle"
    /\ Fault
    /\ StopSweep(s)
    /\ UNCHANGED <<kind, records, my, answers, doubt>>

Poll(p, r) == \E s \in Scopes : WinClaim(p, r, s) \/ LoseClaim(p, r, s)

PollerStep(p) ==
    \/ RetryFailed(p) \/ DispatchFails(p) \/ (\E usable \in BOOLEAN : Dispatch(p, usable))
    \/ CreateTask(p) \/ PutProject(p) \/ VerifyProject(p) \/ StampRead(p) \/ StampWrite(p) \/ StampVerify(p)
    \/ PutCommand(p) \/ VerifyCommand(p) \/ MarkDispatched(p)
    \/ FindTask(p) \/ FindCommand(p) \/ MarkFailed(p)
    \/ LookCommand(p) \/ LookTask(p)

SweeperStep(s) ==
    \/ (\E usable \in BOOLEAN : Promote(s, usable)) \/ Recheck(s)
    \/ SweepPutCommand(s) \/ SweepVerifyCommand(s)
    \/ UpdateRead(s) \/ UpdateWrite(s)

Next ==
    \/ \E p \in Pollers, r \in Requests : Poll(p, r)
    \/ \E p \in Pollers, r \in Requests, s \in Scopes : AmbiguousClaim(p, r, s)
    \/ \E p \in Pollers : PollerStep(p) \/ CrashPoller(p)
    \/ \E s \in Sweepers, r \in Requests : FindWaiting(s, r)
    \/ \E s \in Sweepers : SweeperStep(s) \/ CrashSweeper(s)
    \/ \E r \in Requests : Take(r)
    \/ OtherProjectPut

Spec == Init /\ [][Next]_vars

(* A poller goes on with the call it is in and then polls again; the sweep
   comes round; and it meets usable quota if it looks again and again. *)
Fairness ==
    /\ \A p \in Pollers : WF_vars(PollerStep(p) \/ \E r \in Requests : Poll(p, r))
    /\ \A s \in Sweepers : WF_vars(SweeperStep(s) \/ \E r \in Requests : FindWaiting(s, r))
    /\ \A s \in Sweepers : SF_vars(Promote(s, TRUE))

FairSpec == Spec /\ Fairness

-----------------------------------------------------------------------------
(* Properties                                                             *)

(* Whoever is inside create() for a request won its claim or the swap that
   reopens it (dispatch_requests.py:211, "only the winner may create"),
   unless the reply of a create was lost. *)
OneCreator ==
    \A r \in Requests : "ambiguous" \notin doubt[r] =>
        \A p, q \in Pollers : Creating(p, r) /\ Creating(q, r) => p = q

(* Records appear in order: a Command stands on a Task, a Task on a claim,
   a dispatched claim on a Task; and a caller told "queued" can rely on
   the Command, one told "waiting_quota" on the Task. *)
BackedByRecords ==
    \A r \in Requests :
        /\ command[r] # "none" => task[r].exists /\ claim[r] # NoClaim
        /\ task[r].exists /\ kind[r] # "retry" => claim[r] # NoClaim
        /\ claim[r].status = "dispatched" => task[r].exists
        /\ "queued" \in answers[r] => command[r] # "none"
        /\ "waiting_quota" \in answers[r] => task[r].exists

(* A claim marked failed names a request of which nothing was created
   (_mark_pre_artifact_failure), as long as its owner is definite. *)
OwnerFailsTruthfully ==
    \A r \in Requests :
        claim[r].status = "failed" /\ doubt[r] \cap {"ambiguous", "refailed"} = {}
            => ~task[r].exists /\ command[r] = "none"

(* The same without the exception: what the comment above the retry of a
   failed claim says of every failed claim (dispatch_ingress.py:857). *)
FailedMeansNothing ==
    \A r \in Requests :
        claim[r].status = "failed" => ~task[r].exists /\ command[r] = "none"

(* An answer "waiting_quota" is about a Task for which dispatch() looked for
   a provider and found none (dispatch_ingress.py:525-534). *)
WaitingIsForQuota ==
    \A r \in Requests : "waiting_quota" \in answers[r] => task[r].assessed

(* A Command the watcher took is not put back to the queue by an ingress
   call or by a sweep while the request's owner is definite. *)
TakenStaysTaken ==
    [][\A r \in Requests :
         command[r] = "taken" /\ doubt[r] \cap {"ambiguous", "refailed"} = {}
            => command'[r] = "taken"]_vars

(* A replay never gives a request another write contract. *)
ContractFixed ==
    [][\A r \in Requests :
         task[r].scope \in Scopes /\ doubt[r] \cap {"ambiguous", "refailed"} = {}
            => task'[r].scope \in {task[r].scope, "unset"}]_vars

(* A dispatched claim is final, whatever stale callers still mark. *)
DispatchedIsFinal ==
    [][\A r \in Requests : claim[r].status = "dispatched" => claim'[r].status = "dispatched"]_vars

(* What a call has made sure of, whoever else runs: the generation it holds
   is the claim's or an older one, and the records it has made are there. *)
OnTask == {"putProject", "verifyProject", "stampRead", "stampWrite", "stampVerify",
           "putCommand", "verifyCommand", "markDispatched"}

CallFits(p) ==
    LET r == my[p].request
        current == my[p].generation = claim[r].generation
    IN  /\ r \in Requests /\ claim[r] # NoClaim /\ my[p].generation <= claim[r].generation
        /\ my[p].pc = "retryCas" => ~my[p].own /\ (current => claim[r].status = "failed")
        /\ (my[p].own \/ my[p].retry) /\ current => claim[r].status = "accepted"
        /\ my[p].retry => my[p].pc \in CreatorPcs \cup FailurePcs
        /\ my[p].pc \in FailurePcs => my[p].own \/ my[p].retry
        /\ kind[r] = "retry" => my[p].pc \in {"putCommand", "verifyCommand", "lookCommand", "lookTask"}
        /\ my[p].pc \in OnTask => task[r].exists
        /\ my[p].pc \in {"stampWrite", "stampVerify"} => my[p].doc.exists
        /\ my[p].pc \in {"putCommand", "verifyCommand"} => ~my[p].waiting
        /\ my[p].pc \in {"verifyCommand", "markDispatched"} /\ ~my[p].waiting => command[r] # "none"

CallsFit ==
    /\ \A p \in Pollers : my[p].pc # "idle" => CallFits(p)
    /\ \A s \in Sweepers : sweep[s].pc # "idle" =>
         /\ sweep[s].request \in Requests
         /\ kind[sweep[s].request] # "retry" /\ task[sweep[s].request].exists
         /\ sweep[s].pc = "updateWrite" => sweep[s].doc.exists
    /\ \A r \in Requests : task[r].exists \/ task[r] = NoTask
    /\ \A r \in Requests : kind[r] = "retry" => task[r].exists /\ task[r].recommended

(* As long as no reply of a create was lost, a claim has one owner, which
   holds its generation, until it fails or is dispatched. *)
Owning(p, r) == my[p].request = r /\ my[p].pc \in CreatorPcs \cup FailurePcs

OwnersFit ==
    \A r \in Requests : "ambiguous" \notin doubt[r] =>
        /\ \A p, q \in Pollers : Owning(p, r) /\ Owning(q, r) => p = q
        /\ \A p \in Pollers : Owning(p, r) =>
             /\ my[p].own \/ my[p].retry
             /\ claim[r].status = "accepted" /\ my[p].generation = claim[r].generation
             /\ my[p].pc \in {"findCommand", "markFailed"} /\ ~my[p].retry => ~task[r].exists

(* A request whose owner is definite and has never failed late is created
   once: its Task by createTask, its contract by the stamp, its Command by
   the owner, or by a sweep when the Task waits for quota. *)
Definite(r) == doubt[r] \cap {"ambiguous", "refailed"} = {}

Unstamped == {"dispatch", "createTask", "putProject", "verifyProject", "stampRead", "stampWrite"}
Uncommanded == Unstamped \cup {"stampVerify", "putCommand"}

Promoting(s, r) == sweep[s].request = r /\ sweep[s].pc # "idle"
Updating(s, r) == sweep[s].request = r /\ sweep[s].pc = "updateWrite"

CreatedOnce ==
    \A r \in Requests : Definite(r) =>
        /\ \A p \in Pollers : Owning(p, r) =>
             /\ my[p].pc \in {"dispatch", "createTask"} => ~task[r].exists
             /\ my[p].pc \in Uncommanded /\ ~my[p].waiting =>
                  /\ ~Waiting(task[r]) /\ command[r] = "none"
                  /\ my[p].pc \in {"stampWrite", "stampVerify"} => ~Waiting(my[p].doc)
                  /\ \A s \in Sweepers : ~Promoting(s, r)
             /\ my[p].pc \in Unstamped =>
                  /\ task[r].scope = "unset"
                  /\ \A s \in Sweepers : Updating(s, r) => sweep[s].doc.scope = "unset"
        /\ \E contract \in Scopes \cup {"unset"} :
             /\ task[r].scope \in {"unset", contract}
             /\ \A s \in Sweepers : Updating(s, r) => sweep[s].doc.scope \in {"unset", contract}

(* The watcher's task never runs twice at a time (MultipleInstances
   IgnoreNew), and its sweep is one of its steps. *)
OneSweep == \A s, t \in Sweepers : s = t

SweepPutsFirst ==
    OneSweep => \A s \in Sweepers, r \in Requests :
        sweep[s].pc = "putCommand" /\ sweep[s].request = r /\ Definite(r) => command[r] = "none"

(* The states of a request's records and of the calls on it
   (cloud/dispatch_ingress.py): typed, in the order they are made, failed
   only when truly nothing was made, and what keeps it so.  Inductive. *)
RequestInv ==
    /\ TypeOK /\ CallsFit /\ OwnersFit /\ CreatedOnce /\ SweepPutsFirst
    /\ BackedByRecords /\ OwnerFailsTruthfully

(* What no replay, retry or sweep may undo: a Command that was taken, a write
   contract, a dispatched claim (cloud/dispatch_ingress.py). *)
ReplaysUndoNothing == TakenStaysTaken /\ ContractFixed /\ DispatchedIsFinal

(* A request someone claimed gets its Command, through ingress retries and
   the promotion sweep, unless a claimant crashed, lost its reply, or failed
   on the Project record after it made the Task. *)
Delivered ==
    \A r \in Requests :
        claim[r] # NoClaim
            ~> (command[r] # "none" \/ doubt[r] \cap {"crashed", "ambiguous", "clashed"} # {})
=============================================================================

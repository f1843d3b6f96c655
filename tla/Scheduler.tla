------------------------------ MODULE Scheduler ------------------------------
(***************************************************************************)
(* The batches that may run side by side (manager/scheduler.py), and the   *)
(* provider that each Task is given (manager/dispatcher.py, dispatch, and  *)
(* manager/assignment.py, decide).                                         *)
(*                                                                         *)
(* The scheduler goes over the Tasks it was given again and again.  In one *)
(* pass it collects a batch: Tasks whose dependencies came in earlier      *)
(* batches, each with a provider of its own, no two of which edit the same *)
(* files or the same working tree.  A pass that collects nothing is the    *)
(* last one.                                                               *)
(***************************************************************************)
EXTENDS Naturals, Sequences, FiniteSets, SequencesExt

CONSTANTS
    Tasks,            \* sequence of the Tasks that are to be scheduled
    Outside,          \* Tasks that are not, but that these depend on
    Dependencies,     \* what the Tasks may depend on: functions from Tasks to sets of Tasks
    Quotas,           \* what the providers may have: functions to "none", "low" or "high"
    Kinds,            \* what Tasks may be like: [edit, tree, paths, preferred, excluded, urgent, split]
    Providers,        \* sequence of the providers, in the order of the quota summary
    Writers,          \* those that can edit a repository
    Fitness(_),       \* points a provider has for its capabilities
    None              \* no provider

VARIABLES
    kind, depends, outside, quota,    \* what the scheduler was given
    todo,         \* the Tasks that this pass has not come to
    pending,      \* those that no batch has and that are not deferred
    batches,      \* earlier batches: sequence of functions from their Tasks to providers
    batch,        \* that of this pass
    deferred      \* "reset" or "blocked", for the Tasks that were given up

schedvars == <<kind, depends, outside, quota, todo, pending, batches, batch, deferred>>

TaskSet == Range(Tasks)
ProviderSet == Range(Providers)

NoTask == [t \in {} |-> None]

Init ==
    /\ kind \in [TaskSet -> Kinds]
    /\ depends \in Dependencies
    /\ outside \in SUBSET Outside
    /\ quota \in Quotas
    /\ todo = Tasks /\ pending = TaskSet
    /\ batches = <<>> /\ batch = NoTask
    /\ deferred = [t \in {} |-> "blocked"]

-----------------------------------------------------------------------------
(* The provider of a Task.                                                 *)

Fit(t, p) == kind[t].edit => p \in Writers

\* decide: the providers with quota, the best first.
Score(p) == Fitness(p) + (IF quota[p] = "high" THEN 2 ELSE 1)

Before(p, q) == \E i, j \in DOMAIN Providers : i < j /\ Providers[i] = p /\ Providers[j] = q

Better(p, q) == Score(p) > Score(q) \/ (Score(p) = Score(q) /\ Before(p, q))

Ranked(t) ==
    LET able == {p \in ProviderSet : quota[p] # "none" /\ Fit(t, p)}
    IN [i \in 1 .. Cardinality(able) |->
           CHOOSE p \in able : Cardinality({q \in able : Better(q, p)}) = i - 1]

\* What decide names for a Task, the best first.  It recommends the first, or nobody for a Task
\* that is too long for one turn; the others are alternatives.
Offered(t) ==
    LET FirstThree(seq) == SubSeq(seq, 1, IF Len(seq) < 3 THEN Len(seq) ELSE 3)
    IN FirstThree(Ranked(t))

Alternatives(t, offered) == IF kind[t].split \/ offered = <<>> THEN offered ELSE Tail(offered)

FirstOf(seq) == IF seq = <<>> THEN None ELSE Head(seq)

\* The caller's preference comes before the recommendation, and the exclusion before both.
Selected(t, preferred, offered) ==
    LET Unless(wanted) ==
            IF wanted = kind[t].excluded
            THEN FirstOf(SelectSeq(Alternatives(t, offered), LAMBDA p : p # kind[t].excluded))
            ELSE wanted
    IN Unless(IF preferred # None THEN preferred ELSE FirstOf(offered))

\* dispatch: a Task that no provider can have waits for quota.  Of the preferences only that
\* for Claude is held against its quota.
Dispatch(t, preferred, offered) ==
    LET Waits(selected) == \/ selected = None
                           \/ ~Fit(t, selected)
                           \/ preferred = "claude" /\ quota["claude"] = "none"
        Outcome(selected) ==
            IF Waits(selected) THEN [provider |-> None, others |-> <<>>]
            ELSE [provider |-> selected,
                  others   |-> SelectSeq(offered, LAMBDA p : p \notin {selected, kind[t].excluded})]
    IN Outcome(Selected(t, preferred, offered))

Used == {batch[t] : t \in DOMAIN batch}

\* A provider that this batch has already gives way to another that is about as able.
Assigned(t, offered) ==
    LET Able(first) == SelectSeq(first.others, LAMBDA p : p \notin Used /\ p # kind[t].excluded
                                                          /\ Fitness(p) + 1 >= Fitness(first.provider))
        Instead(first, able) ==
            IF first.provider \in Used /\ kind[t].preferred = None /\ able # <<>>
            THEN Dispatch(t, Head(able), offered).provider ELSE first.provider
        Choice(first) == Instead(first, Able(first))
    IN Choice(Dispatch(t, kind[t].preferred, offered))

-----------------------------------------------------------------------------
(* The batches.                                                            *)

Scheduled == UNION {DOMAIN batches[i] : i \in DOMAIN batches}

Waiting(t) ==
    {d \in depends[t] : IF d \in TaskSet THEN d \notin Scheduled ELSE d \notin outside}

\* Mutant: two trees of one repository are not told apart from two repositories.
ConflictMutant(t, u) ==
    /\ kind[t].edit /\ kind[u].edit
    /\ kind[t].paths \cap kind[u].paths # {}

Conflict(t, u) ==
    /\ kind[t].edit /\ kind[u].edit
    /\ \/ kind[t].paths \cap kind[u].paths # {}
       \/ kind[t].tree = kind[u].tree

Defer(t) ==
    /\ deferred' = [u \in DOMAIN deferred \cup {t} |-> IF u = t THEN "reset" ELSE deferred[u]]
    /\ pending' = pending \ {t}
    /\ UNCHANGED batch

Put(t, p) ==
    /\ batch' = [u \in DOMAIN batch \cup {t} |-> IF u = t THEN p ELSE batch[u]]
    /\ pending' = pending \ {t}
    /\ UNCHANGED deferred

\* A Task is left for the next pass, deferred, or put into the batch with its provider.
Place(t, p) ==
    LET skipped == \/ t \notin pending
                   \/ Waiting(t) # {}
                   \/ p = None
                   \/ p \in Used
                   \/ \E u \in DOMAIN batch : Conflict(t, u)
    IN \/ skipped /\ UNCHANGED <<pending, batch, deferred>>
       \/ ~skipped /\ quota[p] = "low" /\ ~kind[t].urgent /\ Defer(t)
       \/ ~skipped /\ (quota[p] # "low" \/ kind[t].urgent) /\ Put(t, p)

Consider ==
    /\ todo # <<>>
    /\ Place(Head(todo), Assigned(Head(todo), Offered(Head(todo))))
    /\ todo' = Tail(todo)
    /\ UNCHANGED <<kind, depends, outside, quota, batches>>

NextPass ==
    /\ todo = <<>> /\ pending # {} /\ batch # NoTask
    /\ batches' = Append(batches, batch) /\ batch' = NoTask
    /\ todo' = Tasks
    /\ UNCHANGED <<kind, depends, outside, quota, pending, deferred>>

\* The last pass: whatever is left is blocked.
Finish ==
    /\ todo = <<>> /\ (pending = {} \/ batch = NoTask)
    /\ pending # {} \/ batch # NoTask
    /\ batches' = (IF batch = NoTask THEN batches ELSE Append(batches, batch))
    /\ batch' = NoTask
    /\ deferred' = [t \in DOMAIN deferred \cup pending |-> IF t \in pending THEN "blocked" ELSE deferred[t]]
    /\ pending' = {}
    /\ UNCHANGED <<kind, depends, outside, quota, todo>>

Next == Consider \/ NextPass \/ Finish

Spec == Init /\ [][Next]_schedvars

-----------------------------------------------------------------------------

Done == todo = <<>> /\ pending = {} /\ batch = NoTask

TypeOK ==
    /\ pending \subseteq TaskSet /\ DOMAIN deferred \subseteq TaskSet
    /\ \A i \in DOMAIN batches : DOMAIN batches[i] \subseteq TaskSet /\ Range(batches[i]) \subseteq ProviderSet
    /\ Range(todo) \subseteq TaskSet

Groups == Append(batches, batch)

(* No Task is scheduled twice, or scheduled and deferred, or forgotten.      *)
EachOnce ==
    \A t \in TaskSet :
        Cardinality({i \in DOMAIN Groups : t \in DOMAIN Groups[i]})
        + (IF t \in DOMAIN deferred THEN 1 ELSE 0) + (IF t \in pending THEN 1 ELSE 0) = 1

(* The Tasks of one batch can run at once: each has a provider to itself,    *)
(* and no two that edit share a working tree or a path, though each is only  *)
(* compared as it comes in, after a change of provider.                      *)
SideBySide ==
    \A i \in DOMAIN Groups : \A t, u \in DOMAIN Groups[i] :
        t # u => /\ Groups[i][t] # Groups[i][u]
                 /\ ~( /\ kind[t].edit /\ kind[u].edit
                       /\ kind[t].tree = kind[u].tree \/ kind[t].paths \cap kind[u].paths # {})

(* A Task comes after all it depends on: those of this run in an earlier     *)
(* batch, the others finished; so no cycle is ever scheduled.                *)
AfterItsDependencies ==
    \A i \in DOMAIN Groups : \A t \in DOMAIN Groups[i] : \A d \in depends[t] :
        IF d \in TaskSet THEN \E j \in 1 .. i - 1 : d \in DOMAIN Groups[j] ELSE d \in outside

(* Whatever way a provider was come by, the caller has not excluded it and   *)
(* it can do what the Task needs.                                            *)
ProviderMayHaveIt ==
    \A i \in DOMAIN Groups : \A t \in DOMAIN Groups[i] :
        Groups[i][t] # kind[t].excluded /\ Fit(t, Groups[i][t])

(* A Task is given up as blocked only if no pass to come could schedule it:  *)
(* it waits for a Task that is not scheduled or not finished, or no provider *)
(* can have it.                                                              *)
BlockedTruly ==
    Done => \A t \in DOMAIN deferred :
        deferred[t] = "blocked" =>
            Waiting(t) # {} \/ Dispatch(t, kind[t].preferred, Offered(t)).provider = None
=============================================================================

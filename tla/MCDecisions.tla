----------------------------- MODULE MCDecisions -----------------------------
(* The components that decide without keeping a process waiting, for TLC,    *)
(* one at a time: part says which of them moves, the others stay where they  *)
(* start.                                                                    *)
EXTENDS CleanupEvidenceOrder, Sequences

CONSTANTS
    Parts, Unknown, Free, Absent,
    Workers, MaxFaults,                                            \* RepoWrite, QuotaRefresh
    Accounts, Dir(_), Keep, Retention, MaxTime,                    \* QuotaRefresh
    Paths, Scope, Untracked, Tests, NoChange, MaxRuns              \* RepoWrite

VARIABLES
    part,
    minute, written, polled, waits, claimed, rejected, lost, cuts,             \* IngressPolls
    kind, depends, outside, quota, todo, pending, batches, batch, deferred,    \* Scheduler
    now, left, reset, cycle, snapshots,                                        \* QuotaForecast
    time, tokens, payload, lock, at, turn, doc, asked, drive, runtime,         \* QuotaRefresh
    history, copy, recorded, pruned, raced, faults,
    checkout, named, taskstatus, worktree, remote, lease, step, run,               \* RepoWrite
    files_changed, runs, repo_evidence, wrote, wiped, repo_faults

pollvars == <<minute, written, polled, waits, claimed, rejected, lost, cuts>>
schedvars == <<kind, depends, outside, quota, todo, pending, batches, batch, deferred>>
quotavars == <<now, left, reset, cycle, snapshots>>
refreshvars == <<time, tokens, payload, lock, at, turn, doc, asked, drive, runtime,
                 history, copy, recorded, pruned, raced, faults>>
repovars == <<checkout, named, taskstatus, worktree, remote, lease, step, run, files_changed,
              runs, repo_evidence, wrote, wiped, repo_faults>>
allvars == <<part, vars, pollvars, schedvars, quotavars, refreshvars, repovars>>

-----------------------------------------------------------------------------
(* Four requests in the Drive folder, whose last Slices hours are two        *)
(* minutes long; and four requests of all three sources and kinds.           *)

File(f) == f
OnDrive(f) == "drive"
AllGood(f) == "good"
AnySource(f) == <<"branch", "branch", "drive", "issue">>[f]
AnyBody(f) == <<"good", "invalid", "broken", "broken">>[f]

Folder == INSTANCE IngressPolls WITH Files <- 1 .. 4, Source <- OnDrive, Body <- AllGood, Request <- File,
    HourMinutes <- 2, Slices <- 3, Recent <- 1, Listed <- 2, PerHour <- 1, MaxReads <- 2,
    MaxMinute <- 5, MaxFaults <- 1

Sources == INSTANCE IngressPolls WITH Files <- 1 .. 4, Source <- AnySource, Body <- AnyBody, Request <- File,
    HourMinutes <- 1, Slices <- 1, Recent <- 1, Listed <- 2, PerHour <- 1, MaxReads <- 1,
    MaxMinute <- 2, MaxFaults <- 1

-----------------------------------------------------------------------------
(* Three Tasks of six kinds, with and without a cycle of dependencies, and   *)
(* three providers.                                                          *)

Kind(edit, tree, paths, preferred, excluded, urgent, split) ==
    [edit |-> edit, tree |-> tree, paths |-> paths, preferred |-> preferred,
     excluded |-> excluded, urgent |-> urgent, split |-> split]

Kinds ==
    {Kind(TRUE, "main", {"x"}, "none", "none", FALSE, FALSE),
     Kind(TRUE, "tree", {"y"}, "none", "none", FALSE, TRUE),
     Kind(TRUE, "main", {"y"}, "codex", "none", TRUE, FALSE),
     Kind(FALSE, "main", {}, "none", "codex", FALSE, FALSE),
     Kind(FALSE, "main", {}, "claude", "none", TRUE, FALSE),
     Kind(TRUE, "tree", {"x"}, "claude", "codex", TRUE, FALSE)}

Fitness(p) == IF p = "antigravity" THEN 1 ELSE 2

Needs(a, b, c) == [t1 |-> a, t2 |-> b, t3 |-> c]
Dependencies ==
    {Needs({}, {}, {}), Needs({}, {"t1"}, {"t2"}), Needs({"t3"}, {}, {"t2"}), Needs({"t2"}, {"t1"}, {}),
     Needs({}, {"o"}, {"t2"}), Needs({}, {}, {"t1", "t2"}), Needs({"t2", "t3"}, {}, {})}

Quota(a, b, c) == [codex |-> a, claude |-> b, antigravity |-> c]
Quotas ==
    {Quota("high", "high", "high"), Quota("low", "high", "none"), Quota("none", "high", "high"),
     Quota("high", "none", "low"), Quota("none", "none", "none")}

Batches == INSTANCE Scheduler WITH Tasks <- <<"t1", "t2", "t3">>, Outside <- {"o"}, None <- "none",
    Providers <- <<"codex", "claude", "antigravity">>, Writers <- {"codex", "antigravity"}

-----------------------------------------------------------------------------
(* The rate of use of one window over two of its cycles; and two accounts    *)
(* with two windows, one of which has credits.                               *)

Always(a) == TRUE
SecondOne(a) == a = 2
Two(w) == 2
Unequal(w) == IF w = "five_hour" THEN 3 ELSE 4
Shape(windows, numbers, times) == [windows |-> windows, numbers |-> numbers, times |-> times]
One == {"five_hour"}
Both == {"five_hour", "seven_day"}

Rate == INSTANCE QuotaForecast WITH Accounts <- {1}, Official <- Always, Credits <- SecondOne,
    Windows <- <<"five_hour">>, Length <- Two, Levels <- {0, 50, 100}, Start <- {0, 50, 100}, Draw <- 50,
    Shapes <- {Shape(One, One, TRUE), Shape(One, One, FALSE), Shape(One, {}, TRUE)},
    MaxAge <- 1, MaxNow <- 4, Repeats <- TRUE, MaxSnapshots <- 3

Choice == INSTANCE QuotaForecast WITH Accounts <- {1, 2}, Official <- Always, Credits <- SecondOne,
    Windows <- <<"five_hour", "seven_day">>, Length <- Unequal, Levels <- {0, 50, 100}, Start <- {50, 100},
    Draw <- 50, Shapes <- {Shape(Both, Both, TRUE), Shape({}, {}, TRUE)},
    MaxAge <- 1, MaxNow <- 2, Repeats <- FALSE, MaxSnapshots <- 2

-----------------------------------------------------------------------------
(* Refreshes of quota: the cfg has two, of three accounts, the first two of  *)
(* which share a directory.                                                 *)

ThreeAccounts == <<"legacy", "a", "b">>
Directory(a) == IF a = "b" THEN "other" ELSE "default"

Refresh == INSTANCE QuotaRefresh

ASSUME RefreshAssumption ==
    /\ Accounts \in Seq(Refresh!AccountSet)
    /\ Keep \in Nat /\ Retention \in Nat /\ MaxTime \in Nat /\ MaxTime >= 2
    /\ Refresh!Operator \notin Workers /\ Absent \notin Refresh!Documents

-----------------------------------------------------------------------------
(* Launches of one Task that writes its repository.                          *)

Repo == INSTANCE RepoWrite WITH
    status <- taskstatus, tree <- worktree, at <- step, evidence <- repo_evidence, faults <- repo_faults

ASSUME RepoAssumption ==
    /\ MaxRuns \in Nat /\ MaxFaults \in Nat
    /\ Free \notin Workers /\ Absent \notin Repo!Trees

-----------------------------------------------------------------------------

DecisionsInit ==
    /\ part \in Parts
    /\ Init
    /\ IF part = "sources" THEN Sources!Init ELSE Folder!Init
    /\ IF part = "batches" THEN Batches!Init
       ELSE /\ kind = <<>> /\ depends = <<>> /\ outside = {} /\ quota = <<>>
            /\ todo = <<>> /\ pending = {} /\ batches = <<>> /\ batch = <<>> /\ deferred = <<>>
    /\ IF part = "choice" THEN Choice!Init ELSE Rate!Init
    /\ Refresh!Init /\ Repo!Init
    /\ part # "repo" => checkout = "none"
    /\ \A d \in DOMAIN payload : payload[d] = 0
    /\ part = "batches" /\ outside # {} => \E t \in DOMAIN depends : "o" \in depends[t]
    /\ part = "choice" => left[1]["five_hour"] = 100
    /\ part \notin {"choice", "rate"} => \A a \in DOMAIN left : \A w \in DOMAIN left[a] : left[a][w] = 100

DecisionsNext ==
    /\ UNCHANGED part
    /\ \/ part = "evidence" /\ Next /\ UNCHANGED <<pollvars, schedvars, quotavars, refreshvars, repovars>>
       \/ part = "folder" /\ Folder!Next /\ UNCHANGED <<vars, schedvars, quotavars, refreshvars, repovars>>
       \/ part = "sources" /\ Sources!Next /\ UNCHANGED <<vars, schedvars, quotavars, refreshvars, repovars>>
       \/ part = "batches" /\ Batches!Next /\ UNCHANGED <<vars, pollvars, quotavars, refreshvars, repovars>>
       \/ part = "rate" /\ Rate!Next /\ UNCHANGED <<vars, pollvars, schedvars, refreshvars, repovars>>
       \/ part = "choice" /\ Choice!Next /\ UNCHANGED <<vars, pollvars, schedvars, refreshvars, repovars>>
       \/ part = "refresh" /\ Refresh!Next /\ UNCHANGED <<vars, pollvars, schedvars, quotavars, repovars>>
       \/ part = "repo" /\ Repo!Next /\ UNCHANGED <<vars, pollvars, schedvars, quotavars, refreshvars>>

DecisionsSpec == DecisionsInit /\ [][DecisionsNext]_allvars

(* Each component's variables are typed, and it keeps what its module        *)
(* promises.                                                                 *)

(* Polls (drive_dispatch_ingress.py, github_dispatch_ingress.py): a file in  *)
(* a folder that is cut is read in time; no request vanishes without a       *)
(* record, and the status of a request tells what became of it.              *)
PollsAccount ==
    /\ part = "folder" => Folder!TypeOK /\ Folder!FoundInTime
    /\ part = "sources" => Sources!TypeOK /\ Sources!StatusTruthful /\ Sources!NothingSilent

(* A rejected request was never claimed (dispatch_requests.py:340-346).      *)
RejectedNeverClaimed == part = "sources" => Sources!RejectedNeverClaimed

(* A schedule (scheduler.py): each Task in one batch, beside no Task it      *)
(* conflicts with, after those it depends on, with a provider that may have  *)
(* it; and what is blocked cannot run.                                       *)
PlanSound ==
    part = "batches" =>
        /\ Batches!TypeOK /\ Batches!EachOnce /\ Batches!SideBySide
        /\ Batches!AfterItsDependencies /\ Batches!ProviderMayHaveIt /\ Batches!BlockedTruly

(* The forecast of quota (quota_forecast.py): a rate of one cycle; the       *)
(* account it chooses can be launched, and the choice is one.                *)
ForecastSound ==
    /\ part = "rate" => Rate!TypeOK /\ Rate!BurnOfOneCycle
    /\ part = "choice" =>
          Choice!TypeOK /\ Choice!ChosenCanBeLaunched /\ Choice!ChoiceIsOne /\ Choice!DryOnesLast

(* Refreshes of quota (refresh_status.py): what is published grows, after    *)
(* what is kept locally, from each account's own source; and the history     *)
(* keeps the newest.                                                         *)
RefreshSound ==
    /\ [](Refresh!TypeOK /\ Refresh!RuntimeNotBehind /\ Refresh!OwnNumbers /\ Refresh!HistoryIsNewest)
    /\ Refresh!PublishedNeverOlder

(* A Task that writes its repository (repo_write_enforcement.py): only work  *)
(* in scope is pushed, evidence stays on the remote, what was tested is what *)
(* was pushed, and "no change" means none.                                   *)
WriteEnforced ==
    /\ Repo!TypeOK /\ Repo!EvidenceStays /\ Repo!PushedInScope
    /\ Repo!TestedIsPushed /\ Repo!NoChangeIsNone

(* A retry starts from the admitted baseline, "restores the worktree         *)
(* deterministically" (worktree_materializer.py:228-230).                    *)
RunStartsClean == Repo!RunStartsClean
=============================================================================

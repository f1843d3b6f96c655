---------------------------- MODULE IngressPolls -----------------------------
(***************************************************************************)
(* The bounded polls that find dispatch requests                           *)
(* (manager/drive_dispatch_ingress.py, github_dispatch_ingress.py,         *)
(* github_issue_dispatch_ingress.py) and the rejections they record        *)
(* (manager/dispatch_requests.py).                                         *)
(*                                                                         *)
(* A request is a file that stays where it was written.  A poll reads a    *)
(* bounded number of files: of the Drive folder the newest ones, those of  *)
(* one hour, which the clock picks, and a rotated rest; of the branch a    *)
(* rotated few; of the issues the newest.  What becomes of an admitted     *)
(* request is DispatchIngress.                                             *)
(***************************************************************************)
EXTENDS Naturals, Sequences, FiniteSets, SequencesExt

CONSTANTS
    Files,            \* numbers, in the order of their ids
    Source(_),        \* "drive", "branch" or "issue"
    Body(_),          \* "good", "invalid" (its identity can be read) or "broken"
    Request(_),       \* the request a file names
    HourMinutes,      \* minutes of an hour
    Slices,           \* hours of the rotation, and of the window in which a request is taken
    Recent,           \* newest files of the folder that every poll looks at
    Listed,           \* files of the newest-first listing
    PerHour,          \* files of the hour's query
    MaxReads,         \* downloads of one poll
    MaxMinute,        \* bound of the model: the clock
    MaxFaults         \* bound of the model: rejections that could not be recorded

VARIABLES
    minute,       \* the clock
    written,      \* when each file was written, -1 before
    polled,       \* the sources polled in this minute
    waits,        \* full Drive polls in a row, one each minute, that leave a file unread
    claimed,      \* requests with a claim record
    rejected,     \* rejection records by file, by request, and by request id alone
    lost,         \* files whose rejection could not be recorded
    cuts          \* polls that were cut short

pollvars == <<minute, written, polled, waits, claimed, rejected, lost, cuts>>

Requests == {Request(f) : f \in Files}

Init ==
    /\ minute = 0
    /\ written = [f \in Files |-> 0 - 1]
    /\ polled = {}
    /\ waits = [f \in Files |-> 0]
    /\ claimed = {}
    /\ rejected = [file |-> {}, request |-> {}, id |-> {}]
    /\ lost = {} /\ cuts = 0

There(source) == {f \in Files : Source(f) = source /\ written[f] >= 0}

Age(f) == minute - written[f]
MaxAge == Slices * HourMinutes

Hour(f) == written[f] \div HourMinutes

-----------------------------------------------------------------------------
(* What a poll reads.                                                      *)

NewestFirst(fs) ==
    SetToSortSeq(fs, LAMBDA f, g : written[f] > written[g] \/ (written[f] = written[g] /\ f > g))

First(seq, n) == SubSeq(seq, 1, IF n < Len(seq) THEN n ELSE Len(seq))

Rotated(seq, k) == SubSeq(seq, k + 1, Len(seq)) \o SubSeq(seq, 1, k)

\* A pass: the files it has not met in this poll, as many as its budget, but for those whose
\* time of writing shows that they are too old.
Scan(seq, met, budget) ==
    First(SelectSeq(seq, LAMBDA f : f \notin met /\ Age(f) <= MaxAge + 1), budget)

\* The latest hour whose number falls on the slot of this minute.
HourOfSlot ==
    LET now == minute \div HourMinutes
        slot == minute % Slices
    IN now - ((now + Slices - slot) % Slices)

\* Mutant: the rest of the listing is read before the hour's query.
DriveReadsMutant ==
    LET listing == First(NewestFirst(There("drive")), Listed)
        newest == Scan(First(listing, Recent), {}, Recent)
        met == Range(First(listing, Recent))
        rest == SubSeq(listing, Recent + 1, Len(listing))
        others == IF rest = <<>> THEN <<>>
                  ELSE Scan(Rotated(rest, minute % Len(rest)), met, MaxReads - Len(newest))
        hour == Scan(First(NewestFirst({f \in There("drive") : Hour(f) = HourOfSlot}), PerHour),
                     met \cup Range(others), MaxReads - Len(newest) - Len(others))
    IN newest \o others \o hour

\* The newest, then those of the hour whose turn it is, then the rest of the listing, rotated.
DriveReads ==
    LET listing == First(NewestFirst(There("drive")), Listed)
        newest == Scan(First(listing, Recent), {}, Recent)
        met == Range(First(listing, Recent))
        hour == Scan(First(NewestFirst({f \in There("drive") : Hour(f) = HourOfSlot}), PerHour),
                     met, MaxReads - Len(newest))
        rest == SubSeq(listing, Recent + 1, Len(listing))
        others == IF rest = <<>> THEN <<>>
                  ELSE Scan(Rotated(rest, minute % Len(rest)), met \cup Range(hour),
                            MaxReads - Len(newest) - Len(hour))
    IN newest \o hour \o others

\* The directory is listed by name, and old files are not left out.
BranchReads ==
    LET listing == SetToSortSeq(There("branch"), <)
    IN IF listing = <<>> THEN <<>> ELSE First(Rotated(listing, minute % Len(listing)), MaxReads)

IssueReads == First(NewestFirst(There("issue")), MaxReads)

-----------------------------------------------------------------------------
(* What becomes of the files that are read.                                *)

Taken(f) == Body(f) = "good" /\ Age(f) <= MaxAge

\* A file that is not taken is recorded by its own id, by the request it names if its body
\* can be read, and, on Drive, by its name if it cannot.
Rejected(fs) ==
    [file    |-> rejected.file \cup fs,
     request |-> rejected.request \cup {Request(f) : f \in {g \in fs : Body(g) # "broken"}},
     id      |-> rejected.id \cup
                   {Request(f) : f \in {g \in fs : Body(g) = "broken" /\ Source(g) = "drive"}}]

\* One file cannot keep the others from being read.  A record is made as far as its store answers.
Handle(read) ==
    LET refused == {f \in read : ~Taken(f)}
    IN /\ claimed' = claimed \cup {Request(f) : f \in read \ refused}
       /\ \/ rejected' = Rejected(refused) /\ UNCHANGED lost
          \/ \E f \in refused :
               /\ Cardinality(lost) < MaxFaults
               /\ rejected' = Rejected(refused \ {f}) /\ lost' = lost \cup {f}

\* Files whose request is already known need not be waited for.
Known(f) == Request(f) \in claimed \/ f \in rejected.file \cup lost

Poll(source, reads) ==
    /\ source \notin polled
    /\ Handle(Range(reads))
    /\ polled' = polled \cup {source}
    /\ waits' = [f \in Files |->
         IF source = "drive" /\ f \in There("drive") \ Range(reads) /\ ~Known(f)
         THEN waits[f] + 1 ELSE IF f \in Range(reads) THEN 0 ELSE waits[f]]
    /\ UNCHANGED <<minute, written, cuts>>

\* No new file is begun after the poll's deadline.
PollCut(source, reads) ==
    /\ source \notin polled /\ cuts < MaxFaults
    /\ \E n \in 0 .. Len(reads) - 1 : Handle(Range(First(reads, n)))
    /\ polled' = polled \cup {source} /\ cuts' = cuts + 1
    /\ waits' = IF source = "drive" THEN [f \in Files |-> 0] ELSE waits
    /\ UNCHANGED <<minute, written>>

DrivePoll == Poll("drive", DriveReads) \/ PollCut("drive", DriveReads)
BranchPoll == Poll("branch", BranchReads) \/ PollCut("branch", BranchReads)
IssuePoll == Poll("issue", IssueReads) \/ PollCut("issue", IssueReads)

\* The ids of a source's files say in which order they were written.
WriteFile(f) ==
    /\ written[f] < 0
    /\ \A g \in Files : g < f /\ Source(g) = Source(f) => written[g] >= 0
    /\ written' = [written EXCEPT ![f] = minute]
    /\ UNCHANGED <<minute, polled, waits, claimed, rejected, lost, cuts>>

\* A minute without a full poll of the folder starts the count again.
Minute ==
    /\ minute < MaxMinute
    /\ minute' = minute + 1 /\ polled' = {}
    /\ waits' = IF "drive" \in polled THEN waits ELSE [f \in Files |-> 0]
    /\ UNCHANGED <<written, claimed, rejected, lost, cuts>>

Next == DrivePoll \/ BranchPoll \/ IssuePoll \/ (\E f \in Files : WriteFile(f)) \/ Minute

Spec == Init /\ [][Next]_pollvars

-----------------------------------------------------------------------------
(* What a caller that holds a request id is told.                          *)

\* resolve_dispatch_status_for_request: Task and claim first, then the rejections.
Status(r) ==
    IF r \in claimed THEN "claimed"
    ELSE IF r \in rejected.request \cup rejected.id THEN "rejected" ELSE "unknown"

-----------------------------------------------------------------------------

TypeOK ==
    /\ minute \in 0 .. MaxMinute
    /\ written \in [Files -> {0 - 1} \cup 0 .. MaxMinute]
    /\ claimed \subseteq Requests /\ lost \subseteq Files
    /\ rejected.request \subseteq Requests /\ rejected.file \subseteq Files

\* More files of its hour than one query returns, or than the poll may still read.
Crowded(f) ==
    Cardinality({g \in There("drive") : Hour(g) = Hour(f)}) > PerHour

(* Polled once every minute, the folder gives up each request that can be    *)
(* taken within Slices polls, however many newer files hide it, as long as   *)
(* its hour is not crowded and is one of the last Slices                     *)
(* (drive_dispatch_ingress.py:425-439).                                      *)
FoundInTime ==
    \A f \in There("drive") :
        waits[f] >= Slices => \/ Crowded(f)
                             \/ Age(f) > MaxAge
                             \/ Hour(f) + Slices <= minute \div HourMinutes

(* A request that was admitted is never reported rejected, though its file   *)
(* is read again, and refused, when it has grown old.                        *)
StatusTruthful == \A r \in claimed : Status(r) = "claimed"

(* No file that was read is lost: its request was admitted, or whoever asks  *)
(* for the request is told of the rejection, unless the record could not be  *)
(* made; of the branch's and the issues' unreadable files nothing is told.   *)
NothingSilent ==
    \A f \in rejected.file :
        \/ Status(Request(f)) # "unknown"
        \/ Body(f) = "broken" /\ Source(f) # "drive"

(* "A request rejected before it ever reached the claim registry" is what    *)
(* the mirror of rejections is for.                                          *)
RejectedNeverClaimed == rejected.request \cap claimed = {}
=============================================================================

---------------------------- MODULE QuotaRefresh -----------------------------
(***************************************************************************)
(* The refresh of quota numbers (manager/refresh_status.py), its history   *)
(* (manager/quota_history.py), the Claude collector                        *)
(* (collectors/claude_oauth.py) and the publication of the result          *)
(* (collectors/publish_drive.py).                                          *)
(*                                                                         *)
(* A refresh holds a file lock of its machine, which dies with it.  It     *)
(* takes the document that Drive has, replaces the entries of the accounts *)
(* of which it learns something newer, writes the document here and then   *)
(* publishes it.  The history is a file of its own, read and written again *)
(* at every entry, and an operator prunes or clears it without the lock.   *)
(***************************************************************************)
EXTENDS Naturals, Sequences, FiniteSets, FiniteSetsExt

CONSTANTS
    Workers,      \* refreshes that the scheduled task starts
    Accounts,     \* sequence of the Claude accounts, in the order of the loop
    Dir(_),       \* the directory of an account's credentials
    Keep,         \* snapshots kept of one account
    Retention,    \* age at which a snapshot is dropped
    MaxTime,      \* bound of the model: the clock
    MaxFaults,    \* bound of the model: calls that fail, processes that die
    Free,         \* the lock's holder when there is none
    Absent        \* no document

VARIABLES
    time,
    tokens,       \* what a directory's access token is worth
    payload,      \* when the statusline of a directory last wrote its numbers, 0 for never
    lock,
    at,           \* where each refresh is: "idle", "read", a number in Accounts, "append", ...
    turn,         \* the account it has come to
    doc,          \* its document: for each account [updated, from]
    asked,        \* what each directory has answered it
    drive,        \* the document on Drive
    runtime,      \* the document on this machine
    history,      \* snapshots <<account, time>>
    copy,         \* the history as a refresh or the operator has read it
    recorded,     \* every snapshot that was given to the history, for HistoryIsNewest
    pruned,       \* when the history was last written
    raced,        \* the history was cleared, read in vain, or written by two at once
    faults

refreshvars == <<time, tokens, payload, lock, at, turn, doc, asked, drive, runtime,
                 history, copy, recorded, pruned, raced, faults>>
files == <<drive, runtime>>
store == <<history, recorded, pruned, raced>>

Dirs == {Dir(Accounts[i]) : i \in DOMAIN Accounts}
AccountSet == {Accounts[i] : i \in DOMAIN Accounts}
Operator == "operator"
Nothing == [updated |-> 0, from |-> "none"]
Answers == {"none", "success", "empty", "rate_limited", "unavailable"}

Init ==
    /\ time = 2
    /\ tokens = [d \in Dirs |-> "good"]
    /\ payload \in [Dirs -> {0, 1}]
    /\ lock = Free
    /\ at = [w \in Workers |-> "idle"]
    /\ turn = [w \in Workers |-> 1]
    /\ doc = [w \in Workers |-> Absent]
    /\ asked = [w \in Workers |-> [d \in Dirs |-> "none"]]
    /\ drive = [a \in AccountSet |-> Nothing]
    /\ runtime = Absent
    /\ history = {} /\ recorded = {} /\ pruned = 2 /\ raced = FALSE
    /\ copy = [w \in Workers \cup {Operator} |-> Absent]
    /\ faults = 0

Fault == faults < MaxFaults /\ faults' = faults + 1

-----------------------------------------------------------------------------
(* The history.                                                            *)

OfAccount(snaps, a) == {s \in snaps : s[1] = a}

\* The newest Keep of each account that are not too old.  A time occurs once.
Prune(snaps) ==
    {s \in snaps : s[2] + Retention >= time /\
        Cardinality({o \in OfAccount(snaps, s[1]) : o[2] > s[2]}) < Keep}

-----------------------------------------------------------------------------
(* What an account's directory answers (collectors/claude_oauth.py).       *)

\* The usage endpoint, with the token as it is now.
Usage(token) ==
    IF token = "good" THEN {"success"} \cup (IF faults < MaxFaults THEN {"empty", "rate_limited", "unavailable"} ELSE {})
    ELSE {"unavailable"}

\* A token that is out of date is renewed by the CLI, once, and the endpoint asked again only if
\* the credentials on disk have changed.
Collect(d, answer, token) ==
    CASE tokens[d] = "good" -> token = "good" /\ answer \in Usage("good")
      [] tokens[d] = "missing" -> token = "missing" /\ answer = "unavailable"
      [] OTHER -> \/ token = "good" /\ answer \in Usage("good")
                  \/ token = tokens[d] /\ answer = "unavailable"

\* A directory is asked once in a refresh, whichever accounts it serves.
Ask(w, d, answer, token) ==
    IF asked[w][d] # "none" THEN answer = asked[w][d] /\ token = tokens[d]
    ELSE Collect(d, answer, token)

-----------------------------------------------------------------------------
(* A refresh.                                                              *)

Moves(w, to) == at' = [at EXCEPT ![w] = to]

\* Mutant: the lock is not looked at.
StartMutant(w) ==
    /\ at[w] = "idle"
    /\ lock' = w
    /\ Moves(w, "read")
    /\ UNCHANGED <<time, tokens, payload, turn, doc, asked, files, store, copy, faults>>

\* Whoever finds the lock taken gives up.
Start(w) ==
    /\ at[w] = "idle" /\ lock = Free
    /\ lock' = w
    /\ Moves(w, "read")
    /\ UNCHANGED <<time, tokens, payload, turn, doc, asked, files, store, copy, faults>>

\* The end of a refresh, and of its process: nothing of what it had in memory is left.
Ends(w) ==
    /\ lock' = (IF lock = w THEN Free ELSE lock)
    /\ Moves(w, "idle")
    /\ turn' = [turn EXCEPT ![w] = 1]
    /\ doc' = [doc EXCEPT ![w] = Absent]
    /\ asked' = [asked EXCEPT ![w] = [d \in Dirs |-> "none"]]
    /\ copy' = [copy EXCEPT ![w] = Absent]

ReadDrive(w) ==
    /\ at[w] = "read"
    /\ doc' = [doc EXCEPT ![w] = drive]
    /\ Moves(w, "collect")
    /\ UNCHANGED <<time, tokens, payload, lock, turn, asked, files, store, copy, faults>>

\* The entry of the account whose turn it is, if the answer has something newer.
Learned(w, answer) ==
    LET d == Dir(Accounts[turn[w]])
    IN CASE answer = "success" -> [updated |-> time, from |-> d]
         [] answer = "unavailable" -> [updated |-> payload[d], from |-> d]
         [] OTHER -> Nothing

Newer(new, old) == new.updated > old.updated

\* A directory that could not answer leaves the word to the statusline's file; one that limits
\* the rate leaves the entry as it is.
CollectAccount(w) ==
    /\ at[w] = "collect" /\ turn[w] <= Len(Accounts)
    /\ LET a == Accounts[turn[w]]
           d == Dir(a)
       IN \E answer \in Answers \ {"none"}, token \in {"good", "stale", "missing"} :
            /\ Ask(w, d, answer, token)
            /\ asked' = [asked EXCEPT ![w][d] = answer]
            /\ tokens' = [tokens EXCEPT ![d] = token]
            /\ faults' = (IF asked[w][d] = "none" /\ tokens'[d] = "good" /\ answer # "success"
                          THEN faults + 1 ELSE faults)
            /\ IF answer # "rate_limited" /\ Newer(Learned(w, answer), doc[w][a])
               THEN /\ doc' = [doc EXCEPT ![w][a] = Learned(w, answer)]
                    /\ Moves(w, "load") /\ UNCHANGED turn
               ELSE /\ turn' = [turn EXCEPT ![w] = @ + 1]
                    /\ UNCHANGED <<doc, at>>
    /\ UNCHANGED <<time, payload, lock, files, store, copy>>

\* A history that cannot be read counts as an empty one.
LoadHistory(w) ==
    /\ at[w] = "load"
    /\ \/ copy' = [copy EXCEPT ![w] = history] /\ UNCHANGED <<raced, faults>>
       \/ Fault /\ copy' = [copy EXCEPT ![w] = {}] /\ raced' = TRUE
    /\ Moves(w, "append")
    /\ UNCHANGED <<time, tokens, payload, lock, turn, doc, asked, files, history, recorded, pruned>>

Snapshot(w) == <<Accounts[turn[w]], doc[w][Accounts[turn[w]]].updated>>

\* The file is replaced in one step; if that fails the refresh goes on.
SaveHistory(w) ==
    /\ at[w] = "append"
    /\ \/ /\ history' = Prune(copy[w] \cup {Snapshot(w)})
          /\ recorded' = recorded \cup {Snapshot(w)}
          /\ pruned' = time
          /\ raced' = (raced \/ copy[w] # history)
          /\ UNCHANGED faults
       \/ Fault /\ UNCHANGED store
    /\ copy' = [copy EXCEPT ![w] = Absent]
    /\ turn' = [turn EXCEPT ![w] = @ + 1]
    /\ Moves(w, "collect")
    /\ UNCHANGED <<time, tokens, payload, lock, doc, asked, files>>

WriteRuntime(w) ==
    /\ at[w] = "collect" /\ turn[w] > Len(Accounts)
    /\ runtime' = doc[w]
    /\ Moves(w, "publish")
    /\ UNCHANGED <<time, tokens, payload, lock, turn, doc, asked, drive, store, copy, faults>>

\* A publication that is not confirmed may have been written.
Publish(w) ==
    /\ at[w] = "publish"
    /\ \/ drive' = doc[w] /\ UNCHANGED faults
       \/ Fault /\ (drive' = doc[w] \/ UNCHANGED drive)
    /\ Ends(w)
    /\ UNCHANGED <<time, tokens, payload, runtime, store>>

\* Drive cannot be read, the document is not valid, the process is killed.
Dies(w) ==
    /\ at[w] # "idle"
    /\ Fault
    /\ Ends(w)
    /\ UNCHANGED <<time, tokens, payload, files, store>>

-----------------------------------------------------------------------------
(* The operator, and the world.                                            *)

OperatorLoads ==
    /\ copy[Operator] = Absent /\ faults < MaxFaults
    /\ copy' = [copy EXCEPT ![Operator] = history]
    /\ UNCHANGED <<time, tokens, payload, lock, at, turn, doc, asked, files, store, faults>>

\* --prune
OperatorSaves ==
    /\ copy[Operator] # Absent
    /\ Fault
    /\ history' = Prune(copy[Operator]) /\ pruned' = time
    /\ raced' = (raced \/ copy[Operator] # history)
    /\ copy' = [copy EXCEPT ![Operator] = Absent]
    /\ UNCHANGED <<time, tokens, payload, lock, at, turn, doc, asked, files, recorded>>

OperatorClears ==
    /\ Fault
    /\ history' = {} /\ pruned' = time /\ raced' = TRUE
    /\ UNCHANGED <<time, tokens, payload, lock, at, turn, doc, asked, files, copy, recorded>>

Clock ==
    /\ time < MaxTime /\ time' = time + 1
    /\ UNCHANGED <<tokens, payload, lock, at, turn, doc, asked, files, store, copy, faults>>

Statusline(d) ==
    /\ payload[d] < time
    /\ payload' = [payload EXCEPT ![d] = time]
    /\ UNCHANGED <<time, tokens, lock, at, turn, doc, asked, files, store, copy, faults>>

TokenAges(d) ==
    /\ tokens[d] = "good"
    /\ Fault
    /\ \E token \in {"stale", "missing"} : tokens' = [tokens EXCEPT ![d] = token]
    /\ UNCHANGED <<time, payload, lock, at, turn, doc, asked, files, store, copy>>

Worker(w) ==
    \/ ReadDrive(w) \/ CollectAccount(w) \/ LoadHistory(w) \/ SaveHistory(w)
    \/ WriteRuntime(w) \/ Publish(w)

Next ==
    \/ \E w \in Workers : Start(w) \/ Worker(w) \/ Dies(w)
    \/ OperatorLoads \/ OperatorSaves \/ OperatorClears
    \/ Clock \/ \E d \in Dirs : Statusline(d) \/ TokenAges(d)

Spec == Init /\ [][Next]_refreshvars

-----------------------------------------------------------------------------

Entries == [updated : 0 .. MaxTime, from : Dirs \cup {"none"}]
Documents == [AccountSet -> Entries]

TypeOK ==
    /\ time \in 2 .. MaxTime /\ pruned \in 2 .. MaxTime /\ faults \in 0 .. MaxFaults
    /\ lock \in Workers \cup {Free}
    /\ at \in [Workers -> {"idle", "read", "collect", "load", "append", "publish"}]
    /\ turn \in [Workers -> 1 .. Len(Accounts) + 1]
    /\ drive \in Documents /\ runtime \in Documents \cup {Absent}
    /\ history \subseteq AccountSet \X (1 .. MaxTime)
    /\ asked \in [Workers -> [Dirs -> Answers]]

(* Two refreshes never publish over each other: an entry of the document on  *)
(* Drive never becomes older, whichever of them fail or die on their way     *)
(* (refresh_status.py:41-71 and :258-300).                                   *)
PublishedNeverOlder ==
    [][\A a \in DOMAIN drive : drive'[a].updated >= drive[a].updated]_refreshvars

(* What Drive says was written on this machine first: no publication, even   *)
(* one that was not confirmed, is ahead of the local document.               *)
RuntimeNotBehind ==
    \A a \in AccountSet :
        drive[a] # Nothing => runtime # Absent /\ runtime[a].updated >= drive[a].updated

(* An account's numbers come from its own directory, though accounts share   *)
(* directories and their answers (refresh_status.py:220-243).                *)
OwnNumbers ==
    \A a \in AccountSet :
        /\ drive[a].from \in {Dir(a), "none"}
        /\ \A w \in Workers : doc[w] # Absent => doc[w][a].from \in {Dir(a), "none"}

(* Pruned again and again, in whatever order snapshots came, the history is  *)
(* what one pruning of everything recorded would have left.                  *)
HistoryIsNewest ==
    raced \/ history =
        {s \in recorded : s[2] + Retention >= pruned /\
            Cardinality({o \in OfAccount(recorded, s[1]) : o[2] > s[2]}) < Keep}
=============================================================================

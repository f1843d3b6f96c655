---------------------------- MODULE Phase1Cursor ----------------------------
(***************************************************************************)
(* The durable Phase-1 cursor (manager/phase1_cursor.py), the file that    *)
(* carries the fair rotation of the Command poll from tick to tick.        *)
(*                                                                         *)
(* A tick loads the cursor, does its work and saves it by compare-and-swap *)
(* on the generation it loaded.  An amendment renames the file to a claim  *)
(* of its own, re-reads it there and publishes the successor under the     *)
(* vacant name; a first boot records its intention, creates the file and   *)
(* commits the record.  The file system's rename, link and unlink are      *)
(* single steps; a crash, an I/O error or a program that ignores the       *)
(* protocol may come between any two of them.                              *)
(***************************************************************************)
EXTENDS Naturals, FiniteSets

CONSTANTS
    Writers,          \* Command watcher processes
    Projects,         \* projects the cursor keeps a counter for
    Serialised,       \* does the platform have file locks?
    ForeignGens,      \* generations a foreign program may install
    MaxGeneration,    \* no tick starts on a cursor of this generation (bound of the model)
    MaxCount,         \* largest counter value (bound of the model)
    MaxCrashes,       \* crashes of writers
    MaxErrors,        \* I/O errors and lock timeouts
    MaxForeign        \* acts of programs that ignore the protocol

ASSUME CursorBounds ==
    /\ "none" \notin Writers
    /\ MaxGeneration \in Nat \ {0} /\ MaxCount \in Nat \ {0}
    /\ ForeignGens \subseteq Nat
    /\ {MaxCrashes, MaxErrors, MaxForeign} \subseteq Nat

Counters == [Projects -> 0 .. MaxCount]

Zero == [p \in Projects |-> 0]

Absent == [id |-> 0, sound |-> FALSE, generation |-> 0, counters |-> Zero]

CreateOnly == [create |-> TRUE, generation |-> 0]

Amend(g) == [create |-> FALSE, generation |-> g]

VARIABLES
    cursor,     \* the file under the canonical name, or Absent
    claims,     \* custody claims: the writer that took one and the file under its name
    record,     \* the initialization record
    lock,       \* the writer that holds the mutation lock, or "none"
    my,         \* my[w]: the tick writer w is in
    ack,        \* the generation and counters the protocol stands for
    bases,      \* for each successful save the file it replaced (0: none) and the one it made
    raced,      \* a foreign act fell between a look at the cursor and an unlink it decided
    serial,     \* identity of the last file made
    crashes, errors, foreign

faults == <<crashes, errors, foreign>>
vars == <<cursor, claims, record, lock, my, ack, bases, raced, serial, faults>>

NoClaim == [by |-> "none", file |-> Absent]

IdleTick == [pc |-> "idle", token |-> CreateOnly, counters |-> Zero, read |-> Absent,
             claim |-> NoClaim, state |-> "none", seen |-> {}, candidate |-> FALSE]

InSave == {"judge", "weigh", "retire", "firstBoot", "prepare", "create", "commit", "compare",
           "discard", "readRecord", "read", "bind", "fence", "custody", "verify", "publish",
           "tidy", "putBack", "putBackDrop"}

\* Steps between the look at the cursor and the unlink it decided.
Unlinking == {"weigh", "retire", "discard", "tidy", "putBackDrop"}

Now(w, pc) == my' = [my EXCEPT ![w].pc = pc]

OnDisk == ({cursor} \ {Absent}) \cup {c.file : c \in claims}

\* What the protocol answers for: nothing before a committed initialization.
NoAck == [generation |-> 0, counters |-> Zero]

Larger(m, n) == IF m > n THEN m ELSE n

Vouch(file) ==
    ack' = [generation |-> Larger(file.generation, ack.generation),
            counters |-> [p \in Projects |-> Larger(file.counters[p], ack.counters[p])]]

-----------------------------------------------------------------------------
(* Leaving a save: its lock goes, on an error as on success.               *)

Leave(w) ==
    /\ my' = [my EXCEPT ![w] = [IdleTick EXCEPT !.candidate = my[w].candidate]]
    /\ lock' = IF lock = w THEN "none" ELSE lock

\* An error before anything is changed.
Refuse(w) == Leave(w) /\ UNCHANGED <<cursor, claims, record, ack, bases, raced, serial, faults>>

-----------------------------------------------------------------------------
(* A tick of the Command watcher up to its save.                           *)

\* Load the cursor: its generation is the permit to amend it.
LoadCursor(w) ==
    /\ my[w].pc = "idle"
    /\ cursor # Absent /\ cursor.generation < MaxGeneration
    /\ IF cursor.sound
       THEN \E p \in Projects :
              /\ cursor.counters[p] < MaxCount
              /\ my' = [my EXCEPT ![w].pc = "save", ![w].token = Amend(cursor.generation),
                                  ![w].counters = [cursor.counters EXCEPT ![p] = @ + 1]]
       ELSE UNCHANGED my    \* unusable: the tick persists nothing
    /\ UNCHANGED <<cursor, claims, record, lock, ack, bases, raced, serial, faults>>

\* No cursor: a permit to create one, if this is provably a first boot.
LookForFirstBoot(w) ==
    /\ my[w].pc = "idle" /\ cursor = Absent
    /\ Now(w, "proof")
    /\ UNCHANGED <<cursor, claims, record, lock, ack, bases, raced, serial, faults>>

ProveFirstBoot(w) ==
    /\ my[w].pc = "proof"
    /\ \/ /\ cursor = Absent /\ claims = {} /\ record \in {"none", "prepared"}
          /\ \E p \in Projects :
               my' = [my EXCEPT ![w].pc = "save", ![w].token = CreateOnly,
                                ![w].counters = [Zero EXCEPT ![p] = 1]]
       \/ /\ cursor # Absent \/ claims # {} \/ record \in {"committed", "invalid"}
          /\ Now(w, "idle")
    /\ UNCHANGED <<cursor, claims, record, lock, ack, bases, raced, serial, faults>>

\* The save takes the lock and sweeps the candidates of every transaction.
TakeLock(w) ==
    /\ my[w].pc = "save"
    /\ Serialised => lock = "none"
    /\ lock' = IF Serialised THEN w ELSE lock
    /\ my' = [v \in Writers |-> [my[v] EXCEPT !.pc = IF v = w THEN "judge" ELSE @,
                                              !.candidate = FALSE]]
    /\ UNCHANGED <<cursor, claims, record, ack, bases, raced, serial, faults>>

LockTimesOut(w) ==
    /\ my[w].pc = "save" /\ lock \notin {"none", w}
    /\ errors > 0 /\ errors' = errors - 1
    /\ Leave(w)
    /\ UNCHANGED <<cursor, claims, record, ack, bases, raced, serial, crashes, foreign>>

-----------------------------------------------------------------------------
(* Claims left by interrupted transactions.                                *)

AfterClaims(w) == IF my[w].token = CreateOnly THEN "firstBoot" ELSE "readRecord"

Judge(w) ==
    /\ my[w].pc = "judge"
    /\ \/ claims = {} /\ Now(w, AfterClaims(w))
             /\ UNCHANGED <<cursor, claims, record, lock, ack, bases, raced, serial, faults>>
       \/ claims # {} /\ cursor.sound
             /\ my' = [my EXCEPT ![w].pc = "weigh", ![w].read = cursor, ![w].seen = claims]
             /\ UNCHANGED <<cursor, claims, record, lock, ack, bases, raced, serial, faults>>
       \/ claims # {} /\ ~cursor.sound /\ Refuse(w)

RedundantMutant(held, current) ==
    held.id = current.id \/ held.generation < current.generation

\* Is every fact of the claim carried by the cursor?
Redundant(held, current) ==
    \/ held.id = current.id
    \/ /\ held.generation < current.generation
       /\ \A p \in Projects : held.counters[p] <= current.counters[p]

\* Compare one claim with the cursor read before.
Weigh(w) ==
    /\ my[w].pc = "weigh"
    /\ \/ my[w].seen = {}
             /\ my' = [my EXCEPT ![w].pc = AfterClaims(w), ![w].read = Absent]
             /\ UNCHANGED <<cursor, claims, record, lock, ack, bases, raced, serial, faults>>
       \/ \E c \in my[w].seen :
            IF c \notin claims    \* gone with the transaction that owned it
            THEN /\ my' = [my EXCEPT ![w].seen = @ \ {c}]
                 /\ UNCHANGED <<cursor, claims, record, lock, ack, bases, raced, serial, faults>>
            ELSE IF c.file.sound /\ Redundant(c.file, my[w].read)
            THEN /\ my' = [my EXCEPT ![w].pc = "retire", ![w].claim = c,
                                     ![w].seen = @ \ {c}]
                 /\ UNCHANGED <<cursor, claims, record, lock, ack, bases, raced, serial, faults>>
            ELSE Refuse(w)

Retire(w) ==
    /\ my[w].pc = "retire"
    /\ claims' = claims \ {my[w].claim}
    /\ my' = [my EXCEPT ![w].pc = "weigh", ![w].claim = NoClaim]
    /\ UNCHANGED <<cursor, record, lock, ack, bases, raced, serial, faults>>

-----------------------------------------------------------------------------
(* The first boot: PREPARE, create, COMMIT.                                *)

NewFile(generation, counters) ==
    [id |-> serial + 1, sound |-> TRUE, generation |-> generation, counters |-> counters]

FirstBootWedgesMutant(w) ==
    /\ my[w].pc = "firstBoot"
    /\ IF cursor = Absent /\ record = "none"
       THEN /\ my' = [my EXCEPT ![w].pc = "prepare", ![w].state = record]
            /\ UNCHANGED <<cursor, claims, record, lock, ack, bases, raced, serial, faults>>
       ELSE Refuse(w)

FirstBoot(w) ==
    /\ my[w].pc = "firstBoot"
    /\ IF cursor = Absent /\ record \in {"none", "prepared"}
       THEN /\ my' = [my EXCEPT ![w].pc = "prepare", ![w].state = record]
            /\ UNCHANGED <<cursor, claims, record, lock, ack, bases, raced, serial, faults>>
       ELSE Refuse(w)

Prepare(w) ==
    /\ my[w].pc = "prepare"
    /\ record' = IF my[w].state = "prepared" THEN record ELSE "prepared"
    /\ my' = [my EXCEPT ![w].pc = "create", ![w].candidate = TRUE]
    /\ UNCHANGED <<cursor, claims, lock, ack, bases, raced, serial, faults>>

\* Publication under a vacant name only; a candidate another writer swept is an error.
Create(w) ==
    /\ my[w].pc = "create"
    /\ IF cursor = Absent /\ my[w].candidate
       THEN /\ cursor' = NewFile(1, my[w].counters)
            /\ serial' = serial + 1
            /\ my' = [my EXCEPT ![w].pc = "commit", ![w].candidate = FALSE,
                                ![w].claim = [by |-> w, file |-> cursor']]
            /\ UNCHANGED <<claims, record, lock, ack, bases, raced, faults>>
       ELSE Refuse(w)

Commit(w) ==
    /\ my[w].pc = "commit"
    /\ record # "invalid"
    /\ record' = "committed"
    /\ IF cursor = my[w].claim.file THEN Vouch(cursor) ELSE UNCHANGED ack
    /\ bases' = bases \cup {<<0, my[w].claim.file.id>>}
    /\ Leave(w)
    /\ UNCHANGED <<cursor, claims, raced, serial, faults>>

\* The record cannot be committed: the creation is rolled back by identity.
CommitFails(w) ==
    /\ my[w].pc = "commit"
    /\ \/ errors > 0 /\ errors' = errors - 1
       \/ record = "invalid" /\ UNCHANGED errors
    /\ Now(w, "compare")
    /\ UNCHANGED <<cursor, claims, record, lock, ack, bases, raced, serial, crashes, foreign>>

Compare(w) ==
    /\ my[w].pc = "compare"
    /\ IF cursor = my[w].claim.file
       THEN /\ Now(w, "discard")
            /\ UNCHANGED <<cursor, claims, record, lock, ack, bases, raced, serial, faults>>
       ELSE Refuse(w)

\* The unlink goes by name: whatever the name denotes by now is removed.
Discard(w) ==
    /\ my[w].pc = "discard"
    /\ cursor' = Absent
    /\ Leave(w)
    /\ UNCHANGED <<claims, record, ack, bases, raced, serial, faults>>

-----------------------------------------------------------------------------
(* An amendment: compare, fence, custody, publication.                     *)

ReadRecord(w) ==
    /\ my[w].pc = "readRecord"
    /\ IF record # "invalid"
       THEN /\ my' = [my EXCEPT ![w].pc = "read", ![w].state = record]
            /\ UNCHANGED <<cursor, claims, record, lock, ack, bases, raced, serial, faults>>
       ELSE Refuse(w)

Read(w) ==
    /\ my[w].pc = "read"
    /\ IF cursor.sound /\ cursor.generation = my[w].token.generation
       THEN /\ Now(w, "bind")
            /\ UNCHANGED <<cursor, claims, record, lock, ack, bases, raced, serial, faults>>
       ELSE Refuse(w)

\* The fingerprint is taken by a second read of the file.
Bind(w) ==
    /\ my[w].pc = "bind"
    /\ IF cursor # Absent
       THEN /\ my' = [my EXCEPT ![w].pc = "fence", ![w].read = cursor]
            /\ UNCHANGED <<cursor, claims, record, lock, ack, bases, raced, serial, faults>>
       ELSE Refuse(w)

\* A cursor older than its record is committed before it leaves its name.
Fence(w) ==
    /\ my[w].pc = "fence"
    /\ IF my[w].state # "committed" /\ record = "invalid"
       THEN Refuse(w)
       ELSE /\ record' = IF my[w].state = "committed" THEN record ELSE "committed"
            /\ IF cursor # Absent THEN Vouch(cursor) ELSE UNCHANGED ack
            /\ Now(w, "custody")
            /\ UNCHANGED <<cursor, claims, lock, bases, raced, serial, faults>>

TakeCustody(w) ==
    /\ my[w].pc = "custody"
    /\ IF cursor # Absent
       THEN /\ my' = [my EXCEPT ![w].pc = "verify", ![w].claim = [by |-> w, file |-> cursor]]
            /\ claims' = claims \cup {my'[w].claim}
            /\ cursor' = Absent
            /\ UNCHANGED <<record, lock, ack, bases, raced, serial, faults>>
       ELSE Refuse(w)

\* Re-read the file in custody; the candidate is built from that reading.
Verify(w) ==
    /\ my[w].pc = "verify"
    /\ IF /\ my[w].claim \in claims /\ my[w].claim.file = my[w].read
          /\ my[w].claim.file.sound
          /\ my[w].claim.file.generation = my[w].token.generation
       THEN my' = [my EXCEPT ![w].pc = "publish", ![w].candidate = TRUE]
       ELSE Now(w, "putBack")
    /\ UNCHANGED <<cursor, claims, record, lock, ack, bases, raced, serial, faults>>

\* The counters the tick knows, over those of the file in custody.
Merged(known, held) == [p \in Projects |-> IF known[p] # 0 THEN known[p] ELSE held[p]]

Successor(w) ==
    NewFile(my[w].claim.file.generation + 1,
            Merged(my[w].counters, my[w].claim.file.counters))

Publish(w) ==
    /\ my[w].pc = "publish"
    /\ IF cursor = Absent /\ my[w].candidate
       THEN /\ cursor' = Successor(w)
            /\ serial' = serial + 1
            /\ Vouch(cursor')
            /\ bases' = bases \cup {<<my[w].claim.file.id, serial'>>}
            /\ my' = [my EXCEPT ![w].pc = "tidy", ![w].candidate = FALSE]
       ELSE Now(w, "putBack") /\ UNCHANGED <<cursor, serial, ack, bases>>
    /\ UNCHANGED <<claims, record, lock, raced, faults>>

\* The claim is redundant now; failing to unlink it is not an error.
Tidy(w) ==
    /\ my[w].pc = "tidy"
    /\ \/ claims' = claims \ {my[w].claim} /\ UNCHANGED errors
       \/ errors > 0 /\ errors' = errors - 1 /\ UNCHANGED claims
    /\ Leave(w)
    /\ UNCHANGED <<cursor, record, ack, bases, raced, serial, crashes, foreign>>

PutBackMutant(w) ==
    /\ my[w].pc = "putBack"
    /\ IF my[w].claim \in claims
       THEN /\ cursor' = my[w].claim.file
            /\ Now(w, "putBackDrop")
            /\ UNCHANGED <<claims, record, lock, ack, bases, raced, serial, faults>>
       ELSE Refuse(w)

\* A failed transaction gives the file its name back if that is vacant.
PutBack(w) ==
    /\ my[w].pc = "putBack"
    /\ IF my[w].claim \in claims /\ cursor = Absent
       THEN /\ cursor' = my[w].claim.file
            /\ Now(w, "putBackDrop")
            /\ UNCHANGED <<claims, record, lock, ack, bases, raced, serial, faults>>
       ELSE Refuse(w)

PutBackDrop(w) ==
    /\ my[w].pc = "putBackDrop"
    /\ claims' = claims \ {my[w].claim}
    /\ Leave(w)
    /\ UNCHANGED <<cursor, record, ack, bases, raced, serial, faults>>

-----------------------------------------------------------------------------
(* The environment.                                                        *)

\* An I/O error before custody changes nothing; in custody the file is put back.
Error(w) ==
    /\ errors > 0 /\ errors' = errors - 1
    /\ \/ /\ my[w].pc \in {"judge", "weigh", "retire", "firstBoot", "prepare", "create",
                            "readRecord", "read", "bind", "fence", "custody", "putBack"}
          /\ Leave(w)
       \/ my[w].pc \in {"verify", "publish"} /\ Now(w, "putBack") /\ UNCHANGED lock
    /\ UNCHANGED <<cursor, claims, record, ack, bases, raced, serial, crashes, foreign>>

\* The system drops the lock of a process that exits.
Crash(w) ==
    /\ crashes > 0 /\ crashes' = crashes - 1
    /\ my[w].pc # "idle"
    /\ Leave(w)
    /\ UNCHANGED <<cursor, claims, record, ack, bases, raced, serial, errors, foreign>>

Least(numbers) == CHOOSE n \in numbers : \A m \in numbers : n <= m

\* From here on the protocol answers for what the foreign act left on disk: the projects of
\* the cursor and of the claims, and the generation of the cursor, or what a claim may put back.
Foreign ==
    /\ foreign > 0 /\ foreign' = foreign - 1
    /\ raced' = (raced \/ \E w \in Writers : my[w].pc \in Unlinking)
    /\ ack' = IF ack = NoAck THEN ack
              ELSE [generation |-> IF cursor'.sound THEN cursor'.generation
                                   ELSE IF claims = {} THEN ack.generation
                                   ELSE Least({c.file.generation : c \in claims}),
                    counters |-> [p \in Projects |->
                        IF \E f \in {cursor'} \cup {c.file : c \in claims} : f.counters[p] > 0
                        THEN 1 ELSE 0]]
    /\ UNCHANGED <<claims, lock, my, bases, crashes, errors>>

Install ==
    /\ \E g \in ForeignGens, p \in Projects :
         cursor' \in {NewFile(g, [Zero EXCEPT ![p] = MaxCount]),
                     [Absent EXCEPT !.id = serial + 1]}
    /\ serial' = serial + 1
    /\ UNCHANGED record
    /\ Foreign

Lose ==
    /\ cursor # Absent /\ cursor' = Absent
    /\ UNCHANGED <<record, serial>>
    /\ Foreign

CorruptRecord ==
    /\ record \in {"prepared", "committed"} /\ record' = "invalid"
    /\ UNCHANGED <<cursor, serial>>
    /\ Foreign

-----------------------------------------------------------------------------

Step(w) ==
    \/ LookForFirstBoot(w) \/ ProveFirstBoot(w) \/ TakeLock(w)
    \/ Judge(w) \/ Weigh(w) \/ Retire(w)
    \/ FirstBoot(w) \/ Prepare(w) \/ Create(w) \/ Commit(w) \/ Compare(w) \/ Discard(w)
    \/ ReadRecord(w) \/ Read(w) \/ Bind(w) \/ Fence(w) \/ TakeCustody(w)
    \/ Verify(w) \/ Publish(w) \/ PutBack(w) \/ PutBackDrop(w)

\* A fresh home, a cursor older than its record, a live one, and a lost one.
Init ==
    /\ \E p \in Projects :
         cursor \in {Absent, [id |-> 1, sound |-> TRUE, generation |-> 2,
                             counters |-> [Zero EXCEPT ![p] = 1]]}
    /\ serial = 1
    /\ record \in {"none", "committed"}
    /\ ack = [generation |-> IF record = "committed" THEN cursor.generation ELSE 0,
              counters |-> IF record = "committed" THEN cursor.counters ELSE Zero]
    /\ claims = {} /\ lock = "none"
    /\ my = [w \in Writers |-> IdleTick]
    /\ bases = {} /\ raced = FALSE
    /\ crashes = MaxCrashes /\ errors = MaxErrors /\ foreign = MaxForeign

Next ==
    \/ \E w \in Writers :
         \/ Step(w) \/ LoadCursor(w) \/ Tidy(w)
         \/ CommitFails(w) \/ LockTimesOut(w) \/ Error(w) \/ Crash(w)
    \/ Install \/ Lose \/ CorruptRecord

Spec == Init /\ [][Next]_vars

\* The scheduler runs a watcher tick again and again, and a tick ends.
FairSpec ==
    /\ Spec
    /\ \A w \in Writers :
         WF_vars(Step(w) \/ LoadCursor(w) \/ Tidy(w) \/ CommitFails(w))

-----------------------------------------------------------------------------

Files == [id : Nat, sound : BOOLEAN, generation : Nat, counters : Counters]
Custody == [by : Writers, file : Files]

TypeOK ==
    /\ cursor \in Files /\ claims \subseteq Custody
    /\ record \in {"none", "prepared", "committed", "invalid"}
    /\ lock \in Writers \cup {"none"}
    /\ my \in [Writers -> [pc : InSave \cup {"idle", "proof", "save"},
                           token : [create : BOOLEAN, generation : Nat], counters : Counters,
                           read : Files, claim : Custody \cup {NoClaim},
                           state : {"none", "prepared", "committed", "invalid"},
                           seen : SUBSET Custody, candidate : BOOLEAN]]
    /\ ack \in [generation : Nat, counters : Counters]
    /\ bases \subseteq Nat \X Nat /\ serial \in Nat \ {0} /\ raced \in BOOLEAN
    /\ crashes \in 0 .. MaxCrashes /\ errors \in 0 .. MaxErrors /\ foreign \in 0 .. MaxForeign

\* The counter of p the protocol answers for: after a foreign act, that there is one.
Owed(p) == IF foreign = MaxForeign THEN ack.counters[p] ELSE 1

Kept(files) ==
    \A p \in Projects : ack.counters[p] > 0 => \E f \in files : f.counters[p] >= Owed(p)

(* Whatever fails or crashes between two steps, each project the protocol    *)
(* stands for is on disk, in the cursor or in a claim, and, as long as no    *)
(* foreign cursor was installed, with a counter at least as advanced: "the   *)
(* last durable copy" is never deleted.  A foreign write between a look at   *)
(* the cursor and the unlink it decides is excepted: the unlink goes by name. *)
NothingLost == ~raced => Kept(OnDisk)

(* Two saves that succeed never replaced the same file, and a cursor is      *)
(* created once: the save is a compare-and-swap even across put-backs.       *)
OneWinner ==
    \A b, c \in bases : b[1] = c[1] => b = c

(* No step of the protocol puts a file under the canonical name that is      *)
(* older than what the protocol already stood for: neither a stale writer    *)
(* nor a false first boot sets the rotation back.                            *)
GenerationsRise ==
    [][(foreign' = foreign /\ cursor' # cursor /\ cursor'.sound)
            => cursor'.generation >= ack.generation]_vars

(* What a save is sure of, step by step: with file locks it is the only one   *)
(* in its transaction, and only foreign acts come between its steps.         *)
Alone == \A w \in Writers : my[w].pc \in InSave => lock = w

\* One file for each identity and generation, and none that was ever replaced.
FilesFit ==
    /\ cursor.id = 0 <=> cursor = Absent
    /\ ~Absent \in {c.file : c \in claims}
    /\ \A f \in OnDisk : f.id \in 1 .. serial
    /\ \A f, g \in OnDisk : f.id = g.id => f = g
    /\ foreign = MaxForeign =>
         /\ \A f \in OnDisk : f.sound /\ f.generation > 0
         /\ \A f, g \in OnDisk : f.generation = g.generation => f = g
    /\ cursor.sound => cursor.generation >= ack.generation
    /\ raced => foreign < MaxForeign
    /\ \A b \in bases : b[1] <= serial /\ (cursor # Absent => b[1] # cursor.id)
    /\ record \in {"none", "prepared"} => ack = NoAck /\ \A b \in bases : b[1] # 0

Creating == {"prepare", "create", "commit", "compare", "discard"}
Amending == {"readRecord", "read", "bind", "fence", "custody"}
Holding == {"verify", "publish", "putBack"}

\* f carries what g carries.
Carries(f, g) ==
    \A p \in Projects :
        IF foreign = MaxForeign THEN f.counters[p] >= g.counters[p]
        ELSE g.counters[p] > 0 => f.counters[p] > 0

SaveFits(w) ==
    LET file == my[w].claim.file
        pc == my[w].pc
    IN  /\ pc = "weigh" => claims \subseteq my[w].seen
        /\ pc = "retire" => claims \subseteq my[w].seen \cup {my[w].claim}
        /\ pc \in {"weigh", "retire"} /\ ~raced => cursor = my[w].read
        /\ pc = "retire" => Redundant(file, my[w].read)
        /\ pc \in Creating => ack = NoAck /\ \A b \in bases : b[1] # 0
        /\ pc \in Creating \cup Amending \cup {"firstBoot"} => claims = {}
        /\ pc \in Creating \cup {"firstBoot"} => my[w].token = CreateOnly
        /\ pc \in {"commit", "compare", "discard"} => file.generation = 1
        /\ pc \in {"discard", "putBackDrop"} /\ ~raced => cursor = file
        /\ pc \in Amending \cup Holding => my[w].token # CreateOnly
        /\ pc \in {"read", "bind", "fence"} /\ my[w].state = "committed"
             => record \in {"committed", "invalid"}
        /\ pc \in Holding \cup {"custody"} => record \in {"committed", "invalid"}
        /\ pc \in Holding =>
             /\ claims = {my[w].claim}
             /\ \A b \in bases : b[1] # file.id
             /\ file.sound /\ ~cursor.sound => file.generation >= ack.generation
        /\ pc = "publish" => file.sound /\ file.generation = my[w].token.generation
        /\ pc = "tidy" /\ ~raced => Carries(cursor, file) /\ cursor.generation > file.generation

\* The counters a tick knows, taken from a file of the generation of its permit, are not
\* behind those of any file of that generation that its save may find.
PermitFits(w) ==
    LET g == my[w].token.generation
    IN  /\ my[w].token = CreateOnly => \A p \in Projects : my[w].counters[p] <= 1
        /\ my[w].token # CreateOnly /\ foreign = MaxForeign =>
             /\ g > 1 => \E f \in OnDisk : f.generation >= g
             /\ \A f \in OnDisk, p \in Projects :
                  f.generation = g /\ my[w].counters[p] > 0 => my[w].counters[p] >= f.counters[p]

(* The files of the cursor (phase1_cursor.py): typed, nothing lost, and what *)
(* keeps it so.  Inductive when the platform has file locks.                 *)
CursorInv ==
    /\ TypeOK /\ NothingLost /\ Alone /\ FilesFit
    /\ \A w \in Writers : SaveFits(w) /\ PermitFits(w)

(* A save is a compare-and-swap (phase1_cursor.py): one winner per  *)
(* file that is replaced, and no way back.                                   *)
SavesAreSwaps == []OneWinner /\ GenerationsRise

Stranded == cursor = Absent /\ (claims # {} \/ record = "committed")

(* A crash or an error wedges the rotation only in the documented way, the   *)
(* last copy in a claim or a lost cursor; an interrupted first boot resumes, *)
(* and a superseded claim is retired.                                        *)
Advances ==
    \/ <>(cursor.generation = MaxGeneration)
    \/ <>[]Stranded
    \/ <>(foreign < MaxForeign)
=============================================================================

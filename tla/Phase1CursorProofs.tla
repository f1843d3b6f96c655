------------------------- MODULE Phase1CursorProofs -------------------------
(* Proofs about Phase1Cursor for any writers, projects, foreign programs,    *)
(* crashes and errors, on a platform with file locks.                        *)
EXTENDS Phase1Cursor, WellFoundedInduction, TLAPS

States == {"none", "prepared", "committed", "invalid"}

Pcs == InSave \cup {"idle", "proof", "save"}

Tokens == [create : BOOLEAN, generation : Nat]

Ticks ==
    [pc : Pcs, token : Tokens, counters : Counters, read : Files,
     claim : Custody \cup {NoClaim}, state : States, seen : SUBSET Custody,
     candidate : BOOLEAN]

-----------------------------------------------------------------------------
(* Types *)

LEMMA Typed ==
    ASSUME TypeOK
    PROVE  /\ cursor \in Files /\ claims \in SUBSET Custody /\ record \in States
           /\ lock \in Writers \cup {"none"} /\ my \in [Writers -> Ticks]
           /\ ack \in [generation : Nat, counters : Counters]
           /\ bases \in SUBSET (Nat \X Nat) /\ serial \in Nat \ {0} /\ raced \in BOOLEAN
           /\ crashes \in 0 .. MaxCrashes /\ errors \in 0 .. MaxErrors
           /\ foreign \in 0 .. MaxForeign
  BY DEF TypeOK, States, Ticks, Tokens, Pcs

LEMMA Bounds ==
    /\ MaxCount \in Nat /\ MaxCount > 0 /\ MaxGeneration \in Nat
    /\ MaxCrashes \in Nat /\ MaxErrors \in Nat /\ MaxForeign \in Nat
    /\ ForeignGens \in SUBSET Nat /\ "none" \notin Writers
    /\ 0 \in 0 .. MaxCount /\ 1 \in 0 .. MaxCount
  BY CursorBounds

LEMMA Nulls ==
    /\ Zero \in Counters /\ Absent \in Files /\ NoAck \in [generation : Nat, counters : Counters]
    /\ \A p \in Projects : Zero[p] = 0
    /\ Absent.id = 0 /\ Absent.generation = 0 /\ ~Absent.sound /\ Absent.counters = Zero
    /\ IdleTick \in Ticks /\ CreateOnly \in Tokens
<1>1. Zero \in Counters /\ \A p \in Projects : Zero[p] = 0
  BY Bounds DEF Zero, Counters
<1>2. Absent \in Files
  BY <1>1 DEF Absent, Files
<1>3. CreateOnly \in Tokens
  BY DEF CreateOnly, Tokens
<1>4. NoAck \in [generation : Nat, counters : Counters]
  BY <1>1 DEF NoAck
<1>5. IdleTick \in Ticks
  BY <1>1, <1>2, <1>3 DEF IdleTick, Ticks, Pcs, States
<1>6. QED
  BY <1>1, <1>2, <1>3, <1>4, <1>5 DEF Absent

(* A nonempty set of naturals has a least one. *)
LEMMA LeastIsNat ==
    ASSUME NEW S \in SUBSET Nat, S # {}
    PROVE  Least(S) \in S
<1> DEFINE Below == {ss \in Nat \X Nat : ss[1] < ss[2]}
<1>1. OpToRel(<, Nat) = Below
  BY DEF OpToRel
<1>2. IsWellFoundedOn(Below, Nat)
  BY <1>1, NatLessThanWellFounded, Zenon
<1>3. PICK x \in S : \A y \in S : ~(<<y, x>> \in Below)
  <2> HIDE DEF Below
  <2> QED  BY <1>2, WFMin
<1>4. \A y \in S : x <= y
  <2> SUFFICES ASSUME NEW y \in S  PROVE ~(y < x)
    OBVIOUS
  <2>1. <<y, x>> \in Below <=> y < x
    <3>1. <<y, x>> \in Nat \X Nat /\ <<y, x>>[1] = y /\ <<y, x>>[2] = x
      OBVIOUS
    <3>2. QED  BY <3>1
  <2>2. QED  BY <1>3, <2>1
<1>5. QED
  BY <1>4 DEF Least

-----------------------------------------------------------------------------
(* A step of one writer *)

(* A tick moves on: only its own record changes. *)
LEMMA TickTyped ==
    ASSUME TypeOK, NEW w \in Writers, NEW m \in Ticks, my' = [my EXCEPT ![w] = m]
    PROVE  /\ my' \in [Writers -> Ticks] /\ my'[w] = m
           /\ \A v \in Writers : v # w => my'[v] = my[v]
  BY Typed

(* With file locks a save is alone. *)
LEMMA OnlyOne ==
    ASSUME Alone, NEW w \in Writers, NEW v \in Writers,
           my[w].pc \in InSave, my[v].pc \in InSave
    PROVE  v = w
  BY DEF Alone

LEMMA Outside ==
    ASSUME NEW w \in Writers, my'[w].pc \notin InSave
    PROVE  SaveFits(w)'
  BY DEF SaveFits, InSave, Creating, Amending, Holding

LEMMA NoPermit ==
    ASSUME NEW w \in Writers, my'[w].token = CreateOnly,
           \A p \in Projects : my'[w].counters[p] \in {0, 1}
    PROVE  PermitFits(w)'
  BY DEF PermitFits

(* What a step that leaves the files alone leaves as it was. *)
LEMMA FilesStay ==
    ASSUME FilesFit, NothingLost,
           UNCHANGED <<cursor, claims, record, ack, bases, raced, serial, foreign>>
    PROVE  FilesFit' /\ NothingLost'
<1>1. OnDisk' = OnDisk
  BY DEF OnDisk
<1>2. NothingLost'
  <2>1. \A p \in Projects : Owed(p)' = Owed(p)
    BY DEF Owed
  <2>2. QED  BY <1>1, <2>1 DEF NothingLost, Kept
<1>3. FilesFit'
  BY <1>1 DEF FilesFit
<1>4. QED  BY <1>2, <1>3

LEMMA PermitStays ==
    ASSUME NEW w \in Writers, PermitFits(w), UNCHANGED <<cursor, claims, foreign>>,
           my'[w].token = my[w].token, my'[w].counters = my[w].counters
    PROVE  PermitFits(w)'
<1>1. OnDisk' = OnDisk
  BY DEF OnDisk
<1>2. QED  BY <1>1 DEF PermitFits

(* A step inside a save that keeps the lock. *)
LEMMA Inside ==
    ASSUME CursorInv, NEW w \in Writers, NEW m \in Ticks, my[w].pc \in InSave,
           my' = [my EXCEPT ![w] = m], m.pc \in InSave, lock' = lock
    PROVE  /\ my' \in [Writers -> Ticks] /\ my'[w] = m /\ lock' \in Writers \cup {"none"}
           /\ \A v \in Writers \ {w} : my'[v] = my[v] /\ SaveFits(v)'
           /\ Alone'
<1>1. TypeOK /\ Alone
  BY DEF CursorInv
<1>2. /\ my' \in [Writers -> Ticks] /\ my'[w] = m /\ lock' \in Writers \cup {"none"}
      /\ \A v \in Writers : v # w => my'[v] = my[v]
  BY <1>1, Typed, TickTyped
<1>3. ASSUME NEW v \in Writers \ {w}
      PROVE  my'[v] = my[v] /\ my'[v].pc \notin InSave /\ SaveFits(v)'
  BY <1>1, <1>2, OnlyOne, Outside
<1>4. Alone'
  BY <1>1, <1>2, <1>3 DEF Alone
<1>5. QED  BY <1>2, <1>3, <1>4

(* A step that ends a save. *)
LEMMA Leaving ==
    ASSUME CursorInv, NEW w \in Writers, my[w].pc \in InSave, Leave(w)
    PROVE  /\ my' \in [Writers -> Ticks] /\ lock' \in Writers \cup {"none"}
           /\ \A v \in Writers \ {w} : my'[v] = my[v]
           /\ my'[w].pc = "idle" /\ PermitFits(w)' /\ \A v \in Writers : SaveFits(v)'
           /\ Alone'
<1> DEFINE m == [IdleTick EXCEPT !.candidate = my[w].candidate]
<1>1. TypeOK /\ Alone
  BY DEF CursorInv
<1>2. m \in Ticks /\ m.pc = "idle" /\ m.token = CreateOnly /\ m.counters = Zero
  <2>1. my[w].candidate \in BOOLEAN
    BY <1>1, Typed DEF Ticks
  <2>2. QED  BY <2>1, Nulls DEF Ticks, IdleTick
<1>3. /\ my' \in [Writers -> Ticks] /\ my'[w] = m /\ lock' \in Writers \cup {"none"}
      /\ \A v \in Writers : v # w => my'[v] = my[v]
  <2>1. my' = [my EXCEPT ![w] = m] /\ lock' \in {lock, "none"}
    BY DEF Leave
  <2> HIDE DEF m
  <2>2. QED  BY <1>1, <1>2, <2>1, Typed, TickTyped
<1>4. \A v \in Writers : my'[v].pc \notin InSave
  <2>1. "idle" \notin InSave
    BY DEF InSave
  <2> HIDE DEF m
  <2>2. QED  BY <1>1, <1>2, <1>3, <2>1, OnlyOne
<1>5. Alone'
  BY <1>4 DEF Alone
<1>6. PermitFits(w)'
  <2>1. \A p \in Projects : m.counters[p] \in {0, 1}
    BY <1>2, Nulls
  <2> HIDE DEF m
  <2>2. QED  BY <1>2, <1>3, <2>1, NoPermit
<1>7. QED
  <2>1. \A v \in Writers : SaveFits(v)'
    BY <1>4, Outside
  <2> HIDE DEF m
  <2>2. QED  BY <1>2, <1>3, <1>5, <1>6, <2>1

(* The steps that leave the files alone. *)
files == <<cursor, claims, record, ack, bases, raced, serial, foreign>>

LEMMA Assembled ==
    ASSUME CursorInv, UNCHANGED files, crashes' \in 0 .. MaxCrashes, errors' \in 0 .. MaxErrors,
           my' \in [Writers -> Ticks], lock' \in Writers \cup {"none"}, Alone',
           \A v \in Writers : SaveFits(v)' /\ PermitFits(v)'
    PROVE  CursorInv'
<1>1. TypeOK'
  BY DEF CursorInv, TypeOK, files, Ticks, Tokens, Pcs, States
<1>2. FilesFit' /\ NothingLost'
  BY FilesStay DEF CursorInv, files
<1>3. QED  BY <1>1, <1>2 DEF CursorInv

(* The writer stays in its save, with the permit it has. *)
LEMMA QuietStep ==
    ASSUME CursorInv, NEW w \in Writers, NEW m \in Ticks, my[w].pc \in InSave,
           my' = [my EXCEPT ![w] = m], m.pc \in InSave,
           m.token = my[w].token, m.counters = my[w].counters, SaveFits(w)',
           UNCHANGED files, lock' = lock, crashes' \in 0 .. MaxCrashes, errors' \in 0 .. MaxErrors
    PROVE  CursorInv'
<1>1. /\ my' \in [Writers -> Ticks] /\ my'[w] = m /\ lock' \in Writers \cup {"none"}
      /\ \A v \in Writers \ {w} : my'[v] = my[v] /\ SaveFits(v)'
      /\ Alone'
  BY Inside
<1>2. ASSUME NEW v \in Writers  PROVE SaveFits(v)' /\ PermitFits(v)'
  <2>1. my'[v].token = my[v].token /\ my'[v].counters = my[v].counters
    BY <1>1
  <2>2. PermitFits(v)'
    BY <2>1, PermitStays DEF CursorInv, files
  <2>3. QED  BY <1>1, <2>2
<1>3. QED  BY <1>1, <1>2, Assembled

LEMMA QuietLeave ==
    ASSUME CursorInv, NEW w \in Writers, my[w].pc \in InSave, Leave(w),
           UNCHANGED files, crashes' \in 0 .. MaxCrashes, errors' \in 0 .. MaxErrors
    PROVE  CursorInv'
<1>1. /\ my' \in [Writers -> Ticks] /\ lock' \in Writers \cup {"none"}
      /\ \A v \in Writers \ {w} : my'[v] = my[v]
      /\ my'[w].pc = "idle" /\ PermitFits(w)' /\ \A v \in Writers : SaveFits(v)'
      /\ Alone'
  BY Leaving
<1>2. ASSUME NEW v \in Writers \ {w}  PROVE PermitFits(v)'
  BY <1>1, PermitStays DEF CursorInv, files
<1>3. QED  BY <1>1, <1>2, Assembled

(* Outside its save a writer disturbs no save. *)
LEMMA QuietOutside ==
    ASSUME CursorInv, NEW w \in Writers, NEW m \in Ticks, my[w].pc \notin InSave,
           my' = [my EXCEPT ![w] = m], m.pc \notin InSave, PermitFits(w)',
           UNCHANGED files, lock' = lock, crashes' \in 0 .. MaxCrashes, errors' \in 0 .. MaxErrors
    PROVE  CursorInv'
<1>1. /\ my' \in [Writers -> Ticks] /\ my'[w] = m
      /\ \A v \in Writers : v # w => my'[v] = my[v]
  BY TickTyped DEF CursorInv
<1>2. Alone'
  BY <1>1 DEF CursorInv, Alone
<1>3. ASSUME NEW v \in Writers  PROVE SaveFits(v)' /\ PermitFits(v)'
  <2>1. CASE v = w
    BY <1>1, <2>1, Outside
  <2>2. CASE v # w
    <3>1. my'[v] = my[v] /\ SaveFits(v) /\ PermitFits(v)
      BY <1>1, <2>2 DEF CursorInv
    <3>2. PermitFits(v)'
      BY <3>1, PermitStays DEF files
    <3>3. SaveFits(v)'
      BY <3>1 DEF SaveFits, Carries, files
    <3>4. QED  BY <3>2, <3>3
  <2>3. QED  BY <2>1, <2>2
<1>4. QED
  BY <1>1, <1>2, <1>3, Typed, Assembled DEF CursorInv

LEMMA NowFields ==
    ASSUME TypeOK, NEW w \in Writers, NEW pc \in Pcs, Now(w, pc)
    PROVE  /\ [my[w] EXCEPT !.pc = pc] \in Ticks /\ my' = [my EXCEPT ![w] = [my[w] EXCEPT !.pc = pc]]
           /\ my'[w].pc = pc /\ my'[w].token = my[w].token /\ my'[w].counters = my[w].counters
           /\ my'[w].read = my[w].read /\ my'[w].claim = my[w].claim
           /\ my'[w].state = my[w].state /\ my'[w].seen = my[w].seen
           /\ my'[w].candidate = my[w].candidate
<1>1. my \in [Writers -> Ticks] /\ my[w] \in Ticks
  BY Typed
<1>2. my' = [my EXCEPT ![w] = [my[w] EXCEPT !.pc = pc]]
  BY <1>1 DEF Now
<1>3. my'[w] = [my[w] EXCEPT !.pc = pc]
  BY <1>1, <1>2
<1>4. QED  BY <1>1, <1>2, <1>3 DEF Ticks

LEMMA Walks ==
    ASSUME CursorInv, NEW w \in Writers, NEW pc \in InSave, my[w].pc \in InSave, Now(w, pc),
           UNCHANGED files, lock' = lock, crashes' \in 0 .. MaxCrashes, errors' \in 0 .. MaxErrors,
           SaveFits(w)'
    PROVE  CursorInv'
<1>1. pc \in Pcs /\ TypeOK
  BY DEF Pcs, CursorInv
<1> DEFINE m == [my[w] EXCEPT !.pc = pc]
<1>2. m \in Ticks /\ my' = [my EXCEPT ![w] = m]
  BY <1>1, NowFields
<1>3. m.pc = pc /\ m.token = my[w].token /\ m.counters = my[w].counters
  BY <1>1, Typed DEF Ticks
<1> HIDE DEF m
<1>4. QED  BY <1>2, <1>3, QuietStep

LEMMA Refusal ==
    ASSUME CursorInv, NEW w \in Writers, my[w].pc \in InSave, Refuse(w)
    PROVE  CursorInv'
<1>1. UNCHANGED files /\ crashes' = crashes /\ errors' = errors /\ Leave(w)
  BY DEF Refuse, files, faults
<1>2. QED  BY <1>1, QuietLeave, Typed DEF CursorInv

LEMMA Unfaulted ==
    ASSUME TypeOK, UNCHANGED faults
    PROVE  crashes' \in 0 .. MaxCrashes /\ errors' \in 0 .. MaxErrors /\ UNCHANGED foreign
  BY Typed DEF faults

-----------------------------------------------------------------------------
(* The tick up to its save *)

LEMMA TickSteps ==
    ASSUME CursorInv, NEW w \in Writers,
           LoadCursor(w) \/ LookForFirstBoot(w) \/ ProveFirstBoot(w)
    PROVE  CursorInv'
<1>1. TypeOK /\ FilesFit /\ PermitFits(w)
  BY DEF CursorInv
<1>2. my[w] \in Ticks /\ my \in [Writers -> Ticks] /\ cursor \in Files
  BY <1>1, Typed
<1>3. /\ UNCHANGED files /\ lock' = lock /\ my[w].pc \notin InSave
      /\ crashes' \in 0 .. MaxCrashes /\ errors' \in 0 .. MaxErrors
  <2>1. UNCHANGED <<cursor, claims, record, lock, ack, bases, raced, serial, faults>>
    BY DEF LoadCursor, LookForFirstBoot, ProveFirstBoot
  <2>2. my[w].pc \in {"idle", "proof"}
    BY DEF LoadCursor, LookForFirstBoot, ProveFirstBoot
  <2>3. QED  BY <1>1, <2>1, <2>2, Unfaulted DEF files, InSave
<1>4. ASSUME NEW pc \in {"proof", "idle"}, Now(w, pc)
      PROVE  CursorInv'
  <2> DEFINE m == [my[w] EXCEPT !.pc = pc]
  <2>1. /\ m \in Ticks /\ my' = [my EXCEPT ![w] = m] /\ m.pc \notin InSave
        /\ my'[w].token = my[w].token /\ my'[w].counters = my[w].counters
    <3>1. pc \in Pcs
      BY DEF Pcs
    <3>2. m.pc = pc
      BY <1>2 DEF Ticks
    <3>3. QED  BY <1>1, <1>4, <3>1, <3>2, NowFields DEF InSave
  <2>2. PermitFits(w)'
    BY <1>1, <1>3, <2>1, PermitStays DEF files
  <2> HIDE DEF m
  <2>3. QED  BY <1>3, <2>1, <2>2, QuietOutside
<1>5. ASSUME NEW p \in Projects, cursor # Absent, cursor.sound, cursor.counters[p] < MaxCount,
             my' = [my EXCEPT ![w].pc = "save", ![w].token = Amend(cursor.generation),
                              ![w].counters = [cursor.counters EXCEPT ![p] = @ + 1]]
      PROVE  CursorInv'
  <2> DEFINE c == [cursor.counters EXCEPT ![p] = @ + 1]
             m == [my[w] EXCEPT !.pc = "save", !.token = Amend(cursor.generation), !.counters = c]
  <2>1. c \in Counters /\ \A q \in Projects : c[q] >= cursor.counters[q]
    <3>1. cursor.counters \in [Projects -> 0 .. MaxCount] /\ MaxCount \in Nat
      BY <1>2, Bounds DEF Files, Counters
    <3>2. cursor.counters[p] + 1 \in 0 .. MaxCount
      BY <1>5, <3>1
    <3>3. QED  BY <3>1, <3>2 DEF Counters
  <2>2. Amend(cursor.generation) \in Tokens /\ Amend(cursor.generation) # CreateOnly
        /\ Amend(cursor.generation).generation = cursor.generation /\ cursor.generation \in Nat
    BY <1>2 DEF Amend, Tokens, CreateOnly, Files
  <2>3. m \in Ticks /\ m.pc = "save" /\ m.token = Amend(cursor.generation) /\ m.counters = c
    <3> HIDE DEF c
    <3>1. QED  BY <1>2, <2>1, <2>2 DEF Ticks, Pcs
  <2>4. my' = [my EXCEPT ![w] = m]
    BY <1>5, <1>2
  <2>5. PermitFits(w)'
    <3>1. my'[w].token = Amend(cursor.generation) /\ my'[w].counters = c
      <4> HIDE DEF m
      <4>1. QED  BY <1>2, <2>3, <2>4
    <3>2. UNCHANGED <<cursor, claims, foreign>> /\ OnDisk' = OnDisk
      BY <1>3 DEF files, OnDisk
    <3>3. cursor \in OnDisk
      BY <1>5 DEF OnDisk
    <3>4. foreign = MaxForeign => \A f \in OnDisk : f.generation = cursor.generation => f = cursor
      BY <1>1, <3>3 DEF FilesFit
    <3> HIDE DEF c
    <3>5. QED  BY <2>1, <2>2, <3>1, <3>2, <3>3, <3>4 DEF PermitFits
  <2> HIDE DEF m
  <2>6. QED
    <3>1. "save" \notin InSave
      BY DEF InSave
    <3>2. QED  BY <1>3, <2>3, <2>4, <2>5, <3>1, QuietOutside
<1>6. ASSUME NEW p \in Projects,
             my' = [my EXCEPT ![w].pc = "save", ![w].token = CreateOnly,
                              ![w].counters = [Zero EXCEPT ![p] = 1]]
      PROVE  CursorInv'
  <2> DEFINE c == [Zero EXCEPT ![p] = 1]
             m == [my[w] EXCEPT !.pc = "save", !.token = CreateOnly, !.counters = c]
  <2>1. c \in Counters /\ \A q \in Projects : c[q] \in {0, 1}
    BY Nulls, Bounds DEF Counters
  <2>2. m \in Ticks /\ m.pc = "save" /\ m.token = CreateOnly /\ m.counters = c
    <3> HIDE DEF c
    <3>1. QED  BY <1>2, <2>1, Nulls DEF Ticks, Pcs
  <2>3. my' = [my EXCEPT ![w] = m]
    BY <1>6, <1>2
  <2>4. PermitFits(w)'
    <3>1. my'[w].token = CreateOnly /\ my'[w].counters = c
      <4> HIDE DEF m
      <4>1. QED  BY <1>2, <2>2, <2>3
    <3> HIDE DEF c
    <3>2. QED  BY <2>1, <3>1, NoPermit
  <2> HIDE DEF m
  <2>5. QED
    <3>1. "save" \notin InSave
      BY DEF InSave
    <3>2. QED  BY <1>3, <2>2, <2>3, <2>4, <3>1, QuietOutside
<1>7. CASE LoadCursor(w)
  <2>1. CASE cursor.sound
    BY <1>5, <1>7, <2>1 DEF LoadCursor
  <2>2. CASE ~cursor.sound
    <3>1. my' = [my EXCEPT ![w] = my[w]] /\ PermitFits(w)'
      <4>1. my' = my
        BY <1>7, <2>2 DEF LoadCursor
      <4>2. PermitFits(w)'
        BY <4>1, <1>1, <1>3, PermitStays DEF files
      <4>3. QED  BY <1>2, <4>1, <4>2
    <3>2. QED  BY <1>2, <1>3, <3>1, QuietOutside
  <2>3. QED  BY <2>1, <2>2
<1>8. CASE LookForFirstBoot(w)
  BY <1>4, <1>8 DEF LookForFirstBoot
<1>9. CASE ProveFirstBoot(w)
  BY <1>4, <1>6, <1>9 DEF ProveFirstBoot
<1>10. QED  BY <1>7, <1>8, <1>9

(* The lock is free only when nobody is in a save. *)
LEMMA TakeLockStep ==
    ASSUME CursorInv, Serialised, NEW w \in Writers, TakeLock(w)
    PROVE  CursorInv'
<1>1. TypeOK /\ Alone /\ my \in [Writers -> Ticks]
  BY Typed DEF CursorInv
<1>2. \A v \in Writers : my[v].pc \notin InSave
  BY <1>1, Bounds DEF TakeLock, Alone
<1>3. /\ UNCHANGED files /\ lock' = w
      /\ crashes' \in 0 .. MaxCrashes /\ errors' \in 0 .. MaxErrors
  BY <1>1, Unfaulted DEF TakeLock, files
<1>4. ASSUME NEW v \in Writers
      PROVE  /\ my'[v] = [my[v] EXCEPT !.pc = IF v = w THEN "judge" ELSE @, !.candidate = FALSE]
             /\ my'[v] \in Ticks
             /\ my'[v].pc = (IF v = w THEN "judge" ELSE my[v].pc)
             /\ my'[v].token = my[v].token /\ my'[v].counters = my[v].counters
  <2>1. my'[v] = [my[v] EXCEPT !.pc = IF v = w THEN "judge" ELSE @, !.candidate = FALSE]
    BY DEF TakeLock
  <2>2. my[v] \in Ticks
    BY <1>1
  <2>3. "judge" \in Pcs
    BY DEF Pcs, InSave
  <2>4. QED  BY <2>1, <2>2, <2>3 DEF Ticks
<1>5. my' \in [Writers -> Ticks]
  <2>1. my' = [v \in Writers |-> [my[v] EXCEPT !.pc = IF v = w THEN "judge" ELSE @,
                                               !.candidate = FALSE]]
    BY DEF TakeLock
  <2>2. QED  BY <1>4, <2>1
<1>6. ASSUME NEW v \in Writers
      PROVE  SaveFits(v)' /\ PermitFits(v)'
  <2>1. PermitFits(v)'
    BY <1>3, <1>4, PermitStays DEF CursorInv, files
  <2>2. CASE v = w
    <3>1. my'[w].pc = "judge"
      BY <1>4
    <3>2. QED  BY <2>1, <2>2, <3>1 DEF SaveFits, Creating, Amending, Holding
  <2>3. CASE v # w
    BY <1>2, <1>4, <2>1, <2>3, Outside
  <2>4. QED  BY <2>2, <2>3
<1>7. Alone'
  BY <1>2, <1>3, <1>4 DEF Alone
<1>8. QED
  BY <1>3, <1>5, <1>6, <1>7, Assembled

(* An error, a crash or a timeout: the writer leaves, or puts the file back. *)
LEMMA Faults ==
    ASSUME CursorInv, NEW w \in Writers, LockTimesOut(w) \/ Crash(w) \/ Error(w)
    PROVE  CursorInv'
<1>1. TypeOK /\ PermitFits(w) /\ SaveFits(w) /\ my \in [Writers -> Ticks] /\ my[w] \in Ticks
  BY Typed DEF CursorInv
<1>2. UNCHANGED files /\ crashes' \in 0 .. MaxCrashes /\ errors' \in 0 .. MaxErrors
  <2>1. UNCHANGED files
    BY DEF LockTimesOut, Crash, Error, files
  <2>2. \/ crashes' = crashes /\ errors > 0 /\ errors' = errors - 1
        \/ errors' = errors /\ crashes > 0 /\ crashes' = crashes - 1
    BY DEF LockTimesOut, Crash, Error
  <2>3. crashes \in 0 .. MaxCrashes /\ errors \in 0 .. MaxErrors
    BY <1>1, Typed
  <2>4. QED  BY <2>1, <2>2, <2>3, Bounds
<1>3. ASSUME Leave(w)  PROVE CursorInv'
  <2>1. CASE my[w].pc \in InSave
    BY <1>2, <1>3, <2>1, QuietLeave
  <2>2. CASE my[w].pc \notin InSave
    <3> DEFINE m == [IdleTick EXCEPT !.candidate = my[w].candidate]
    <3>1. m \in Ticks /\ m.pc = "idle" /\ m.token = CreateOnly /\ m.counters = Zero
      <4>1. my[w].candidate \in BOOLEAN
        BY <1>1 DEF Ticks
      <4>2. QED  BY <4>1, Nulls DEF Ticks, IdleTick
    <3>2. my' = [my EXCEPT ![w] = m]
      BY <1>3 DEF Leave
    <3> HIDE DEF m
    <3>3. my'[w].token = CreateOnly /\ my'[w].counters = Zero
      BY <1>1, <3>1, <3>2
    <3>4. PermitFits(w)'
      BY <3>3, Nulls, NoPermit
    <3>5. CASE lock # w
      <4>1. lock' = lock
        BY <1>3, <3>5 DEF Leave
      <4>2. QED  BY <1>2, <2>2, <3>1, <3>2, <3>4, <4>1, QuietOutside DEF InSave
    <3>6. CASE lock = w
      <4>1. \A v \in Writers : my[v].pc \notin InSave
        BY <2>2, <3>6 DEF CursorInv, Alone
      <4>2. my' \in [Writers -> Ticks] /\ my'[w] = m /\ \A v \in Writers \ {w} : my'[v] = my[v]
        BY <1>1, <3>1, <3>2
      <4>3. \A v \in Writers : my'[v].pc \notin InSave
        BY <3>1, <4>1, <4>2 DEF InSave
      <4>4. Alone' /\ \A v \in Writers : SaveFits(v)'
        BY <4>3, Outside DEF Alone
      <4>5. \A v \in Writers : PermitFits(v)'
        BY <1>2, <3>4, <4>2, PermitStays DEF CursorInv, files
      <4>6. lock' \in Writers \cup {"none"}
        BY <1>3, <3>6 DEF Leave
      <4>7. QED  BY <1>2, <4>2, <4>4, <4>5, <4>6, Assembled
    <3>7. QED  BY <3>5, <3>6
  <2>3. QED  BY <2>1, <2>2
<1>4. ASSUME my[w].pc \in {"verify", "publish"}, Now(w, "putBack"), lock' = lock
      PROVE  CursorInv'
  <2>1. my[w].pc \in InSave /\ "putBack" \in InSave /\ "putBack" \in Pcs
    BY <1>4 DEF InSave, Pcs
  <2>2. /\ my'[w].pc = "putBack" /\ my'[w].token = my[w].token /\ my'[w].claim = my[w].claim
    BY <1>1, <1>4, <2>1, NowFields
  <2>3. SaveFits(w)'
    BY <1>1, <1>2, <1>4, <2>2 DEF SaveFits, Holding, Amending, Creating, files
  <2>4. QED  BY <1>2, <1>4, <2>1, <2>3, Walks
<1>5. QED
  BY <1>3, <1>4 DEF LockTimesOut, Crash, Error

-----------------------------------------------------------------------------
(* Steps of a save that look and decide *)

LEMMA Looks ==
    ASSUME CursorInv, NEW w \in Writers, UNCHANGED <<claims, cursor, record, lock, ack, bases,
                                                     raced, serial, faults>>
    PROVE  /\ UNCHANGED files /\ lock' = lock
           /\ crashes' \in 0 .. MaxCrashes /\ errors' \in 0 .. MaxErrors
           /\ TypeOK /\ FilesFit /\ SaveFits(w) /\ my[w] \in Ticks /\ my \in [Writers -> Ticks]
  BY Unfaulted, Typed DEF CursorInv, files

LEMMA JudgeStep ==
    ASSUME CursorInv, NEW w \in Writers, Judge(w)
    PROVE  CursorInv'
<1>1. my[w].pc = "judge" /\ my[w].pc \in InSave
  BY DEF Judge, InSave
<1>2. CASE claims = {} /\ Now(w, AfterClaims(w))
             /\ UNCHANGED <<cursor, claims, record, lock, ack, bases, raced, serial, faults>>
  <2>1. AfterClaims(w) \in InSave /\ AfterClaims(w) \in Pcs
    BY DEF AfterClaims, InSave, Pcs
  <2>2. /\ my'[w].pc = AfterClaims(w) /\ my'[w].token = my[w].token
    BY <1>2, <2>1, NowFields DEF CursorInv
  <2>3. SaveFits(w)'
    BY <1>2, <2>2 DEF SaveFits, AfterClaims, Creating, Amending, Holding
  <2>4. QED  BY <1>1, <1>2, <2>1, <2>3, Looks, Walks
<1>3. CASE claims # {} /\ cursor.sound
             /\ my' = [my EXCEPT ![w].pc = "weigh", ![w].read = cursor, ![w].seen = claims]
             /\ UNCHANGED <<cursor, claims, record, lock, ack, bases, raced, serial, faults>>
  <2> DEFINE m == [my[w] EXCEPT !.pc = "weigh", !.read = cursor, !.seen = claims]
  <2>1. my[w] \in Ticks /\ my \in [Writers -> Ticks] /\ cursor \in Files /\ claims \in SUBSET Custody
    BY Typed DEF CursorInv
  <2>2. /\ m \in Ticks /\ m.pc = "weigh" /\ m.token = my[w].token /\ m.counters = my[w].counters
        /\ m.read = cursor /\ m.seen = claims
    BY <2>1 DEF Ticks, Pcs, InSave
  <2>3. my' = [my EXCEPT ![w] = m]
    BY <1>3, <2>1
  <2> HIDE DEF m
  <2>4. my'[w] = m
    BY <2>1, <2>3
  <2>5. SaveFits(w)'
    BY <1>3, <2>2, <2>4 DEF SaveFits, Creating, Amending, Holding
  <2>6. m.pc \in InSave
    BY <2>2 DEF InSave
  <2>7. /\ UNCHANGED files /\ lock' = lock
        /\ crashes' \in 0 .. MaxCrashes /\ errors' \in 0 .. MaxErrors
    BY <1>3, Looks
  <2>8. QED  BY <1>1, <2>2, <2>3, <2>5, <2>6, <2>7, QuietStep
<1>4. QED
  BY <1>1, <1>2, <1>3, Refusal DEF Judge

LEMMA WeighStep ==
    ASSUME CursorInv, NEW w \in Writers, Weigh(w)
    PROVE  CursorInv'
<1>1. my[w].pc = "weigh" /\ my[w].pc \in InSave
  BY DEF Weigh, InSave
<1>2. my[w] \in Ticks /\ my \in [Writers -> Ticks] /\ SaveFits(w)
  BY Typed DEF CursorInv
<1>3. CASE /\ my[w].seen = {}
           /\ my' = [my EXCEPT ![w].pc = AfterClaims(w), ![w].read = Absent]
           /\ UNCHANGED <<cursor, claims, record, lock, ack, bases, raced, serial, faults>>
  <2> DEFINE m == [my[w] EXCEPT !.pc = AfterClaims(w), !.read = Absent]
  <2>1. AfterClaims(w) \in InSave /\ AfterClaims(w) \in Pcs
    BY DEF AfterClaims, InSave, Pcs
  <2>2. /\ m \in Ticks /\ m.pc = AfterClaims(w) /\ m.token = my[w].token
        /\ m.counters = my[w].counters
    BY <1>2, <2>1, Nulls DEF Ticks
  <2>3. my' = [my EXCEPT ![w] = m]
    BY <1>3, <1>2
  <2> HIDE DEF m
  <2>4. my'[w] = m
    BY <1>2, <2>3
  <2>5. claims = {}
    BY <1>1, <1>2, <1>3 DEF SaveFits
  <2>6. SaveFits(w)'
    <3>1. \/ m.pc = "firstBoot" /\ m.token = CreateOnly
          \/ m.pc = "readRecord" /\ m.token # CreateOnly
      BY <2>2 DEF AfterClaims
    <3>2. claims' = {}
      BY <1>3, <2>5
    <3>3. QED
      BY <2>4, <3>1, <3>2 DEF SaveFits, Creating, Amending, Holding
  <2>7. QED  BY <1>1, <1>3, <2>1, <2>2, <2>3, <2>6, Looks, QuietStep
<1>4. ASSUME NEW c \in my[w].seen, c \notin claims, my' = [my EXCEPT ![w].seen = @ \ {c}],
             UNCHANGED <<cursor, claims, record, lock, ack, bases, raced, serial, faults>>
      PROVE  CursorInv'
  <2> DEFINE m == [my[w] EXCEPT !.seen = @ \ {c}]
  <2>1. /\ m \in Ticks /\ m.pc = "weigh" /\ m.token = my[w].token
        /\ m.counters = my[w].counters /\ m.seen = my[w].seen \ {c} /\ m.read = my[w].read
    BY <1>1, <1>2 DEF Ticks
  <2>2. my' = [my EXCEPT ![w] = m]
    BY <1>4, <1>2
  <2> HIDE DEF m
  <2>3. my'[w] = m
    BY <1>2, <2>2
  <2>4. SaveFits(w)'
    BY <1>1, <1>2, <1>4, <2>1, <2>3 DEF SaveFits, Creating, Amending, Holding
  <2>5. m.pc \in InSave
    BY <2>1 DEF InSave
  <2>6. QED  BY <1>1, <1>4, <2>1, <2>2, <2>4, <2>5, Looks, QuietStep
<1>5. ASSUME NEW c \in my[w].seen, c \in claims, Redundant(c.file, my[w].read),
             my' = [my EXCEPT ![w].pc = "retire", ![w].claim = c, ![w].seen = @ \ {c}],
             UNCHANGED <<cursor, claims, record, lock, ack, bases, raced, serial, faults>>
      PROVE  CursorInv'
  <2> DEFINE m == [my[w] EXCEPT !.pc = "retire", !.claim = c, !.seen = @ \ {c}]
  <2>1. /\ m \in Ticks /\ m.pc = "retire" /\ m.token = my[w].token /\ m.counters = my[w].counters
        /\ m.seen = my[w].seen \ {c} /\ m.read = my[w].read /\ m.claim = c
    BY <1>1, <1>2 DEF Ticks, Pcs, InSave
  <2>2. my' = [my EXCEPT ![w] = m]
    BY <1>5, <1>2
  <2> HIDE DEF m
  <2>3. my'[w] = m
    BY <1>2, <2>2
  <2>4. SaveFits(w)'
    BY <1>1, <1>2, <1>5, <2>1, <2>3 DEF SaveFits, Creating, Amending, Holding
  <2>5. m.pc \in InSave
    BY <2>1 DEF InSave
  <2>6. QED  BY <1>1, <1>5, <2>1, <2>2, <2>4, <2>5, Looks, QuietStep
<1>6. QED
  BY <1>1, <1>3, <1>4, <1>5, Refusal DEF Weigh

LEMMA BootSteps ==
    ASSUME CursorInv, NEW w \in Writers, FirstBoot(w) \/ CommitFails(w) \/ Compare(w)
    PROVE  CursorInv'
<1>1. my[w].pc \in {"firstBoot", "commit", "compare"} /\ my[w].pc \in InSave
  BY DEF FirstBoot, CommitFails, Compare, InSave
<1>2. my[w] \in Ticks /\ my \in [Writers -> Ticks] /\ SaveFits(w) /\ TypeOK /\ FilesFit
  BY Typed DEF CursorInv
<1>3. CASE FirstBoot(w) /\ cursor = Absent /\ record \in {"none", "prepared"}
  <2> DEFINE m == [my[w] EXCEPT !.pc = "prepare", !.state = record]
  <2>1. /\ m \in Ticks /\ m.pc = "prepare" /\ m.token = my[w].token /\ m.counters = my[w].counters
    BY <1>2, <1>3 DEF Ticks, Pcs, InSave, States
  <2>2. /\ my' = [my EXCEPT ![w] = m]
        /\ UNCHANGED <<cursor, claims, record, lock, ack, bases, raced, serial, faults>>
    BY <1>3, <1>2 DEF FirstBoot
  <2> HIDE DEF m
  <2>3. my'[w] = m
    BY <1>2, <2>2
  <2>4. my[w].pc = "firstBoot"
    BY <1>3 DEF FirstBoot
  <2>5. ack = NoAck /\ \A b \in bases : b[1] # 0
    BY <1>2, <1>3 DEF FilesFit
  <2>6. NoAck' = NoAck
    BY DEF NoAck, Zero
  <2>7. SaveFits(w)'
    BY <1>2, <2>1, <2>2, <2>3, <2>4, <2>5, <2>6 DEF SaveFits, Creating, Amending, Holding
  <2>8. "prepare" \in InSave
    BY DEF InSave
  <2>9. QED  BY <1>1, <2>1, <2>2, <2>7, <2>8, Looks, QuietStep
<1>4. CASE CommitFails(w)
  <2>1. "compare" \in InSave /\ "compare" \in Pcs
    BY DEF InSave, Pcs
  <2>2. UNCHANGED files /\ lock' = lock /\ crashes' = crashes /\ my[w].pc = "commit"
        /\ Now(w, "compare")
    BY <1>4 DEF CommitFails, files
  <2>3. crashes' \in 0 .. MaxCrashes /\ errors' \in 0 .. MaxErrors
    BY <1>2, <1>4, <2>2, Typed, Bounds DEF CommitFails
  <2>4. my'[w].pc = "compare" /\ my'[w].token = my[w].token /\ my'[w].claim = my[w].claim
    BY <1>2, <2>1, <2>2, NowFields
  <2>5. SaveFits(w)'
    BY <1>2, <2>2, <2>4 DEF SaveFits, Creating, Amending, Holding, files
  <2>6. QED  BY <1>1, <2>1, <2>2, <2>3, <2>5, Walks
<1>5. CASE Compare(w) /\ cursor = my[w].claim.file
  <2>1. "discard" \in InSave /\ "discard" \in Pcs
    BY DEF InSave, Pcs
  <2>2. /\ UNCHANGED <<cursor, claims, record, lock, ack, bases, raced, serial, faults>>
        /\ my[w].pc = "compare" /\ Now(w, "discard")
    BY <1>5 DEF Compare
  <2>3. my'[w].pc = "discard" /\ my'[w].token = my[w].token /\ my'[w].claim = my[w].claim
    BY <1>2, <2>1, <2>2, NowFields
  <2>4. SaveFits(w)'
    BY <1>2, <1>5, <2>2, <2>3 DEF SaveFits, Creating, Amending, Holding
  <2>5. QED  BY <1>1, <2>1, <2>2, <2>4, Looks, Walks
<1>6. QED
  BY <1>1, <1>3, <1>4, <1>5, Refusal DEF FirstBoot, Compare

LEMMA AmendLooks ==
    ASSUME CursorInv, NEW w \in Writers, ReadRecord(w) \/ Read(w) \/ Bind(w) \/ Verify(w)
    PROVE  CursorInv'
<1>1. my[w].pc \in {"readRecord", "read", "bind", "verify"} /\ my[w].pc \in InSave
  BY DEF ReadRecord, Read, Bind, Verify, InSave
<1>2. my[w] \in Ticks /\ my \in [Writers -> Ticks] /\ SaveFits(w) /\ TypeOK /\ cursor \in Files
      /\ record \in States
  BY Typed DEF CursorInv
<1>3. CASE ReadRecord(w) /\ record # "invalid"
  <2> DEFINE m == [my[w] EXCEPT !.pc = "read", !.state = record]
  <2>1. /\ m \in Ticks /\ m.pc = "read" /\ m.token = my[w].token /\ m.counters = my[w].counters
        /\ m.state = record
    BY <1>2 DEF Ticks, Pcs, InSave
  <2>2. /\ my' = [my EXCEPT ![w] = m] /\ my[w].pc = "readRecord"
        /\ UNCHANGED <<cursor, claims, record, lock, ack, bases, raced, serial, faults>>
    BY <1>3, <1>2 DEF ReadRecord
  <2> HIDE DEF m
  <2>3. my'[w] = m
    BY <1>2, <2>2
  <2>4. SaveFits(w)'
    BY <1>2, <1>3, <2>1, <2>2, <2>3 DEF SaveFits, Creating, Amending, Holding
  <2>5. m.pc \in InSave
    BY <2>1 DEF InSave
  <2>6. QED  BY <1>1, <2>1, <2>2, <2>4, <2>5, Looks, QuietStep
<1>4. CASE Read(w) /\ cursor.sound /\ cursor.generation = my[w].token.generation
  <2>1. "bind" \in InSave /\ "bind" \in Pcs
    BY DEF InSave, Pcs
  <2>2. /\ UNCHANGED <<cursor, claims, record, lock, ack, bases, raced, serial, faults>>
        /\ my[w].pc = "read" /\ Now(w, "bind")
    BY <1>4 DEF Read
  <2>3. my'[w].pc = "bind" /\ my'[w].token = my[w].token /\ my'[w].state = my[w].state
    BY <1>2, <2>1, <2>2, NowFields
  <2>4. SaveFits(w)'
    BY <1>2, <2>2, <2>3 DEF SaveFits, Creating, Amending, Holding
  <2>5. QED  BY <1>1, <2>1, <2>2, <2>4, Looks, Walks
<1>5. CASE Bind(w) /\ cursor # Absent
  <2> DEFINE m == [my[w] EXCEPT !.pc = "fence", !.read = cursor]
  <2>1. /\ m \in Ticks /\ m.pc = "fence" /\ m.token = my[w].token /\ m.counters = my[w].counters
        /\ m.state = my[w].state
    BY <1>2 DEF Ticks, Pcs, InSave
  <2>2. /\ my' = [my EXCEPT ![w] = m] /\ my[w].pc = "bind"
        /\ UNCHANGED <<cursor, claims, record, lock, ack, bases, raced, serial, faults>>
    BY <1>5, <1>2 DEF Bind
  <2> HIDE DEF m
  <2>3. my'[w] = m
    BY <1>2, <2>2
  <2>4. SaveFits(w)'
    BY <1>2, <2>1, <2>2, <2>3 DEF SaveFits, Creating, Amending, Holding
  <2>5. m.pc \in InSave
    BY <2>1 DEF InSave
  <2>6. QED  BY <1>1, <2>1, <2>2, <2>4, <2>5, Looks, QuietStep
<1>6. CASE Verify(w)
  <2>1. /\ UNCHANGED <<cursor, claims, record, lock, ack, bases, raced, serial, faults>>
        /\ my[w].pc = "verify"
    BY <1>6 DEF Verify
  <2>2. CASE /\ my[w].claim.file.sound /\ my[w].claim.file.generation = my[w].token.generation
             /\ my' = [my EXCEPT ![w].pc = "publish", ![w].candidate = TRUE]
    <3> DEFINE m == [my[w] EXCEPT !.pc = "publish", !.candidate = TRUE]
    <3>1. /\ m \in Ticks /\ m.pc = "publish" /\ m.token = my[w].token
          /\ m.counters = my[w].counters /\ m.claim = my[w].claim
      BY <1>2 DEF Ticks, Pcs, InSave
    <3>2. my' = [my EXCEPT ![w] = m]
      BY <2>2, <1>2
    <3> HIDE DEF m
    <3>3. my'[w] = m
      BY <1>2, <3>2
    <3>4. SaveFits(w)'
      BY <1>2, <2>1, <2>2, <3>1, <3>3 DEF SaveFits, Creating, Amending, Holding
    <3>5. m.pc \in InSave
      BY <3>1 DEF InSave
    <3>6. QED  BY <1>1, <2>1, <3>1, <3>2, <3>4, <3>5, Looks, QuietStep
  <2>3. CASE Now(w, "putBack")
    <3>1. "putBack" \in InSave /\ "putBack" \in Pcs
      BY DEF InSave, Pcs
    <3>2. my'[w].pc = "putBack" /\ my'[w].token = my[w].token /\ my'[w].claim = my[w].claim
      BY <1>2, <2>3, <3>1, NowFields
    <3>3. SaveFits(w)'
      BY <1>2, <2>1, <3>2 DEF SaveFits, Creating, Amending, Holding
    <3>4. QED  BY <1>1, <2>1, <2>3, <3>1, <3>3, Looks, Walks
  <2>4. QED  BY <1>6, <2>2, <2>3 DEF Verify
<1>7. QED
  BY <1>1, <1>3, <1>4, <1>5, <1>6, Refusal DEF ReadRecord, Read, Bind

-----------------------------------------------------------------------------
(* Steps of a save that change the files *)

LEMMA TypeNext ==
    ASSUME cursor' \in Files, claims' \in SUBSET Custody, record' \in States,
           lock' \in Writers \cup {"none"}, my' \in [Writers -> Ticks],
           ack' \in [generation : Nat, counters : Counters], bases' \in SUBSET (Nat \X Nat),
           serial' \in Nat \ {0}, raced' \in BOOLEAN, crashes' \in 0 .. MaxCrashes,
           errors' \in 0 .. MaxErrors, foreign' \in 0 .. MaxForeign
    PROVE  TypeOK'
  BY DEF TypeOK, Ticks, Tokens, Pcs, States

LEMMA OnDiskTyped ==
    ASSUME TypeOK
    PROVE  /\ OnDisk \in SUBSET Files
           /\ \A f \in Files : f.id \in Nat /\ f.generation \in Nat /\ f.sound \in BOOLEAN
                               /\ f.counters \in [Projects -> 0 .. MaxCount]
           /\ \A c \in Custody : c.file \in Files
           /\ \A p \in Projects, f \in Files : f.counters[p] \in Nat
           /\ \A p \in Projects : ack.counters[p] \in Nat
           /\ MaxCount \in Nat
<1>1. cursor \in Files /\ claims \in SUBSET Custody /\ ack.counters \in Counters /\ MaxCount \in Nat
  BY Typed, Bounds
<1>2. \A c \in Custody : c.file \in Files
  BY DEF Custody
<1>3. OnDisk \in SUBSET Files
  BY <1>1, <1>2 DEF OnDisk
<1>4. \A f \in Files : f.id \in Nat /\ f.generation \in Nat /\ f.sound \in BOOLEAN
                       /\ f.counters \in [Projects -> 0 .. MaxCount]
  BY DEF Files, Counters
<1>5. QED  BY <1>1, <1>2, <1>3, <1>4 DEF Counters

(* What the protocol answers for after it vouched for a file. *)
LEMMA Vouched ==
    ASSUME TypeOK, NEW f \in Files, Vouch(f)
    PROVE  /\ ack' \in [generation : Nat, counters : Counters]
           /\ ack'.generation \in {f.generation, ack.generation}
           /\ ack'.generation >= f.generation /\ ack'.generation >= ack.generation
           /\ \A p \in Projects : /\ ack'.counters[p] \in {f.counters[p], ack.counters[p]}
                                  /\ ack'.counters[p] >= f.counters[p]
                                  /\ ack'.counters[p] >= ack.counters[p]
<1>1. ack \in [generation : Nat, counters : [Projects -> 0 .. MaxCount]] /\ MaxCount \in Nat
      /\ f.generation \in Nat /\ f.counters \in [Projects -> 0 .. MaxCount]
  BY Typed, Bounds, OnDiskTyped DEF Counters
<1> DEFINE g == Larger(f.generation, ack.generation)
           c == [p \in Projects |-> Larger(f.counters[p], ack.counters[p])]
<1>2. g \in Nat /\ g \in {f.generation, ack.generation} /\ g >= f.generation /\ g >= ack.generation
  BY <1>1 DEF Larger
<1>3. \A p \in Projects : /\ c[p] \in {f.counters[p], ack.counters[p]}
                          /\ c[p] >= f.counters[p] /\ c[p] >= ack.counters[p]
                          /\ c[p] \in 0 .. MaxCount
  BY <1>1 DEF Larger
<1>4. c \in Counters
  BY <1>3 DEF Counters
<1>5. ack' = [generation |-> g, counters |-> c]
  BY DEF Vouch
<1> HIDE DEF g, c
<1>6. QED  BY <1>2, <1>3, <1>4, <1>5

LEMMA Carrying ==
    ASSUME TypeOK, NEW f \in Files, NEW g \in Files, Carries(f, g), NEW p \in Projects,
           ack.counters[p] > 0, g.counters[p] >= Owed(p)
    PROVE  f.counters[p] >= Owed(p)
<1>1. f.counters[p] \in Nat /\ g.counters[p] \in Nat /\ ack.counters[p] \in Nat
  BY OnDiskTyped
<1>2. QED
  BY <1>1 DEF Carries, Owed

(* A claim goes while the cursor carries what it carries. *)
LEMMA ClaimDropped ==
    ASSUME CursorInv, NEW c \in Custody \cup {NoClaim}, claims' = claims \ {c},
           UNCHANGED <<cursor, record, ack, bases, raced, serial, foreign>>,
           ~raced /\ c \in claims => /\ cursor # Absent /\ Carries(cursor, c.file)
                                     /\ cursor.generation >= c.file.generation
    PROVE  /\ claims' \in SUBSET Custody /\ FilesFit' /\ NothingLost'
           /\ \A v \in Writers :
                my'[v].token = my[v].token /\ my'[v].counters = my[v].counters => PermitFits(v)'
<1>1. TypeOK /\ FilesFit /\ NothingLost /\ cursor \in Files /\ claims \in SUBSET Custody
  BY Typed DEF CursorInv
<1>2. OnDisk' \subseteq OnDisk /\ OnDisk' \in SUBSET Files
  BY <1>1, OnDiskTyped DEF OnDisk
<1>3. \A f \in OnDisk \ OnDisk' : c \in claims /\ f = c.file
  BY DEF OnDisk
<1>4. cursor # Absent => cursor \in OnDisk'
  BY DEF OnDisk
<1>5. FilesFit'
  BY <1>1, <1>2 DEF FilesFit
<1>6. NothingLost'
  <2> SUFFICES ASSUME ~raced, NEW p \in Projects, ack.counters[p] > 0
               PROVE  \E f \in OnDisk' : f.counters[p] >= Owed(p)
    BY DEF NothingLost, Kept, Owed
  <2>1. PICK f \in OnDisk : f.counters[p] >= Owed(p)
    BY <1>1 DEF NothingLost, Kept
  <2>2. CASE f \in OnDisk'
    BY <2>1, <2>2
  <2>3. CASE f \notin OnDisk'
    <3>1. c \in claims /\ f = c.file /\ f \in Files
      BY <1>1, <1>3, <2>3, OnDiskTyped
    <3>2. cursor.counters[p] >= Owed(p)
      BY <1>1, <2>1, <3>1, Carrying
    <3>3. QED  BY <1>4, <3>1, <3>2
  <2>4. QED  BY <2>2, <2>3
<1>7. ASSUME NEW v \in Writers, my'[v].token = my[v].token, my'[v].counters = my[v].counters
      PROVE  PermitFits(v)'
  <2>1. PermitFits(v)
    BY DEF CursorInv
  <2> DEFINE g == my[v].token.generation
  <2>2. ASSUME foreign = MaxForeign, NEW f \in OnDisk, f.generation >= g, g > 1, g \in Nat
        PROVE  \E h \in OnDisk' : h.generation >= g
    <3>1. CASE f \in OnDisk'
      BY <2>2, <3>1
    <3>2. CASE f \notin OnDisk'
      <4>1. c \in claims /\ f = c.file /\ ~raced /\ f \in Files
        <5>1. ~raced
          BY <1>1, <2>2, Bounds DEF FilesFit
        <5>2. f \in Files
          BY <1>1, OnDiskTyped
        <5>3. QED  BY <1>3, <3>2, <5>1, <5>2
      <4>2. cursor # Absent /\ cursor.generation >= f.generation
        BY <4>1
      <4>3. cursor.generation \in Nat /\ f.generation \in Nat
        BY <1>1, <4>1, OnDiskTyped
      <4>4. QED  BY <1>4, <2>2, <4>2, <4>3
    <3>3. QED  BY <3>1, <3>2
  <2>3. g \in Nat
    BY <1>1, Typed DEF Ticks, Tokens
  <2>4. QED
    BY <1>2, <1>7, <2>1, <2>2, <2>3 DEF PermitFits
<1>8. QED
  BY <1>1, <1>5, <1>6, <1>7

LEMMA RetireStep ==
    ASSUME CursorInv, NEW w \in Writers, Retire(w)
    PROVE  CursorInv'
<1>1. TypeOK /\ FilesFit /\ SaveFits(w) /\ my[w] \in Ticks /\ my \in [Writers -> Ticks]
      /\ cursor \in Files /\ claims \in SUBSET Custody
  BY Typed DEF CursorInv
<1> DEFINE c == my[w].claim
           m == [my[w] EXCEPT !.pc = "weigh", !.claim = NoClaim]
<1>2. /\ m \in Ticks /\ m.pc = "weigh" /\ m.token = my[w].token /\ m.counters = my[w].counters
      /\ m.seen = my[w].seen /\ m.read = my[w].read
      /\ c \in Custody \cup {NoClaim} /\ my[w].read \in Files
  BY <1>1 DEF Ticks, Pcs, InSave
<1>3. /\ my' = [my EXCEPT ![w] = m] /\ claims' = claims \ {c} /\ my[w].pc = "retire"
      /\ UNCHANGED <<cursor, record, lock, ack, bases, raced, serial, faults>>
  BY <1>1 DEF Retire
<1>4. ASSUME ~raced, c \in claims
      PROVE  cursor # Absent /\ Carries(cursor, c.file) /\ cursor.generation >= c.file.generation
  <2>1. cursor = my[w].read /\ Redundant(c.file, cursor)
    BY <1>1, <1>3, <1>4 DEF SaveFits
  <2>2. c.file \in Files /\ c.file \in OnDisk /\ c.file.id \in 1 .. serial
    BY <1>1, <1>4 DEF OnDisk, FilesFit, Custody
  <2>3. CASE c.file.id = cursor.id
    <3>1. cursor # Absent /\ cursor \in OnDisk
      BY <1>1, <2>2, <2>3, Nulls DEF FilesFit, OnDisk
    <3>2. c.file = cursor
      BY <1>1, <2>2, <2>3, <3>1 DEF FilesFit
    <3>3. QED  BY <1>1, <3>1, <3>2, OnDiskTyped DEF Carries
  <2>4. CASE /\ c.file.generation < cursor.generation
             /\ \A p \in Projects : c.file.counters[p] <= cursor.counters[p]
    <3>1. cursor # Absent
      BY <1>1, <2>2, <2>4, Nulls, OnDiskTyped
    <3>2. Carries(cursor, c.file) /\ cursor.generation >= c.file.generation
      BY <1>1, <2>2, <2>4, OnDiskTyped DEF Carries
    <3>3. QED  BY <3>1, <3>2
  <2>5. QED  BY <2>1, <2>3, <2>4 DEF Redundant
<1> HIDE DEF c
<1>5. m.pc \in InSave /\ my[w].pc \in InSave
  BY <1>2, <1>3 DEF InSave
<1> HIDE DEF m
<1>6. UNCHANGED foreign /\ crashes' \in 0 .. MaxCrashes /\ errors' \in 0 .. MaxErrors
  BY <1>1, <1>3, Unfaulted
<1>7. /\ claims' \in SUBSET Custody /\ FilesFit' /\ NothingLost'
      /\ \A v \in Writers :
           my'[v].token = my[v].token /\ my'[v].counters = my[v].counters => PermitFits(v)'
  BY <1>2, <1>3, <1>4, <1>6, ClaimDropped
<1>8. /\ my' \in [Writers -> Ticks] /\ my'[w] = m /\ lock' \in Writers \cup {"none"}
      /\ \A v \in Writers \ {w} : my'[v] = my[v] /\ SaveFits(v)'
      /\ Alone'
  BY <1>2, <1>3, <1>5, Inside
<1>9. SaveFits(w)'
  <2>1. claims \subseteq my[w].seen \cup {c} /\ (~raced => cursor = my[w].read)
    BY <1>1, <1>3 DEF SaveFits, c
  <2>2. QED
    BY <1>2, <1>3, <1>8, <2>1 DEF SaveFits, Creating, Amending, Holding
<1>10. TypeOK'
  BY <1>1, <1>3, <1>6, <1>7, <1>8, Typed, TypeNext
<1>11. \A v \in Writers : PermitFits(v)' /\ SaveFits(v)'
  BY <1>2, <1>7, <1>8, <1>9
<1>12. QED
  BY <1>7, <1>8, <1>10, <1>11 DEF CursorInv

(* Dropping the claim ends the save: after a publication, and after a put-back. *)
LEMMA DropSteps ==
    ASSUME CursorInv, NEW w \in Writers, Tidy(w) \/ PutBackDrop(w)
    PROVE  CursorInv'
<1>1. TypeOK /\ FilesFit /\ SaveFits(w) /\ my[w] \in Ticks /\ cursor \in Files
      /\ claims \in SUBSET Custody
  BY Typed DEF CursorInv
<1> DEFINE c == my[w].claim
<1>2. c \in Custody \cup {NoClaim} /\ my[w].pc \in InSave
  BY <1>1 DEF Ticks, InSave, Tidy, PutBackDrop
<1>3. /\ Leave(w) /\ UNCHANGED <<cursor, record, ack, bases, raced, serial, crashes, foreign>>
      /\ errors' \in 0 .. MaxErrors /\ crashes' \in 0 .. MaxCrashes
  <2>1. errors' = errors \/ (errors > 0 /\ errors' = errors - 1)
    BY DEF Tidy, PutBackDrop, faults
  <2>2. QED  BY <1>1, <2>1, Typed, Bounds DEF Tidy, PutBackDrop, faults
<1>4. /\ my' \in [Writers -> Ticks] /\ lock' \in Writers \cup {"none"}
      /\ \A v \in Writers \ {w} : my'[v] = my[v]
      /\ my'[w].pc = "idle" /\ PermitFits(w)' /\ \A v \in Writers : SaveFits(v)'
      /\ Alone'
  BY <1>2, <1>3, Leaving
<1>5. CASE claims' = claims
  <2>1. UNCHANGED files
    BY <1>3, <1>5 DEF files
  <2>2. QED  BY <1>2, <1>3, <2>1, QuietLeave
<1>6. CASE claims' = claims \ {c}
  <2>1. ASSUME ~raced, c \in claims
        PROVE  cursor # Absent /\ Carries(cursor, c.file) /\ cursor.generation >= c.file.generation
    <3>1. c.file \in Files /\ c.file # Absent
      BY <1>1, <2>1 DEF FilesFit, Custody
    <3>2. CASE Tidy(w)
      <4>1. Carries(cursor, c.file) /\ cursor.generation > c.file.generation
        BY <1>1, <2>1, <3>2 DEF SaveFits, Tidy
      <4>2. QED  BY <1>1, <3>1, <4>1, Nulls, OnDiskTyped
    <3>3. CASE PutBackDrop(w)
      <4>1. cursor = c.file
        BY <1>1, <2>1, <3>3 DEF SaveFits, PutBackDrop
      <4>2. QED  BY <1>1, <3>1, <4>1, OnDiskTyped DEF Carries
    <3>4. QED  BY <3>2, <3>3
  <2> HIDE DEF c
  <2>2. /\ claims' \in SUBSET Custody /\ FilesFit' /\ NothingLost'
        /\ \A v \in Writers :
             my'[v].token = my[v].token /\ my'[v].counters = my[v].counters => PermitFits(v)'
    BY <1>2, <1>3, <1>6, <2>1, ClaimDropped
  <2>3. TypeOK'
    BY <1>1, <1>3, <1>4, <2>2, Typed, TypeNext
  <2>4. \A v \in Writers : PermitFits(v)'
    BY <1>4, <2>2
  <2>5. QED
    BY <1>4, <2>2, <2>3, <2>4 DEF CursorInv
<1>7. QED
  BY <1>5, <1>6 DEF Tidy, PutBackDrop

(* The first boot *)

LEMMA PrepareStep ==
    ASSUME CursorInv, NEW w \in Writers, Prepare(w)
    PROVE  CursorInv'
<1>1. TypeOK /\ FilesFit /\ NothingLost /\ SaveFits(w) /\ my[w] \in Ticks /\ my \in [Writers -> Ticks]
  BY Typed DEF CursorInv
<1> DEFINE m == [my[w] EXCEPT !.pc = "create", !.candidate = TRUE]
<1>2. m \in Ticks /\ m.pc = "create" /\ m.token = my[w].token /\ m.counters = my[w].counters
  BY <1>1 DEF Ticks, Pcs, InSave
<1>3. /\ my' = [my EXCEPT ![w] = m] /\ my[w].pc = "prepare" /\ record' \in {record, "prepared"}
      /\ UNCHANGED <<cursor, claims, lock, ack, bases, raced, serial, faults>>
  BY <1>1 DEF Prepare
<1>4. m.pc \in InSave /\ my[w].pc \in InSave
  BY <1>2, <1>3 DEF InSave
<1> HIDE DEF m
<1>5. ack = NoAck /\ (\A b \in bases : b[1] # 0) /\ claims = {} /\ my[w].token = CreateOnly
  BY <1>1, <1>3 DEF SaveFits, Creating
<1>6. UNCHANGED foreign /\ crashes' \in 0 .. MaxCrashes /\ errors' \in 0 .. MaxErrors
  BY <1>1, <1>3, Unfaulted
<1>7. /\ my' \in [Writers -> Ticks] /\ my'[w] = m /\ lock' \in Writers \cup {"none"}
      /\ \A v \in Writers \ {w} : my'[v] = my[v] /\ SaveFits(v)'
      /\ Alone'
  BY <1>2, <1>3, <1>4, Inside
<1>8. SaveFits(w)'
  BY <1>2, <1>3, <1>5, <1>7 DEF SaveFits, Creating, Amending, Holding
<1>9. OnDisk' = OnDisk /\ FilesFit'
  <2>1. OnDisk' = OnDisk
    BY <1>3 DEF OnDisk
  <2>2. QED
    BY <1>1, <1>3, <1>5, <1>6, <2>1 DEF FilesFit
<1>10. NothingLost'
  BY <1>1, <1>3, <1>6, <1>9 DEF NothingLost, Kept, Owed
<1>11. TypeOK'
  <2>1. record' \in States
    BY <1>1, <1>3, Typed DEF States
  <2>2. QED  BY <1>1, <1>3, <1>6, <1>7, <2>1, Typed, TypeNext
<1>12. \A v \in Writers : PermitFits(v)' /\ SaveFits(v)'
  BY <1>2, <1>3, <1>6, <1>7, <1>8, PermitStays DEF CursorInv
<1>13. QED
  BY <1>7, <1>9, <1>10, <1>11, <1>12 DEF CursorInv

LEMMA NewFileTyped ==
    ASSUME TypeOK, NEW g \in Nat, NEW c \in Counters
    PROVE  /\ NewFile(g, c) \in Files /\ NewFile(g, c).id = serial + 1 /\ NewFile(g, c).sound
           /\ NewFile(g, c).generation = g /\ NewFile(g, c).counters = c
           /\ NewFile(g, c) # Absent /\ serial + 1 \in Nat \ {0}
  BY Typed DEF NewFile, Files, Absent

(* A file is made only where there is none, under a lock and by a permit to create. *)
LEMMA CreateStep ==
    ASSUME CursorInv, NEW w \in Writers, Create(w)
    PROVE  CursorInv'
<1>1. /\ TypeOK /\ FilesFit /\ NothingLost /\ SaveFits(w) /\ PermitFits(w)
      /\ my[w] \in Ticks /\ my \in [Writers -> Ticks] /\ serial \in Nat \ {0}
  BY Typed DEF CursorInv
<1>2. my[w].pc = "create" /\ my[w].pc \in InSave
  BY DEF Create, InSave
<1>3. SUFFICES ASSUME cursor = Absent, my[w].candidate  PROVE CursorInv'
  BY <1>2, Refusal DEF Create
<1> DEFINE n == NewFile(1, my[w].counters)
           m == [my[w] EXCEPT !.pc = "commit", !.candidate = FALSE, !.claim = [by |-> w, file |-> n]]
<1>4. /\ n \in Files /\ n.id = serial + 1 /\ n.sound /\ n.generation = 1
      /\ n.counters = my[w].counters /\ n # Absent /\ serial + 1 \in Nat \ {0}
  BY <1>1, NewFileTyped DEF Ticks
<1>5. /\ cursor' = n /\ serial' = serial + 1 /\ my' = [my EXCEPT ![w] = m]
      /\ UNCHANGED <<claims, record, lock, ack, bases, raced, faults>>
  <2>1. /\ cursor' = n /\ serial' = serial + 1
        /\ my' = [my EXCEPT ![w].pc = "commit", ![w].candidate = FALSE,
                            ![w].claim = [by |-> w, file |-> cursor']]
        /\ UNCHANGED <<claims, record, lock, ack, bases, raced, faults>>
    BY <1>3 DEF Create
  <2> HIDE DEF n
  <2>2. QED  BY <1>1, <2>1
<1> HIDE DEF n
<1>6. /\ m \in Ticks /\ m.pc = "commit" /\ m.token = my[w].token /\ m.counters = my[w].counters
      /\ m.claim.file = n
  BY <1>1, <1>4 DEF Ticks, Pcs, InSave, Custody
<1> HIDE DEF m
<1>7. ack = NoAck /\ (\A b \in bases : b[1] # 0) /\ claims = {} /\ my[w].token = CreateOnly
  BY <1>1, <1>2 DEF SaveFits, Creating
<1>8. UNCHANGED foreign /\ crashes' \in 0 .. MaxCrashes /\ errors' \in 0 .. MaxErrors
  BY <1>1, <1>5, Unfaulted
<1>9. /\ my' \in [Writers -> Ticks] /\ my'[w] = m /\ lock' \in Writers \cup {"none"}
      /\ \A v \in Writers \ {w} : my'[v] = my[v] /\ SaveFits(v)'
      /\ Alone'
  BY <1>2, <1>5, <1>6, Inside DEF InSave
<1>10. SaveFits(w)'
  BY <1>4, <1>5, <1>6, <1>7, <1>9 DEF SaveFits, Creating, Amending, Holding
<1>11. OnDisk = {} /\ OnDisk' = {n}
  BY <1>3, <1>4, <1>5, <1>7 DEF OnDisk
<1>12. TypeOK'
  BY <1>1, <1>4, <1>5, <1>8, <1>9, Typed, TypeNext
<1>13. FilesFit'
  <2>1. \A b \in bases : b[1] \in Nat /\ b[1] <= serial
    BY <1>1, Typed DEF FilesFit
  <2>2. ack.generation = 0
    BY <1>7 DEF NoAck
  <2>3. raced => foreign < MaxForeign
    BY <1>1 DEF FilesFit
  <2>4. n.id # 0 /\ n.id \in 1 .. serial'
    BY <1>1, <1>4, <1>5
  <2>5. ~Absent' \in {c.file : c \in claims'}
    BY <1>5, <1>7
  <2>6. \A b \in bases' : b[1] <= serial' /\ (cursor' # Absent => b[1] # cursor'.id)
    BY <1>1, <1>4, <1>5, <2>1
  <2>7. \A f \in OnDisk' : f = n
    BY <1>11
  <2>8. QED
    BY <1>4, <1>5, <1>7, <1>8, <2>2, <2>3, <2>4, <2>5, <2>6, <2>7 DEF FilesFit
<1>14. NothingLost'
  BY <1>5, <1>7, Nulls DEF NothingLost, Kept, NoAck
<1>15. ASSUME NEW v \in Writers  PROVE PermitFits(v)'
  <2>1. PermitFits(v) /\ my[v].token \in Tokens /\ my[v].counters \in Counters
    BY <1>1, Typed DEF CursorInv, Ticks
  <2>2. my'[v].token = my[v].token /\ my'[v].counters = my[v].counters
    BY <1>6, <1>9
  <2>3. ASSUME my[v].token # CreateOnly, foreign = MaxForeign
        PROVE  my[v].token.generation \in Nat /\ ~(my[v].token.generation > 1)
    BY <1>11, <2>1, <2>3 DEF PermitFits, Tokens
  <2>4. \A p \in Projects : my[v].counters[p] \in Nat /\ n.counters[p] \in Nat /\ n.counters[p] <= 1
    BY <1>1, <1>4, <1>7, <2>1, Bounds DEF PermitFits, Counters, Ticks
  <2>5. \A f \in OnDisk' : f = n
    BY <1>11
  <2>6. QED
    BY <1>5, <1>8, <2>1, <2>2, <2>3, <2>4, <2>5 DEF PermitFits
<1>16. QED
  BY <1>9, <1>10, <1>12, <1>13, <1>14, <1>15 DEF CursorInv

(* The record is committed, and from here on the protocol answers for the file. *)
LEMMA CommitStep ==
    ASSUME CursorInv, NEW w \in Writers, Commit(w)
    PROVE  CursorInv'
<1>1. /\ TypeOK /\ FilesFit /\ NothingLost /\ SaveFits(w)
      /\ my[w] \in Ticks /\ my \in [Writers -> Ticks] /\ cursor \in Files
  BY Typed DEF CursorInv
<1>2. /\ my[w].pc = "commit" /\ my[w].pc \in InSave /\ Leave(w) /\ record' = "committed"
      /\ bases' = bases \cup {<<0, my[w].claim.file.id>>}
      /\ IF cursor = my[w].claim.file THEN Vouch(cursor) ELSE UNCHANGED ack
      /\ UNCHANGED <<cursor, claims, raced, serial, faults>>
  BY DEF Commit, InSave
<1>3. UNCHANGED foreign /\ crashes' \in 0 .. MaxCrashes /\ errors' \in 0 .. MaxErrors
  BY <1>1, <1>2, Unfaulted
<1>4. ack = NoAck /\ claims = {} /\ my[w].claim.file.generation = 1
  BY <1>1, <1>2 DEF SaveFits, Creating
<1>5. /\ my' \in [Writers -> Ticks] /\ lock' \in Writers \cup {"none"}
      /\ \A v \in Writers \ {w} : my'[v] = my[v]
      /\ my'[w].pc = "idle" /\ PermitFits(w)' /\ \A v \in Writers : SaveFits(v)'
      /\ Alone'
  BY <1>2, Leaving
<1>6. ack.generation = 0 /\ \A p \in Projects : ack.counters[p] = 0
  BY <1>4, Nulls DEF NoAck
<1>7. /\ ack' \in [generation : Nat, counters : Counters]
      /\ \/ ack' = ack
         \/ /\ cursor.generation = 1 /\ ack'.generation \in {0, 1}
            /\ \A p \in Projects : ack'.counters[p] \in {cursor.counters[p], 0}
                                   /\ ack'.counters[p] >= cursor.counters[p]
  <2>1. CASE cursor = my[w].claim.file
    BY <1>1, <1>2, <1>4, <1>6, <2>1, Vouched
  <2>2. CASE cursor # my[w].claim.file
    BY <1>1, <1>2, <2>2, Typed
  <2>3. QED  BY <2>1, <2>2
<1>8. OnDisk' = OnDisk /\ OnDisk \in SUBSET Files
  BY <1>1, <1>2, OnDiskTyped DEF OnDisk
<1>9. bases' \in SUBSET (Nat \X Nat) /\ \A b \in bases' : b \in bases \/ b[1] = 0
  <2>1. my[w].claim.file \in Files
    <3>1. my[w].claim \in Custody \cup {NoClaim}
      BY <1>1 DEF Ticks
    <3>2. QED  BY <3>1, Nulls DEF Custody, NoClaim
  <2>2. bases \in SUBSET (Nat \X Nat) /\ my[w].claim.file.id \in Nat
    BY <1>1, <2>1, Typed, OnDiskTyped
  <2>3. QED  BY <1>2, <2>2
<1>10. TypeOK'
  <2>1. record' \in States
    BY <1>2 DEF States
  <2>2. QED  BY <1>1, <1>2, <1>3, <1>5, <1>7, <1>9, <2>1, Typed, TypeNext
<1>11. FilesFit'
  <2>1. cursor.sound => cursor.generation >= ack'.generation
    BY <1>1, <1>7 DEF FilesFit
  <2>2. \A b \in bases' : b[1] <= serial /\ (cursor # Absent => b[1] # cursor.id)
    <3>1. cursor # Absent => cursor.id # 0
      BY <1>1 DEF FilesFit
    <3>2. \A b \in bases : b[1] <= serial /\ (cursor # Absent => b[1] # cursor.id)
      BY <1>1 DEF FilesFit
    <3>3. 0 <= serial
      BY <1>1, Typed
    <3>4. QED  BY <1>9, <3>1, <3>2, <3>3
  <2>3. record' \notin {"none", "prepared"}
    BY <1>2
  <2>4. QED  BY <1>1, <1>2, <1>3, <1>8, <2>1, <2>2, <2>3 DEF FilesFit
<1>12. NothingLost'
  <2>1. CASE ack' = ack
    BY <1>6, <2>1 DEF NothingLost, Kept
  <2>2. CASE /\ cursor.generation = 1
             /\ \A p \in Projects : ack'.counters[p] \in {cursor.counters[p], 0}
                                    /\ ack'.counters[p] >= cursor.counters[p]
    <3>1. cursor \in OnDisk'
      BY <1>8, <2>2, Nulls DEF OnDisk
    <3>2. \A p \in Projects : cursor.counters[p] \in Nat
      BY <1>1, OnDiskTyped
    <3>3. ASSUME NEW p \in Projects, ack'.counters[p] > 0
          PROVE  cursor.counters[p] >= Owed(p)'
      <4>1. ack'.counters[p] = cursor.counters[p]
        BY <2>2, <3>3
      <4>2. QED  BY <3>2, <3>3, <4>1 DEF Owed
    <3>4. QED  BY <1>2, <3>1, <3>3 DEF NothingLost, Kept
  <2>3. QED  BY <1>7, <2>1, <2>2
<1>13. \A v \in Writers : PermitFits(v)'
  BY <1>2, <1>3, <1>5, PermitStays DEF CursorInv
<1>14. QED
  BY <1>5, <1>10, <1>11, <1>12, <1>13 DEF CursorInv

(* The rollback of a creation: nothing the protocol answers for goes with it. *)
LEMMA DiscardStep ==
    ASSUME CursorInv, NEW w \in Writers, Discard(w)
    PROVE  CursorInv'
<1>1. /\ TypeOK /\ FilesFit /\ NothingLost /\ SaveFits(w) /\ cursor \in Files
  BY Typed DEF CursorInv
<1>2. /\ my[w].pc = "discard" /\ my[w].pc \in InSave /\ Leave(w) /\ cursor' = Absent
      /\ UNCHANGED <<claims, record, ack, bases, raced, serial, faults>>
  BY DEF Discard, InSave
<1>3. UNCHANGED foreign /\ crashes' \in 0 .. MaxCrashes /\ errors' \in 0 .. MaxErrors
  BY <1>1, <1>2, Unfaulted
<1>4. /\ ack = NoAck /\ claims = {} /\ my[w].claim.file.generation = 1
      /\ ~raced => cursor = my[w].claim.file
  BY <1>1, <1>2 DEF SaveFits, Creating
<1>5. /\ my' \in [Writers -> Ticks] /\ lock' \in Writers \cup {"none"}
      /\ \A v \in Writers \ {w} : my'[v] = my[v]
      /\ my'[w].pc = "idle" /\ PermitFits(w)' /\ \A v \in Writers : SaveFits(v)'
      /\ Alone'
  BY <1>2, Leaving
<1>6. OnDisk \subseteq {cursor} /\ OnDisk' = {}
  BY <1>2, <1>4 DEF OnDisk
<1>7. TypeOK'
  BY <1>1, <1>2, <1>3, <1>5, Typed, Nulls, TypeNext
<1>8. FilesFit'
  <2>1. \A b \in bases : b[1] <= serial
    BY <1>1 DEF FilesFit
  <2>2. raced => foreign < MaxForeign
    BY <1>1 DEF FilesFit
  <2>3. \A b \in bases : record \in {"none", "prepared"} => b[1] # 0
    BY <1>1 DEF FilesFit
  <2>4. Absent.id = 0 /\ ~Absent.sound /\ Absent' = Absent /\ NoAck' = NoAck
    BY Nulls DEF Absent, NoAck, Zero
  <2>5. QED
    BY <1>2, <1>3, <1>4, <1>6, <2>1, <2>2, <2>3, <2>4 DEF FilesFit
<1>9. NothingLost'
  BY <1>2, <1>4, Nulls DEF NothingLost, Kept, NoAck
<1>10. ASSUME NEW v \in Writers \ {w}  PROVE PermitFits(v)'
  <2>1. PermitFits(v) /\ my[v].token \in Tokens /\ my'[v] = my[v]
    BY <1>1, <1>5, Typed DEF CursorInv, Ticks
  <2>2. ASSUME my[v].token # CreateOnly, foreign = MaxForeign
        PROVE  ~(my[v].token.generation > 1)
    <3>1. ~raced
      BY <1>1, <2>2, Bounds DEF FilesFit
    <3>2. \A f \in OnDisk : f.generation = 1
      BY <1>4, <1>6, <3>1
    <3>3. my[v].token.generation \in Nat
      BY <2>1 DEF Tokens
    <3>4. QED  BY <2>1, <2>2, <3>2, <3>3 DEF PermitFits
  <2>3. QED
    BY <1>3, <1>6, <2>1, <2>2 DEF PermitFits
<1>11. QED
  BY <1>5, <1>7, <1>8, <1>9, <1>10 DEF CursorInv

(* The amendment *)

LEMMA FenceStep ==
    ASSUME CursorInv, NEW w \in Writers, Fence(w)
    PROVE  CursorInv'
<1>1. /\ TypeOK /\ FilesFit /\ NothingLost /\ SaveFits(w)
      /\ my[w] \in Ticks /\ my \in [Writers -> Ticks] /\ cursor \in Files /\ record \in States
  BY Typed DEF CursorInv
<1>2. my[w].pc = "fence" /\ my[w].pc \in InSave /\ "custody" \in InSave /\ "custody" \in Pcs
  BY DEF Fence, InSave, Pcs
<1>3. SUFFICES ASSUME ~(my[w].state # "committed" /\ record = "invalid")  PROVE CursorInv'
  BY <1>2, Refusal DEF Fence
<1>4. /\ record' = (IF my[w].state = "committed" THEN record ELSE "committed")
      /\ IF cursor # Absent THEN Vouch(cursor) ELSE UNCHANGED ack
      /\ Now(w, "custody")
      /\ UNCHANGED <<cursor, claims, lock, bases, raced, serial, faults>>
  BY <1>3 DEF Fence
<1>5. record' \in {"committed", "invalid"}
  BY <1>1, <1>2, <1>4 DEF SaveFits
<1>6. UNCHANGED foreign /\ crashes' \in 0 .. MaxCrashes /\ errors' \in 0 .. MaxErrors
  BY <1>1, <1>4, Unfaulted
<1>7. claims = {} /\ my[w].token # CreateOnly
  BY <1>1, <1>2 DEF SaveFits, Amending
<1> DEFINE m == [my[w] EXCEPT !.pc = "custody"]
<1>8. m \in Ticks /\ my' = [my EXCEPT ![w] = m] /\ m.pc = "custody" /\ m.token = my[w].token
      /\ m.counters = my[w].counters
  <2>1. m \in Ticks /\ my' = [my EXCEPT ![w] = m]
    BY <1>1, <1>2, <1>4, NowFields
  <2>2. QED  BY <1>1, <2>1 DEF Ticks
<1> HIDE DEF m
<1>9. /\ my' \in [Writers -> Ticks] /\ my'[w] = m /\ lock' \in Writers \cup {"none"}
      /\ \A v \in Writers \ {w} : my'[v] = my[v] /\ SaveFits(v)'
      /\ Alone'
  BY <1>2, <1>4, <1>8, Inside
<1>10. SaveFits(w)'
  BY <1>4, <1>5, <1>7, <1>8, <1>9 DEF SaveFits, Creating, Amending, Holding
<1>11. /\ ack' \in [generation : Nat, counters : Counters]
       /\ \/ ack' = ack
          \/ /\ cursor # Absent /\ ack'.generation \in {cursor.generation, ack.generation}
             /\ \A p \in Projects : ack'.counters[p] \in {cursor.counters[p], ack.counters[p]}
  <2>1. CASE cursor = Absent
    BY <1>1, <1>4, <2>1, Typed
  <2>2. CASE cursor # Absent
    BY <1>1, <1>4, <2>2, Vouched
  <2>3. QED  BY <2>1, <2>2
<1>12. OnDisk' = OnDisk /\ \A f \in OnDisk : f = cursor
  BY <1>4, <1>7 DEF OnDisk
<1>13. TypeOK'
  <2>1. record' \in States
    BY <1>5 DEF States
  <2>2. QED  BY <1>1, <1>4, <1>6, <1>9, <1>11, <2>1, Typed, TypeNext
<1>14. FilesFit'
  <2>1. cursor.sound => cursor.generation >= ack'.generation
    BY <1>1, <1>11, OnDiskTyped DEF FilesFit
  <2>2. record' \notin {"none", "prepared"}
    BY <1>5
  <2>3. QED  BY <1>1, <1>4, <1>6, <1>12, <2>1, <2>2 DEF FilesFit
<1>15. NothingLost'
  <2> SUFFICES ASSUME ~raced, NEW p \in Projects, ack'.counters[p] > 0
               PROVE  \E f \in OnDisk : f.counters[p] >= Owed(p)'
    BY <1>4, <1>12 DEF NothingLost, Kept
  <2>1. /\ cursor.counters[p] \in Nat /\ ack.counters[p] \in Nat
        /\ ack.counters[p] > 0 => \E f \in OnDisk : f.counters[p] >= Owed(p)
    BY <1>1, OnDiskTyped DEF NothingLost, Kept
  <2>2. ack.counters[p] > 0 => cursor \in OnDisk /\ cursor.counters[p] >= Owed(p)
    BY <1>12, <2>1
  <2>3. Owed(p)' = IF foreign = MaxForeign THEN ack'.counters[p] ELSE 1
    BY <1>6 DEF Owed
  <2>4. CASE ack' = ack
    BY <2>2, <2>3, <2>4 DEF Owed
  <2>5. CASE cursor # Absent /\ ack'.counters[p] \in {cursor.counters[p], ack.counters[p]}
    <3>1. cursor \in OnDisk
      BY <2>5 DEF OnDisk
    <3>2. cursor.counters[p] >= Owed(p)'
      BY <2>1, <2>2, <2>3, <2>5 DEF Owed
    <3>3. QED  BY <3>1, <3>2
  <2>6. QED  BY <1>11, <2>4, <2>5
<1>16. \A v \in Writers : PermitFits(v)' /\ SaveFits(v)'
  BY <1>4, <1>6, <1>8, <1>9, <1>10, PermitStays DEF CursorInv
<1>17. QED
  BY <1>9, <1>13, <1>14, <1>15, <1>16 DEF CursorInv

LEMMA TakeCustodyStep ==
    ASSUME CursorInv, NEW w \in Writers, TakeCustody(w)
    PROVE  CursorInv'
<1>1. /\ TypeOK /\ FilesFit /\ NothingLost /\ SaveFits(w)
      /\ my[w] \in Ticks /\ my \in [Writers -> Ticks] /\ cursor \in Files
  BY Typed DEF CursorInv
<1>2. my[w].pc = "custody" /\ my[w].pc \in InSave
  BY DEF TakeCustody, InSave
<1>3. SUFFICES ASSUME cursor # Absent  PROVE CursorInv'
  BY <1>2, Refusal DEF TakeCustody
<1> DEFINE c == [by |-> w, file |-> cursor]
           m == [my[w] EXCEPT !.pc = "verify", !.claim = c]
<1>4. c \in Custody /\ c.file = cursor
  BY <1>1 DEF Custody
<1>5. /\ my' = [my EXCEPT ![w] = m] /\ claims' = claims \cup {my'[w].claim} /\ cursor' = Absent
      /\ UNCHANGED <<record, lock, ack, bases, raced, serial, faults>>
  BY <1>1, <1>3 DEF TakeCustody
<1> HIDE DEF c
<1>6. /\ m \in Ticks /\ m.pc = "verify" /\ m.token = my[w].token /\ m.counters = my[w].counters
      /\ m.claim = c
  BY <1>1, <1>4 DEF Ticks, Pcs, InSave
<1> HIDE DEF m
<1>7. UNCHANGED foreign /\ crashes' \in 0 .. MaxCrashes /\ errors' \in 0 .. MaxErrors
  BY <1>1, <1>5, Unfaulted
<1>8. /\ my' \in [Writers -> Ticks] /\ my'[w] = m /\ lock' \in Writers \cup {"none"}
      /\ \A v \in Writers \ {w} : my'[v] = my[v] /\ SaveFits(v)'
      /\ Alone'
  BY <1>2, <1>5, <1>6, Inside DEF InSave
<1>9. /\ claims = {} /\ my[w].token # CreateOnly /\ record \in {"committed", "invalid"}
      /\ claims' = {c}
  <2>1. claims = {} /\ my[w].token # CreateOnly /\ record \in {"committed", "invalid"}
    BY <1>1, <1>2 DEF SaveFits, Amending
  <2>2. QED  BY <1>5, <1>6, <1>8, <2>1
<1>10. OnDisk' = OnDisk /\ \A f \in OnDisk : f = cursor
  BY <1>3, <1>4, <1>5, <1>9 DEF OnDisk, Absent
<1>11. cursor.sound => cursor.generation >= ack.generation
  BY <1>1 DEF FilesFit
<1>12. \A b \in bases : b[1] <= serial /\ b[1] # cursor.id
  BY <1>1, <1>3 DEF FilesFit
<1>13. SaveFits(w)'
  <2>1. m.claim.file = cursor
    BY <1>4, <1>6
  <2>2. QED
    BY <1>5, <1>6, <1>8, <1>9, <1>11, <1>12, <2>1 DEF SaveFits, Creating, Amending, Holding
<1>14. TypeOK'
  BY <1>1, <1>4, <1>5, <1>7, <1>8, <1>9, Typed, Nulls, TypeNext
<1>15. FilesFit'
  <2>1. Absent.id = 0 /\ ~Absent.sound /\ Absent' = Absent
    BY Nulls DEF Absent, Zero
  <2>2. ~Absent \in {d.file : d \in claims'}
    BY <1>3, <1>4, <1>9
  <2>3. QED
    BY <1>1, <1>5, <1>7, <1>10, <1>12, <2>1, <2>2 DEF FilesFit
<1>16. NothingLost'
  BY <1>1, <1>5, <1>7, <1>10 DEF NothingLost, Kept, Owed
<1>17. ASSUME NEW v \in Writers  PROVE PermitFits(v)'
  <2>1. my'[v].token = my[v].token /\ my'[v].counters = my[v].counters
    BY <1>6, <1>8
  <2>2. QED  BY <1>7, <1>10, <2>1 DEF CursorInv, PermitFits
<1>18. QED
  BY <1>8, <1>13, <1>14, <1>15, <1>16, <1>17 DEF CursorInv

LEMMA PutBackStep ==
    ASSUME CursorInv, NEW w \in Writers, PutBack(w)
    PROVE  CursorInv'
<1>1. /\ TypeOK /\ FilesFit /\ NothingLost /\ SaveFits(w)
      /\ my[w] \in Ticks /\ my \in [Writers -> Ticks]
  BY Typed DEF CursorInv
<1>2. my[w].pc = "putBack" /\ my[w].pc \in InSave /\ "putBackDrop" \in InSave /\ "putBackDrop" \in Pcs
  BY DEF PutBack, InSave, Pcs
<1>3. SUFFICES ASSUME my[w].claim \in claims, cursor = Absent  PROVE CursorInv'
  BY <1>2, Refusal DEF PutBack
<1> DEFINE file == my[w].claim.file
           m == [my[w] EXCEPT !.pc = "putBackDrop"]
<1>4. /\ cursor' = file /\ Now(w, "putBackDrop")
      /\ UNCHANGED <<claims, record, lock, ack, bases, raced, serial, faults>>
  BY <1>3 DEF PutBack
<1>5. /\ claims = {my[w].claim} /\ (\A b \in bases : b[1] # file.id)
      /\ file.sound => file.generation >= ack.generation
  BY <1>1, <1>2, <1>3, Nulls DEF SaveFits, Holding
<1>6. file \in Files /\ file # Absent /\ OnDisk = {file} /\ file.id \in 1 .. serial
  <2>1. file \in Files /\ file # Absent /\ file \in OnDisk
    BY <1>1, <1>3, Typed DEF FilesFit, OnDisk, Custody
  <2>2. OnDisk = {file}
    BY <1>3, <1>5 DEF OnDisk
  <2>3. QED  BY <1>1, <2>1, <2>2 DEF FilesFit
<1>7. /\ m \in Ticks /\ my' = [my EXCEPT ![w] = m] /\ m.pc = "putBackDrop"
      /\ m.token = my[w].token /\ m.counters = my[w].counters /\ m.claim = my[w].claim
  <2>1. m \in Ticks /\ my' = [my EXCEPT ![w] = m]
    BY <1>1, <1>2, <1>4, NowFields
  <2>2. QED  BY <1>1, <2>1 DEF Ticks
<1> HIDE DEF m
<1>8. UNCHANGED foreign /\ crashes' \in 0 .. MaxCrashes /\ errors' \in 0 .. MaxErrors
  BY <1>1, <1>4, Unfaulted
<1>9. /\ my' \in [Writers -> Ticks] /\ my'[w] = m /\ lock' \in Writers \cup {"none"}
      /\ \A v \in Writers \ {w} : my'[v] = my[v] /\ SaveFits(v)'
      /\ Alone'
  BY <1>2, <1>4, <1>7, Inside
<1>10. SaveFits(w)'
  BY <1>4, <1>7, <1>9 DEF SaveFits, Creating, Amending, Holding
<1> HIDE DEF file
<1>11. OnDisk' = {file}
  <2>1. \A c \in claims : c.file = file
    BY <1>5 DEF file
  <2>2. QED  BY <1>4, <1>5, <1>6, <2>1 DEF OnDisk, Absent
<1>12. TypeOK'
  BY <1>1, <1>4, <1>6, <1>8, <1>9, Typed, TypeNext
<1>13. FilesFit'
  <2>1. /\ serial \in Nat /\ file.id # 0
    BY <1>1, <1>6, Typed
  <2>2. QED
    BY <1>1, <1>4, <1>5, <1>6, <1>8, <1>11, <2>1 DEF FilesFit
<1>14. NothingLost'
  BY <1>1, <1>4, <1>6, <1>8, <1>11 DEF NothingLost, Kept, Owed
<1>15. ASSUME NEW v \in Writers  PROVE PermitFits(v)'
  <2>1. my'[v].token = my[v].token /\ my'[v].counters = my[v].counters
    BY <1>7, <1>9
  <2>2. OnDisk' = OnDisk
    BY <1>6, <1>11
  <2>3. QED  BY <1>8, <2>1, <2>2 DEF CursorInv, PermitFits
<1>16. QED
  BY <1>9, <1>10, <1>12, <1>13, <1>14, <1>15 DEF CursorInv

(* The successor carries every counter of the file in custody. *)
LEMMA SuccessorCarries ==
    ASSUME CursorInv, NEW w \in Writers, my[w].pc = "publish", cursor = Absent
    PROVE  LET file == my[w].claim.file
               n == Successor(w)
           IN  /\ file \in Files /\ file.sound /\ OnDisk = {file} /\ claims = {my[w].claim}
               /\ n \in Files /\ n.id = serial + 1 /\ n.sound /\ n # Absent
               /\ n.generation = file.generation + 1 /\ Carries(n, file)
<1>1. TypeOK /\ FilesFit /\ SaveFits(w) /\ PermitFits(w) /\ my[w] \in Ticks
  BY Typed DEF CursorInv
<1> DEFINE file == my[w].claim.file
           c == Merged(my[w].counters, file.counters)
<1>2. /\ claims = {my[w].claim} /\ my[w].token # CreateOnly
      /\ file.sound /\ file.generation = my[w].token.generation
  BY <1>1 DEF SaveFits, Holding
<1>3. file \in Files /\ OnDisk = {file}
  <2>1. my[w].claim \in Custody
    BY <1>1, <1>2, Typed
  <2>2. file \in Files /\ file # Absent
    BY <1>1, <1>2, <2>1 DEF FilesFit, Custody
  <2>3. QED  BY <1>2, <2>2 DEF OnDisk
<1>4. /\ my[w].counters \in [Projects -> 0 .. MaxCount] /\ file.counters \in [Projects -> 0 .. MaxCount]
      /\ file.generation \in Nat /\ MaxCount \in Nat
  BY <1>1, <1>3, OnDiskTyped DEF Ticks, Counters
<1>5. c \in Counters /\ \A p \in Projects :
        c[p] = IF my[w].counters[p] # 0 THEN my[w].counters[p] ELSE file.counters[p]
  BY <1>4 DEF Merged, Counters
<1>6. ASSUME foreign = MaxForeign, NEW p \in Projects
      PROVE  c[p] >= file.counters[p]
  <2>1. my[w].counters[p] > 0 => my[w].counters[p] >= file.counters[p]
    BY <1>1, <1>2, <1>3, <1>6 DEF PermitFits
  <2>2. QED  BY <1>4, <1>5, <2>1
<1>7. ASSUME NEW p \in Projects, file.counters[p] > 0
      PROVE  c[p] > 0
  BY <1>4, <1>5, <1>7
<1>8. Successor(w) = NewFile(file.generation + 1, c)
  BY DEF Successor
<1> HIDE DEF c
<1>9. /\ Successor(w) \in Files /\ Successor(w).id = serial + 1 /\ Successor(w).sound
      /\ Successor(w) # Absent /\ Successor(w).generation = file.generation + 1
      /\ Successor(w).counters = c
  BY <1>1, <1>4, <1>5, <1>8, NewFileTyped
<1>10. Carries(Successor(w), file)
  BY <1>6, <1>7, <1>9 DEF Carries
<1>11. QED
  BY <1>2, <1>3, <1>9, <1>10

LEMMA PublishStep ==
    ASSUME CursorInv, NEW w \in Writers, Publish(w)
    PROVE  CursorInv'
<1>1. /\ TypeOK /\ FilesFit /\ NothingLost /\ SaveFits(w)
      /\ my[w] \in Ticks /\ my \in [Writers -> Ticks] /\ serial \in Nat \ {0}
      /\ bases \in SUBSET (Nat \X Nat) /\ ack.generation \in Nat
  BY Typed DEF CursorInv
<1>2. my[w].pc = "publish" /\ my[w].pc \in InSave
  BY DEF Publish, InSave
<1>3. CASE ~(cursor = Absent /\ my[w].candidate)
  <2>1. /\ Now(w, "putBack") /\ "putBack" \in InSave /\ "putBack" \in Pcs
        /\ UNCHANGED <<cursor, claims, record, lock, ack, bases, raced, serial, faults>>
    BY <1>3 DEF Publish, InSave, Pcs
  <2>2. my'[w].pc = "putBack" /\ my'[w].token = my[w].token /\ my'[w].claim = my[w].claim
    BY <1>1, <2>1, NowFields
  <2>3. SaveFits(w)'
    BY <1>1, <1>2, <2>1, <2>2 DEF SaveFits, Creating, Amending, Holding
  <2>4. QED  BY <1>2, <2>1, <2>3, Looks, Walks
<1>4. CASE cursor = Absent /\ my[w].candidate
  <2> DEFINE file == my[w].claim.file
             n == Successor(w)
             m == [my[w] EXCEPT !.pc = "tidy", !.candidate = FALSE]
  <2>1. /\ file \in Files /\ file.sound /\ OnDisk = {file} /\ claims = {my[w].claim}
        /\ n \in Files /\ n.id = serial + 1 /\ n.sound /\ n # Absent
        /\ n.generation = file.generation + 1 /\ Carries(n, file)
    BY <1>2, <1>4, SuccessorCarries
  <2>2. /\ cursor' = n /\ serial' = serial + 1 /\ Vouch(cursor')
        /\ bases' = bases \cup {<<file.id, serial'>>}
        /\ my' = [my EXCEPT ![w] = m]
        /\ UNCHANGED <<claims, record, lock, raced, faults>>
    <3>1. my' = [my EXCEPT ![w].pc = "tidy", ![w].candidate = FALSE]
      BY <1>4 DEF Publish
    <3>2. my' = [my EXCEPT ![w] = m]
      BY <1>1, <3>1
    <3> HIDE DEF n, m
    <3>3. QED  BY <1>4, <3>2 DEF Publish, n
  <2> HIDE DEF n
  <2>3. /\ m \in Ticks /\ m.pc = "tidy" /\ m.token = my[w].token /\ m.counters = my[w].counters
        /\ m.claim = my[w].claim
    BY <1>1 DEF Ticks, Pcs, InSave
  <2> HIDE DEF m
  <2>4. UNCHANGED foreign /\ crashes' \in 0 .. MaxCrashes /\ errors' \in 0 .. MaxErrors
    BY <1>1, <2>2, Unfaulted
  <2>5. /\ my' \in [Writers -> Ticks] /\ my'[w] = m /\ lock' \in Writers \cup {"none"}
        /\ \A v \in Writers \ {w} : my'[v] = my[v] /\ SaveFits(v)'
        /\ Alone'
    BY <1>2, <2>2, <2>3, Inside DEF InSave
  <2>6. /\ record \in {"committed", "invalid"} /\ (\A b \in bases : b[1] # file.id)
        /\ file.generation >= ack.generation
    BY <1>1, <1>2, <1>4, <2>1, Nulls DEF SaveFits, Holding
  <2>7. /\ ack' \in [generation : Nat, counters : Counters]
        /\ ack'.generation \in {n.generation, ack.generation}
        /\ \A p \in Projects : ack'.counters[p] \in {n.counters[p], ack.counters[p]}
    BY <1>1, <2>1, <2>2, Vouched
  <2>8. /\ file.id \in 1 .. serial /\ file.generation \in Nat /\ file.id \in Nat
        /\ foreign = MaxForeign => file.generation > 0
    BY <1>1, <2>1, OnDiskTyped DEF FilesFit
  <2>9. OnDisk' = {file, n}
    <3>1. \A c \in claims : c.file = file
      BY <2>1
    <3>2. my[w].claim \in claims
      BY <2>1
    <3>3. QED  BY <2>1, <2>2, <3>1, <3>2 DEF OnDisk, Absent
  <2>10. SaveFits(w)'
    <3>1. my'[w].pc = "tidy" /\ my'[w].claim.file = file
      BY <2>3, <2>5
    <3>2. \A p \in Projects : IF foreign' = MaxForeign THEN n.counters[p] >= file.counters[p]
                              ELSE file.counters[p] > 0 => n.counters[p] > 0
      BY <2>1, <2>4 DEF Carries
    <3>3. Carries(cursor, my[w].claim.file)' /\ cursor'.generation > my'[w].claim.file.generation
      <4> HIDE DEF file
      <4>1. cursor' = n /\ n.generation > file.generation
        BY <2>1, <2>2, <2>8
      <4>2. QED  BY <3>1, <3>2, <4>1 DEF Carries
    <3>4. QED  BY <3>1, <3>3 DEF SaveFits, Creating, Amending, Holding
  <2> HIDE DEF file
  <2>11. TypeOK'
    <3>1. bases' \in SUBSET (Nat \X Nat) /\ serial' \in Nat \ {0}
      BY <1>1, <2>2, <2>8
    <3>2. QED  BY <1>1, <2>1, <2>2, <2>4, <2>5, <2>7, <3>1, Typed, TypeNext
  <2>12. FilesFit'
    <3>1. n.id # 0 /\ n.id # file.id /\ n.id \in 1 .. serial' /\ file.id \in 1 .. serial'
      BY <1>1, <2>1, <2>2, <2>8
    <3>2. n.generation # file.generation /\ n.generation > 0 /\ n.generation >= ack'.generation
      BY <1>1, <2>1, <2>6, <2>7, <2>8
    <3>3. \A b \in bases' : b[1] <= serial' /\ (cursor' # Absent => b[1] # cursor'.id)
      <4>1. \A b \in bases : b[1] <= serial /\ b[1] \in Nat
        BY <1>1 DEF FilesFit
      <4>2. \A b \in bases' : b[1] <= serial /\ b[1] \in Nat
        BY <2>2, <2>8, <4>1
      <4>3. QED  BY <1>1, <2>1, <2>2, <4>2
    <3>4. (cursor.id = 0 <=> cursor = Absent)' /\ record' \notin {"none", "prepared"}
      BY <2>1, <2>2, <2>6, <3>1 DEF Absent
    <3>5. (~Absent \in {c.file : c \in claims})' /\ (raced => foreign < MaxForeign)'
      BY <1>1, <2>2, <2>4 DEF FilesFit
    <3>6. \A f \in OnDisk' : f.id \in 1 .. serial'
      BY <2>9, <3>1
    <3>7. \A f, g \in OnDisk' : f.id = g.id => f = g
      BY <2>9, <3>1
    <3>8. foreign' = MaxForeign => /\ \A f \in OnDisk' : f.sound /\ f.generation > 0
                                   /\ \A f, g \in OnDisk' : f.generation = g.generation => f = g
      BY <2>1, <2>4, <2>8, <2>9, <3>2
    <3>9. cursor'.generation >= ack'.generation
      BY <2>2, <3>2
    <3>10. QED
      BY <3>3, <3>4, <3>5, <3>6, <3>7, <3>8, <3>9 DEF FilesFit
  <2>13. NothingLost'
    <3> SUFFICES ASSUME ~raced, NEW p \in Projects, ack'.counters[p] > 0
                 PROVE  n.counters[p] >= Owed(p)'
      BY <2>2, <2>9 DEF NothingLost, Kept
    <3>1. n.counters[p] \in Nat /\ ack.counters[p] \in Nat
      BY <1>1, <2>1, OnDiskTyped
    <3>2. Owed(p)' = IF foreign = MaxForeign THEN ack'.counters[p] ELSE 1
      BY <2>4 DEF Owed
    <3>3. ack.counters[p] > 0 => n.counters[p] >= Owed(p)
      <4>1. ack.counters[p] > 0 => file.counters[p] >= Owed(p)
        BY <1>1, <2>1 DEF NothingLost, Kept
      <4>2. QED  BY <1>1, <2>1, <4>1, Carrying
    <3>4. QED  BY <2>7, <3>1, <3>2, <3>3 DEF Owed
  <2>14. ASSUME NEW v \in Writers  PROVE PermitFits(v)'
    <3>1. PermitFits(v) /\ my[v].token \in Tokens
      BY <1>1 DEF CursorInv, Ticks
    <3>2. my'[v].token = my[v].token /\ my'[v].counters = my[v].counters
      BY <2>3, <2>5
    <3>3. my[v].token.generation \in Nat
      BY <3>1 DEF Tokens
    <3>4. ASSUME my[v].token # CreateOnly, foreign = MaxForeign
          PROVE  /\ n.generation # my[v].token.generation
                 /\ my[v].token.generation > 1 => file.generation >= my[v].token.generation
      BY <2>1, <2>8, <3>1, <3>3, <3>4 DEF PermitFits
    <3>5. QED
      BY <2>1, <2>4, <2>9, <3>1, <3>2, <3>4 DEF PermitFits
  <2>15. QED
    BY <2>5, <2>10, <2>11, <2>12, <2>13, <2>14 DEF CursorInv
<1>5. QED  BY <1>3, <1>4

-----------------------------------------------------------------------------
(* Acts of programs that ignore the protocol *)

LEMMA ForeignFiles ==
    ASSUME TypeOK, Install \/ Lose \/ CorruptRecord
    PROVE  /\ Foreign /\ cursor' \in Files
           /\ \/ /\ cursor'.id = serial + 1 /\ cursor' # Absent /\ serial' = serial + 1
              \/ (cursor' = Absent \/ cursor' = cursor) /\ serial' = serial
           /\ record' = record \/ record' = "invalid"
<1>1. cursor \in Files /\ serial \in Nat \ {0}
  BY Typed
<1>2. CASE Install
  <2>1. PICK g \in ForeignGens, p \in Projects :
          cursor' \in {NewFile(g, [Zero EXCEPT ![p] = MaxCount]), [Absent EXCEPT !.id = serial + 1]}
    BY <1>2 DEF Install
  <2>2. [Zero EXCEPT ![p] = MaxCount] \in Counters /\ g \in Nat
    BY Nulls, Bounds DEF Counters
  <2>3. CASE cursor' = NewFile(g, [Zero EXCEPT ![p] = MaxCount])
    BY <1>2, <2>2, <2>3, NewFileTyped DEF Install
  <2>4. CASE cursor' = [Absent EXCEPT !.id = serial + 1]
    <3>1. cursor' = [id |-> serial + 1, sound |-> FALSE, generation |-> 0, counters |-> Zero]
      BY <2>4 DEF Absent
    <3>2. Zero \in Counters
      BY Nulls
    <3>3. cursor' \in Files
      BY <1>1, <3>1, <3>2 DEF Files
    <3>4. cursor'.id = serial + 1 /\ cursor' # Absent
      BY <1>1, <3>1, Nulls
    <3>5. QED  BY <1>2, <3>3, <3>4 DEF Install
  <2>5. QED  BY <2>1, <2>3, <2>4
<1>3. CASE Lose
  BY <1>3, Nulls DEF Lose
<1>4. CASE CorruptRecord
  BY <1>1, <1>4 DEF CorruptRecord
<1>5. QED  BY <1>2, <1>3, <1>4

(* What the protocol answers for afterwards. *)
LEMMA ForeignAck ==
    ASSUME TypeOK, Foreign, cursor' \in Files
    PROVE  /\ ack' \in [generation : Nat, counters : Counters]
           /\ ack = NoAck => ack' = NoAck
           /\ ack # NoAck /\ cursor'.sound => ack'.generation = cursor'.generation
           /\ \A c \in claims : ack # NoAck /\ ~cursor'.sound /\ claims = {c}
                                  => ack'.generation = c.file.generation
           /\ \A p \in Projects : ack'.counters[p] > 0 =>
                \E f \in {cursor'} \cup {c.file : c \in claims} : f.counters[p] >= 1
<1>1. ack \in [generation : Nat, counters : Counters] /\ claims \in SUBSET Custody
  BY Typed
<1>2. CASE ack = NoAck
  <2>1. ack' = NoAck
    BY <1>2 DEF Foreign
  <2>2. \A p \in Projects : ~(NoAck.counters[p] > 0)
    BY Nulls DEF NoAck
  <2>3. QED  BY <1>1, <1>2, <2>1, <2>2
<1>3. CASE ack # NoAck
  <2> DEFINE gens == {c.file.generation : c \in claims}
             g == IF cursor'.sound THEN cursor'.generation
                  ELSE IF claims = {} THEN ack.generation ELSE Least(gens)
             k == [p \in Projects |->
                     IF \E f \in {cursor'} \cup {c.file : c \in claims} : f.counters[p] > 0
                     THEN 1 ELSE 0]
  <2>1. ack' = [generation |-> g, counters |-> k]
    BY <1>3 DEF Foreign
  <2>2. \A c \in claims : c.file \in Files /\ c.file.generation \in Nat
    BY <1>1 DEF Custody, Files
  <2>3. claims # {} => Least(gens) \in gens
    <3>1. gens \in SUBSET Nat /\ (claims # {} => gens # {})
      BY <2>2
    <3> HIDE DEF gens
    <3>2. QED  BY <3>1, LeastIsNat
  <2>4. g \in Nat
    BY <1>1, <2>2, <2>3 DEF Files
  <2>5. k \in Counters
    BY Bounds DEF Counters
  <2>6. \A c \in claims : ~cursor'.sound /\ claims = {c} => g = c.file.generation
    BY <2>3
  <2>7. ASSUME NEW p \in Projects, k[p] > 0
        PROVE  \E f \in {cursor'} \cup {c.file : c \in claims} : f.counters[p] >= 1
    <3>1. PICK f \in {cursor'} \cup {c.file : c \in claims} : f.counters[p] > 0
      BY <2>7
    <3>2. f.counters[p] \in Nat
      BY <2>2, <3>1, OnDiskTyped
    <3>3. QED  BY <3>1, <3>2
  <2>8. cursor'.sound => g = cursor'.generation
    OBVIOUS
  <2> HIDE DEF g, k
  <2>9. QED  BY <1>3, <2>1, <2>4, <2>5, <2>6, <2>7, <2>8
<1>4. QED  BY <1>2, <1>3

LEMMA ForeignStep ==
    ASSUME CursorInv, Install \/ Lose \/ CorruptRecord
    PROVE  CursorInv'
<1>1. /\ TypeOK /\ FilesFit /\ Alone /\ serial \in Nat \ {0} /\ cursor \in Files
      /\ foreign \in 0 .. MaxForeign
  BY Typed DEF CursorInv
<1>2. /\ Foreign /\ cursor' \in Files
      /\ \/ /\ cursor'.id = serial + 1 /\ cursor' # Absent /\ serial' = serial + 1
         \/ (cursor' = Absent \/ cursor' = cursor) /\ serial' = serial
      /\ record' = record \/ record' = "invalid"
  BY <1>1, ForeignFiles
<1>3. /\ UNCHANGED <<claims, lock, my, bases, crashes, errors>>
      /\ foreign' \in 0 .. MaxForeign /\ foreign' < MaxForeign
      /\ raced' = (raced \/ \E w \in Writers : my[w].pc \in Unlinking)
  BY <1>1, <1>2, Bounds DEF Foreign
<1>4. /\ ack' \in [generation : Nat, counters : Counters]
      /\ ack = NoAck => ack' = NoAck
      /\ ack # NoAck /\ cursor'.sound => ack'.generation = cursor'.generation
      /\ \A c \in claims : ack # NoAck /\ ~cursor'.sound /\ claims = {c}
                             => ack'.generation = c.file.generation
      /\ \A p \in Projects : ack'.counters[p] > 0 =>
           \E f \in {cursor'} \cup {c.file : c \in claims} : f.counters[p] >= 1
  BY <1>1, <1>2, ForeignAck
<1>5. foreign' # MaxForeign
  BY <1>3, Bounds
<1>6. TypeOK'
  <2>1. record' \in States /\ serial' \in Nat \ {0} /\ raced' \in BOOLEAN
    BY <1>1, <1>2, <1>3, Typed DEF States
  <2>2. QED  BY <1>1, <1>2, <1>3, <1>4, <2>1, Typed, TypeNext
<1>7. OnDisk' \subseteq OnDisk \cup {cursor'} /\ \A c \in claims : c.file \in OnDisk
  BY <1>3 DEF OnDisk
<1>8. NoAck.generation = 0 /\ NoAck' = NoAck /\ Absent' = Absent
  BY DEF NoAck, Absent, Zero
<1>9. FilesFit'
  <2>1. (cursor.id = 0 <=> cursor = Absent)'
    BY <1>1, <1>2, <1>8, Nulls DEF FilesFit
  <2>2. (~Absent \in {c.file : c \in claims})'
    BY <1>1, <1>3, <1>8 DEF FilesFit
  <2>3. \A f \in OnDisk : f.id \in 1 .. serial
    BY <1>1 DEF FilesFit
  <2>4. \A f \in OnDisk' : f \in OnDisk \/ (f = cursor' /\ cursor'.id = serial + 1
                                            /\ serial' = serial + 1)
    <3>1. ASSUME NEW f \in OnDisk', f = cursor', f \notin OnDisk
          PROVE  cursor'.id = serial + 1 /\ serial' = serial + 1
      <4>1. cursor' # Absent
        BY <1>3, <1>7, <1>8, <3>1, <2>2 DEF OnDisk
      <4>2. cursor' # cursor
        BY <3>1, <4>1 DEF OnDisk
      <4>3. QED  BY <1>2, <4>1, <4>2
    <3>2. QED  BY <1>7, <3>1
  <2>5. \A f \in OnDisk' : f.id \in 1 .. serial'
    BY <1>1, <1>2, <2>3, <2>4
  <2>6. \A f, g \in OnDisk' : f.id = g.id => f = g
    <3>1. \A f, g \in OnDisk : f.id = g.id => f = g
      BY <1>1 DEF FilesFit
    <3>2. QED  BY <1>1, <2>3, <2>4, <3>1
  <2>7. cursor'.sound => cursor'.generation >= ack'.generation
    BY <1>2, <1>4, <1>8 DEF Files
  <2>8. \A b \in bases : b[1] <= serial' /\ (cursor' # Absent => b[1] # cursor'.id)
    <3>1. \A b \in bases : b[1] \in Nat /\ b[1] <= serial /\ (cursor # Absent => b[1] # cursor.id)
      BY <1>1, Typed DEF FilesFit
    <3>2. QED  BY <1>1, <1>2, <3>1
  <2>9. record' \in {"none", "prepared"} => ack' = NoAck /\ \A b \in bases : b[1] # 0
    BY <1>1, <1>2, <1>4 DEF FilesFit
  <2>10. QED
    BY <1>3, <1>5, <1>8, <2>1, <2>2, <2>5, <2>6, <2>7, <2>8, <2>9 DEF FilesFit
<1>10. NothingLost'
  <2> SUFFICES ASSUME NEW p \in Projects, ack'.counters[p] > 0
               PROVE  \E f \in OnDisk' : f.counters[p] >= 1
    BY <1>5 DEF NothingLost, Kept, Owed
  <2>1. PICK f \in {cursor'} \cup {c.file : c \in claims} : f.counters[p] >= 1
    BY <1>4
  <2>2. f # Absent
    BY <2>1, Nulls
  <2>3. f \in OnDisk'
    BY <1>3, <1>8, <2>1, <2>2 DEF OnDisk
  <2>4. QED  BY <2>1, <2>3
<1>11. ASSUME NEW w \in Writers  PROVE SaveFits(w)' /\ PermitFits(w)'
  <2>1. SaveFits(w) /\ PermitFits(w) /\ my'[w] = my[w]
    BY <1>3 DEF CursorInv
  <2>2. PermitFits(w)'
    BY <1>5, <2>1 DEF PermitFits
  <2>3. my[w].pc \in {"weigh", "retire", "discard", "putBackDrop", "tidy"} => raced'
    BY <1>3 DEF Unlinking
  <2>4. my[w].pc \in Holding =>
          (my[w].claim.file.sound /\ ~cursor'.sound => my[w].claim.file.generation >= ack'.generation)
    <3> SUFFICES ASSUME my[w].pc \in Holding, ~cursor'.sound
                 PROVE  my[w].claim.file.generation >= ack'.generation
      OBVIOUS
    <3>1. claims = {my[w].claim}
      BY <2>1 DEF SaveFits
    <3>2. my[w].claim.file.generation \in Nat
      BY <1>1, <3>1, Typed DEF Custody, Files
    <3>3. QED  BY <1>4, <1>8, <3>1, <3>2
  <2>5. SaveFits(w)'
    BY <1>2, <1>3, <1>4, <1>8, <2>1, <2>3, <2>4 DEF SaveFits, Creating
  <2>6. QED  BY <2>2, <2>5
<1>12. Alone'
  BY <1>1, <1>3 DEF Alone
<1>13. QED
  BY <1>6, <1>9, <1>10, <1>11, <1>12 DEF CursorInv

-----------------------------------------------------------------------------
(* The theorems *)

LEMMA CursorInit ==
    ASSUME Init
    PROVE  CursorInv /\ OneWinner
<1>1. PICK p \in Projects :
        cursor \in {Absent, [id |-> 1, sound |-> TRUE, generation |-> 2,
                             counters |-> [Zero EXCEPT ![p] = 1]]}
  BY DEF Init
<1>2. /\ serial = 1 /\ claims = {} /\ lock = "none" /\ bases = {} /\ raced = FALSE
      /\ my = [w \in Writers |-> IdleTick] /\ record \in {"none", "committed"}
      /\ crashes = MaxCrashes /\ errors = MaxErrors /\ foreign = MaxForeign
      /\ ack = [generation |-> IF record = "committed" THEN cursor.generation ELSE 0,
                counters |-> IF record = "committed" THEN cursor.counters ELSE Zero]
  BY DEF Init
<1>3. [Zero EXCEPT ![p] = 1] \in Counters
  BY Nulls, Bounds DEF Counters
<1>4. cursor \in Files /\ (cursor # Absent => cursor.id = 1 /\ cursor.sound /\ cursor.generation = 2)
  <2>1. CASE cursor = Absent
    BY <2>1, Nulls
  <2>2. CASE cursor = [id |-> 1, sound |-> TRUE, generation |-> 2,
                       counters |-> [Zero EXCEPT ![p] = 1]]
    <3> DEFINE k == [Zero EXCEPT ![p] = 1]
    <3>1. k \in Counters
      BY <1>3
    <3> HIDE DEF k
    <3>2. cursor = [id |-> 1, sound |-> TRUE, generation |-> 2, counters |-> k]
      BY <2>2 DEF k
    <3>3. QED  BY <3>1, <3>2 DEF Files
  <2>3. QED  BY <1>1, <2>1, <2>2
<1>5. \A f \in OnDisk : f = cursor /\ f # Absent
  BY <1>2 DEF OnDisk
<1>6. cursor \in OnDisk \/ cursor = Absent
  BY DEF OnDisk
<1>7. ack \in [generation : Nat, counters : Counters]
      /\ (record # "committed" => ack = NoAck)
      /\ (record = "committed" => ack.generation = cursor.generation /\ ack.counters = cursor.counters)
  <2>1. CASE record = "committed"
    BY <1>2, <1>4, <2>1 DEF Files
  <2>2. CASE record # "committed"
    BY <1>2, <2>2, Nulls DEF NoAck
  <2>3. QED  BY <2>1, <2>2
<1>8. TypeOK
  <2>1. my \in [Writers -> Ticks]
    BY <1>2, Nulls
  <2>2. /\ crashes \in 0 .. MaxCrashes /\ errors \in 0 .. MaxErrors
        /\ foreign \in 0 .. MaxForeign /\ serial \in Nat \ {0}
    BY <1>2, Bounds
  <2>3. QED
    BY <1>2, <1>4, <1>7, <2>1, <2>2 DEF TypeOK, Ticks, Tokens, Pcs, States
<1>9. FilesFit
  <2>1. cursor.id = 0 <=> cursor = Absent
    BY <1>4, Nulls
  <2>2. cursor.sound => cursor.generation >= ack.generation
    BY <1>4, <1>7, Nulls DEF NoAck, Files
  <2>3. record \in {"none", "prepared"} => ack = NoAck
    BY <1>7
  <2>4. \A f \in OnDisk : f.id \in 1 .. serial /\ f.sound /\ f.generation > 0
    BY <1>2, <1>4, <1>5
  <2>5. QED  BY <1>2, <1>5, <2>1, <2>2, <2>3, <2>4 DEF FilesFit
<1>10. NothingLost
  <2> SUFFICES ASSUME NEW q \in Projects, ack.counters[q] > 0
               PROVE  \E f \in OnDisk : f.counters[q] >= Owed(q)
    BY DEF NothingLost, Kept
  <2>1. record = "committed" /\ cursor # Absent
    BY <1>7, Nulls DEF NoAck
  <2>2. cursor.counters[q] \in Nat /\ ack.counters[q] = cursor.counters[q]
    BY <1>4, <1>7, <1>8, <2>1, OnDiskTyped
  <2>3. QED  BY <1>2, <1>6, <2>1, <2>2 DEF Owed
<1>11. ASSUME NEW w \in Writers  PROVE my[w].pc = "idle" /\ SaveFits(w) /\ PermitFits(w)
  <2>1. my[w].pc = "idle" /\ my[w].token = CreateOnly /\ my[w].counters = Zero
    BY <1>2 DEF IdleTick
  <2>2. SaveFits(w)
    BY <2>1 DEF SaveFits, Creating, Amending, Holding
  <2>3. PermitFits(w)
    BY <2>1, Nulls DEF PermitFits
  <2>4. QED  BY <2>1, <2>2, <2>3
<1>12. Alone
  BY <1>11 DEF Alone, InSave
<1>13. QED
  BY <1>2, <1>8, <1>9, <1>10, <1>11, <1>12 DEF CursorInv, OneWinner

LEMMA CursorStutters ==
    ASSUME CursorInv, UNCHANGED vars
    PROVE  CursorInv'
<1>1. UNCHANGED files /\ my' = my /\ lock' = lock /\ crashes' = crashes /\ errors' = errors
  BY DEF vars, faults, files
<1>2. Alone' /\ \A v \in Writers : SaveFits(v)' /\ PermitFits(v)'
  <2>1. Alone'
    BY <1>1 DEF CursorInv, Alone
  <2>2. \A v \in Writers : PermitFits(v)'
    BY <1>1, PermitStays DEF CursorInv, files
  <2>3. ASSUME NEW v \in Writers  PROVE SaveFits(v)'
    <3>1. SaveFits(v)
      BY DEF CursorInv
    <3>2. QED  BY <1>1, <3>1 DEF SaveFits, Carries, files
  <2>4. QED  BY <2>1, <2>2, <2>3
<1>3. QED
  BY <1>1, <1>2, Typed, Assembled DEF CursorInv

LEMMA CursorSteps ==
    ASSUME CursorInv, Serialised, [Next]_vars
    PROVE  CursorInv'
<1>1. ASSUME NEW w \in Writers, Step(w)  PROVE CursorInv'
  BY <1>1, TickSteps, TakeLockStep, JudgeStep, WeighStep, RetireStep, BootSteps, PrepareStep,
     CreateStep, CommitStep, DiscardStep, AmendLooks, FenceStep, TakeCustodyStep, PublishStep,
     PutBackStep, DropSteps DEF Step
<1>2. ASSUME NEW w \in Writers, LoadCursor(w) \/ Tidy(w)  PROVE CursorInv'
  BY <1>2, TickSteps, DropSteps
<1>3. ASSUME NEW w \in Writers, CommitFails(w) \/ LockTimesOut(w) \/ Error(w) \/ Crash(w)
      PROVE  CursorInv'
  BY <1>3, BootSteps, Faults
<1>4. CASE Install \/ Lose \/ CorruptRecord
  BY <1>4, ForeignStep
<1>5. CASE UNCHANGED vars
  BY <1>5, CursorStutters
<1>6. QED
  BY <1>1, <1>2, <1>3, <1>4, <1>5 DEF Next

(* A save replaces a file that no save replaced before, and only a first boot creates one. *)
LEMMA WinnersDiffer ==
    ASSUME CursorInv, OneWinner, [Next]_vars
    PROVE  OneWinner'
<1>1. CASE bases' = bases
  BY <1>1 DEF OneWinner
<1>2. ASSUME NEW w \in Writers, Commit(w)  PROVE OneWinner'
  <2>1. \A b \in bases : b[1] # 0
    BY <1>2 DEF CursorInv, SaveFits, Commit, Creating
  <2>2. bases' = bases \cup {<<0, my[w].claim.file.id>>}
    BY <1>2 DEF Commit
  <2>3. QED  BY <2>1, <2>2 DEF OneWinner
<1>3. ASSUME NEW w \in Writers, Publish(w)  PROVE OneWinner'
  <2>1. \A b \in bases : b[1] # my[w].claim.file.id
    BY <1>3 DEF CursorInv, SaveFits, Publish, Holding
  <2>2. bases' = bases \/ bases' = bases \cup {<<my[w].claim.file.id, serial'>>}
    BY <1>3 DEF Publish
  <2>3. QED  BY <1>1, <2>1, <2>2 DEF OneWinner
<1>4. ASSUME NEW w \in Writers, Step(w), ~Commit(w), ~Publish(w)  PROVE bases' = bases
  BY <1>4 DEF Step, LookForFirstBoot, ProveFirstBoot, TakeLock, Judge, Weigh, Retire, FirstBoot,
     Prepare, Create, Compare, Discard, ReadRecord, Read, Bind, Fence, TakeCustody, Verify,
     PutBack, PutBackDrop, Refuse
<1>5. ASSUME NEW w \in Writers,
             LoadCursor(w) \/ Tidy(w) \/ CommitFails(w) \/ LockTimesOut(w) \/ Error(w) \/ Crash(w)
      PROVE  bases' = bases
  BY <1>5 DEF LoadCursor, Tidy, CommitFails, LockTimesOut, Error, Crash
<1>6. CASE Install \/ Lose \/ CorruptRecord
  BY <1>1, <1>6 DEF Install, Lose, CorruptRecord, Foreign
<1>7. CASE UNCHANGED vars
  BY <1>1, <1>7 DEF vars
<1>8. QED
  BY <1>1, <1>2, <1>3, <1>4, <1>5, <1>6, <1>7 DEF Next

Rises == (foreign' = foreign /\ cursor' # cursor /\ cursor'.sound)
            => cursor'.generation >= ack.generation

LEMMA NoStepBack ==
    ASSUME CursorInv, [Next]_vars
    PROVE  [Rises]_vars
<1>1. TypeOK /\ ack.generation \in Nat
  BY Typed DEF CursorInv
<1>2. ASSUME NEW w \in Writers, Create(w)  PROVE Rises
  <2>1. SUFFICES ASSUME cursor' # cursor  PROVE cursor'.generation >= ack.generation
    BY DEF Rises
  <2>2. cursor' = NewFile(1, my[w].counters)
    BY <1>2, <2>1 DEF Create, Refuse
  <2>3. ack = NoAck
    BY <1>2 DEF CursorInv, SaveFits, Create, Creating
  <2>4. QED  BY <2>2, <2>3 DEF NewFile, NoAck
<1>3. ASSUME NEW w \in Writers, Publish(w)  PROVE Rises
  <2>1. SUFFICES ASSUME cursor' # cursor  PROVE cursor'.generation >= ack.generation
    BY DEF Rises
  <2>2. cursor = Absent /\ cursor' = Successor(w) /\ my[w].pc = "publish"
    BY <1>3, <2>1 DEF Publish
  <2>3. /\ my[w].claim.file \in Files /\ my[w].claim.file.sound
        /\ Successor(w).generation = my[w].claim.file.generation + 1
    BY <2>2, SuccessorCarries
  <2>4. my[w].claim.file.generation >= ack.generation
    BY <2>2, <2>3, Nulls DEF CursorInv, SaveFits, Holding
  <2>5. my[w].claim.file.generation \in Nat
    BY <2>3 DEF Files
  <2>6. QED  BY <1>1, <2>2, <2>3, <2>4, <2>5
<1>4. ASSUME NEW w \in Writers, PutBack(w)  PROVE Rises
  <2>1. SUFFICES ASSUME cursor' # cursor, cursor'.sound
                 PROVE  cursor'.generation >= ack.generation
    BY DEF Rises
  <2>2. cursor = Absent /\ cursor' = my[w].claim.file /\ my[w].pc = "putBack"
    BY <1>4, <2>1 DEF PutBack, Refuse
  <2>3. QED  BY <2>1, <2>2, Nulls DEF CursorInv, SaveFits, Holding
<1>5. ASSUME NEW w \in Writers, Discard(w) \/ TakeCustody(w)  PROVE Rises
  <2>1. cursor' \in {Absent, cursor}
    BY <1>5 DEF Discard, TakeCustody, Refuse
  <2>2. QED  BY <2>1, Nulls DEF Rises
<1>6. ASSUME NEW w \in Writers, Step(w), ~Create(w), ~Publish(w), ~PutBack(w), ~Discard(w),
             ~TakeCustody(w)
      PROVE  cursor' = cursor
  BY <1>6 DEF Step, LookForFirstBoot, ProveFirstBoot, TakeLock, Judge, Weigh, Retire, FirstBoot,
     Prepare, Commit, Compare, ReadRecord, Read, Bind, Fence, Verify, PutBackDrop, Refuse
<1>7. ASSUME NEW w \in Writers,
             LoadCursor(w) \/ Tidy(w) \/ CommitFails(w) \/ LockTimesOut(w) \/ Error(w) \/ Crash(w)
      PROVE  cursor' = cursor
  BY <1>7 DEF LoadCursor, Tidy, CommitFails, LockTimesOut, Error, Crash
<1>8. ASSUME Install \/ Lose \/ CorruptRecord  PROVE Rises
  <2>1. foreign' = foreign - 1 /\ foreign \in Nat
    BY <1>1, <1>8, Typed, Bounds DEF Install, Lose, CorruptRecord, Foreign
  <2>2. QED  BY <2>1 DEF Rises
<1>9. ASSUME cursor' = cursor  PROVE Rises
  BY <1>9 DEF Rises
<1>10. QED
  BY <1>2, <1>3, <1>4, <1>5, <1>6, <1>7, <1>8, <1>9 DEF Next

(* Whatever writers, crashes, errors and foreign programs do between two steps,  *)
(* what the protocol answers for is on disk, in the cursor or in a claim         *)
(* (phase1_cursor.py, save_phase1_cursor under _cursor_mutation_lock).           *)
THEOREM CursorInvariant ==
    ASSUME Serialised
    PROVE  Spec => []CursorInv
<1>1. Init => CursorInv
  BY CursorInit
<1>2. CursorInv /\ [Next]_vars => CursorInv'
  BY CursorSteps
<1>3. QED
  BY <1>1, <1>2, PTL DEF Spec

(* A save is a compare-and-swap: no two of them replace one file, and none sets  *)
(* the generation back (phase1_cursor.py, _swap_under_custody).                  *)
THEOREM SavesSwap ==
    ASSUME Serialised
    PROVE  Spec => SavesAreSwaps
<1>1. Init => OneWinner
  BY CursorInit
<1>2. CursorInv /\ OneWinner /\ [Next]_vars => OneWinner'
  BY WinnersDiffer
<1>3. CursorInv /\ [Next]_vars => [Rises]_vars
  BY NoStepBack
<1>4. GenerationsRise <=> [][Rises]_vars
  BY DEF GenerationsRise, Rises
<1>5. QED
  BY <1>1, <1>2, <1>3, <1>4, CursorInvariant, PTL DEF Spec, SavesAreSwaps
=============================================================================

------------------------- MODULE WriterLeaseProofs -------------------------
(* Proofs about WriterLease for every number of callers, executions and    *)
(* repositories, every lifetime of a lease and every number of attempts.   *)
EXTENDS WriterLease, TLAPS

Snaps == [locks : [Repository -> Lease], ver : 0 .. MaxVer, now : 0 .. MaxNow]
Args ==
  [op : Ops, exec : Exec \cup {NoExec}, session : Session \cup {NoSession}, gen : 0 .. MaxVer]
Holdings == [gen : 0 .. MaxVer, expires : 0 .. MaxNow + Ttl]

(* What a step of one caller does to its own bookkeeping, and what it      *)
(* leaves alone of the others'.                                            *)
Books(p) ==
  /\ at' \in [Proc -> {"idle", "read", "write", "dead"}]
  /\ tries' \in [Proc -> 0 .. MaxTries - 1]
  /\ snap' \in [Proc -> Snaps]
  /\ arg' \in [Proc -> Args]
  /\ \A q \in Proc : q # p => at'[q] = at[q] /\ snap'[q] = snap[q] /\ arg'[q] = arg[q]

LEMMA Nulls ==
  /\ NoLease \in Lease /\ NoSnap \in Snaps /\ NoArg \in Args /\ NotHeld \in Holdings
  /\ 0 \in 0 .. MaxTries - 1 /\ 0 \in 0 .. MaxVer
<1>1. 0 \in 0 .. MaxVer /\ 0 \in 0 .. MaxNow /\ 0 \in 0 .. MaxNow + Ttl /\ 0 \in 0 .. MaxTries - 1
  BY BoundsAssumption
<1>2. NoLease \in Lease
  BY <1>1 DEF NoLease, Lease
<1>3. NoArg \in Args
  BY <1>1 DEF NoArg, Args, Ops
<1>4. NotHeld \in Holdings
  BY <1>1 DEF NotHeld, Holdings
<1>5. NoSnap \in Snaps
  BY <1>1, <1>2 DEF NoSnap, Snaps
<1>6. QED
  BY <1>1, <1>2, <1>3, <1>4, <1>5

LEMMA Callers ==
  ASSUME NEW p \in Owner
  PROVE  p \in Proc /\ ExecOf[p] \in Exec /\ Repo(p) \in Repository
  BY CallersAssumption DEF Proc, Repo

LEMMA Typed ==
  ASSUME TypeOK
  PROVE  /\ lock \in [Repository -> Lease] /\ ver \in 0 .. MaxVer /\ now \in 0 .. MaxNow
         /\ ver \in Nat /\ now \in Nat
         /\ at \in [Proc -> {"idle", "read", "write", "dead"}]
         /\ tries \in [Proc -> 0 .. MaxTries - 1]
         /\ snap \in [Proc -> Snaps] /\ arg \in [Proc -> Args] /\ held \in [Owner -> Holdings]
         /\ turn \in [Runner -> {"new", "gate", "writing", "stopped", "done"}]
         /\ since \in [Runner -> 0 .. MaxNow] /\ evidence \in [Exec -> 0 .. MaxVer]
         /\ cancelled \subseteq Exec
  BY BoundsAssumption DEF TypeOK, Snaps, Args, Holdings

(* The bookkeeping of a caller: a call begins, a read plans, a write is    *)
(* over.                                                                   *)
LEMMA BeginBooks ==
  ASSUME TypeOK, NEW p \in Proc, NEW a \in Args, Begin(p, a)
  PROVE  Books(p) /\ at[p] = "idle" /\ at'[p] = "read" /\ arg'[p] = a
  BY Typed DEF Begin, Books

LEMMA ReturnBooks ==
  ASSUME TypeOK, NEW p \in Proc, Return(p)
  PROVE  Books(p) /\ at'[p] = "idle"
  BY Typed, Nulls DEF Return, Books

LEMMA PlanBooks ==
  ASSUME TypeOK, NEW p \in Proc, Plan(p)
  PROVE  /\ Books(p) /\ at'[p] = "write" /\ arg'[p] = arg[p]
         /\ snap'[p] = [locks |-> lock, ver |-> ver, now |-> now]
<1>1. [locks |-> lock, ver |-> ver, now |-> now] \in Snaps
  BY Typed DEF Snaps
<1>2. QED
  BY <1>1, Typed DEF Plan, Books

LEMMA AgainBooks ==
  ASSUME TypeOK, NEW p \in Proc, Again(p)
  PROVE  Books(p) /\ (at'[p] = "idle" \/ (at'[p] = "read" /\ arg'[p] = arg[p]))
<1>1. CASE tries[p] + 1 < MaxTries
  <2>1. tries[p] + 1 \in 0 .. MaxTries - 1
    BY <1>1, Typed, BoundsAssumption
  <2>2. QED
    BY <1>1, <2>1, Typed, Nulls DEF Again, Books
<1>2. CASE ~(tries[p] + 1 < MaxTries)
  BY <1>2, ReturnBooks DEF Again
<1>3. QED
  BY <1>1, <1>2

LEMMA KeptBooks ==
  ASSUME TypeOK, UNCHANGED <<at, tries, snap, arg>>
  PROVE  \A p \in Proc : Books(p)
  BY Typed DEF Books

-----------------------------------------------------------------------------
(* What a write that lands does to the lease of its repository. *)

Repo_(p) == RepoOf[arg[p].exec]

Opens(p, old, new) ==
  /\ p \in Owner /\ arg[p].op = "acquire" /\ ~Active(old, snap[p].now)
  /\ \E s \in Session \cup {NoSession} : new = NewLease(p, old, s, snap[p].now)

Renews(p, old, new) ==
  /\ p \in Owner /\ arg[p].op = "renew" /\ SameOwner(p, old) /\ old.status = "active"
  /\ new = [old EXCEPT !.expires = snap[p].now + Ttl]

Links(p, old, new) ==
  /\ p \in Owner /\ arg[p].op = "link" /\ SameOwner(p, old)
  /\ old.status = "active" /\ old.session = NoSession
  /\ \E s \in Session \cup {NoSession} : new = [old EXCEPT !.session = s]

Frees(p, old, new) ==
  /\ p \in Owner /\ arg[p].op = "release" /\ SameOwner(p, old)
  /\ new = Released(old)

Recovers(p, old, new) ==
  /\ p \in Watcher /\ Reconciles(old, arg[p])
  /\ new = Released(old)

LeaseStep(p, old, new) ==
  Opens(p, old, new) \/ Renews(p, old, new) \/ Links(p, old, new) \/ Frees(p, old, new)
    \/ Recovers(p, old, new)

Writes(p) ==
  /\ at[p] = "write" /\ snap[p].now <= now
  /\ lock[Repo_(p)].expires <= snap[p].now + Ttl
  /\ ver' = ver + 1 /\ ver' \in 0 .. MaxVer
  /\ \E l \in Lease : LeaseStep(p, lock[Repo_(p)], l) /\ lock' = [lock EXCEPT ![Repo_(p)] = l]

LEMMA Addressed ==
  ASSUME LeaseInv, NEW p \in Proc, Running(p)
  PROVE  /\ arg[p].exec \in Exec /\ Repo_(p) \in Repository
         /\ p \in Owner => arg[p].exec = ExecOf[p] /\ Repo_(p) = Repo(p)
<1>1. arg[p].exec \in Exec /\ (p \in Owner => arg[p].exec = ExecOf[p])
  BY Callers DEF LeaseInv, CallsFit, Proc
<1>2. QED
  BY <1>1, CallersAssumption DEF Repo_, Repo

LEMMA LandsWrites ==
  ASSUME LeaseInv, NEW p \in Proc, at[p] = "write", NEW l, LeaseStep(p, Judged(p), l), Lands(p, l)
  PROVE  Writes(p)
<1>1. TypeOK /\ Repo_(p) \in Repository /\ (p \in Owner => ExecOf[p] \in Exec)
  BY Addressed, Callers DEF LeaseInv, Running
<1>2. /\ snap[p].locks = lock /\ snap[p].now <= now /\ ver < MaxVer /\ ver' = ver + 1
      /\ Judged(p).expires <= snap[p].now + Ttl
  BY DEF LeaseInv, PlansFit, PlanFits, Lands
<1>3. Judged(p) = lock[Repo_(p)] /\ lock' = [lock EXCEPT ![Repo_(p)] = l]
  BY <1>2 DEF Judged, Lands, Repo_
<1>4. ver' \in 0 .. MaxVer
  BY <1>1, <1>2, Typed, BoundsAssumption
<1>5. l \in Lease
  <2> DEFINE old == lock[Repo_(p)]
  <2>1. old \in Lease /\ snap[p].now \in 0 .. MaxNow /\ old.gen <= ver /\ arg[p] \in Args
    BY <1>1, Typed DEF Snaps, LeaseInv, GenerationsFit
  <2>2. snap[p].now + Ttl \in 0 .. MaxNow + Ttl /\ old.gen + 1 \in 0 .. MaxVer
    <3>1. snap[p].now \in Nat /\ snap[p].now <= MaxNow /\ Ttl \in Nat /\ MaxNow \in Nat
      BY <2>1, BoundsAssumption
    <3>2. old.gen \in Nat /\ old.gen <= ver /\ ver \in Nat /\ ver < MaxVer /\ MaxVer \in Nat
      BY <1>1, <1>2, <2>1, Typed, BoundsAssumption DEF Lease
    <3>3. QED
      BY <3>1, <3>2
  <2>3. CASE Opens(p, old, l)
    <3>1. p \in Owner /\ ExecOf[p] \in Exec
      BY <1>1, <2>3 DEF Opens
    <3>2. QED
      BY <2>2, <2>3, <3>1 DEF Opens, NewLease, Lease
  <2>4. CASE Renews(p, old, l)
    BY <2>1, <2>2, <2>4 DEF Renews, Lease
  <2>5. CASE Links(p, old, l)
    BY <2>1, <2>5 DEF Links, Lease
  <2>6. CASE Frees(p, old, l) \/ Recovers(p, old, l)
    BY <2>1, <2>6 DEF Frees, Recovers, Released, Lease
  <2>7. QED
    BY <1>3, <2>3, <2>4, <2>5, <2>6 DEF LeaseStep
<1>6. QED
  BY <1>2, <1>3, <1>4, <1>5 DEF Writes

(* The owner is told what the registry now says of its repository. *)
Told(p) ==
  held' = [held EXCEPT ![p] = [gen |-> lock'[Repo(p)].gen, expires |-> lock'[Repo(p)].expires]]

LEMMA LandsTold ==
  ASSUME LeaseInv, NEW p \in Owner, at[p] = "write", NEW l, Lands(p, l), Holds(p, l)
  PROVE  Told(p)
<1>1. p \in Proc /\ Repo(p) \in Repository /\ Repo(p) = RepoOf[arg[p].exec] /\ TypeOK
  BY Callers, Addressed DEF LeaseInv, Running, Repo_
<1>2. snap[p].locks \in [Repository -> Lease]
  BY <1>1, Typed DEF Snaps
<1>3. lock'[Repo(p)] = l
  BY <1>1, <1>2 DEF Lands
<1>4. QED
  BY <1>3 DEF Holds, Told

(* A write that lands changes the lease and the version; one that does not *)
(* changes the caller's bookkeeping only.                                  *)
LEMMA AcquireWrites ==
  ASSUME LeaseInv, NEW p \in Owner, AcquireWrite(p), lock' # lock \/ ver' # ver
  PROVE  /\ Writes(p) /\ Return(p)
         /\ Told(p) \/ UNCHANGED held
<1> DEFINE l == NewLease(p, Judged(p), arg[p].session, snap[p].now)
<1>1. p \in Proc /\ arg[p].session \in Session \cup {NoSession}
  BY Callers, Typed DEF LeaseInv, Args
<1>2. LeaseStep(p, Judged(p), l)
  BY <1>1 DEF AcquireWrite, LeaseInv, PlansFit, PlanFits, LeaseStep, Opens
<1>3. Lands(p, l) /\ Return(p) /\ (Holds(p, l) \/ UNCHANGED held)
  BY DEF AcquireWrite, Answered, Unanswered, Refused, Fails
<1>4. QED
  BY <1>1, <1>2, <1>3, LandsWrites, LandsTold DEF AcquireWrite

LEMMA OwnedWrites ==
  ASSUME LeaseInv, NEW p \in Owner, OwnedWrite(p), lock' # lock \/ ver' # ver
  PROVE  /\ Writes(p) /\ Return(p)
         /\ (arg[p].op = "renew" /\ Told(p)) \/ UNCHANGED held
<1> DEFINE l == OwnedChange(Judged(p), arg[p], snap[p].now)
<1>1. p \in Proc /\ arg[p].session \in Session \cup {NoSession}
  BY Callers, Typed DEF LeaseInv, Args
<1>2. LeaseStep(p, Judged(p), l)
  <2>1. arg[p].op \in {"renew", "release", "link"} /\ SameOwner(p, Judged(p))
    BY <1>1 DEF OwnedWrite, LeaseInv, PlansFit, PlanFits
  <2>2. CASE arg[p].op = "renew"
    BY <1>1, <2>1, <2>2 DEF OwnedWrite, OwnedChange, LeaseInv, PlansFit, PlanFits, LeaseStep, Renews
  <2>3. CASE arg[p].op = "release"
    BY <1>1, <2>1, <2>3 DEF OwnedChange, LeaseStep, Frees
  <2>4. CASE arg[p].op = "link"
    BY <1>1, <2>1, <2>4 DEF OwnedWrite, OwnedChange, LeaseInv, PlansFit, PlanFits, LeaseStep, Links
  <2>5. QED
    BY <2>1, <2>2, <2>3, <2>4
<1>3. Lands(p, l) /\ Return(p) /\ ((arg[p].op = "renew" /\ Holds(p, l)) \/ UNCHANGED held)
  BY DEF OwnedWrite, Answered, Unanswered, Refused, Fails
<1>4. QED
  BY <1>1, <1>2, <1>3, LandsWrites, LandsTold DEF OwnedWrite

LEMMA ReconcileWrites ==
  ASSUME LeaseInv, NEW w \in Watcher, ReconcileWrite(w), lock' # lock \/ ver' # ver
  PROVE  Writes(w) /\ Return(w) /\ UNCHANGED <<held, world>>
<1>1. w \in Proc
  BY DEF Proc
<1>2. LeaseStep(w, Judged(w), Released(Judged(w)))
  BY <1>1 DEF ReconcileWrite, LeaseInv, PlansFit, PlanFits, LeaseStep, Recovers
<1>3. Lands(w, Released(Judged(w))) /\ Return(w) /\ UNCHANGED <<held, world>>
  BY DEF ReconcileWrite, Unanswered, Refused, Fails
<1>4. QED
  BY <1>1, <1>2, <1>3, LandsWrites DEF ReconcileWrite

-----------------------------------------------------------------------------
(* The steps, by what they change. *)

state == <<lock, ver, held, world>>

(* A call, a read or a write that failed, of p: nothing but bookkeeping.   *)
BookStep(p) ==
  /\ UNCHANGED state /\ Books(p)
  /\ at[p] # "dead" /\ at'[p] # "dead"
  /\ at'[p] = "idle" \/ arg'[p] = arg[p] \/ p \in Watcher

(* A write of p that landed: the owner may have been told. *)
WriteStep(p) ==
  /\ Writes(p) /\ Books(p) /\ at'[p] = "idle" /\ UNCHANGED world
  /\ \/ UNCHANGED held
     \/ p \in Owner /\ arg[p].op \in {"acquire", "renew"} /\ Told(p)

(* An owner found the lease its own. *)
FoundStep(p) ==
  /\ p \in Operator /\ UNCHANGED <<lock, ver, world>> /\ Books(p) /\ at'[p] = "idle"
  /\ SameOwner(p, lock[Repo(p)]) /\ lock[Repo(p)].status = "active"
  /\ Told(p)

LEMMA FailedWrite ==
  ASSUME LeaseInv, NEW p \in Proc, NEW l, Unanswered(p, l), lock' = lock, ver' = ver
  PROVE  Books(p) /\ (at'[p] = "idle" \/ (at'[p] = "read" /\ arg'[p] = arg[p]))
<1>1. TypeOK /\ ~Lands(p, l)
  BY Typed DEF LeaseInv, Lands
<1>2. Return(p) \/ Again(p)
  BY <1>1 DEF Unanswered, Refused, Fails
<1>3. QED
  BY <1>1, <1>2, ReturnBooks, AgainBooks

LEMMA AcquireWriteStep ==
  ASSUME LeaseInv, NEW p \in Owner, AcquireWrite(p)
  PROVE  WriteStep(p) \/ (BookStep(p) /\ at'[p] # "write")
<1>1. p \in Proc /\ TypeOK /\ UNCHANGED world
  BY Callers DEF LeaseInv, AcquireWrite
<1>2. CASE lock' # lock \/ ver' # ver
  BY <1>1, <1>2, AcquireWrites, ReturnBooks DEF WriteStep, AcquireWrite
<1>3. CASE lock' = lock /\ ver' = ver
  <2>1. PICK l : Unanswered(p, l) /\ UNCHANGED held
    BY <1>1, <1>3, Typed DEF AcquireWrite, Answered, Lands
  <2>2. QED
    BY <1>1, <1>3, <2>1, FailedWrite DEF AcquireWrite, BookStep, state
<1>4. QED
  BY <1>2, <1>3

LEMMA OwnedWriteStep ==
  ASSUME LeaseInv, NEW p \in Owner, OwnedWrite(p)
  PROVE  WriteStep(p) \/ (BookStep(p) /\ at'[p] # "write")
<1>1. p \in Proc /\ TypeOK /\ UNCHANGED world
  BY Callers DEF LeaseInv, OwnedWrite
<1>2. CASE lock' # lock \/ ver' # ver
  BY <1>1, <1>2, OwnedWrites, ReturnBooks DEF WriteStep
<1>3. CASE lock' = lock /\ ver' = ver
  <2>1. PICK l : Unanswered(p, l) /\ UNCHANGED held
    BY <1>1, <1>3, Typed DEF OwnedWrite, Answered, Lands
  <2>2. QED
    BY <1>1, <1>3, <2>1, FailedWrite DEF OwnedWrite, BookStep, state
<1>4. QED
  BY <1>2, <1>3

LEMMA ReconcileWriteStep ==
  ASSUME LeaseInv, NEW w \in Watcher, ReconcileWrite(w)
  PROVE  WriteStep(w) \/ (BookStep(w) /\ at'[w] # "write" /\ (at'[w] = "idle" \/ arg'[w] = arg[w]))
<1>1. w \in Proc /\ TypeOK /\ UNCHANGED <<held, world>>
  BY DEF Proc, LeaseInv, ReconcileWrite
<1>2. CASE lock' # lock \/ ver' # ver
  BY <1>1, <1>2, ReconcileWrites, ReturnBooks DEF WriteStep
<1>3. CASE lock' = lock /\ ver' = ver
  BY <1>1, <1>3, FailedWrite DEF BookStep, ReconcileWrite, state
<1>4. QED
  BY <1>2, <1>3

LEMMA AcquireReadStep ==
  ASSUME LeaseInv, NEW p \in Owner, AcquireRead(p)
  PROVE  /\ FoundStep(p) \/ BookStep(p)
         /\ Plan(p) \/ at'[p] = "idle"
         /\ Plan(p) => ~Active(Reads(p), now)
<1>1. p \in Proc /\ TypeOK /\ UNCHANGED <<lock, ver, world>> /\ Reads(p) = lock[Repo(p)]
  BY Callers, Addressed DEF LeaseInv, AcquireRead, Running, Reads, Repo_
<1>2. CASE Active(Reads(p), now) /\ p \in Operator /\ SameOwner(p, Reads(p)) /\ Holds(p, Reads(p)) /\ Return(p)
  <2>1. Books(p) /\ at'[p] = "idle"
    BY <1>1, <1>2, ReturnBooks
  <2>2. ~Plan(p)
    BY <1>1, <2>1, PlanBooks
  <2>3. FoundStep(p)
    BY <1>1, <1>2, <2>1 DEF FoundStep, Holds, Told, Active
  <2>4. QED
    BY <2>1, <2>2, <2>3
<1>3. CASE Return(p) /\ UNCHANGED held
  <2>1. Books(p) /\ at'[p] = "idle"
    BY <1>1, <1>3, ReturnBooks
  <2>2. ~Plan(p)
    BY <1>1, <2>1, PlanBooks
  <2>3. QED
    BY <1>1, <1>3, <2>1, <2>2 DEF AcquireRead, BookStep, state
<1>4. CASE ~Active(Reads(p), now) /\ Plan(p) /\ UNCHANGED held
  BY <1>1, <1>4, PlanBooks DEF AcquireRead, BookStep, state
<1>5. QED
  BY <1>2, <1>3, <1>4 DEF AcquireRead

LEMMA OwnedReadStep ==
  ASSUME LeaseInv, NEW p \in Owner, OwnedRead(p)
  PROVE  /\ BookStep(p)
         /\ \/ at'[p] = "idle"
            \/ /\ Plan(p) /\ ~OwnedRefuses(p, Reads(p), arg[p]) /\ ~OwnedSettled(Reads(p), arg[p])
<1>1. p \in Proc /\ TypeOK
  BY Callers DEF LeaseInv
<1>2. CASE Return(p)
  BY <1>1, <1>2, ReturnBooks DEF OwnedRead, BookStep, state
<1>3. CASE Plan(p) /\ ~OwnedRefuses(p, Reads(p), arg[p]) /\ ~OwnedSettled(Reads(p), arg[p])
  BY <1>1, <1>3, PlanBooks DEF OwnedRead, BookStep, state
<1>4. QED
  BY <1>2, <1>3 DEF OwnedRead

LEMMA ReconcileReadStep ==
  ASSUME LeaseInv, NEW w \in Watcher, ReconcileRead(w)
  PROVE  /\ BookStep(w)
         /\ at'[w] = "idle" \/ (Plan(w) /\ Reconciles(Reads(w), arg[w]))
<1>1. w \in Proc /\ TypeOK
  BY DEF LeaseInv, Proc
<1>2. CASE Return(w)
  BY <1>1, <1>2, ReturnBooks DEF ReconcileRead, BookStep, state
<1>3. CASE Plan(w) /\ Reconciles(Reads(w), arg[w])
  BY <1>1, <1>3, PlanBooks DEF ReconcileRead, BookStep, state
<1>4. QED
  BY <1>2, <1>3 DEF ReconcileRead

LEMMA ReconcileCallStep ==
  ASSUME LeaseInv, NEW w \in Watcher, ReconcileUnlinkedCall(w) \/ ReconcileStoppedCall(w)
  PROVE  /\ BookStep(w) /\ at'[w] = "read" /\ arg'[w].exec \in Exec
         /\ \/ arg'[w].op = "unlinked" /\ arg'[w].exec \in cancelled
            \/ /\ arg'[w].op = "stopped" /\ evidence[arg'[w].exec] > 0
               /\ arg'[w].gen = evidence[arg'[w].exec]
               /\ \A p \in Runner : ExecOf[p] = arg'[w].exec => turn[p] # "writing"
<1>1. w \in Proc /\ TypeOK
  BY DEF LeaseInv, Proc
<1>2. CASE ReconcileUnlinkedCall(w)
  <2>1. PICK e \in cancelled : Begin(w, [NoArg EXCEPT !.op = "unlinked", !.exec = e])
    BY <1>2 DEF ReconcileUnlinkedCall
  <2>2. e \in Exec /\ [NoArg EXCEPT !.op = "unlinked", !.exec = e] \in Args
    BY <1>1, Nulls, Typed DEF Args, Ops
  <2>3. Books(w) /\ at'[w] = "read" /\ arg'[w] = [NoArg EXCEPT !.op = "unlinked", !.exec = e]
    BY <1>1, <2>1, <2>2, BeginBooks
  <2>4. arg'[w].op = "unlinked" /\ arg'[w].exec = e
    BY <2>3 DEF NoArg
  <2>5. QED
    BY <1>2, <2>2, <2>3, <2>4 DEF ReconcileUnlinkedCall, BookStep, Begin, state
<1>3. CASE ReconcileStoppedCall(w)
  <2>1. PICK e \in Exec :
          /\ evidence[e] > 0
          /\ \A p \in Runner : ExecOf[p] = e => turn[p] # "writing"
          /\ Begin(w, [NoArg EXCEPT !.op = "stopped", !.exec = e, !.gen = evidence[e]])
    BY <1>3 DEF ReconcileStoppedCall
  <2>2. [NoArg EXCEPT !.op = "stopped", !.exec = e, !.gen = evidence[e]] \in Args
    BY <1>1, Nulls, Typed DEF Args, Ops
  <2>3. /\ Books(w) /\ at'[w] = "read"
        /\ arg'[w] = [NoArg EXCEPT !.op = "stopped", !.exec = e, !.gen = evidence[e]]
    BY <1>1, <2>1, <2>2, BeginBooks
  <2>4. arg'[w].op = "stopped" /\ arg'[w].exec = e /\ arg'[w].gen = evidence[e]
    BY <2>3 DEF NoArg
  <2>5. QED
    BY <1>3, <2>1, <2>3, <2>4 DEF ReconcileStoppedCall, BookStep, Begin, state
<1>4. QED
  BY <1>2, <1>3

(* A call of an owner, and what it gives up by it. *)
CallStep(p) ==
  /\ UNCHANGED <<lock, ver, now, since, evidence, cancelled>> /\ Books(p) /\ at[p] = "idle"
  /\ at'[p] = "read" /\ arg'[p].exec = ExecOf[p]
  /\ \/ /\ arg'[p].op = "acquire" /\ held' = held
        /\ IF p \in Runner THEN turn[p] = "new" /\ turn' = [turn EXCEPT ![p] = "gate"] ELSE turn' = turn
     \/ /\ arg'[p].op \in {"renew", "link"} /\ UNCHANGED <<held, turn>>
        /\ p \in Runner => turn[p] = "writing"
     \/ /\ arg'[p].op = "release" /\ held' = [held EXCEPT ![p] = NotHeld]
        /\ IF p \in Runner
           THEN turn[p] \in {"gate", "stopped"} /\ turn' = [turn EXCEPT ![p] = "done"]
           ELSE turn' = turn

LEMMA OwnerCallStep ==
  ASSUME LeaseInv, NEW p \in Owner, AcquireCall(p) \/ OwnedCall(p)
  PROVE  CallStep(p)
<1>1. p \in Proc /\ TypeOK /\ ExecOf[p] \in Exec
  BY Callers DEF LeaseInv
<1>2. CASE AcquireCall(p)
  <2>1. PICK s \in Session \cup {NoSession} :
          /\ p \in Runner => turn[p] = "new" /\ s = NoSession
          /\ Begin(p, [NoArg EXCEPT !.op = "acquire", !.exec = ExecOf[p], !.session = s])
    BY <1>2 DEF AcquireCall
  <2> DEFINE a == [NoArg EXCEPT !.op = "acquire", !.exec = ExecOf[p], !.session = s]
  <2>2. a \in Args /\ a.op = "acquire" /\ a.exec = ExecOf[p]
    BY <1>1, Nulls DEF Args, Ops, NoArg
  <2>3. Books(p) /\ at[p] = "idle" /\ at'[p] = "read" /\ arg'[p] = a
    BY <1>1, <2>1, <2>2, BeginBooks
  <2>4. QED
    BY <1>2, <2>1, <2>2, <2>3 DEF AcquireCall, CallStep
<1>3. CASE OwnedCall(p)
  <2>1. PICK op \in {"renew", "release", "link"}, s \in Session \cup {NoSession} :
          /\ p \in Runner => (IF op = "link" THEN turn[p] = "writing" ELSE turn[p] \in {"gate", "stopped"})
          /\ op = "renew" => p \in Operator
          /\ Begin(p, [NoArg EXCEPT !.op = op, !.exec = ExecOf[p], !.session = s])
          /\ held' = IF op = "release" THEN [held EXCEPT ![p] = NotHeld] ELSE held
          /\ turn' = IF op = "release" /\ p \in Runner THEN [turn EXCEPT ![p] = "done"] ELSE turn
          /\ UNCHANGED <<lock, ver, now, since, evidence, cancelled>>
    BY <1>3 DEF OwnedCall
  <2> DEFINE a == [NoArg EXCEPT !.op = op, !.exec = ExecOf[p], !.session = s]
  <2>2. a \in Args /\ a.op = op /\ a.exec = ExecOf[p]
    BY <1>1, Nulls DEF Args, Ops, NoArg
  <2>3. Books(p) /\ at[p] = "idle" /\ at'[p] = "read" /\ arg'[p] = a
    BY <1>1, <2>1, <2>2, BeginBooks
  <2>4. p \in Operator => p \notin Runner
    BY CallersAssumption
  <2>5. QED
    BY <2>1, <2>2, <2>3, <2>4 DEF CallStep
<1>4. QED
  BY <1>2, <1>3

LEMMA Kinds ==
  ASSUME LeaseInv, Next
  PROVE  \/ \E p \in Proc : BookStep(p) \/ WriteStep(p)
         \/ \E p \in Owner : FoundStep(p) \/ CallStep(p)
         \/ \E p \in Runner : StartTurn(p) \/ StopTurn(p) \/ Crash(p)
         \/ \E e \in Exec : Cancel(e)
         \/ Tick
<1>1. Operator \subseteq Owner /\ Owner \subseteq Proc /\ Watcher \subseteq Proc
  BY DEF Owner, Proc
<1>2. ASSUME NEW p \in Owner, AcquireCall(p) \/ AcquireRead(p) \/ AcquireWrite(p)
      PROVE  BookStep(p) \/ WriteStep(p) \/ FoundStep(p) \/ CallStep(p)
  BY <1>2, OwnerCallStep, AcquireReadStep, AcquireWriteStep
<1>3. ASSUME NEW p \in Owner, OwnedCall(p) \/ OwnedRead(p) \/ OwnedWrite(p)
      PROVE  BookStep(p) \/ WriteStep(p) \/ FoundStep(p) \/ CallStep(p)
  BY <1>3, OwnerCallStep, OwnedReadStep, OwnedWriteStep
<1>4. ASSUME NEW w \in Watcher, \/ ReconcileUnlinkedCall(w) \/ ReconcileStoppedCall(w)
                                \/ ReconcileRead(w) \/ ReconcileWrite(w)
      PROVE  BookStep(w) \/ WriteStep(w)
  BY <1>4, ReconcileCallStep, ReconcileReadStep, ReconcileWriteStep
<1>5. QED
  BY <1>1, <1>2, <1>3, <1>4 DEF Next

(* What a write makes of a lease, in general. *)
LEMMA LeaseStepFacts ==
  ASSUME LeaseInv, NEW p \in Proc, Writes(p)
  PROVE  LET old == lock[Repo_(p)]  new == lock'[Repo_(p)] IN
         /\ Repo_(p) \in Repository /\ old \in Lease /\ new \in Lease /\ LeaseStep(p, old, new)
         /\ \A r \in Repository : r # Repo_(p) => lock'[r] = lock[r]
         /\ new.expires <= now + Ttl
         /\ \/ Opens(p, old, new) /\ new.gen = old.gen + 1 /\ new.status = "active" /\ SameOwner(p, new)
            \/ /\ new.gen = old.gen /\ new.exec = old.exec /\ new.token = old.token
               /\ new.expires >= old.expires
               /\ old.session # NoSession => new.session = old.session
               /\ \/ Frees(p, old, new) \/ Recovers(p, old, new)
                  \/ (Renews(p, old, new) \/ Links(p, old, new)) /\ new.status = "active" /\ old.status = "active"
<1> DEFINE old == lock[Repo_(p)]
           new == lock'[Repo_(p)]
<1>1. TypeOK /\ Repo_(p) \in Repository /\ snap[p].now \in Nat /\ now \in Nat /\ Ttl \in Nat
  BY Addressed, Typed, BoundsAssumption DEF LeaseInv, Writes, Running, Snaps
<1>2. lock \in [Repository -> Lease] /\ old \in Lease /\ old.expires \in Nat /\ old.gen \in Nat
  BY <1>1, Typed, BoundsAssumption DEF Lease
<1>3. PICK l \in Lease : LeaseStep(p, old, l) /\ lock' = [lock EXCEPT ![Repo_(p)] = l]
  BY DEF Writes
<1>4. new = l /\ \A r \in Repository : r # Repo_(p) => lock'[r] = lock[r]
  BY <1>1, <1>2, <1>3
<1>5. old.expires <= snap[p].now + Ttl /\ snap[p].now <= now /\ old.expires <= now + Ttl
  BY <1>1, <1>2 DEF Writes, LeaseInv, GenerationsFit
<1>6. CASE Opens(p, old, l)
  <2>1. l.gen = old.gen + 1 /\ l.status = "active" /\ SameOwner(p, l) /\ l.expires = snap[p].now + Ttl
    BY <1>6 DEF Opens, NewLease, SameOwner
  <2>2. QED
    BY <1>1, <1>2, <1>3, <1>4, <1>5, <1>6, <2>1
<1>7. CASE Renews(p, old, l)
  <2>1. /\ l.gen = old.gen /\ l.exec = old.exec /\ l.token = old.token /\ l.session = old.session
        /\ l.expires = snap[p].now + Ttl /\ l.status = "active" /\ old.status = "active"
    BY <1>2, <1>7 DEF Renews, Lease
  <2>2. QED
    BY <1>1, <1>2, <1>3, <1>4, <1>5, <1>7, <2>1
<1>8. CASE Links(p, old, l)
  <2>1. /\ l.gen = old.gen /\ l.exec = old.exec /\ l.token = old.token /\ old.session = NoSession
        /\ l.expires = old.expires /\ l.status = "active" /\ old.status = "active"
    BY <1>2, <1>8 DEF Links, Lease
  <2>2. QED
    BY <1>1, <1>2, <1>3, <1>4, <1>5, <1>8, <2>1
<1>9. CASE Frees(p, old, l) \/ Recovers(p, old, l)
  <2>1. /\ l.gen = old.gen /\ l.exec = old.exec /\ l.token = old.token /\ l.session = old.session
        /\ l.expires = old.expires
    BY <1>2, <1>9 DEF Frees, Recovers, Released, Lease
  <2>2. QED
    BY <1>1, <1>2, <1>3, <1>4, <1>5, <1>9, <2>1
<1>10. QED
  BY <1>3, <1>6, <1>7, <1>8, <1>9 DEF LeaseStep

(* A told owner is the owner of an active lease. *)
LEMMA ToldOwns ==
  ASSUME LeaseInv, NEW p \in Owner, Told(p),
         FoundStep(p) \/ (WriteStep(p) /\ arg[p].op \in {"acquire", "renew"})
  PROVE  LET new == lock'[Repo(p)] IN
         /\ SameOwner(p, new) /\ new.status = "active" /\ new.gen > 0 /\ new \in Lease
         /\ held'[p] = [gen |-> new.gen, expires |-> new.expires]
         /\ \A q \in Owner : q # p => held'[q] = held[q]
<1>1. p \in Proc /\ TypeOK /\ Repo(p) \in Repository /\ p \notin Watcher
  BY Callers, CallersAssumption DEF LeaseInv
<1>2. /\ held'[p] = [gen |-> lock'[Repo(p)].gen, expires |-> lock'[Repo(p)].expires]
      /\ \A q \in Owner : q # p => held'[q] = held[q]
  BY <1>1, Typed DEF Told
<1>3. CASE FoundStep(p)
  BY <1>1, <1>2, <1>3, Typed DEF FoundStep, LeaseInv, GenerationsFit
<1>4. CASE WriteStep(p) /\ arg[p].op \in {"acquire", "renew"}
  <2> DEFINE old == lock[Repo(p)]
             new == lock'[Repo(p)]
  <2>1. Repo_(p) = Repo(p) /\ Writes(p)
    BY <1>1, <1>4, Addressed DEF WriteStep, Writes, Running
  <2>2. /\ old \in Lease /\ new \in Lease
        /\ \/ new.gen = old.gen + 1 /\ new.status = "active" /\ SameOwner(p, new)
           \/ new.gen = old.gen /\ new.exec = old.exec /\ new.token = old.token
              /\ Renews(p, old, new) /\ new.status = "active" /\ old.status = "active"
    BY <1>1, <1>4, <2>1, LeaseStepFacts DEF Frees, Links, Recovers
  <2>3. old.gen \in Nat /\ (old.status = "active" => old.gen > 0)
    BY <1>1, <2>2, BoundsAssumption DEF LeaseInv, GenerationsFit, Lease
  <2>4. QED
    BY <1>2, <2>2, <2>3 DEF Renews, SameOwner
<1>5. QED
  BY <1>3, <1>4

-----------------------------------------------------------------------------
(* Types *)

LEMMA StepTyped == LeaseInv /\ [Next]_vars => TypeOK'
<1> SUFFICES ASSUME LeaseInv, [Next]_vars
             PROVE  TypeOK'
  OBVIOUS
<1> DEFINE Registry == lock \in [Repository -> Lease] /\ ver \in 0 .. MaxVer /\ now \in 0 .. MaxNow
           Workers == /\ held \in [Owner -> Holdings]
                      /\ turn \in [Runner -> {"new", "gate", "writing", "stopped", "done"}]
                      /\ since \in [Runner -> 0 .. MaxNow] /\ evidence \in [Exec -> 0 .. MaxVer]
                      /\ cancelled \subseteq Exec
           Booked == /\ at \in [Proc -> {"idle", "read", "write", "dead"}]
                     /\ tries \in [Proc -> 0 .. MaxTries - 1]
                     /\ snap \in [Proc -> Snaps] /\ arg \in [Proc -> Args]
<1>1. TypeOK /\ Registry /\ Workers /\ Booked
  BY Typed DEF LeaseInv
<1>2. Registry' /\ Workers' /\ Booked' => TypeOK'
  BY DEF TypeOK, Snaps, Args, Holdings
<1>3. ASSUME NEW p \in Proc, Books(p)
      PROVE  Booked'
  BY <1>3 DEF Books
<1>4. ASSUME UNCHANGED <<at, tries, snap, arg>>
      PROVE  Booked'
  BY <1>1, <1>4
<1>5. ASSUME NEW p \in Owner, FoundStep(p) \/ WriteStep(p), Told(p)
      PROVE  held' \in [Owner -> Holdings]
  <2>1. Repo(p) \in Repository
    BY Callers
  <2>2. lock'[Repo(p)] \in Lease
    BY <1>1, <1>5, <2>1 DEF FoundStep, WriteStep, Writes
  <2>3. [gen |-> lock'[Repo(p)].gen, expires |-> lock'[Repo(p)].expires] \in Holdings
    BY <2>2 DEF Lease, Holdings
  <2>4. QED
    BY <1>1, <1>5, <2>3 DEF Told
<1>6. CASE UNCHANGED vars
  BY <1>1, <1>2, <1>6 DEF vars
<1>7. ASSUME NEW p \in Proc, BookStep(p)
      PROVE  TypeOK'
  BY <1>1, <1>2, <1>3, <1>7 DEF BookStep, state, world
<1>8. ASSUME NEW p \in Proc, WriteStep(p)
      PROVE  TypeOK'
  <2>1. lock' \in [Repository -> Lease] /\ ver' \in 0 .. MaxVer
    BY <1>1, <1>8 DEF WriteStep, Writes
  <2>2. held' \in [Owner -> Holdings]
    BY <1>1, <1>5, <1>8 DEF WriteStep
  <2>3. QED
    BY <1>1, <1>2, <1>3, <1>8, <2>1, <2>2 DEF WriteStep, world
<1>9. ASSUME NEW p \in Owner, FoundStep(p)
      PROVE  TypeOK'
  <2>1. held' \in [Owner -> Holdings]
    BY <1>5, <1>9 DEF FoundStep
  <2>2. QED
    BY <1>1, <1>2, <1>3, <1>9, <2>1, Callers DEF FoundStep, world
<1>10. ASSUME NEW p \in Owner, CallStep(p)
       PROVE  TypeOK'
  <2>1. held' \in [Owner -> Holdings]
    BY <1>1, <1>10, Nulls DEF CallStep
  <2>2. turn' \in [Runner -> {"new", "gate", "writing", "stopped", "done"}]
    BY <1>1, <1>10 DEF CallStep
  <2>3. QED
    BY <1>1, <1>2, <1>3, <1>10, <2>1, <2>2, Callers DEF CallStep
<1>11. ASSUME NEW p \in Runner, StartTurn(p)
       PROVE  TypeOK'
  <2>1. held[p].gen \in 0 .. MaxVer /\ ExecOf[p] \in Exec
    BY <1>1, Callers DEF Owner, Holdings
  <2>2. QED
    BY <1>1, <1>2, <1>4, <1>11, <2>1 DEF StartTurn
<1>12. ASSUME NEW p \in Runner, StopTurn(p)
       PROVE  TypeOK'
  BY <1>1, <1>2, <1>4, <1>12, BoundsAssumption DEF StopTurn
<1>13. ASSUME NEW p \in Runner, Crash(p)
       PROVE  TypeOK'
  BY <1>1, <1>2, <1>13, Nulls DEF Crash, world
<1>14. ASSUME NEW e \in Exec, Cancel(e)
       PROVE  TypeOK'
  BY <1>1, <1>2, <1>4, <1>14 DEF Cancel
<1>15. CASE Tick
  <2>1. now' \in 0 .. MaxNow
    BY <1>1, <1>15, BoundsAssumption DEF Tick
  <2>2. QED
    BY <1>1, <1>2, <1>4, <1>15, <2>1 DEF Tick
<1>16. QED
  BY <1>6, <1>7, <1>8, <1>9, <1>10, <1>11, <1>12, <1>13, <1>14, <1>15, Kinds

-----------------------------------------------------------------------------
(* Calls and plans *)

(* A caller whose call is over, or goes on as it was, fits as before.      *)
LEMMA CallsKept ==
  ASSUME LeaseInv, NEW p \in Proc, Books(p),
         at'[p] \notin {"read", "write"} \/ (Running(p) /\ arg'[p] = arg[p]),
         UNCHANGED <<held, turn, cancelled>>
  PROVE  CallsFit'
  BY DEF LeaseInv, CallsFit, Books, Running, Proc

LEMMA CallsTold ==
  ASSUME LeaseInv, NEW p \in Owner, Running(p), Books(p), at'[p] = "idle", Told(p),
         FoundStep(p) \/ (WriteStep(p) /\ arg[p].op \in {"acquire", "renew"}),
         UNCHANGED <<turn, cancelled>>
  PROVE  CallsFit'
<1>1. held'[p] # NotHeld
  <2>1. held'[p] = [gen |-> lock'[Repo(p)].gen, expires |-> lock'[Repo(p)].expires] /\ lock'[Repo(p)].gen > 0
    BY ToldOwns
  <2>2. held'[p].gen # 0
    BY <2>1
  <2>3. QED
    BY <2>2 DEF NotHeld
<1>2. \A q \in Owner : q # p => held'[q] = held[q]
  BY ToldOwns
<1>3. p \in Runner => turn[p] # "new"
  BY DEF LeaseInv, CallsFit
<1>4. Runner \subseteq Owner /\ p \in Proc
  BY DEF Owner, Proc
<1>5. QED
  BY <1>1, <1>2, <1>3, <1>4 DEF LeaseInv, CallsFit, Books, Running, Proc

LEMMA CallsCalled ==
  ASSUME LeaseInv, NEW p \in Owner, CallStep(p)
  PROVE  CallsFit'
<1>1. p \in Proc /\ p \notin Watcher /\ Runner \subseteq Owner /\ Books(p)
  BY CallersAssumption DEF CallStep, Proc, Owner
<1>2. /\ \A q \in Owner : q # p => held'[q] = held[q]
      /\ held'[p] = IF arg'[p].op = "release" THEN NotHeld ELSE held[p]
  BY Typed DEF LeaseInv, CallStep
<1>3. /\ \A q \in Runner : q # p => turn'[q] = turn[q]
      /\ p \in Runner => turn'[p] = IF arg'[p].op = "release" THEN "done"
                                   ELSE IF arg'[p].op = "acquire" THEN "gate" ELSE "writing"
      /\ p \in Runner /\ arg'[p].op \in {"renew", "link"} => turn[p] = "writing"
  BY Typed DEF LeaseInv, CallStep
<1>4. /\ at'[p] = "read" /\ arg'[p].op \in {"acquire", "renew", "link", "release"}
      /\ arg'[p].exec = ExecOf[p] /\ cancelled' = cancelled
  BY DEF CallStep
<1>5. \A q \in Proc : q # p => at'[q] = at[q] /\ arg'[q] = arg[q]
  BY <1>1 DEF Books
<1>6. QED
  BY <1>1, <1>2, <1>3, <1>4, <1>5 DEF LeaseInv, CallsFit, Running, Proc

LEMMA StepCalls == LeaseInv /\ [Next]_vars => CallsFit'
<1> SUFFICES ASSUME LeaseInv, [Next]_vars
             PROVE  CallsFit'
  OBVIOUS
<1>1. TypeOK /\ Runner \subseteq Owner /\ Owner \subseteq Proc /\ Watcher \subseteq Proc
  BY DEF LeaseInv, Owner, Proc
<1>2. CASE UNCHANGED vars
  BY <1>2 DEF vars, LeaseInv, CallsFit, Running
<1>3. ASSUME NEW p \in Proc, BookStep(p),
             at'[p] = "idle" \/ (Running(p) /\ arg'[p] = arg[p])
      PROVE  CallsFit'
  BY <1>3, CallsKept DEF BookStep, state, world
<1>4. ASSUME NEW p \in Proc, WriteStep(p)
      PROVE  CallsFit'
  <2>1. Running(p)
    BY <1>4 DEF WriteStep, Writes, Running
  <2>2. QED
    BY <1>4, <2>1, CallsKept, CallsTold DEF WriteStep, world
<1>5. ASSUME NEW p \in Owner, AcquireCall(p) \/ OwnedCall(p)
      PROVE  CallsFit'
  BY <1>5, CallsCalled, OwnerCallStep
<1>6. ASSUME NEW p \in Owner, AcquireRead(p)
      PROVE  CallsFit'
  <2>1. Running(p) /\ p \in Proc
    BY <1>1, <1>6 DEF AcquireRead, Running
  <2>2. CASE FoundStep(p)
    BY <2>1, <2>2, CallsTold DEF FoundStep, world
  <2>3. CASE BookStep(p)
    BY <1>1, <1>3, <1>6, <2>1, <2>3, AcquireReadStep, PlanBooks
  <2>4. QED
    BY <1>6, <2>2, <2>3, AcquireReadStep
<1>7. ASSUME NEW p \in Owner, OwnedRead(p)
      PROVE  CallsFit'
  <2>1. Running(p) /\ p \in Proc
    BY <1>1, <1>7 DEF OwnedRead, Running
  <2>2. QED
    BY <1>1, <1>3, <1>7, <2>1, OwnedReadStep, PlanBooks
<1>8. ASSUME NEW p \in Owner, AcquireWrite(p) \/ OwnedWrite(p)
      PROVE  CallsFit'
  <2>1. Running(p) /\ p \in Proc /\ p \notin Watcher
    BY <1>1, <1>8, CallersAssumption DEF AcquireWrite, OwnedWrite, Running
  <2>2. BookStep(p) => at'[p] = "idle" \/ (Running(p) /\ arg'[p] = arg[p])
    BY <2>1 DEF BookStep
  <2>3. QED
    BY <1>3, <1>4, <1>8, <2>1, <2>2, AcquireWriteStep, OwnedWriteStep
<1>9. ASSUME NEW w \in Watcher, ReconcileUnlinkedCall(w) \/ ReconcileStoppedCall(w)
      PROVE  CallsFit'
  <2>1. /\ BookStep(w) /\ arg'[w].exec \in Exec /\ w \in Proc /\ w \notin Owner
        /\ \/ arg'[w].op = "unlinked" /\ arg'[w].exec \in cancelled
           \/ arg'[w].op = "stopped"
    BY <1>1, <1>9, ReconcileCallStep, CallersAssumption
  <2>2. QED
    BY <2>1 DEF BookStep, Books, state, world, LeaseInv, CallsFit, Running, Proc
<1>10. ASSUME NEW w \in Watcher, ReconcileRead(w)
       PROVE  CallsFit'
  <2>1. Running(w) /\ w \in Proc
    BY <1>1, <1>10 DEF ReconcileRead, Running
  <2>2. QED
    BY <1>1, <1>3, <1>10, <2>1, ReconcileReadStep, PlanBooks
<1>11. ASSUME NEW w \in Watcher, ReconcileWrite(w)
       PROVE  CallsFit'
  <2>1. Running(w) /\ w \in Proc
    BY <1>1, <1>11 DEF ReconcileWrite, Running
  <2>2. QED
    BY <1>3, <1>4, <1>11, <2>1, ReconcileWriteStep
<1>12. ASSUME NEW p \in Runner, StartTurn(p)
       PROVE  CallsFit'
  <2>1. /\ at[p] = "idle" /\ held[p] # NotHeld /\ UNCHANGED <<at, arg, held, cancelled>>
        /\ turn' = [turn EXCEPT ![p] = "writing"]
    BY <1>12 DEF StartTurn
  <2>2. QED
    BY <1>1, <2>1, Typed DEF LeaseInv, CallsFit, Running
<1>13. ASSUME NEW p \in Runner, StopTurn(p)
       PROVE  CallsFit'
  <2>1. /\ turn[p] = "writing" /\ UNCHANGED <<at, arg, held, cancelled>>
        /\ turn' = [turn EXCEPT ![p] = "stopped"]
    BY <1>13 DEF StopTurn
  <2>2. QED
    BY <1>1, <2>1, Typed DEF LeaseInv, CallsFit, Running
<1>14. ASSUME NEW p \in Runner, Crash(p)
       PROVE  CallsFit'
  <2>1. /\ at'[p] = "dead" /\ UNCHANGED <<held, turn, cancelled>>
        /\ \A q \in Proc : q # p => at'[q] = at[q] /\ arg'[q] = arg[q]
    BY <1>1, <1>14, Typed DEF Crash, world
  <2>2. QED
    BY <1>1, <2>1 DEF LeaseInv, CallsFit, Running
<1>15. ASSUME NEW e \in Exec, Cancel(e)
       PROVE  CallsFit'
  BY <1>15 DEF Cancel, LeaseInv, CallsFit, Running
<1>16. CASE Tick
  BY <1>16 DEF Tick, LeaseInv, CallsFit, Running
<1>17. QED
  BY <1>2, <1>5, <1>6, <1>7, <1>8, <1>9, <1>10, <1>11, <1>12, <1>13, <1>14, <1>15, <1>16 DEF Next

(* A snapshot stays one of the past, or of the present as it was.          *)
LEMMA PlanKept ==
  ASSUME LeaseInv, NEW q \in Proc, at[q] = "write", snap'[q] = snap[q], arg'[q] = arg[q],
         (lock' = lock /\ ver' = ver) \/ ver' = ver + 1, now' = now \/ now' = now + 1
  PROVE  PlanFits(q)'
<1>1. PlanFits(q) /\ ver \in Nat /\ now \in Nat /\ snap[q] \in Snaps
  BY Typed DEF LeaseInv, PlansFit
<1>2. snap[q].ver \in Nat /\ snap[q].now \in Nat
  BY <1>1, BoundsAssumption DEF Snaps
<1>3. Judged(q)' = Judged(q)
  BY DEF Judged
<1>4. QED
  BY <1>1, <1>2, <1>3 DEF PlanFits, Active, SameOwner, Reconciles

LEMMA PlansKept ==
  ASSUME LeaseInv, NEW p \in Proc, Books(p), at'[p] = "write" => PlanFits(p)',
         (lock' = lock /\ ver' = ver) \/ ver' = ver + 1, now' = now
  PROVE  PlansFit'
<1> SUFFICES ASSUME NEW q \in Proc, at'[q] = "write"
             PROVE  PlanFits(q)'
  BY DEF PlansFit
<1>1. CASE q = p
  BY <1>1
<1>2. CASE q # p
  BY <1>2, PlanKept DEF Books
<1>3. QED
  BY <1>1, <1>2

LEMMA PlansUntouched ==
  ASSUME LeaseInv, UNCHANGED <<at, snap, arg, lock, ver>>, now' = now \/ now' = now + 1
  PROVE  PlansFit'
<1> SUFFICES ASSUME NEW q \in Proc, at'[q] = "write"
             PROVE  PlanFits(q)'
  BY DEF PlansFit
<1>1. QED
  BY PlanKept

(* A plan is made of what the read has just found. *)
LEMMA PlanMade ==
  ASSUME LeaseInv, NEW p \in Proc, Running(p), Plan(p), UNCHANGED <<lock, ver, now>>,
         arg[p].op = "acquire" => ~Active(Reads(p), now),
         arg[p].op \in {"renew", "release", "link"} => SameOwner(p, Reads(p)),
         arg[p].op \in {"renew", "link"} => Reads(p).status = "active",
         arg[p].op = "link" => Reads(p).session = NoSession,
         arg[p].op \in {"unlinked", "stopped"} => Reconciles(Reads(p), arg[p])
  PROVE  PlansFit'
<1>1. /\ Books(p) /\ at'[p] = "write" /\ arg'[p] = arg[p]
      /\ snap'[p] = [locks |-> lock, ver |-> ver, now |-> now]
  BY PlanBooks DEF LeaseInv
<1>2. Judged(p)' = Reads(p) /\ snap'[p].now = now /\ snap'[p].ver = ver /\ snap'[p].locks = lock
  BY <1>1 DEF Judged, Reads
<1>3. Reads(p).expires <= now + Ttl /\ ver \in Nat /\ now \in Nat
  BY Addressed, Typed DEF LeaseInv, GenerationsFit, Reads, Repo_
<1>4. PlanFits(p)'
  BY <1>1, <1>2, <1>3 DEF PlanFits, Active, SameOwner, Reconciles
<1>5. QED
  BY <1>1, <1>4, PlansKept

LEMMA StepPlans == LeaseInv /\ [Next]_vars => PlansFit'
<1> SUFFICES ASSUME LeaseInv, [Next]_vars
             PROVE  PlansFit'
  OBVIOUS
<1>1. TypeOK /\ Runner \subseteq Owner /\ Owner \subseteq Proc /\ Watcher \subseteq Proc
  BY DEF LeaseInv, Owner, Proc
<1>2. CASE UNCHANGED vars
  BY <1>2, PlansUntouched DEF vars
<1>3. ASSUME NEW p \in Proc, BookStep(p) \/ WriteStep(p), at'[p] # "write"
      PROVE  PlansFit'
  BY <1>3, PlansKept DEF BookStep, WriteStep, Writes, state, world
<1>4. ASSUME NEW p \in Proc, WriteStep(p)
      PROVE  PlansFit'
  BY <1>3, <1>4 DEF WriteStep
<1>5. ASSUME NEW p \in Owner, AcquireCall(p) \/ OwnedCall(p)
      PROVE  PlansFit'
  BY <1>1, <1>5, OwnerCallStep, PlansKept DEF CallStep
<1>6. ASSUME NEW p \in Owner, AcquireRead(p)
      PROVE  PlansFit'
  <2>1. Running(p) /\ arg[p].op = "acquire" /\ p \in Proc /\ UNCHANGED <<lock, ver, now>>
    BY <1>1, <1>6 DEF AcquireRead, Running, world
  <2>2. CASE Plan(p)
    BY <1>6, <2>1, <2>2, AcquireReadStep, PlanMade
  <2>3. CASE at'[p] = "idle"
    BY <1>6, <2>1, <2>3, AcquireReadStep, PlansKept DEF FoundStep, BookStep
  <2>4. QED
    BY <1>6, <2>2, <2>3, AcquireReadStep
<1>7. ASSUME NEW p \in Owner, OwnedRead(p)
      PROVE  PlansFit'
  <2>1. Running(p) /\ arg[p].op \in {"renew", "release", "link"} /\ p \in Proc /\ UNCHANGED <<lock, ver, now>>
    BY <1>1, <1>7 DEF OwnedRead, Running, world
  <2>2. CASE Plan(p) /\ ~OwnedRefuses(p, Reads(p), arg[p]) /\ ~OwnedSettled(Reads(p), arg[p])
    BY <2>1, <2>2, PlanMade DEF OwnedRefuses, OwnedSettled, Active
  <2>3. CASE at'[p] = "idle"
    BY <1>7, <2>1, <2>3, <1>3, OwnedReadStep
  <2>4. QED
    BY <1>7, <2>2, <2>3, OwnedReadStep
<1>8. ASSUME NEW p \in Owner, AcquireWrite(p) \/ OwnedWrite(p)
      PROVE  PlansFit'
  BY <1>1, <1>3, <1>4, <1>8, AcquireWriteStep, OwnedWriteStep
<1>9. ASSUME NEW w \in Watcher, ReconcileUnlinkedCall(w) \/ ReconcileStoppedCall(w)
      PROVE  PlansFit'
  BY <1>1, <1>3, <1>9, ReconcileCallStep
<1>10. ASSUME NEW w \in Watcher, ReconcileRead(w)
       PROVE  PlansFit'
  <2>1. Running(w) /\ arg[w].op \in {"unlinked", "stopped"} /\ w \in Proc /\ UNCHANGED <<lock, ver, now>>
    BY <1>1, <1>10 DEF ReconcileRead, Running, world
  <2>2. CASE Plan(w) /\ Reconciles(Reads(w), arg[w])
    BY <2>1, <2>2, PlanMade
  <2>3. CASE at'[w] = "idle"
    BY <1>3, <1>10, <2>1, <2>3, ReconcileReadStep
  <2>4. QED
    BY <1>10, <2>2, <2>3, ReconcileReadStep
<1>11. ASSUME NEW w \in Watcher, ReconcileWrite(w)
       PROVE  PlansFit'
  BY <1>1, <1>3, <1>4, <1>11, ReconcileWriteStep
<1>12. ASSUME NEW p \in Runner, StartTurn(p) \/ StopTurn(p)
       PROVE  PlansFit'
  BY <1>12, PlansUntouched DEF StartTurn, StopTurn
<1>13. ASSUME NEW p \in Runner, Crash(p)
       PROVE  PlansFit'
  <2>1. Books(p) /\ at'[p] = "dead" /\ UNCHANGED <<lock, ver, now>> /\ p \in Proc
    BY <1>1, <1>13, Typed, Nulls DEF Crash, Books, world
  <2>2. QED
    BY <2>1, PlansKept
<1>14. ASSUME NEW e \in Exec, Cancel(e)
       PROVE  PlansFit'
  BY <1>14, PlansUntouched DEF Cancel
<1>15. CASE Tick
  BY <1>15, PlansUntouched DEF Tick
<1>16. QED
  BY <1>2, <1>5, <1>6, <1>7, <1>8, <1>9, <1>10, <1>11, <1>12, <1>13, <1>14, <1>15 DEF Next

-----------------------------------------------------------------------------
(* Generations and evidence *)

LEMMA StepGenerations == LeaseInv /\ [Next]_vars => GenerationsFit'
<1> SUFFICES ASSUME LeaseInv, [Next]_vars
             PROVE  GenerationsFit'
  OBVIOUS
<1>1. TypeOK /\ GenerationsFit /\ ver \in Nat /\ now \in Nat /\ Ttl \in Nat
  BY Typed, BoundsAssumption DEF LeaseInv
<1>2. \A p \in Owner : Repo(p) \in Repository
  BY Callers
<1>3. \A r \in Repository : lock[r] \in Lease /\ lock[r].gen \in Nat /\ lock[r].expires \in Nat
  BY <1>1, Typed, BoundsAssumption DEF Lease
<1>4. \A p \in Owner : held[p].gen \in Nat
  BY <1>1, Typed, BoundsAssumption DEF Holdings
<1>5. ASSUME UNCHANGED <<lock, ver, held>>, now' = now \/ now' = now + 1
      PROVE  GenerationsFit'
  BY <1>1, <1>3, <1>5 DEF GenerationsFit, SameOwner, Repo
<1>6. ASSUME NEW p \in Proc, WriteStep(p)
      PROVE  GenerationsFit'
  <2> DEFINE R == Repo_(p)
             old == lock[R]
             new == lock'[R]
  <2>1. /\ R \in Repository /\ new \in Lease /\ new.expires <= now + Ttl
        /\ \A r \in Repository : r # R => lock'[r] = lock[r]
        /\ \/ new.gen = old.gen + 1
           \/ /\ new.gen = old.gen /\ new.exec = old.exec /\ new.token = old.token
              /\ new.status = "active" => old.status = "active"
    <3>1. Frees(p, old, new) \/ Recovers(p, old, new) => new.status # "active"
      BY <1>3, LeaseStepFacts, <1>6 DEF Frees, Recovers, Released, Lease, WriteStep
    <3>2. QED
      BY <1>6, <3>1, LeaseStepFacts DEF WriteStep
  <2>2. ver' = ver + 1 /\ now' = now
    BY <1>6 DEF WriteStep, Writes, world
  <2>3. ASSUME NEW r \in Repository
        PROVE  /\ lock'[r].gen <= ver' /\ lock'[r].expires <= now' + Ttl
               /\ lock'[r].status = "active" => lock'[r].gen > 0
    BY <1>1, <1>3, <2>1, <2>2 DEF GenerationsFit
  <2>4. ASSUME NEW q \in Owner, held'[q] = held[q], held[q] # NotHeld
        PROVE  /\ held[q].gen > 0 /\ held[q].gen <= lock'[Repo(q)].gen
               /\ held[q].gen = lock'[Repo(q)].gen => SameOwner(q, lock'[Repo(q)])
    BY <1>1, <1>2, <1>3, <1>4, <2>1, <2>4 DEF GenerationsFit, SameOwner
  <2>5. ASSUME NEW q \in Owner, held'[q] # held[q]
        PROVE  /\ held'[q].gen > 0 /\ held'[q].gen <= lock'[Repo(q)].gen
               /\ SameOwner(q, lock'[Repo(q)])
    <3>1. p \in Owner /\ arg[p].op \in {"acquire", "renew"} /\ Told(p)
      BY <1>6, <2>5 DEF WriteStep
    <3>2. q = p
      BY <1>6, <2>5, <3>1, ToldOwns
    <3>3. /\ SameOwner(q, lock'[Repo(q)]) /\ lock'[Repo(q)].gen > 0 /\ lock'[Repo(q)] \in Lease
          /\ held'[q] = [gen |-> lock'[Repo(q)].gen, expires |-> lock'[Repo(q)].expires]
      BY <1>6, <3>1, <3>2, ToldOwns
    <3>4. lock'[Repo(q)].gen \in Nat
      BY <3>3, BoundsAssumption DEF Lease
    <3>5. QED
      BY <3>3, <3>4
  <2>6. QED
    BY <2>3, <2>4, <2>5 DEF GenerationsFit, SameOwner, Repo
<1>7. ASSUME NEW p \in Owner, FoundStep(p)
      PROVE  GenerationsFit'
  <2>1. UNCHANGED <<lock, ver, now>> /\ Told(p)
    BY <1>7 DEF FoundStep, world
  <2>2. /\ SameOwner(p, lock[Repo(p)]) /\ lock[Repo(p)].gen > 0
        /\ held'[p].gen = lock[Repo(p)].gen
        /\ \A q \in Owner : q # p => held'[q] = held[q]
    <3>1. /\ SameOwner(p, lock'[Repo(p)]) /\ lock'[Repo(p)].gen > 0
          /\ held'[p] = [gen |-> lock'[Repo(p)].gen, expires |-> lock'[Repo(p)].expires]
          /\ \A q \in Owner : q # p => held'[q] = held[q]
      BY <1>7, <2>1, ToldOwns
    <3>2. QED
      BY <2>1, <3>1
  <2>3. \A q \in Owner : held'[q] # NotHeld =>
          /\ held'[q].gen > 0 /\ held'[q].gen <= lock[Repo(q)].gen
          /\ held'[q].gen = lock[Repo(q)].gen => SameOwner(q, lock[Repo(q)])
    BY <1>1, <1>2, <1>3, <2>2 DEF GenerationsFit
  <2>4. QED
    BY <1>1, <2>1, <2>3 DEF GenerationsFit, SameOwner, Repo
<1>8. ASSUME NEW p \in Owner, CallStep(p)
      PROVE  GenerationsFit'
  <2>1. /\ UNCHANGED <<lock, ver, now>>
        /\ \A q \in Owner : held'[q] = held[q] \/ held'[q] = NotHeld
    BY <1>1, <1>8, Typed DEF CallStep
  <2>2. QED
    BY <1>1, <2>1 DEF GenerationsFit, SameOwner, Repo
<1>9. CASE UNCHANGED vars
  BY <1>5, <1>9 DEF vars
<1>10. ASSUME NEW p \in Proc, BookStep(p)
       PROVE  GenerationsFit'
  BY <1>5, <1>10 DEF BookStep, state, world
<1>11. ASSUME NEW p \in Runner, StartTurn(p) \/ StopTurn(p) \/ Crash(p)
       PROVE  GenerationsFit'
  BY <1>5, <1>11 DEF StartTurn, StopTurn, Crash, world
<1>12. ASSUME NEW e \in Exec, Cancel(e)
       PROVE  GenerationsFit'
  BY <1>5, <1>12 DEF Cancel
<1>13. CASE Tick
  BY <1>5, <1>13 DEF Tick
<1>14. QED
  BY <1>6, <1>7, <1>8, <1>9, <1>10, <1>11, <1>12, <1>13, Kinds

(* What the evidence says of a lease survives what happens to the lease:   *)
(* its generation is passed, or its owner stays.                           *)
Passed(old, new) ==
  \/ new.gen = old.gen + 1
  \/ new.gen = old.gen /\ new.exec = old.exec /\ new.token = old.token

(* No provider runs before its turn has begun, or after it is over.        *)
TurnsOnward ==
  \A p \in Runner :
    /\ turn[p] \in {"writing", "stopped", "done"} => turn'[p] \in {"writing", "stopped", "done"}
    /\ turn[p] \in {"stopped", "done"} => turn'[p] \in {"stopped", "done"}

LEMMA LocksPass ==
  ASSUME LeaseInv, [Next]_vars
  PROVE  /\ \A r \in Repository : Passed(lock[r], lock'[r])
         /\ TurnsOnward
<1>1. TypeOK
  BY DEF LeaseInv
<1>2. ASSUME lock' = lock, turn' = turn
      PROVE  (\A r \in Repository : Passed(lock[r], lock'[r])) /\ TurnsOnward
  BY <1>2 DEF Passed, TurnsOnward
<1>3. CASE UNCHANGED vars
  BY <1>2, <1>3 DEF vars
<1>4. ASSUME NEW p \in Proc, BookStep(p) \/ FoundStep(p)
      PROVE  (\A r \in Repository : Passed(lock[r], lock'[r])) /\ TurnsOnward
  BY <1>2, <1>4 DEF BookStep, FoundStep, state, world
<1>5. ASSUME NEW p \in Proc, WriteStep(p)
      PROVE  (\A r \in Repository : Passed(lock[r], lock'[r])) /\ TurnsOnward
  <2>1. Passed(lock[Repo_(p)], lock'[Repo_(p)]) /\ \A r \in Repository : r # Repo_(p) => lock'[r] = lock[r]
    BY <1>5, LeaseStepFacts DEF WriteStep, Passed
  <2>2. QED
    BY <1>5, <2>1 DEF WriteStep, world, Passed, TurnsOnward
<1>6. ASSUME NEW p \in Owner, CallStep(p)
      PROVE  (\A r \in Repository : Passed(lock[r], lock'[r])) /\ TurnsOnward
  <2>1. lock' = lock
    BY <1>6 DEF CallStep
  <2>2. ASSUME NEW q \in Runner
        PROVE  /\ turn[q] \in {"writing", "stopped", "done"} => turn'[q] \in {"writing", "stopped", "done"}
               /\ turn[q] \in {"stopped", "done"} => turn'[q] \in {"stopped", "done"}
    <3>1. \/ turn'[q] = turn[q] \/ turn[q] = "new" \/ turn'[q] = "done"
      BY <1>1, <1>6, Typed DEF CallStep
    <3>2. QED
      BY <3>1
  <2>3. QED
    BY <2>1, <2>2 DEF Passed, TurnsOnward
<1>7. ASSUME NEW p \in Runner, StartTurn(p) \/ StopTurn(p) \/ Crash(p)
      PROVE  (\A r \in Repository : Passed(lock[r], lock'[r])) /\ TurnsOnward
  BY <1>1, <1>7, Typed DEF StartTurn, StopTurn, Crash, world, Passed, TurnsOnward
<1>8. ASSUME NEW e \in Exec, Cancel(e) \/ Tick
      PROVE  (\A r \in Repository : Passed(lock[r], lock'[r])) /\ TurnsOnward
  BY <1>2, <1>8 DEF Cancel, Tick
<1>9. CASE Tick
  BY <1>2, <1>9 DEF Tick
<1>10. QED
  BY <1>3, <1>4, <1>5, <1>6, <1>7, <1>8, <1>9, Kinds DEF Owner, Proc

(* What evidence says of executions: each fact stays or its subject goes.  *)
LEMMA StepEvidence == LeaseInv /\ [Next]_vars => EvidenceFit'
<1> SUFFICES ASSUME LeaseInv, [Next]_vars
             PROVE  EvidenceFit'
  OBVIOUS
<1>1. TypeOK /\ EvidenceFit /\ TypeOK'
  BY StepTyped DEF LeaseInv
<1>2. /\ \A e \in Exec : evidence[e] \in Nat /\ RepoOf[e] \in Repository
      /\ \A r \in Repository : lock[r].gen \in Nat
      /\ \A p \in Proc : arg[p].gen \in Nat
  BY <1>1, Typed, BoundsAssumption, CallersAssumption DEF Lease, Args
<1>3. (\A r \in Repository : Passed(lock[r], lock'[r])) /\ TurnsOnward
  BY LocksPass
<1>4. \A r \in Repository : lock[r].gen <= lock'[r].gen
  BY <1>2, <1>3 DEF Passed
<1> DEFINE EvidenceOf(e) ==
             LET l == lock[RepoOf[e]] IN
             /\ evidence[e] <= l.gen
             /\ evidence[e] > 0 /\ evidence[e] = l.gen => l.exec = e /\ Started(l)
             /\ e \in cancelled => evidence[e] = 0
           Judging(w) ==
             Running(w) /\ arg[w].op = "stopped" =>
               /\ arg[w].gen > 0 /\ arg[w].gen <= Reads(w).gen
               /\ arg[w].gen = Reads(w).gen => Over(Reads(w))
<1>5. ASSUME NEW e \in Exec, evidence'[e] = evidence[e], e \in cancelled' => evidence[e] = 0
      PROVE  EvidenceOf(e)'
  <2>1. EvidenceOf(e)
    BY <1>1 DEF EvidenceFit
  <2>2. Passed(lock[RepoOf[e]], lock'[RepoOf[e]])
    BY <1>2, <1>3
  <2>3. QED
    BY <1>2, <1>3, <1>5, <2>1, <2>2 DEF Passed, Started, TurnsOnward
<1>6. ASSUME NEW w \in Watcher, Running(w), arg'[w] = arg[w]
      PROVE  Judging(w)'
  <2>1. Judging(w) /\ arg[w].exec \in Exec /\ w \in Proc
    BY <1>1, <1>6 DEF EvidenceFit, LeaseInv, CallsFit, Proc
  <2>2. Passed(Reads(w), Reads(w)')
    BY <1>2, <1>3, <1>6, <2>1 DEF Reads
  <2>3. Reads(w).gen \in Nat /\ arg[w].gen \in Nat
    BY <1>2, <2>1 DEF Reads
  <2>4. QED
    BY <1>3, <1>6, <2>1, <2>2, <2>3 DEF Passed, Over, TurnsOnward
<1>7. ASSUME \A e \in Exec : EvidenceOf(e)', \A w \in Watcher : Judging(w)',
             \A p \in Runner : turn'[p] = "writing" => evidence'[ExecOf[p]] > 0
      PROVE  EvidenceFit'
  BY <1>7 DEF EvidenceFit
<1>8. ASSUME NEW p \in Proc, Books(p), \A w \in Watcher : w # p \/ Judging(w)',
             UNCHANGED <<turn, evidence, cancelled>>
      PROVE  EvidenceFit'
  <2>1. \A e \in Exec : EvidenceOf(e)'
    BY <1>1, <1>5, <1>8 DEF EvidenceFit
  <2>2. ASSUME NEW w \in Watcher
        PROVE  Judging(w)'
    BY <1>6, <1>8, <2>2 DEF Books, Running, Proc
  <2>3. QED
    BY <1>1, <1>7, <1>8, <2>1, <2>2 DEF EvidenceFit
<1>9. ASSUME UNCHANGED <<at, arg, turn, evidence, cancelled>>
      PROVE  EvidenceFit'
  <2>1. \A e \in Exec : EvidenceOf(e)'
    BY <1>1, <1>5, <1>9 DEF EvidenceFit
  <2>2. ASSUME NEW w \in Watcher
        PROVE  Judging(w)'
    BY <1>6, <1>9, <2>2 DEF Running
  <2>3. QED
    BY <1>1, <1>7, <1>9, <2>1, <2>2 DEF EvidenceFit
<1>10. CASE UNCHANGED vars
  BY <1>9, <1>10 DEF vars
<1>11. ASSUME NEW p \in Owner, FoundStep(p) \/ BookStep(p) \/ WriteStep(p)
       PROVE  EvidenceFit'
  BY <1>8, <1>11, CallersAssumption DEF FoundStep, BookStep, WriteStep, state, world, Proc
<1>12. ASSUME NEW w \in Watcher, WriteStep(w)
       PROVE  EvidenceFit'
  BY <1>8, <1>12 DEF WriteStep, world, Running, Proc
<1>13. ASSUME NEW w \in Watcher, BookStep(w), at'[w] = "idle" \/ (Running(w) /\ arg'[w] = arg[w])
       PROVE  EvidenceFit'
  BY <1>6, <1>8, <1>13 DEF BookStep, state, world, Running, Proc
<1>14. ASSUME NEW w \in Watcher, ReconcileUnlinkedCall(w) \/ ReconcileStoppedCall(w)
       PROVE  EvidenceFit'
  <2>1. /\ BookStep(w) /\ arg'[w].exec \in Exec /\ w \in Proc
        /\ \/ arg'[w].op = "unlinked"
           \/ /\ arg'[w].op = "stopped" /\ evidence[arg'[w].exec] > 0
              /\ arg'[w].gen = evidence[arg'[w].exec]
              /\ \A p \in Runner : ExecOf[p] = arg'[w].exec => turn[p] # "writing"
    BY <1>14, ReconcileCallStep DEF Proc
  <2> DEFINE e == arg'[w].exec
             l == lock[RepoOf[e]]
  <2>2. Reads(w)' = l /\ UNCHANGED <<turn, evidence, cancelled>> /\ Books(w)
    BY <2>1 DEF Reads, BookStep, state, world
  <2>3. ASSUME arg'[w].op = "stopped", arg'[w].gen = l.gen
        PROVE  Over(l)
    <3>1. Started(l) /\ l.exec = e
      BY <1>1, <2>1, <2>3 DEF EvidenceFit
    <3>2. QED
      BY <2>1, <2>3, <3>1 DEF Started, Over
  <2>4. Judging(w)'
    BY <1>1, <2>1, <2>2, <2>3 DEF EvidenceFit, Over
  <2>5. QED
    BY <1>8, <2>1, <2>2, <2>4
<1>15. ASSUME NEW w \in Watcher, ReconcileRead(w)
       PROVE  EvidenceFit'
  <2>1. Running(w) /\ w \in Proc /\ BookStep(w) /\ (at'[w] = "idle" \/ Plan(w))
    BY <1>15, ReconcileReadStep DEF ReconcileRead, Running, Proc
  <2>2. QED
    BY <1>1, <1>13, <2>1, PlanBooks
<1>16. ASSUME NEW w \in Watcher, ReconcileWrite(w)
       PROVE  EvidenceFit'
  <2>1. Running(w)
    BY <1>16 DEF ReconcileWrite, Running
  <2>2. QED
    BY <1>12, <1>13, <1>16, <2>1, ReconcileWriteStep
<1>17. ASSUME NEW p \in Owner, CallStep(p)
       PROVE  EvidenceFit'
  <2>1. UNCHANGED <<evidence, cancelled>> /\ Books(p) /\ p \notin Watcher
    BY <1>17, CallersAssumption DEF CallStep
  <2>2. \A q \in Runner : turn'[q] = "writing" => turn[q] = "writing"
    BY <1>1, <1>17, Typed DEF CallStep
  <2>3. \A e \in Exec : EvidenceOf(e)'
    BY <1>1, <1>5, <2>1 DEF EvidenceFit
  <2>4. ASSUME NEW w \in Watcher
        PROVE  Judging(w)'
    BY <1>6, <2>1, <2>4 DEF Books, Running, Proc
  <2>5. QED
    BY <1>1, <1>7, <2>1, <2>2, <2>3, <2>4 DEF EvidenceFit
<1>18. ASSUME NEW p \in Runner, StartTurn(p)
       PROVE  EvidenceFit'
  <2>1. /\ p \in Owner /\ ExecOf[p] \in Exec /\ ExecOf[p] \notin cancelled
        /\ held[p] # NotHeld /\ turn' = [turn EXCEPT ![p] = "writing"]
        /\ evidence' = [evidence EXCEPT ![ExecOf[p]] = held[p].gen]
        /\ UNCHANGED <<lock, at, arg, cancelled>>
    BY <1>18, Callers DEF StartTurn, Owner
  <2>2. /\ held[p].gen > 0 /\ held[p].gen <= lock[Repo(p)].gen
        /\ held[p].gen = lock[Repo(p)].gen => SameOwner(p, lock[Repo(p)])
    BY <2>1 DEF LeaseInv, GenerationsFit
  <2>3. turn'[p] = "writing" /\ evidence'[ExecOf[p]] = held[p].gen
        /\ \A e \in Exec : e # ExecOf[p] => evidence'[e] = evidence[e]
    BY <1>1, <2>1, Typed
  <2>4. EvidenceOf(ExecOf[p])'
    BY <1>18, <2>1, <2>2, <2>3 DEF Repo, SameOwner, Started
  <2>5. \A e \in Exec : EvidenceOf(e)'
    BY <1>1, <1>5, <2>1, <2>3, <2>4 DEF EvidenceFit
  <2>6. ASSUME NEW w \in Watcher
        PROVE  Judging(w)'
    BY <1>6, <2>1, <2>6 DEF Running
  <2>7. \A q \in Runner : turn'[q] = "writing" => evidence'[ExecOf[q]] > 0
    <3>1. \A q \in Runner : q # p => turn'[q] = turn[q]
      BY <1>1, <2>1, Typed
    <3>2. \A q \in Runner : ExecOf[q] \in Exec
      BY Callers DEF Owner
    <3>3. QED
      BY <1>1, <2>2, <2>3, <3>1, <3>2 DEF EvidenceFit
  <2>8. QED
    BY <1>7, <2>5, <2>6, <2>7
<1>19. ASSUME NEW p \in Runner, StopTurn(p)
       PROVE  EvidenceFit'
  <2>1. UNCHANGED <<lock, at, arg, evidence, cancelled>> /\ turn' = [turn EXCEPT ![p] = "stopped"]
    BY <1>19 DEF StopTurn
  <2>2. \A q \in Runner : turn'[q] = "writing" => turn[q] = "writing"
    BY <1>1, <2>1, Typed
  <2>3. \A e \in Exec : EvidenceOf(e)'
    BY <1>1, <1>5, <2>1 DEF EvidenceFit
  <2>4. ASSUME NEW w \in Watcher
        PROVE  Judging(w)'
    BY <1>6, <2>1, <2>4 DEF Running
  <2>5. QED
    BY <1>1, <1>7, <2>1, <2>2, <2>3, <2>4 DEF EvidenceFit
<1>20. ASSUME NEW p \in Runner, Crash(p)
       PROVE  EvidenceFit'
  <2>1. p \in Proc /\ p \notin Watcher /\ Books(p) /\ UNCHANGED <<turn, evidence, cancelled>>
    BY <1>1, <1>20, Typed, Nulls, CallersAssumption DEF Crash, Books, world, Proc, Owner
  <2>2. ASSUME NEW w \in Watcher
        PROVE  Judging(w)'
    BY <1>6, <2>1, <2>2 DEF Books, Running, Proc
  <2>3. QED
    BY <1>8, <2>1, <2>2
<1>21. ASSUME NEW e \in Exec, Cancel(e)
       PROVE  EvidenceFit'
  <2>1. /\ evidence[e] = 0 /\ cancelled' = cancelled \cup {e}
        /\ UNCHANGED <<at, arg, turn, evidence>>
    BY <1>21 DEF Cancel
  <2>2. \A x \in Exec : EvidenceOf(x)'
    BY <1>1, <1>5, <2>1 DEF EvidenceFit
  <2>3. ASSUME NEW w \in Watcher
        PROVE  Judging(w)'
    BY <1>6, <2>1, <2>3 DEF Running
  <2>4. QED
    BY <1>1, <1>7, <2>1, <2>2, <2>3 DEF EvidenceFit
<1>22. CASE Tick
  BY <1>9, <1>22 DEF Tick
<1>23. ASSUME NEW p \in Owner, AcquireWrite(p) \/ OwnedWrite(p) \/ AcquireRead(p) \/ OwnedRead(p)
       PROVE  EvidenceFit'
  BY <1>11, <1>23, AcquireWriteStep, OwnedWriteStep, AcquireReadStep, OwnedReadStep
<1>24. ASSUME NEW p \in Owner, AcquireCall(p) \/ OwnedCall(p)
       PROVE  EvidenceFit'
  BY <1>17, <1>24, OwnerCallStep
<1>25. QED
  BY <1>10, <1>14, <1>15, <1>16, <1>18, <1>19, <1>20, <1>21, <1>22, <1>23, <1>24 DEF Next

-----------------------------------------------------------------------------
(* No lease is ended under its owner *)

Honoured(p) ==
  LET l == lock[Repo(p)] IN
  /\ SameOwner(p, l) /\ l.gen = held[p].gen
  /\ l.status = "active" /\ l.expires >= held[p].expires

Spared(p) ==
  Uses(p) /\ lock[Repo(p)].gen = held[p].gen => lock[Repo(p)].status = "active"

(* Whoever ends a lease has given it up, or has proof that its owner has.  *)
LEMMA EndedIsGivenUp ==
  ASSUME LeaseInv, NEW p \in Proc, Writes(p), NEW q \in Owner,
         LET old == lock[Repo_(p)] IN
           /\ SameOwner(q, old)
           /\ Frees(p, old, lock'[Repo_(p)]) \/ Recovers(p, old, lock'[Repo_(p)])
  PROVE  ~Relies(q) /\ (q \in Runner => ~Uses(q))
<1> DEFINE old == lock[Repo_(p)]
<1>1. Running(p) /\ old = Reads(p) /\ arg[p].exec \in Exec /\ Repo_(p) \in Repository /\ TypeOK
  BY Addressed DEF Writes, Running, Reads, Repo_, LeaseInv
<1>2. CASE Frees(p, old, lock'[Repo_(p)])
  <2>1. q = p /\ held[p] = NotHeld /\ (p \in Runner => turn[p] = "done")
    BY <1>1, <1>2 DEF Frees, SameOwner, LeaseInv, CallsFit
  <2>2. QED
    BY <2>1 DEF Relies, Uses
<1>3. CASE Recovers(p, old, lock'[Repo_(p)])
  <2>1. p \in Watcher /\ Reconciles(old, arg[p]) /\ old.exec = ExecOf[q] /\ old.token = q
        /\ arg[p].op \in {"unlinked", "stopped"}
    BY <1>1, <1>3 DEF Recovers, SameOwner, LeaseInv, CallsFit
  <2>2. ExecOf[q] = arg[p].exec
    BY <2>1 DEF Reconciles
  <2>3. CASE arg[p].op = "unlinked"
    <3>1. ExecOf[q] \in cancelled /\ evidence[ExecOf[q]] = 0
      BY <1>1, <2>1, <2>2, <2>3 DEF LeaseInv, CallsFit, EvidenceFit
    <3>2. QED
      BY <3>1 DEF Relies, Uses, LeaseInv, EvidenceFit
  <2>4. CASE arg[p].op = "stopped"
    <3>1. Over(old)
      BY <1>1, <2>1, <2>4 DEF Reconciles, LeaseInv, EvidenceFit
    <3>2. q \in Runner /\ turn[q] \in {"stopped", "done"}
      BY <2>1, <3>1 DEF Over
    <3>3. QED
      BY <3>2 DEF Relies, Uses
  <2>5. QED
    BY <2>1, <2>3, <2>4
<1>4. QED
  BY <1>2, <1>3

LEMMA WriteHonours ==
  ASSUME LeaseInv, NEW p \in Proc, WriteStep(p)
  PROVE  LeaseHonoured' /\ WritersSpared'
<1> DEFINE R == Repo_(p)
           old == lock[R]
           new == lock'[R]
<1>1. TypeOK /\ Writes(p) /\ UNCHANGED world
  BY DEF LeaseInv, WriteStep
<1>2. /\ R \in Repository /\ old \in Lease /\ LeaseStep(p, old, new)
      /\ \A r \in Repository : r # R => lock'[r] = lock[r]
      /\ \/ Opens(p, old, new) /\ new.gen = old.gen + 1 /\ new.status = "active" /\ SameOwner(p, new)
         \/ /\ new.gen = old.gen /\ new.exec = old.exec /\ new.token = old.token
            /\ new.expires >= old.expires
            /\ \/ Frees(p, old, new) \/ Recovers(p, old, new)
               \/ new.status = "active" /\ old.status = "active"
  BY <1>1, LeaseStepFacts
<1>3. snap[p].now <= now /\ snap[p].now \in Nat /\ now \in Nat
  BY <1>1, Typed, BoundsAssumption DEF Writes, Snaps
<1>4. old.expires \in Nat /\ old.gen \in Nat /\ new.expires \in Nat
  <2>1. new \in Lease
    BY <1>1, LeaseStepFacts
  <2>2. QED
    BY <1>2, <2>1, BoundsAssumption DEF Lease
<1>5. ASSUME NEW q \in Owner, held'[q] # held[q]
      PROVE  Honoured(q)' /\ lock'[Repo(q)].status = "active"
  <2>1. p \in Owner /\ arg[p].op \in {"acquire", "renew"} /\ Told(p)
    BY <1>5 DEF WriteStep
  <2>2. q = p /\ SameOwner(q, lock'[Repo(q)]) /\ lock'[Repo(q)].status = "active"
        /\ held'[q] = [gen |-> lock'[Repo(q)].gen, expires |-> lock'[Repo(q)].expires]
        /\ lock'[Repo(q)] \in Lease
    BY <1>5, <2>1, ToldOwns
  <2>3. lock'[Repo(q)].expires \in Nat
    BY <2>2, BoundsAssumption DEF Lease
  <2>4. QED
    BY <2>2, <2>3 DEF Honoured, SameOwner, Repo
<1>6. ASSUME NEW q \in Owner, held'[q] = held[q], Relies(q)'
      PROVE  Honoured(q)'
  <2>1. Relies(q)
    <3>1. q \in Proc /\ (at[q] = "dead" => at'[q] = "dead")
      BY <1>1, Callers DEF WriteStep, Writes, Books
    <3>2. QED
      BY <1>1, <1>6, <3>1 DEF Relies, world
  <2>2. Honoured(q) /\ held[q].expires > now /\ held[q].expires \in Nat /\ Repo(q) \in Repository
    BY <1>1, <2>1, Callers, Typed, BoundsAssumption DEF LeaseInv, LeaseHonoured, Honoured, Relies, Holdings
  <2>3. CASE Repo(q) # R
    BY <1>2, <1>6, <2>2, <2>3 DEF Honoured, SameOwner, Repo
  <2>4. CASE Repo(q) = R
    <3>1. SameOwner(q, old) /\ old.status = "active" /\ old.gen = held[q].gen /\ old.expires >= held[q].expires
      BY <2>2, <2>4 DEF Honoured
    <3>2. ~Opens(p, old, new)
      BY <1>3, <1>4, <2>2, <3>1 DEF Opens, Active
    <3>3. ~Frees(p, old, new) /\ ~Recovers(p, old, new)
      BY <1>1, <2>1, <3>1, EndedIsGivenUp
    <3>4. new.gen = old.gen /\ SameOwner(q, new) /\ new.status = "active" /\ new.expires >= held[q].expires
      BY <1>2, <1>4, <2>2, <3>1, <3>2, <3>3 DEF SameOwner
    <3>5. QED
      BY <1>6, <2>4, <3>1, <3>4 DEF Honoured, SameOwner, Repo
  <2>5. QED
    BY <2>3, <2>4
<1>7. ASSUME NEW q \in Runner, held'[q] = held[q]
      PROVE  Spared(q)'
  <2> SUFFICES ASSUME Uses(q), lock'[Repo(q)].gen = held[q].gen
               PROVE  lock'[Repo(q)].status = "active"
    BY <1>1, <1>7 DEF Spared, Uses, world, Repo
  <2>1. q \in Owner /\ Repo(q) \in Repository /\ held[q] # NotHeld /\ held[q].gen \in Nat
    <3>1. q \in Owner
      BY DEF Owner
    <3>2. QED
      BY <1>1, <3>1, Callers, Typed, BoundsAssumption DEF LeaseInv, CallsFit, Holdings, Uses
  <2>2. CASE Repo(q) # R
    BY <1>2, <2>1, <2>2 DEF LeaseInv, WritersSpared
  <2>3. CASE Repo(q) = R
    <3>1. new.gen = old.gen => SameOwner(q, old)
      BY <2>1, <2>3 DEF LeaseInv, GenerationsFit
    <3>2. new.gen = old.gen => ~Frees(p, old, new) /\ ~Recovers(p, old, new)
      BY <1>1, <2>1, <3>1, EndedIsGivenUp
    <3>3. QED
      BY <1>2, <2>3, <3>2
  <2>4. QED
    BY <2>2, <2>3
<1>8. QED
  BY <1>5, <1>6, <1>7 DEF LeaseHonoured, WritersSpared, Honoured, Spared, Owner

(* Where the registry stays as it is, nobody comes to rely on anything.    *)
LEMMA KeptHonours ==
  ASSUME LeaseInv, lock' = lock,
         \A q \in Owner : Relies(q)' => Relies(q) /\ held'[q] = held[q],
         \A q \in Runner : Uses(q)' => Uses(q) /\ held'[q] = held[q]
  PROVE  LeaseHonoured' /\ WritersSpared'
<1>1. \A q \in Owner : Relies(q)' => Honoured(q)'
  BY DEF LeaseInv, LeaseHonoured, Honoured, SameOwner, Repo
<1>2. \A q \in Runner : Spared(q)'
  BY DEF LeaseInv, WritersSpared, Spared, Repo
<1>3. QED
  BY <1>1, <1>2 DEF LeaseHonoured, WritersSpared, Honoured, Spared

LEMMA FoundHonours ==
  ASSUME LeaseInv, NEW p \in Proc, FoundStep(p)
  PROVE  LeaseHonoured' /\ WritersSpared'
<1>1. TypeOK /\ p \in Owner /\ p \notin Runner /\ at'[p] = "idle" /\ UNCHANGED <<lock, world>>
  BY CallersAssumption DEF LeaseInv, FoundStep, Owner
<1>2. /\ held'[p] = [gen |-> lock[Repo(p)].gen, expires |-> lock[Repo(p)].expires]
      /\ \A q \in Owner : q # p => held'[q] = held[q] /\ at'[q] = at[q]
  BY <1>1, Typed, Callers DEF FoundStep, Told, Books
<1>3. Honoured(p)'
  <2>1. lock[Repo(p)].expires \in Nat
    BY <1>1, Typed, Callers, BoundsAssumption DEF Lease
  <2>2. QED
    BY <1>1, <1>2, <2>1 DEF FoundStep, Honoured, SameOwner, Repo
<1>4. ASSUME NEW q \in Owner, q # p, Relies(q)'
      PROVE  Honoured(q)'
  <2>1. Relies(q)
    BY <1>1, <1>2, <1>4 DEF Relies, world
  <2>2. QED
    BY <1>1, <1>2, <1>4, <2>1 DEF LeaseInv, LeaseHonoured, Honoured, SameOwner, Repo
<1>5. ASSUME NEW q \in Runner
      PROVE  Spared(q)'
  <2>1. q # p /\ q \in Owner
    BY <1>1, <1>5 DEF Owner
  <2>2. QED
    BY <1>1, <1>2, <2>1 DEF LeaseInv, WritersSpared, Spared, Uses, Repo, world
<1>6. QED
  BY <1>3, <1>4, <1>5 DEF LeaseHonoured, WritersSpared, Honoured, Spared

LEMMA CallHonours ==
  ASSUME LeaseInv, NEW p \in Owner, CallStep(p)
  PROVE  LeaseHonoured' /\ WritersSpared'
<1>1. TypeOK /\ p \in Proc /\ UNCHANGED <<lock, now, cancelled>> /\ Books(p) /\ at[p] # "dead"
  BY Callers DEF LeaseInv, CallStep
<1>2. \A q \in Owner : q # p => held'[q] = held[q] /\ at'[q] = at[q] /\ (q \in Runner => turn'[q] = turn[q])
  BY <1>1, Typed, Callers DEF CallStep, Books
<1>3. \/ held'[p] = NotHeld /\ (p \in Runner => turn'[p] # "writing")
      \/ held'[p] = held[p] /\ (p \in Runner => turn'[p] = turn[p])
  BY <1>1, Typed DEF CallStep, LeaseInv, CallsFit
<1>4. ASSUME NEW q \in Owner
      PROVE  /\ Relies(q)' => Relies(q) /\ held'[q] = held[q]
             /\ q \in Runner /\ Uses(q)' => Uses(q) /\ held'[q] = held[q]
  <2>1. CASE q = p
    BY <1>1, <1>3, <2>1 DEF Relies, Uses
  <2>2. CASE q # p
    BY <1>1, <1>2, <2>2 DEF Relies, Uses
  <2>3. QED
    BY <2>1, <2>2
<1>5. QED
  BY <1>1, <1>4, KeptHonours DEF Owner

LEMMA StepHonoured == LeaseInv /\ [Next]_vars => LeaseHonoured' /\ WritersSpared'
<1> SUFFICES ASSUME LeaseInv, [Next]_vars
             PROVE  LeaseHonoured' /\ WritersSpared'
  OBVIOUS
<1>1. TypeOK
  BY DEF LeaseInv
<1>2. CASE UNCHANGED vars
  BY <1>2, KeptHonours DEF vars, Relies, Uses
<1>3. ASSUME NEW p \in Proc, BookStep(p)
      PROVE  LeaseHonoured' /\ WritersSpared'
  BY <1>3, KeptHonours DEF BookStep, Books, state, world, Relies, Uses, Proc
<1>4. ASSUME NEW p \in Runner, StartTurn(p)
      PROVE  LeaseHonoured' /\ WritersSpared'
  <2>1. \A q \in Runner : q # p => turn'[q] = turn[q]
    BY <1>1, <1>4, Typed DEF StartTurn
  <2>2. QED
    BY <1>4, <2>1, KeptHonours DEF StartTurn, Relies, Uses
<1>5. ASSUME NEW p \in Runner, StopTurn(p)
      PROVE  LeaseHonoured' /\ WritersSpared'
  <2>1. turn'[p] = "stopped" /\ \A q \in Runner : q # p => turn'[q] = turn[q]
    BY <1>1, <1>5, Typed DEF StopTurn
  <2>2. QED
    BY <1>5, <2>1, KeptHonours DEF StopTurn, Relies, Uses
<1>6. ASSUME NEW p \in Runner, Crash(p)
      PROVE  LeaseHonoured' /\ WritersSpared'
  <2>1. p \in Proc /\ at'[p] = "dead" /\ \A q \in Owner : q # p => at'[q] = at[q]
    BY <1>1, <1>6, Typed, Callers DEF Crash, Owner
  <2>2. QED
    BY <1>6, <2>1, KeptHonours DEF Crash, Relies, Uses, world
<1>7. ASSUME NEW e \in Exec, Cancel(e)
      PROVE  LeaseHonoured' /\ WritersSpared'
  BY <1>7, KeptHonours DEF Cancel, Relies, Uses
<1>8. CASE Tick
  <2>1. \A q \in Owner : held[q].expires \in Nat /\ now \in Nat
    BY <1>1, Typed, BoundsAssumption DEF Holdings
  <2>2. QED
    BY <1>8, <2>1, KeptHonours DEF Tick, Relies, Uses
<1>9. QED
  BY <1>2, <1>3, <1>4, <1>5, <1>6, <1>7, <1>8, WriteHonours, FoundHonours, CallHonours, Kinds DEF Owner, Proc
-----------------------------------------------------------------------------
(* Results *)

LEMMA InitLease == Init => LeaseInv
<1> SUFFICES ASSUME Init
             PROVE  LeaseInv
  OBVIOUS
<1>1. TypeOK
  BY Nulls, BoundsAssumption DEF Init, TypeOK, Snaps, Args, Holdings
<1>2. \A p \in Proc : ~Running(p) /\ at[p] # "write"
  BY DEF Init, Running
<1>3. \A p \in Owner : held[p] = NotHeld
  BY DEF Init
<1>4. \A p \in Runner : turn[p] = "new"
  BY DEF Init
<1>5. CallsFit /\ PlansFit
  BY <1>2, <1>3, <1>4 DEF CallsFit, PlansFit, Proc, Owner
<1>6. GenerationsFit
  BY <1>3, BoundsAssumption DEF GenerationsFit, Init, NoLease
<1>7. EvidenceFit
  BY <1>2, <1>4, CallersAssumption DEF EvidenceFit, Init, NoLease, Proc
<1>8. LeaseHonoured /\ WritersSpared
  BY <1>3, <1>4 DEF LeaseHonoured, WritersSpared, Relies, Uses, Owner
<1>9. QED
  BY <1>1, <1>5, <1>6, <1>7, <1>8 DEF LeaseInv

LEMMA StepLease == LeaseInv /\ [Next]_vars => LeaseInv'
  BY StepTyped, StepCalls, StepPlans, StepGenerations, StepEvidence, StepHonoured DEF LeaseInv

(* Types, what callers know, the leases owners rely on and write under:    *)
(* the inductive invariant of the registry and its callers                 *)
(* (worktree_locks.py).                                                    *)
THEOREM LeaseInvariant == Spec => []LeaseInv
  BY InitLease, StepLease, PTL DEF Spec

(* No two owners rely on leases of one repository at once: acquire's       *)
(* "repository already has an active production writer" holds over lost    *)
(* replies, crashes, recoveries and any number of conflicts.               *)
THEOREM WritersAreExclusive == Spec => []WriterExclusion
<1>1. LeaseInv => WriterExclusion
  BY DEF LeaseInv, LeaseHonoured, WriterExclusion, SameOwner
<1>2. QED
  BY <1>1, LeaseInvariant, PTL

(* A step that changes the registry is a write that landed. *)
LEMMA Changed ==
  ASSUME LeaseInv, [Next]_vars, lock' # lock
  PROVE  \E p \in Proc : WriteStep(p)
  BY Kinds DEF vars, BookStep, FoundStep, CallStep, StartTurn, StopTurn, Crash, Cancel, Tick, state

(* Generations fence, and a recovery ends only the lease it judged: no     *)
(* write of worktree_locks.py gives a generation another owner, shortens   *)
(* it, revives it once released or changes the session it was linked to.   *)
THEOREM LeasesAreFenced == Spec => LeaseFenced
<1> DEFINE Fenced ==
             \A r \in Repository : LET old == lock[r]  new == lock'[r] IN
               /\ new.gen >= old.gen
               /\ new.gen = old.gen =>
                    /\ new.exec = old.exec /\ new.token = old.token /\ new.expires >= old.expires
                    /\ old.session # NoSession => new.session = old.session
                    /\ old.status = "released" => new.status = "released"
           Ends ==
             \A w \in Watcher :
               at[w] = "write" /\ at'[w] # "write" /\ lock' # lock => Reconciles(Reads(w), arg[w])
<1>1. LeaseInv /\ [Next]_vars => [Fenced]_lock
  <2> SUFFICES ASSUME LeaseInv, [Next]_vars, lock' # lock
               PROVE  Fenced
    BY DEF Fenced
  <2>1. PICK p \in Proc : WriteStep(p)
    BY Changed
  <2> DEFINE R == Repo_(p)
  <2>2. \A r \in Repository : lock[r] \in Lease /\ lock[r].gen \in Nat /\ lock[r].expires \in Nat
    BY Typed, BoundsAssumption DEF LeaseInv, Lease
  <2>3. Frees(p, lock[R], lock'[R]) \/ Recovers(p, lock[R], lock'[R]) => lock'[R].status = "released"
    BY <2>1, <2>2, LeaseStepFacts DEF WriteStep, Frees, Recovers, Released, Lease
  <2>4. ASSUME NEW r \in Repository, r # R
        PROVE  lock'[r] = lock[r]
    BY <2>1, <2>4, LeaseStepFacts DEF WriteStep
  <2>5. /\ lock'[R].gen >= lock[R].gen
        /\ lock'[R].gen = lock[R].gen =>
             /\ lock'[R].exec = lock[R].exec /\ lock'[R].token = lock[R].token
             /\ lock'[R].expires >= lock[R].expires
             /\ lock[R].session # NoSession => lock'[R].session = lock[R].session
             /\ lock[R].status = "released" => lock'[R].status = "released"
    <3>1. Writes(p) /\ R \in Repository /\ lock[R].gen \in Nat
      BY <2>1, <2>2, LeaseStepFacts DEF WriteStep
    <3>2. CASE lock'[R].gen = lock[R].gen + 1
      BY <3>1, <3>2
    <3>3. CASE lock'[R].gen # lock[R].gen + 1
      BY <3>1, <3>3, <2>3, LeaseStepFacts
    <3>4. QED
      BY <3>2, <3>3
  <2>6. QED
    BY <2>2, <2>4, <2>5
<1>2. LeaseInv /\ [Next]_vars => [Ends]_vars
  <2> SUFFICES ASSUME LeaseInv, [Next]_vars, NEW w \in Watcher,
                      at[w] = "write", at'[w] # "write", lock' # lock
               PROVE  Reconciles(Reads(w), arg[w])
    BY DEF Ends
  <2>1. PICK p \in Proc : WriteStep(p)
    BY Changed
  <2>2. p = w
    BY <2>1 DEF WriteStep, Books, Proc
  <2>3. w \notin Owner
    BY CallersAssumption
  <2>4. QED
    BY <2>1, <2>2, <2>3
       DEF WriteStep, Writes, LeaseStep, Opens, Renews, Links, Frees, Recovers, Reads, Repo_
<1>3. QED
  BY <1>1, <1>2, LeaseInvariant, PTL DEF Spec, LeaseFenced, GenerationFencing, RecoveryEndsWhatItJudged
=============================================================================

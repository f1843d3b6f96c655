---------------------------- MODULE WriterLease ----------------------------
(***************************************************************************)
(* Writer leases: one GCS object holds, per repository, the lease of its   *)
(* only production writer (manager/worktree_locks.py).  A lease names the  *)
(* execution and the secret token of its owner, a generation that grows    *)
(* with every acquire, and an expiry by the server's clock.                *)
(*                                                                         *)
(* Every operation reads the whole object together with the server time,   *)
(* decides, and writes the whole object back under a generation condition; *)
(* on a conflict it starts again, and on any other error it gives up       *)
(* without knowing whether the write landed.  Time passes between the two. *)
(*                                                                         *)
(* Runners are workers inside enter_running_gate and run_execution: they   *)
(* draw a fresh token, acquire once, start a provider, link its session,   *)
(* and release when the provider has stopped.  Operators use the command   *)
(* line with a token of their own; only they renew.  Watchers end the      *)
(* leases that dead workers left (the two reconcile_... functions).        *)
(***************************************************************************)
EXTENDS Integers, FiniteSets

CONSTANTS
  Runner, Operator, Watcher,  \* callers; an owner's secret token is its name
  Exec,        \* execution ids
  ExecOf,      \* the execution each runner or operator acts for
  Repository,  \* canonical repositories, all kept in one object
  RepoOf,      \* the repository of each execution's project
  Session,     \* canonical session ids of providers
  Ttl,         \* lifetime given by an acquire or a renewal
  MaxTurn,     \* hard timeout of a provider's turn, in the same unit
  MaxTries,    \* attempts of one operation's read/write loop
  MaxNow,      \* bound on the clock (bounds the model only)
  MaxVer,      \* bound on the writes that land (bounds the model only)
  NoProc, NoExec, NoSession

Owner == Runner \cup Operator
Proc == Owner \cup Watcher

ASSUME CallersAssumption ==
  /\ Runner \cap Operator = {} /\ Owner \cap Watcher = {}
  /\ ExecOf \in [Owner -> Exec]
  /\ RepoOf \in [Exec -> Repository]

ASSUME NullsAssumption ==
  /\ NoProc \notin Proc
  /\ NoExec \notin Exec
  /\ NoSession \notin Session

ASSUME BoundsAssumption ==
  /\ Ttl \in Nat \ {0} /\ MaxTurn \in Nat \ {0} /\ MaxTries \in Nat \ {0}
  /\ MaxNow \in Nat /\ MaxVer \in Nat

VARIABLES
  lock,       \* the registry: the lease of each repository
  ver,        \* generation of the registry object
  now,        \* the server's clock
  at,         \* where each caller is
  tries,      \* conflicts the running operation has met
  snap,       \* object, its generation and the server time it last read
  arg,        \* arguments of the running operation
  held,       \* the lease each owner was told it holds
  turn,       \* the provider of each runner
  since,      \* when that provider's turn began, while it lasts
  evidence,   \* lease generation on the running Execution, 0 for none
  cancelled   \* executions cancelled before they ran

vars == <<lock, ver, now, at, tries, snap, arg, held, turn, since, evidence, cancelled>>

-----------------------------------------------------------------------------
(* Leases *)

NoLease ==
  [status |-> "none", exec |-> NoExec, token |-> NoProc, gen |-> 0, session |-> NoSession,
   expires |-> 0]

(* Variants named ...Mutant are faulty forms of the definition after them; *)
(* no action uses them.  Each breaks a property stated at the end.         *)
ActiveMutant(l, t) == l.status = "active" /\ l.expires > t + 1
Active(l, t) == l.status = "active" /\ l.expires > t

SameOwner(p, l) == l.exec = ExecOf[p] /\ l.token = p

NewLeaseMutant(p, l, s, t) ==
  [status |-> "active", exec |-> ExecOf[p], token |-> p, gen |-> l.gen, session |-> s,
   expires |-> t + Ttl]
NewLease(p, l, s, t) ==
  [status |-> "active", exec |-> ExecOf[p], token |-> p, gen |-> l.gen + 1, session |-> s,
   expires |-> t + Ttl]

Released(l) == [l EXCEPT !.status = "released"]

-----------------------------------------------------------------------------
(* Callers *)

NoArg == [op |-> "none", exec |-> NoExec, session |-> NoSession, gen |-> 0]
NoSnap == [locks |-> [r \in Repository |-> NoLease], ver |-> 0, now |-> 0]
NotHeld == [gen |-> 0, expires |-> 0]

Repo(p) == RepoOf[ExecOf[p]]

Reads(p)  == lock[RepoOf[arg[p].exec]]
Judged(p) == snap[p].locks[RepoOf[arg[p].exec]]

Begin(p, a) ==
  /\ at[p] = "idle"
  /\ at' = [at EXCEPT ![p] = "read"]
  /\ arg' = [arg EXCEPT ![p] = a]
  /\ UNCHANGED <<tries, snap>>

Return(p) ==
  /\ at' = [at EXCEPT ![p] = "idle"]
  /\ tries' = [tries EXCEPT ![p] = 0]
  /\ snap' = [snap EXCEPT ![p] = NoSnap]
  /\ arg' = [arg EXCEPT ![p] = NoArg]

Plan(p) ==
  /\ at' = [at EXCEPT ![p] = "write"]
  /\ snap' = [snap EXCEPT ![p] = [locks |-> lock, ver |-> ver, now |-> now]]
  /\ UNCHANGED <<tries, arg>>

(* Read again after a conflict, or fail closed when attempts are used up.  *)
Again(p) ==
  IF tries[p] + 1 < MaxTries
  THEN /\ at' = [at EXCEPT ![p] = "read"]
       /\ tries' = [tries EXCEPT ![p] = @ + 1]
       /\ snap' = [snap EXCEPT ![p] = NoSnap]
       /\ UNCHANGED arg
  ELSE Return(p)

(* The conditional write of the whole object. *)
LandsMutant(p, l) ==
  /\ ver < MaxVer
  /\ lock' = [snap[p].locks EXCEPT ![RepoOf[arg[p].exec]] = l]
  /\ ver' = ver + 1
Lands(p, l) ==
  /\ ver = snap[p].ver /\ ver < MaxVer
  /\ lock' = [snap[p].locks EXCEPT ![RepoOf[arg[p].exec]] = l]
  /\ ver' = ver + 1

Refused(p) == ver # snap[p].ver /\ UNCHANGED <<lock, ver>> /\ Again(p)
Fails(p)   == UNCHANGED <<lock, ver>> /\ Return(p)

(* Answered when it lands and the caller learns so; otherwise the reply is *)
(* lost, the write is refused, or it fails outright.                       *)
Answered(p, l)   == Lands(p, l) /\ Return(p)
Unanswered(p, l) == (Lands(p, l) /\ Return(p)) \/ Refused(p) \/ Fails(p)

Holds(p, l) == held' = [held EXCEPT ![p] = [gen |-> l.gen, expires |-> l.expires]]

world == <<now, turn, since, evidence, cancelled>>

-----------------------------------------------------------------------------
(* acquire *)

(* A runner acquires once, an operator whenever it believes it may; only   *)
(* an operator may name the session and bring a token acquire can match.   *)
AcquireCall(p) ==
  /\ \E s \in Session \cup {NoSession} :
       /\ p \in Runner => turn[p] = "new" /\ s = NoSession
       /\ Begin(p, [NoArg EXCEPT !.op = "acquire", !.exec = ExecOf[p], !.session = s])
  /\ turn' = IF p \in Runner THEN [turn EXCEPT ![p] = "gate"] ELSE turn
  /\ UNCHANGED <<lock, ver, now, held, since, evidence, cancelled>>

AcquireRead(p) ==
  /\ at[p] = "read" /\ arg[p].op = "acquire"
  /\ \/ /\ Active(Reads(p), now) /\ p \in Operator /\ SameOwner(p, Reads(p))
        /\ Holds(p, Reads(p)) /\ Return(p)
     \/ /\ Active(Reads(p), now) /\ ~(p \in Operator /\ SameOwner(p, Reads(p)))
        /\ Return(p) /\ UNCHANGED held
     \/ ~Active(Reads(p), now) /\ Plan(p) /\ UNCHANGED held
  /\ UNCHANGED <<lock, ver, world>>

AcquireWrite(p) ==
  LET l == NewLease(p, Judged(p), arg[p].session, snap[p].now) IN
  /\ at[p] = "write" /\ arg[p].op = "acquire"
  /\ \/ Answered(p, l) /\ Holds(p, l)
     \/ Unanswered(p, l) /\ UNCHANGED held
  /\ UNCHANGED world

-----------------------------------------------------------------------------
(* renew, release, link_session: _owned_update *)

(* A runner links while its provider runs and releases when it does not;   *)
(* whoever asks for a release no longer counts on the lease.               *)
OwnedCall(p) ==
  \E op \in {"renew", "release", "link"}, s \in Session \cup {NoSession} :
    /\ op = "link" <=> s # NoSession
    /\ op = "renew" => p \in Operator
    /\ p \in Runner => (IF op = "link" THEN turn[p] = "writing" ELSE turn[p] \in {"gate", "stopped"})
    /\ p \in Runner => held[p] # NotHeld
    /\ Begin(p, [NoArg EXCEPT !.op = op, !.exec = ExecOf[p], !.session = s])
    /\ held' = IF op = "release" THEN [held EXCEPT ![p] = NotHeld] ELSE held
    /\ turn' = IF op = "release" /\ p \in Runner THEN [turn EXCEPT ![p] = "done"] ELSE turn
    /\ UNCHANGED <<lock, ver, now, since, evidence, cancelled>>

OwnedRefuses(p, l, a) ==
  \/ ~SameOwner(p, l)
  \/ a.op = "renew" /\ ~Active(l, now)
  \/ a.op = "link" /\ (~Active(l, now) \/ l.session \notin {NoSession, a.session})

OwnedSettled(l, a) ==
  \/ a.op = "release" /\ l.status = "released"
  \/ a.op = "link" /\ l.session = a.session

OwnedChange(l, a, t) ==
  CASE a.op = "renew"   -> [l EXCEPT !.expires = t + Ttl]
    [] a.op = "release" -> Released(l)
    [] OTHER            -> [l EXCEPT !.session = a.session]

OwnedRead(p) ==
  /\ at[p] = "read" /\ arg[p].op \in {"renew", "release", "link"}
  /\ IF OwnedRefuses(p, Reads(p), arg[p]) \/ OwnedSettled(Reads(p), arg[p])
     THEN Return(p)
     ELSE Plan(p)
  /\ UNCHANGED <<lock, ver, held, world>>

OwnedWrite(p) ==
  LET l == OwnedChange(Judged(p), arg[p], snap[p].now) IN
  /\ at[p] = "write" /\ arg[p].op \in {"renew", "release", "link"}
  /\ \/ Answered(p, l) /\ arg[p].op = "renew" /\ Holds(p, l)
     \/ Answered(p, l) /\ arg[p].op # "renew" /\ UNCHANGED held
     \/ Unanswered(p, l) /\ UNCHANGED held
  /\ UNCHANGED world

-----------------------------------------------------------------------------
(* Leases that dead workers left behind *)

(* Only cancelled executions come to reconcile_unlinked_terminal_lease.    *)
ReconcileUnlinkedCall(w) ==
  /\ \E e \in cancelled : Begin(w, [NoArg EXCEPT !.op = "unlinked", !.exec = e])
  /\ UNCHANGED <<lock, ver, held, world>>

(* The generation is the one on the Execution; its provider is proven      *)
(* stopped, which says nothing of the worker that waited for it.           *)
ReconcileStoppedCall(w) ==
  /\ \E e \in Exec :
       /\ evidence[e] > 0
       /\ \A p \in Runner : ExecOf[p] = e => turn[p] # "writing"
       /\ Begin(w, [NoArg EXCEPT !.op = "stopped", !.exec = e, !.gen = evidence[e]])
  /\ UNCHANGED <<lock, ver, held, world>>

Reconciles(l, a) ==
  /\ l.exec = a.exec /\ l.status = "active"
  /\ a.op = "unlinked" => l.session = NoSession
  /\ a.op = "stopped" => l.gen = a.gen

ReconcileRead(w) ==
  /\ at[w] = "read" /\ arg[w].op \in {"unlinked", "stopped"}
  /\ IF Reconciles(Reads(w), arg[w]) THEN Plan(w) ELSE Return(w)
  /\ UNCHANGED <<lock, ver, held, world>>

ReconcileWrite(w) ==
  /\ at[w] = "write" /\ arg[w].op \in {"unlinked", "stopped"}
  /\ Unanswered(w, Released(Judged(w)))
  /\ UNCHANGED <<held, world>>

-----------------------------------------------------------------------------
(* Providers, workers and the clock *)

(* The running Execution is written with the lease generation before the   *)
(* provider starts; nothing looks at the expiry again.                     *)
StartTurn(p) ==
  /\ at[p] = "idle" /\ turn[p] = "gate" /\ held[p] # NotHeld /\ ExecOf[p] \notin cancelled
  /\ turn' = [turn EXCEPT ![p] = "writing"]
  /\ since' = [since EXCEPT ![p] = now]
  /\ evidence' = [evidence EXCEPT ![ExecOf[p]] = held[p].gen]
  /\ UNCHANGED <<lock, ver, now, at, tries, snap, arg, held, cancelled>>

StopTurn(p) ==
  /\ turn[p] = "writing"
  /\ turn' = [turn EXCEPT ![p] = "stopped"]
  /\ since' = [since EXCEPT ![p] = 0]
  /\ UNCHANGED <<lock, ver, now, at, tries, snap, arg, held, evidence, cancelled>>

(* A worker that dies takes no further step; its provider may run on.      *)
Crash(p) ==
  /\ p \in Runner /\ at[p] # "dead"
  /\ at' = [at EXCEPT ![p] = "dead"]
  /\ tries' = [tries EXCEPT ![p] = 0]
  /\ snap' = [snap EXCEPT ![p] = NoSnap]
  /\ arg' = [arg EXCEPT ![p] = NoArg]
  /\ UNCHANGED <<lock, ver, held, world>>

(* A reservation that never ran is cancelled once its worker is gone.      *)
Cancel(e) ==
  /\ e \notin cancelled /\ evidence[e] = 0
  /\ \A p \in Runner : ExecOf[p] = e => at[p] = "dead" \/ turn[p] = "done"
  /\ cancelled' = cancelled \cup {e}
  /\ UNCHANGED <<lock, ver, now, at, tries, snap, arg, held, turn, since, evidence>>

(* The clock; a turn is over when its hard timeout is.                     *)
Tick ==
  /\ now < MaxNow
  /\ \A p \in Runner : turn[p] = "writing" => now - since[p] < MaxTurn
  /\ now' = now + 1
  /\ UNCHANGED <<lock, ver, at, tries, snap, arg, held, turn, since, evidence, cancelled>>

Init ==
  /\ lock = [r \in Repository |-> NoLease]
  /\ ver = 0 /\ now = 0
  /\ at = [p \in Proc |-> "idle"]
  /\ tries = [p \in Proc |-> 0]
  /\ snap = [p \in Proc |-> NoSnap]
  /\ arg = [p \in Proc |-> NoArg]
  /\ held = [p \in Owner |-> NotHeld]
  /\ turn = [p \in Runner |-> "new"]
  /\ since = [p \in Runner |-> 0]
  /\ evidence = [e \in Exec |-> 0]
  /\ cancelled = {}

Next ==
  \/ \E p \in Owner : AcquireCall(p) \/ AcquireRead(p) \/ AcquireWrite(p)
  \/ \E p \in Owner : OwnedCall(p) \/ OwnedRead(p) \/ OwnedWrite(p)
  \/ \E w \in Watcher : ReconcileUnlinkedCall(w) \/ ReconcileStoppedCall(w)
  \/ \E w \in Watcher : ReconcileRead(w) \/ ReconcileWrite(w)
  \/ \E p \in Runner : StartTurn(p) \/ StopTurn(p) \/ Crash(p)
  \/ \E e \in Exec : Cancel(e)
  \/ Tick

Spec == Init /\ [][Next]_vars
-----------------------------------------------------------------------------
(* Properties *)

Lease ==
  [status : {"none", "active", "released"}, exec : Exec \cup {NoExec}, token : Owner \cup {NoProc},
   gen : 0 .. MaxVer, session : Session \cup {NoSession}, expires : 0 .. MaxNow + Ttl]

Ops == {"none", "acquire", "renew", "release", "link", "unlinked", "stopped"}

(* Types of the registry, the callers and what they know. *)
TypeOK ==
  /\ lock \in [Repository -> Lease] /\ ver \in 0 .. MaxVer /\ now \in 0 .. MaxNow
  /\ at \in [Proc -> {"idle", "read", "write", "dead"}]
  /\ tries \in [Proc -> 0 .. MaxTries - 1]
  /\ snap \in [Proc -> [locks : [Repository -> Lease], ver : 0 .. MaxVer, now : 0 .. MaxNow]]
  /\ arg \in [Proc -> [op : Ops, exec : Exec \cup {NoExec},
                       session : Session \cup {NoSession}, gen : 0 .. MaxVer]]
  /\ held \in [Owner -> [gen : 0 .. MaxVer, expires : 0 .. MaxNow + Ttl]]
  /\ turn \in [Runner -> {"new", "gate", "writing", "stopped", "done"}]
  /\ since \in [Runner -> 0 .. MaxNow]
  /\ evidence \in [Exec -> 0 .. MaxVer]
  /\ cancelled \subseteq Exec

(* What a running call was given, and what its caller has come to: whoever *)
(* releases counts on nothing any more, a watcher looks at a cancelled     *)
(* execution or at one that ran.                                           *)
Running(p) == at[p] \in {"read", "write"}

CallsFit ==
  /\ \A p \in Owner : Running(p) =>
       /\ arg[p].op \in {"acquire", "renew", "release", "link"} /\ arg[p].exec = ExecOf[p]
       /\ arg[p].op = "release" => held[p] = NotHeld /\ (p \in Runner => turn[p] = "done")
       /\ p \in Runner => turn[p] # "new"
  /\ \A w \in Watcher : Running(w) =>
       /\ arg[w].op \in {"unlinked", "stopped"} /\ arg[w].exec \in Exec
       /\ arg[w].op = "unlinked" => arg[w].exec \in cancelled
  /\ \A p \in Runner :
       /\ turn[p] = "new" => held[p] = NotHeld
       /\ turn[p] = "writing" => held[p] # NotHeld

(* A read that is not stale, and what it has made sure of.                 *)
PlanFits(p) ==
  /\ snap[p].ver <= ver /\ snap[p].now <= now
  /\ snap[p].ver = ver => snap[p].locks = lock
  /\ Judged(p).expires <= snap[p].now + Ttl
  /\ arg[p].op = "acquire" => ~Active(Judged(p), snap[p].now)
  /\ arg[p].op \in {"renew", "release", "link"} => SameOwner(p, Judged(p))
  /\ arg[p].op \in {"renew", "link"} => Judged(p).status = "active"
  /\ arg[p].op = "link" => Judged(p).session = NoSession
  /\ arg[p].op \in {"unlinked", "stopped"} => Reconciles(Judged(p), arg[p])

PlansFit == \A p \in Proc : at[p] = "write" => PlanFits(p)

(* Generations grow with the registry, and one an owner was told of is its *)
(* own as long as it is the last.                                          *)
GenerationsFit ==
  /\ \A r \in Repository :
       /\ lock[r].gen <= ver /\ lock[r].expires <= now + Ttl
       /\ lock[r].status = "active" => lock[r].gen > 0
  /\ \A p \in Owner : held[p] # NotHeld =>
       /\ held[p].gen > 0 /\ held[p].gen <= lock[Repo(p)].gen
       /\ held[p].gen = lock[Repo(p)].gen => SameOwner(p, lock[Repo(p)])

(* The generation on an Execution, as long as it is the last of its        *)
(* repository, is that of a runner that has started its provider; one that *)
(* a watcher took for stopped has stopped it.                              *)
Started(l) ==
  /\ l.token \in Runner /\ l.exec = ExecOf[l.token]
  /\ turn[l.token] \in {"writing", "stopped", "done"}
Over(l) == l.token \in Runner /\ turn[l.token] \in {"stopped", "done"}

EvidenceFit ==
  /\ \A e \in Exec : LET l == lock[RepoOf[e]] IN
       /\ evidence[e] <= l.gen
       /\ evidence[e] > 0 /\ evidence[e] = l.gen => l.exec = e /\ Started(l)
       /\ e \in cancelled => evidence[e] = 0
  /\ \A p \in Runner : turn[p] = "writing" => evidence[ExecOf[p]] > 0
  /\ \A w \in Watcher : Running(w) /\ arg[w].op = "stopped" =>
       /\ arg[w].gen > 0 /\ arg[w].gen <= Reads(w).gen
       /\ arg[w].gen = Reads(w).gen => Over(Reads(w))

(* An owner that relies on a lease: it was told so, by the server's clock  *)
(* the lease has not expired, its execution was not cancelled, and for a   *)
(* runner the provider has not stopped and the worker, or else at least    *)
(* the provider, is alive.                                                 *)
Relies(p) ==
  /\ held[p] # NotHeld /\ held[p].expires > now /\ ExecOf[p] \notin cancelled
  /\ p \in Runner => turn[p] = "writing" \/ (turn[p] = "gate" /\ at[p] # "dead")

(* What an owner was told stays true until it expires: the registry names  *)
(* it, in the same generation, and lasts at least as long.  Lost replies,  *)
(* recoveries and acquires of others never take a lease away early.        *)
LeaseHonoured ==
  \A p \in Owner : Relies(p) =>
    LET l == lock[Repo(p)] IN
    /\ SameOwner(p, l) /\ l.gen = held[p].gen
    /\ l.status = "active" /\ l.expires >= held[p].expires

(* No two owners rely on leases of one repository at the same time         *)
(* ("repository already has an active production writer", acquire).        *)
WriterExclusion ==
  \A p, q \in Owner : Relies(p) /\ Relies(q) /\ Repo(p) = Repo(q) => p = q

(* A runner whose provider writes, or is about to: past the gate nothing   *)
(* looks at the lease again.                                               *)
Uses(p) ==
  turn[p] = "writing" \/ (turn[p] = "gate" /\ held[p] # NotHeld /\ ExecOf[p] \notin cancelled)

(* The generation a provider writes under is not released beneath it, even *)
(* when its worker is dead or its lease has expired: the proofs of death   *)
(* that the recoveries ask for protect it, from the gate on.               *)
WritersSpared ==
  \A p \in Runner :
    Uses(p) /\ lock[Repo(p)].gen = held[p].gen => lock[Repo(p)].status = "active"

(* Generations fence: a generation keeps its owner and its session for     *)
(* good, never lasts shorter than before, and never comes back once        *)
(* released; later owners have later generations.                          *)
GenerationFencing ==
  [][ \A r \in Repository : LET old == lock[r]  new == lock'[r] IN
        /\ new.gen >= old.gen
        /\ new.gen = old.gen =>
             /\ new.exec = old.exec /\ new.token = old.token /\ new.expires >= old.expires
             /\ old.session # NoSession => new.session = old.session
             /\ old.status = "released" => new.status = "released" ]_lock

(* A recovery ends the lease it judged: when its write lands the lease is  *)
(* still the one of that execution, unlinked or of that generation as the  *)
(* two reconcile_... functions require of what they read.                  *)
RecoveryEndsWhatItJudged ==
  [][ \A w \in Watcher :
        at[w] = "write" /\ at'[w] # "write" /\ lock' # lock => Reconciles(Reads(w), arg[w]) ]_vars

(* The states of the registry and its callers (worktree_locks.py): no      *)
(* lease is ended under those who rely on it or write under it, and what   *)
(* keeps it so.  Inductive.                                                *)
LeaseInv ==
  /\ TypeOK /\ CallsFit /\ PlansFit /\ GenerationsFit /\ EvidenceFit
  /\ LeaseHonoured /\ WritersSpared

(* What no step may do to a lease (worktree_locks.py): an update   *)
(* that lands late meets its own generation or none.                       *)
LeaseFenced == GenerationFencing /\ RecoveryEndsWhatItJudged

(* Documented: "an owner must renew before expiry. Expired leases cannot   *)
(* be revived" (README.md, and the error text of the renew branch).        *)
ExpiredNotRevived ==
  [][ \A r \in Repository : LET old == lock[r]  new == lock'[r] IN
        old.status = "active" /\ ~Active(old, now) /\ new.gen = old.gen => ~Active(new, now) ]_vars

(* Documented: "Failures after acquire cannot silently continue writing    *)
(* after renew failure or lease expiry" (PHASE-3C-EXECUTION-LIFECYCLE.md), *)
(* so two providers never write to one repository at once.                 *)
OneProviderPerRepository ==
  \A p, q \in Runner :
    turn[p] = "writing" /\ turn[q] = "writing" /\ Repo(p) = Repo(q) => p = q
=============================================================================

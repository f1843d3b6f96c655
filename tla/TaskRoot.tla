------------------------------ MODULE TaskRoot ------------------------------
(***************************************************************************)
(* The Task Root: the one durable GCS object per task that carries runtime *)
(* claim authority, the terminal bind of the current epoch, the            *)
(* materialization and cleanup facets, and the archive of earlier epochs   *)
(* (manager/task_root.py, manager/task_claims.py).                         *)
(*                                                                         *)
(* GCS offers one conditional write per request: it takes effect only if   *)
(* the object still has the generation the caller read.  A reply can be    *)
(* lost, so a caller that sees an error does not know whether its write    *)
(* landed.  Every operation of task_root.py is a read followed by such a   *)
(* write, retried on a generation conflict; here the read and the write    *)
(* are separate steps, so that any other caller can act in between.        *)
(*                                                                         *)
(* A process stands for one caller: a runner inside enter_running_gate or  *)
(* terminalize_execution, a recovery pass of the Command Watcher, a second *)
(* watcher running the same Command (same execution id, own claim token).  *)
(* Processes call the operations in any order.  A crash is a process that  *)
(* takes no further step.                                                  *)
(***************************************************************************)
EXTENDS Naturals, Sequences

CONSTANTS
  Proc,        \* callers; each owns one secret claim token, named by itself
  Exec,        \* execution ids
  ExecOf,      \* the execution each caller acts for
  Hash,        \* canonical proposal hashes
  View,        \* Drive views materialized for a verdict ("task", "handoff")
  Offers,      \* whether committing callers bring a Drive id: subset of BOOLEAN
  FacetGoals,  \* statuses asked of advance_cleanup_facet
  Threshold,   \* failures of one view tolerated before "attention"
  MaxTries,    \* attempts of one operation's read/write loop
  MaxGen,      \* bound on the writes that land (bounds the model only)
  NoProc, NoExec, NoHash

ASSUME NamesAssumption ==
  /\ ExecOf \in [Proc -> Exec]
  /\ NoProc \notin Proc
  /\ NoExec \notin Exec
  /\ NoHash \notin Hash

ASSUME InputsAssumption ==
  /\ Offers \subseteq BOOLEAN
  /\ FacetGoals \subseteq {"release_pending", "released"}

ASSUME BoundsAssumption ==
  /\ Threshold \in Nat \ {0}
  /\ MaxTries \in Nat \ {0}
  /\ MaxGen \in Nat \ {0}

VARIABLES
  obj,       \* the object in the bucket
  nextGen,   \* the generation GCS gives to the next write that lands
  at,        \* where each caller is
  tries,     \* conflicts the running operation has met
  snap,      \* the object as the running operation last read it
  arg,       \* arguments of the running operation
  gen,       \* the claim generation the caller holds, 0 for none
  live       \* history: callers granted authority that nobody has ended

vars == <<obj, nextGen, at, tries, snap, arg, gen, live>>

-----------------------------------------------------------------------------
(* Documents *)

NoBind == [exec |-> NoExec, epoch |-> 0, hash |-> NoHash, fid |-> NoProc]

FreshView == [status |-> "absent", retries |-> 0]
FreshMat == [v \in View |-> FreshView]

NoDoc ==
  [shape |-> "none", gen |-> 0, epoch |-> 0, exec |-> NoExec, token |-> NoProc,
   active |-> FALSE, bind |-> NoBind, mat |-> FreshMat, cleanup |-> "retained",
   history |-> <<>>]

(* A claim written before the Task Root existed.  NoProc stands for a      *)
(* token of none of the callers.                                           *)
LegacyDoc(e) ==
  [NoDoc EXCEPT !.shape = "legacy", !.gen = 1, !.exec = e, !.active = TRUE]

Bound(d) == d.bind # NoBind

(* Variants named ...Mutant below are faulty forms of the definition that  *)
(* follows; no action uses them.  Each breaks a property stated at the end.*)
OwnsMutant(p, d) == d.exec = ExecOf[p]
Owns(p, d) == d.exec = ExecOf[p] /\ d.token = p

FreshEpoch(p) ==
  [NoDoc EXCEPT !.shape = "root", !.epoch = 1, !.exec = ExecOf[p], !.token = p,
                !.active = TRUE]

ArchivedMutant(d) ==
  Append(d.history, [epoch |-> d.epoch, exec |-> d.exec, bind |-> NoBind, cleanup |-> d.cleanup])
Archived(d) ==
  Append(d.history, [epoch |-> d.epoch, exec |-> d.exec, bind |-> d.bind, cleanup |-> d.cleanup])

(* What Drive says of a legacy owner: no terminal Execution, or one whose  *)
(* own cleanup evidence has, or has not, released the claim.               *)
Proofs == {"none", "retained", "released"}

Migrated(d, proof) ==
  [d EXCEPT !.shape = "root", !.epoch = 1,
            !.active = (proof = "none"),
            !.bind = IF proof = "none" THEN NoBind ELSE [NoBind EXCEPT !.exec = d.exec],
            !.cleanup = IF proof = "released" THEN "released" ELSE "retained"]

ReownedMutant(p, d) ==
  [d EXCEPT !.exec = ExecOf[p], !.token = p, !.active = TRUE, !.bind = NoBind, !.mat = FreshMat,
            !.cleanup = "retained"]

(* Acquiring an object without an active owner: after a verdict a new      *)
(* epoch opens and the old one is archived; otherwise the epoch reopens.   *)
Reowned(p, d) ==
  LET taken == [d EXCEPT !.exec = ExecOf[p], !.token = p, !.active = TRUE]
  IN  IF Bound(d)
      THEN [taken EXCEPT !.epoch = d.epoch + 1, !.bind = NoBind, !.mat = FreshMat,
                         !.cleanup = "retained", !.history = Archived(d)]
      ELSE taken

BindOf(p, d) ==
  [exec |-> ExecOf[p], epoch |-> d.epoch, hash |-> arg[p].hash,
   fid |-> IF arg[p].offer THEN p ELSE NoProc]

Ended(d) == [d EXCEPT !.active = FALSE, !.cleanup = "released"]

Rank(s) == CASE s = "retained" -> 0 [] s = "release_pending" -> 1 [] OTHER -> 2

MatStatus == {"absent", "pending", "verified", "attention"}

MatTransitions(s) ==
  CASE s = "absent"    -> {"absent", "pending"}
    [] s = "pending"   -> {"pending", "verified", "attention"}
    [] s = "verified"  -> {"verified", "pending"}
    [] s = "attention" -> {"pending", "verified", "attention"}

AdvancedMutant(d, v, s) == [d EXCEPT !.mat[v].status = s]
Advanced(d, v, s) == [d EXCEPT !.mat[v] = [status |-> s, retries |-> 0]]

FailureRecorded(d, v) ==
  LET n == d.mat[v].retries + 1
  IN  [d EXCEPT !.mat[v] = [status  |-> IF n >= Threshold THEN "attention" ELSE "pending",
                            retries |-> n]]

-----------------------------------------------------------------------------
(* Callers *)

NoArg == [hash |-> NoHash, offer |-> FALSE, view |-> "none", status |-> "none"]

Return(p) ==
  /\ at' = [at EXCEPT ![p] = "idle"]
  /\ tries' = [tries EXCEPT ![p] = 0]
  /\ snap' = [snap EXCEPT ![p] = NoDoc]
  /\ arg' = [arg EXCEPT ![p] = NoArg]

(* Loop once more, or fail closed when the attempts are used up. *)
Again(p, read) ==
  IF tries[p] + 1 < MaxTries
  THEN /\ at' = [at EXCEPT ![p] = read]
       /\ tries' = [tries EXCEPT ![p] = @ + 1]
       /\ snap' = [snap EXCEPT ![p] = NoDoc]
       /\ UNCHANGED arg
  ELSE Return(p)

(* The read found something to write: remember what was read. *)
Plan(p, a, write) ==
  /\ at' = [at EXCEPT ![p] = write]
  /\ snap' = [snap EXCEPT ![p] = obj]
  /\ arg' = [arg EXCEPT ![p] = a]
  /\ UNCHANGED tries

(* Arguments of a call that is about to read: new for a new call, kept for *)
(* a loop that reads again.                                                *)
Calls(p, read, args) ==
  CASE at[p] = "idle" -> args [] at[p] = read -> {arg[p]} [] OTHER -> {}

(* The conditional write. *)
LandsMutant(p, d) ==
  /\ nextGen <= MaxGen
  /\ obj' = [d EXCEPT !.gen = nextGen]
  /\ nextGen' = nextGen + 1
Lands(p, d) ==
  /\ obj.gen = snap[p].gen
  /\ nextGen <= MaxGen
  /\ obj' = [d EXCEPT !.gen = nextGen]
  /\ nextGen' = nextGen + 1

Refused(p) == obj.gen # snap[p].gen /\ UNCHANGED <<obj, nextGen>>

Removed(p) ==
  /\ obj.gen = snap[p].gen
  /\ obj' = NoDoc
  /\ UNCHANGED nextGen

Grant(p, g) ==
  /\ gen' = [gen EXCEPT ![p] = g]
  /\ live' = live \cup {p}

EndAuthority(e) == live' = {q \in live : ExecOf[q] # e}

(* A conditional write of d whose success or failure changes only the      *)
(* document: it lands and the caller learns it, it lands and the reply is  *)
(* lost, it is refused and retried, or it fails outright.                  *)
Write(p, d, read) ==
  \/ Lands(p, d) /\ Return(p)
  \/ Refused(p) /\ Again(p, read)
  \/ UNCHANGED <<obj, nextGen>> /\ Return(p)

-----------------------------------------------------------------------------
(* acquire_task_root *)

BlockedMutant(p, d) == d.shape = "root" /\ d.active /\ ~Owns(p, d)
Blocked(p, d) ==
  /\ d.shape = "root"
  /\ IF d.active THEN ~Owns(p, d) ELSE Bound(d) /\ d.cleanup # "released"

AcquireRead(p) ==
  \E a \in Calls(p, "acquire_read", {NoArg}) :
    /\ UNCHANGED <<obj, nextGen>>
    /\ \/ /\ obj.shape = "root" /\ obj.active /\ Owns(p, obj)
          /\ Grant(p, obj.gen) /\ Return(p)
       \/ /\ Blocked(p, obj)
          /\ Return(p) /\ UNCHANGED <<gen, live>>
       \/ /\ obj.shape = "root" => ~obj.active /\ ~Blocked(p, obj)
          /\ Plan(p, a, "acquire_write") /\ UNCHANGED <<gen, live>>

AcquireCreate(p) ==
  /\ at[p] = "acquire_write" /\ snap[p].shape = "none"
  /\ \/ Lands(p, FreshEpoch(p)) /\ Grant(p, nextGen) /\ Return(p)
     \/ Lands(p, FreshEpoch(p)) /\ Again(p, "acquire_read") /\ UNCHANGED <<gen, live>>
     \/ UNCHANGED <<obj, nextGen, gen, live>> /\ Again(p, "acquire_read")

AcquireMigrate(p) ==
  /\ at[p] = "acquire_write" /\ snap[p].shape = "legacy"
  /\ UNCHANGED <<gen, live>>
  /\ \/ \E proof \in Proofs :
          /\ Lands(p, Migrated(snap[p], proof))
          /\ Again(p, "acquire_read") \/ Return(p)
     \/ Refused(p) /\ Again(p, "acquire_read")
     \/ UNCHANGED <<obj, nextGen>> /\ Return(p)

AcquireOpen(p) ==
  /\ at[p] = "acquire_write" /\ snap[p].shape = "root"
  /\ \/ Lands(p, Reowned(p, snap[p])) /\ Grant(p, nextGen) /\ Return(p)
     \/ Write(p, Reowned(p, snap[p]), "acquire_read") /\ UNCHANGED <<gen, live>>

-----------------------------------------------------------------------------
(* commit_terminal_bind *)

CommitArgs == [hash : Hash, offer : Offers, view : {"none"}, status : {"none"}]

(* A caller settles on: an object that is gone or another execution's, a   *)
(* bind of another epoch or with another hash, a bind with nothing to fill.*)
CommitSettled(p, a) ==
  \/ obj.shape = "none"
  \/ obj.exec # ExecOf[p]
  \/ /\ obj.shape = "root" /\ Bound(obj)
     /\ \/ obj.bind.exec # ExecOf[p] \/ obj.bind.epoch # obj.epoch \/ obj.bind.hash # a.hash
        \/ ~a.offer \/ obj.bind.fid # NoProc

CommitRead(p) ==
  \E a \in Calls(p, "commit_read", CommitArgs) :
    /\ UNCHANGED <<obj, nextGen, gen, live>>
    /\ IF CommitSettled(p, a) THEN Return(p) ELSE Plan(p, a, "commit_write")
CommitMigrate(p) ==
  /\ at[p] = "commit_write" /\ snap[p].shape = "legacy"
  /\ UNCHANGED <<gen, live>>
  /\ \/ Lands(p, Migrated(snap[p], "none")) /\ Again(p, "commit_read")
     \/ Write(p, Migrated(snap[p], "none"), "commit_read")

CommitBind(p) ==
  /\ at[p] = "commit_write" /\ snap[p].shape = "root" /\ ~Bound(snap[p])
  /\ Write(p, [snap[p] EXCEPT !.bind = BindOf(p, snap[p])], "commit_read")
  /\ UNCHANGED <<gen, live>>

(* A Drive id missing from the bind is filled in once. *)
CommitFill(p) ==
  /\ at[p] = "commit_write" /\ snap[p].shape = "root" /\ Bound(snap[p])
  /\ Write(p, [snap[p] EXCEPT !.bind.fid = p], "commit_read")
  /\ UNCHANGED <<gen, live>>

-----------------------------------------------------------------------------
(* Facets of the current epoch: only its owning execution advances them. *)

FacetArgs(statuses) == [hash : {NoHash}, offer : {FALSE}, view : View, status : statuses]

FacetOwner(p) == obj.shape = "root" /\ obj.exec = ExecOf[p]

AdvanceRead(p) ==
  \E a \in Calls(p, "advance_read", FacetArgs({"pending", "verified", "attention"})) :
    /\ UNCHANGED <<obj, nextGen, gen, live>>
    /\ IF FacetOwner(p) /\ a.status \in MatTransitions(obj.mat[a.view].status)
       THEN Plan(p, a, "advance_write")
       ELSE Return(p)

AdvanceWrite(p) ==
  /\ at[p] = "advance_write"
  /\ Write(p, Advanced(snap[p], arg[p].view, arg[p].status), "advance_read")
  /\ UNCHANGED <<gen, live>>

FailureRead(p) ==
  \E a \in Calls(p, "failure_read", FacetArgs({"none"})) :
    /\ UNCHANGED <<obj, nextGen, gen, live>>
    /\ IF FacetOwner(p) /\ obj.mat[a.view].status # "verified"
       THEN Plan(p, a, "failure_write")
       ELSE Return(p)

FailureWrite(p) ==
  /\ at[p] = "failure_write"
  /\ Write(p, FailureRecorded(snap[p], arg[p].view), "failure_read")
  /\ UNCHANGED <<gen, live>>

CleanupArgs ==
  [hash : {NoHash}, offer : {FALSE}, view : {"none"}, status : FacetGoals]

CleanupRead(p) ==
  \E a \in Calls(p, "cleanup_read", CleanupArgs) :
    /\ UNCHANGED <<obj, nextGen, gen, live>>
    /\ IF FacetOwner(p) /\ Rank(a.status) > Rank(obj.cleanup)
       THEN Plan(p, a, "cleanup_write")
       ELSE Return(p)

CleanupWrite(p) ==
  /\ at[p] = "cleanup_write"
  /\ Write(p, [snap[p] EXCEPT !.cleanup = arg[p].status], "cleanup_read")
  /\ UNCHANGED <<gen, live>>

-----------------------------------------------------------------------------
(* release_runtime_claim and read_task_root_or_legacy_claim *)

(* A recovery caller learns the generation of its execution's claim. *)
Inspect(p) ==
  /\ at[p] = "idle"
  /\ obj.shape # "none" /\ obj.active /\ obj.exec = ExecOf[p]
  /\ gen' = [gen EXCEPT ![p] = obj.gen]
  /\ UNCHANGED <<obj, nextGen, at, tries, snap, arg, live>>

Foreign(p) == obj.shape = "none" \/ obj.exec # ExecOf[p]

(* Without a bind only the generation the caller holds may be removed.  A  *)
(* loop that reads again looks at the owner only.                          *)
ReleaseRead(p) ==
  /\ at[p] \in {"idle", "release_read"}
  /\ UNCHANGED <<obj, nextGen, gen, live>>
  /\ \/ Foreign(p) /\ Return(p)
     \/ /\ ~Foreign(p) /\ (Bound(obj) \/ at[p] = "release_read")
        /\ Plan(p, NoArg, "mark_write")
     \/ /\ ~Foreign(p) /\ ~Bound(obj) /\ at[p] = "idle"
        /\ IF obj.gen = gen[p] THEN Plan(p, NoArg, "delete_write") ELSE Return(p)

ReleaseDelete(p) ==
  /\ at[p] = "delete_write"
  /\ UNCHANGED gen
  /\ \/ Removed(p) /\ EndAuthority(ExecOf[p]) /\ Return(p)
     \/ UNCHANGED <<obj, nextGen, live>> /\ Return(p)

(* With a bind the object stays and the epoch's authority ends. *)
ReleaseMark(p) ==
  /\ at[p] = "mark_write"
  /\ UNCHANGED gen
  /\ \/ Lands(p, Ended(snap[p])) /\ EndAuthority(ExecOf[p]) /\ Return(p)
     \/ Refused(p) /\ Again(p, "release_read") /\ UNCHANGED live
     \/ UNCHANGED <<obj, nextGen, live>> /\ Return(p)

-----------------------------------------------------------------------------
Init ==
  /\ obj \in {NoDoc} \cup {LegacyDoc(e) : e \in Exec}
  /\ nextGen = 2
  /\ at = [p \in Proc |-> "idle"]
  /\ tries = [p \in Proc |-> 0]
  /\ snap = [p \in Proc |-> NoDoc]
  /\ arg = [p \in Proc |-> NoArg]
  /\ gen = [p \in Proc |-> 0]
  /\ live = {}

Acquire(p) == AcquireRead(p) \/ AcquireCreate(p) \/ AcquireMigrate(p) \/ AcquireOpen(p)
Commit(p) == CommitRead(p) \/ CommitMigrate(p) \/ CommitBind(p) \/ CommitFill(p)
Materialize(p) == AdvanceRead(p) \/ AdvanceWrite(p) \/ FailureRead(p) \/ FailureWrite(p)
Cleanup(p) == CleanupRead(p) \/ CleanupWrite(p)
Release(p) == Inspect(p) \/ ReleaseRead(p) \/ ReleaseDelete(p) \/ ReleaseMark(p)

Next == \E p \in Proc : Acquire(p) \/ Commit(p) \/ Materialize(p) \/ Cleanup(p) \/ Release(p)

Spec == Init /\ [][Next]_vars

-----------------------------------------------------------------------------
(* Properties *)

BindType == [exec : Exec \cup {NoExec}, epoch : Nat, hash : Hash \cup {NoHash}, fid : Proc \cup {NoProc}]
ArchiveType ==
  [epoch : Nat, exec : Exec \cup {NoExec}, bind : BindType, cleanup : {"retained", "release_pending", "released"}]

DocType ==
  [shape : {"none", "legacy", "root"}, gen : Nat, epoch : Nat, exec : Exec \cup {NoExec},
   token : Proc \cup {NoProc}, active : BOOLEAN, bind : BindType,
   mat : [View -> [status : MatStatus, retries : Nat]],
   cleanup : {"retained", "release_pending", "released"}, history : Seq(ArchiveType)]

ArgType ==
  [hash : Hash \cup {NoHash}, offer : BOOLEAN, view : View \cup {"none"},
   status : {"none", "pending", "verified", "attention", "release_pending", "released"}]

At == {"idle", "acquire_read", "acquire_write", "commit_read", "commit_write", "advance_read",
       "advance_write", "failure_read", "failure_write", "cleanup_read", "cleanup_write",
       "release_read", "delete_write", "mark_write"}

(* Every variable has its type: what task_root.py can store and what a     *)
(* caller can hold while one of its operations runs.                       *)
TypeOK ==
  /\ obj \in DocType
  /\ nextGen \in Nat \ {0}
  /\ at \in [Proc -> At]
  /\ tries \in [Proc -> Nat]
  /\ snap \in [Proc -> DocType]
  /\ arg \in [Proc -> ArgType]
  /\ gen \in [Proc -> Nat]
  /\ live \in SUBSET Proc

(* The arguments of a facet write are ones its read accepted. *)
ArgsFit ==
  \A p \in Proc :
    /\ at[p] \in {"advance_read", "advance_write"} => arg[p].status \in MatStatus
    /\ at[p] \in {"cleanup_read", "cleanup_write"} => arg[p].status \in FacetGoals
    /\ at[p] \in {"advance_read", "advance_write", "failure_read", "failure_write"} => arg[p].view \in View

(* A generation is never given twice, so equal generations mean equal      *)
(* contents: what makes a conditional write safe.                          *)
GenerationsIdentify ==
  /\ obj.gen < nextGen
  /\ obj.gen = 0 \/ obj.shape = "none" => obj = NoDoc
  /\ \A p \in Proc :
       /\ snap[p].gen < nextGen
       /\ snap[p].gen = 0 \/ snap[p].shape = "none" => snap[p] = NoDoc
       /\ snap[p].gen = obj.gen => snap[p] = obj

(* What a caller about to write has read. *)
PlansFit ==
  \A p \in Proc :
    /\ at[p] = "acquire_write" /\ snap[p].shape = "root" => ~snap[p].active
    /\ at[p] \in {"advance_write", "failure_write", "cleanup_write"} => snap[p].shape = "root"
    /\ at[p] \in {"commit_write", "advance_write", "failure_write", "cleanup_write",
                  "delete_write", "mark_write"} =>
         snap[p].shape # "none" /\ snap[p].exec = ExecOf[p]

(* What a read has made sure of before its caller plans a write; with      *)
(* GenerationsIdentify it still holds when the write lands.                *)
PlansSound ==
  \A p \in Proc :
    /\ at[p] = "acquire_write" => ~Blocked(p, snap[p])
    /\ at[p] = "commit_write" /\ snap[p].shape = "root" /\ Bound(snap[p]) => snap[p].bind.fid = NoProc
    /\ at[p] = "advance_write" => arg[p].status \in MatTransitions(snap[p].mat[arg[p].view].status)
    /\ at[p] = "delete_write" => ~Bound(snap[p])

(* At most one caller holds running authority that nobody has ended:       *)
(* acquire_task_root never answers two callers with success unless a       *)
(* release for the first one's execution landed in between, whatever       *)
(* replies are lost and whoever migrates or reopens the object meanwhile.  *)
ExclusiveAuthority == \A p, q \in live : p = q

(* A caller with authority is the owner the object names.                  *)
LiveOwns == \A p \in live : obj.shape = "root" /\ obj.active /\ Owns(p, obj)

(* Inductive: each conjunct needs the ones before it. *)
AuthorityInv == TypeOK /\ ArgsFit /\ GenerationsIdentify /\ PlansFit /\ LiveOwns

(* Every archived and bound document is whole: a verdict belongs to the    *)
(* execution and the epoch of the document that has it, or to the one that *)
(* was migrated with it; a document has had no more epochs than writes.    *)
DocsWhole ==
  /\ obj.shape # "none" => obj.exec \in Exec
  /\ obj.shape = "legacy" => obj.epoch = 0 /\ obj.bind = NoBind /\ obj.history = <<>>
  /\ obj.epoch <= obj.gen
  /\ Bound(obj) => /\ obj.bind.exec = obj.exec
                   /\ obj.bind.epoch \in {0, obj.epoch} /\ (obj.bind.epoch = 0 => obj.epoch = 1)

(* The archive is complete and in order: entry i is epoch i, it carries    *)
(* the verdict of its own execution, and it was superseded only after its  *)
(* cleanup had released (the gate acquire_task_root puts before an epoch). *)
HistoryComplete ==
  /\ obj.shape = "root" => obj.epoch = Len(obj.history) + 1
  /\ \A i \in DOMAIN obj.history :
       LET h == obj.history[i] IN
       /\ h.epoch = i /\ h.cleanup = "released"
       /\ h.bind # NoBind /\ h.bind.exec = h.exec
       /\ h.bind.epoch \in {0, i} /\ (h.bind.epoch = 0 => i = 1)

(* The failure budget of a view is accurate however writers interleave: a  *)
(* view still "pending" has failures left, a "verified" one starts afresh  *)
(* (record_materialization_failure against advance_materialization_view).  *)
MaterializationBudget ==
  \A v \in View :
    /\ obj.mat[v].status = "pending" => obj.mat[v].retries < Threshold
    /\ obj.mat[v].status \in {"absent", "verified"} => obj.mat[v].retries = 0

(* Inductive: what the operations make of the document, one after another. *)
RootInv == AuthorityInv /\ PlansSound /\ DocsWhole /\ HistoryComplete /\ MaterializationBudget

Verdict(d, e) ==
  IF e \in DOMAIN d.history THEN d.history[e].bind ELSE IF e = d.epoch THEN d.bind ELSE NoBind

(* As long as the object exists, the verdict of an epoch, once bound, is   *)
(* never lost, replaced or bound to another hash, through archiving and    *)
(* every facet write; only a missing Drive id may still be filled, once.   *)
VerdictImmutable ==
  [][ obj.shape = "root" /\ obj'.shape = "root" =>
        \A e \in 1 .. obj.epoch :
          Verdict(obj, e) # NoBind =>
            /\ [Verdict(obj', e) EXCEPT !.fid = NoProc] = [Verdict(obj, e) EXCEPT !.fid = NoProc]
            /\ Verdict(obj, e).fid # NoProc => Verdict(obj', e).fid = Verdict(obj, e).fid ]_obj

(* The Task Root implements the abstract authority: the retry loops, lost  *)
(* replies, legacy migrations and facet writes of task_root.py come down   *)
(* to granting, deciding, ending and discarding one claim at a time.       *)
VerdictOf(b) == [exec |-> b.exec, epoch |-> b.epoch, hash |-> b.hash]

Cast(d) ==
  LET past == [i \in DOMAIN d.history |-> VerdictOf(d.history[i].bind)]
  IN  IF Bound(d) THEN Append(past, VerdictOf(d.bind)) ELSE past

Authority == INSTANCE TaskAuthority WITH
  Token    <- Proc \cup {NoProc},
  NoHolder <- [exec |-> NoExec, token |-> NoProc],
  Verdicts <- [exec : Exec, epoch : 0 .. MaxGen, hash : Hash \cup {NoHash}],
  holder   <- [exec |-> obj.exec, token |-> obj.token],
  active   <- obj.active,
  decided  <- Bound(obj),
  verdicts <- Cast(obj)

ImplementsAuthority == Authority!Spec

(* Documented: "a superseded epoch's terminal facts ... are archived into  *)
(* epoch_history and never touched again" (task_root.py, module docstring).*)
ArchiveKept == [][Len(obj'.history) >= Len(obj.history)]_obj

(* Documented: "only once a real bind exists does this switch to a CAS     *)
(* update that marks authority inactive" (release_runtime_claim).          *)
AuthorityMarkedOffOnlyWhenBound ==
  [][obj.active /\ obj'.shape = "root" /\ ~obj'.active => Bound(obj')]_obj
=============================================================================

--------------------------- MODULE TaskRootProofs ---------------------------
(* Proofs about TaskRoot for every number of callers, executions, views,   *)
(* attempts and writes.                                                    *)
EXTENDS TaskRoot, TLAPS

CallerVars == <<at, tries, snap, arg>>

LEMMA NoDocType == NoDoc \in DocType /\ NoArg \in ArgType /\ NoBind \in BindType
  BY DEF NoDoc, NoArg, NoBind, FreshMat, FreshView, MatStatus, DocType, ArgType, BindType, ArchiveType

(* What a caller's own bookkeeping can do in any step. *)
CallerTyped ==
  /\ at' \in [Proc -> At]
  /\ tries' \in [Proc -> Nat]
  /\ snap' \in [Proc -> DocType]
  /\ arg' \in [Proc -> ArgType]

LEMMA ReturnTyped ==
  ASSUME TypeOK, NEW p \in Proc, Return(p)
  PROVE  CallerTyped
  BY NoDocType DEF TypeOK, Return, CallerTyped, At

LEMMA AgainTyped ==
  ASSUME TypeOK, NEW p \in Proc, NEW r \in At, Again(p, r)
  PROVE  CallerTyped
  BY NoDocType DEF TypeOK, Again, Return, CallerTyped, At

LEMMA PlanTyped ==
  ASSUME TypeOK, NEW p \in Proc, NEW w \in At, NEW a \in ArgType, Plan(p, a, w)
  PROVE  CallerTyped
  BY DEF TypeOK, Plan, CallerTyped, At

LEMMA StampTyped ==
  ASSUME NEW d \in DocType, NEW g \in Nat
  PROVE  [d EXCEPT !.gen = g] \in DocType
  BY DEF DocType

LEMMA LandsTyped ==
  ASSUME TypeOK, NEW p \in Proc, NEW d \in DocType, Lands(p, d)
  PROVE  obj' \in DocType /\ nextGen' \in Nat \ {0}
<1>1. nextGen \in Nat /\ nextGen' = nextGen + 1 /\ obj' = [d EXCEPT !.gen = nextGen]
  BY DEF TypeOK, Lands
<1>2. nextGen' \in Nat \ {0}
  BY <1>1
<1>3. obj' \in DocType
  BY <1>1, StampTyped
<1>4. QED
  BY <1>2, <1>3

(* The documents the operations write have the type of a document. *)
LEMMA FreshTyped ==
  ASSUME NEW p \in Proc
  PROVE  FreshEpoch(p) \in DocType
<1>1. ExecOf[p] \in Exec
  BY NamesAssumption
<1>2. QED
  BY <1>1, NoDocType DEF FreshEpoch, DocType

LEMMA MigratedTyped ==
  ASSUME NEW d \in DocType, NEW proof \in Proofs
  PROVE  Migrated(d, proof) \in DocType
<1>1. [NoBind EXCEPT !.exec = d.exec] \in BindType
  BY NoDocType DEF DocType, BindType
<1>2. QED
  BY <1>1, NoDocType DEF Migrated, DocType

LEMMA ArchivedTyped ==
  ASSUME NEW d \in DocType
  PROVE  Archived(d) \in Seq(ArchiveType)
<1>1. [epoch |-> d.epoch, exec |-> d.exec, bind |-> d.bind, cleanup |-> d.cleanup] \in ArchiveType
  BY DEF DocType, ArchiveType
<1>2. d.history \in Seq(ArchiveType)
  BY DEF DocType
<1>3. QED
  BY <1>1, <1>2 DEF Archived

LEMMA ReownedTyped ==
  ASSUME NEW p \in Proc, NEW d \in DocType
  PROVE  Reowned(p, d) \in DocType
<1>1. ExecOf[p] \in Exec
  BY NamesAssumption
<1>2. FreshMat \in [View -> [status : MatStatus, retries : Nat]]
  BY DEF FreshMat, FreshView, MatStatus
<1>3. [d EXCEPT !.exec = ExecOf[p], !.token = p, !.active = TRUE] \in DocType
  BY <1>1 DEF DocType
<1>4. d.epoch + 1 \in Nat
  BY DEF DocType
<1>5. QED
  BY <1>2, <1>3, <1>4, ArchivedTyped, NoDocType DEF Reowned, DocType

LEMMA BoundTyped ==
  ASSUME NEW p \in Proc, NEW d \in DocType, TypeOK
  PROVE  [d EXCEPT !.bind = BindOf(p, d)] \in DocType
<1>1. ExecOf[p] \in Exec
  BY NamesAssumption
<1>2. BindOf(p, d) \in BindType
  BY <1>1 DEF BindOf, BindType, TypeOK, ArgType, DocType
<1>3. QED
  BY <1>2 DEF DocType

LEMMA FilledTyped ==
  ASSUME NEW p \in Proc, NEW d \in DocType
  PROVE  [d EXCEPT !.bind.fid = p] \in DocType
<1>1. [d.bind EXCEPT !.fid = p] \in BindType
  BY DEF DocType, BindType
<1>2. QED
  BY <1>1 DEF DocType

LEMMA EndedTyped ==
  ASSUME NEW d \in DocType
  PROVE  Ended(d) \in DocType
  BY DEF Ended, DocType

LEMMA FacetTyped ==
  ASSUME NEW d \in DocType, NEW v, NEW s
  PROVE  /\ s \in MatStatus => Advanced(d, v, s) \in DocType
         /\ v \in View => FailureRecorded(d, v) \in DocType
         /\ s \in {"retained", "release_pending", "released"} => [d EXCEPT !.cleanup = s] \in DocType
<1>1. d.mat \in [View -> [status : MatStatus, retries : Nat]]
  BY DEF DocType
<1>2. ASSUME s \in MatStatus
      PROVE  Advanced(d, v, s) \in DocType
  <2>1. [d.mat EXCEPT ![v] = [status |-> s, retries |-> 0]] \in [View -> [status : MatStatus, retries : Nat]]
    BY <1>1, <1>2
  <2>2. QED
    BY <2>1 DEF Advanced, DocType
<1>3. ASSUME v \in View
      PROVE  FailureRecorded(d, v) \in DocType
  <2>1. d.mat[v].retries + 1 \in Nat
    BY <1>1, <1>3
  <2>2. [d.mat EXCEPT ![v] = [status |-> IF d.mat[v].retries + 1 >= Threshold THEN "attention" ELSE "pending",
                             retries |-> d.mat[v].retries + 1]]
          \in [View -> [status : MatStatus, retries : Nat]]
    BY <1>1, <2>1 DEF MatStatus
  <2>3. QED
    BY <2>2 DEF FailureRecorded, DocType
<1>4. ASSUME s \in {"retained", "release_pending", "released"}
      PROVE  [d EXCEPT !.cleanup = s] \in DocType
  BY <1>4 DEF DocType
<1>5. QED
  BY <1>2, <1>3, <1>4

-----------------------------------------------------------------------------
(* Type correctness. *)

Typing == TypeOK /\ ArgsFit

LEMMA ReturnFits ==
  ASSUME ArgsFit, NEW p \in Proc, Return(p), TypeOK
  PROVE  ArgsFit'
  BY DEF ArgsFit, Return, TypeOK

LEMMA AgainFits ==
  ASSUME Typing, NEW p \in Proc, NEW r \in At, Again(p, r),
         r = "advance_read" => at[p] \in {"advance_read", "advance_write"},
         r = "cleanup_read" => at[p] \in {"cleanup_read", "cleanup_write"},
         r = "failure_read" => at[p] \in {"failure_read", "failure_write"},
         r \notin {"advance_write", "cleanup_write", "failure_write"}
  PROVE  ArgsFit'
<1>1. CASE tries[p] + 1 < MaxTries
  BY <1>1 DEF Typing, ArgsFit, Again, TypeOK
<1>2. CASE ~(tries[p] + 1 < MaxTries)
  BY <1>2, ReturnFits DEF Again, Typing
<1>3. QED
  BY <1>1, <1>2

LEMMA PlanFits ==
  ASSUME Typing, NEW p \in Proc, NEW w \in At, NEW a \in ArgType, Plan(p, a, w),
         w \in {"advance_read", "advance_write"} => a.status \in MatStatus,
         w \in {"cleanup_read", "cleanup_write"} => a.status \in FacetGoals,
         w \in {"advance_read", "advance_write", "failure_read", "failure_write"} => a.view \in View
  PROVE  ArgsFit'
  BY DEF Typing, ArgsFit, Plan, TypeOK

LEMMA WriteTyped ==
  ASSUME Typing, NEW p \in Proc, NEW d \in DocType, NEW r \in At, Write(p, d, r),
         r = "advance_read" => at[p] \in {"advance_read", "advance_write"},
         r = "cleanup_read" => at[p] \in {"cleanup_read", "cleanup_write"},
         r = "failure_read" => at[p] \in {"failure_read", "failure_write"},
         r \notin {"advance_write", "cleanup_write", "failure_write"},
         UNCHANGED <<gen, live>>
  PROVE  Typing'
<1>1. gen' \in [Proc -> Nat] /\ live' \in SUBSET Proc
  BY DEF Typing, TypeOK
<1>2. obj' \in DocType /\ nextGen' \in Nat \ {0}
  BY LandsTyped DEF Write, Refused, Typing, TypeOK
<1>3. CallerTyped
  BY ReturnTyped, AgainTyped DEF Write, Typing
<1>4. ArgsFit'
  BY ReturnFits, AgainFits DEF Write, Typing
<1>5. QED
  BY <1>1, <1>2, <1>3, <1>4 DEF Typing, TypeOK, CallerTyped

LEMMA ArgSets ==
  /\ NoArg \in ArgType
  /\ CommitArgs \subseteq ArgType
  /\ \A S : S \subseteq {"pending", "verified", "attention", "none"} => FacetArgs(S) \subseteq ArgType
  /\ CleanupArgs \subseteq ArgType
<1>1. NoArg \in ArgType
  BY NoDocType
<1>2. CommitArgs \subseteq ArgType
  BY InputsAssumption DEF CommitArgs, ArgType
<1>3. ASSUME NEW S, S \subseteq {"pending", "verified", "attention", "none"}
      PROVE  FacetArgs(S) \subseteq ArgType
  BY <1>3 DEF FacetArgs, ArgType
<1>4. CleanupArgs \subseteq ArgType
  BY InputsAssumption DEF CleanupArgs, ArgType
<1>5. QED
  BY <1>1, <1>2, <1>3, <1>4

(* A read changes the caller only. *)
LEMMA ReadTyped ==
  ASSUME Typing, NEW p \in Proc, NEW w \in At, NEW a \in ArgType,
         Return(p) \/ Plan(p, a, w),
         w \in {"advance_read", "advance_write"} => a.status \in MatStatus,
         w \in {"cleanup_read", "cleanup_write"} => a.status \in FacetGoals,
         w \in {"advance_read", "advance_write", "failure_read", "failure_write"} => a.view \in View,
         UNCHANGED <<obj, nextGen>>,
         gen' \in [Proc -> Nat] /\ live' \in SUBSET Proc
  PROVE  Typing'
<1>1. CallerTyped
  BY ReturnTyped, PlanTyped DEF Typing
<1>2. ArgsFit'
  BY ReturnFits, PlanFits DEF Typing
<1>3. QED
  BY <1>1, <1>2 DEF Typing, TypeOK, CallerTyped

LEMMA AcquireTyped ==
  ASSUME Typing, NEW p \in Proc, Acquire(p)
  PROVE  Typing'
<1>1. snap[p] \in DocType /\ obj \in DocType /\ nextGen \in Nat /\ obj.gen \in Nat
  BY DEF Typing, TypeOK, DocType
<1>2. \A g \in Nat : Grant(p, g) => gen' \in [Proc -> Nat] /\ live' \in SUBSET Proc
  BY DEF Grant, Typing, TypeOK
<1>3. UNCHANGED <<gen, live>> => gen' \in [Proc -> Nat] /\ live' \in SUBSET Proc
  BY DEF Typing, TypeOK
<1>4. Return(p) \/ Again(p, "acquire_read") => CallerTyped /\ ArgsFit'
  BY ReturnTyped, AgainTyped, ReturnFits, AgainFits DEF Typing, At
<1>5. UNCHANGED obj /\ UNCHANGED nextGen => obj' \in DocType /\ nextGen' \in Nat \ {0}
  BY DEF Typing, TypeOK
<1>6. CASE AcquireRead(p)
  <2>1. PICK a \in Calls(p, "acquire_read", {NoArg}) :
          /\ UNCHANGED <<obj, nextGen>>
          /\ \/ Grant(p, obj.gen) /\ Return(p)
             \/ Return(p) /\ UNCHANGED <<gen, live>>
             \/ Plan(p, a, "acquire_write") /\ UNCHANGED <<gen, live>>
    BY <1>6 DEF AcquireRead
  <2>2. a \in ArgType
    BY <2>1, ArgSets DEF Calls, Typing, TypeOK
  <2>3. gen' \in [Proc -> Nat] /\ live' \in SUBSET Proc
    BY <2>1, <1>1, <1>2, <1>3
  <2>4. QED
    BY <2>1, <2>2, <2>3, ReadTyped DEF At
<1>7. CASE AcquireCreate(p)
  <2>1. obj' \in DocType /\ nextGen' \in Nat \ {0}
    BY <1>7, <1>5, FreshTyped, LandsTyped DEF AcquireCreate, Typing
  <2>2. gen' \in [Proc -> Nat] /\ live' \in SUBSET Proc
    BY <1>7, <1>1, <1>2, <1>3 DEF AcquireCreate
  <2>3. CallerTyped /\ ArgsFit'
    BY <1>7, <1>4 DEF AcquireCreate
  <2>4. QED
    BY <2>1, <2>2, <2>3 DEF Typing, TypeOK, CallerTyped
<1>8. CASE AcquireMigrate(p)
  <2>1. obj' \in DocType /\ nextGen' \in Nat \ {0}
    BY <1>8, <1>1, <1>5, MigratedTyped, LandsTyped DEF AcquireMigrate, Refused, Typing
  <2>2. gen' \in [Proc -> Nat] /\ live' \in SUBSET Proc
    BY <1>8, <1>3 DEF AcquireMigrate
  <2>3. CallerTyped /\ ArgsFit'
    BY <1>8, <1>4 DEF AcquireMigrate
  <2>4. QED
    BY <2>1, <2>2, <2>3 DEF Typing, TypeOK, CallerTyped
<1>9. CASE AcquireOpen(p)
  <2>1. Reowned(p, snap[p]) \in DocType
    BY <1>1, ReownedTyped
  <2>2. CASE Lands(p, Reowned(p, snap[p])) /\ Grant(p, nextGen) /\ Return(p)
    <3>1. obj' \in DocType /\ nextGen' \in Nat \ {0}
      BY <2>1, <2>2, LandsTyped DEF Typing
    <3>2. QED
      BY <2>2, <3>1, <1>1, <1>2, <1>4 DEF Typing, TypeOK, CallerTyped
  <2>3. CASE Write(p, Reowned(p, snap[p]), "acquire_read") /\ UNCHANGED <<gen, live>>
    BY <2>1, <2>3, WriteTyped DEF At
  <2>4. QED
    BY <1>9, <2>2, <2>3 DEF AcquireOpen
<1>10. QED
  BY <1>6, <1>7, <1>8, <1>9 DEF Acquire

LEMMA CommitTyped ==
  ASSUME Typing, NEW p \in Proc, Commit(p)
  PROVE  Typing'
<1>1. snap[p] \in DocType /\ gen \in [Proc -> Nat] /\ live \in SUBSET Proc
  BY DEF Typing, TypeOK
<1>2. Migrated(snap[p], "none") \in DocType
  BY <1>1, MigratedTyped DEF Proofs
<1>3. CASE CommitRead(p)
  <2>1. PICK a \in Calls(p, "commit_read", CommitArgs) :
          UNCHANGED <<obj, nextGen, gen, live>> /\ (Return(p) \/ Plan(p, a, "commit_write"))
    BY <1>3 DEF CommitRead
  <2>2. a \in ArgType
    BY <2>1, ArgSets DEF Calls, Typing, TypeOK
  <2>3. QED
    BY <1>1, <2>1, <2>2, ReadTyped DEF At
<1>4. CASE CommitMigrate(p)
  <2>1. CASE Lands(p, Migrated(snap[p], "none")) /\ Again(p, "commit_read")
    <3>1. obj' \in DocType /\ nextGen' \in Nat \ {0}
      BY <1>2, <2>1, LandsTyped DEF Typing
    <3>2. CallerTyped /\ ArgsFit'
      BY <2>1, AgainTyped, AgainFits DEF Typing, At
    <3>3. QED
      BY <1>1, <1>4, <3>1, <3>2 DEF CommitMigrate, Typing, TypeOK, CallerTyped
  <2>2. CASE Write(p, Migrated(snap[p], "none"), "commit_read")
    BY <1>2, <1>4, <2>2, WriteTyped DEF CommitMigrate, At
  <2>3. QED
    BY <1>4, <2>1, <2>2 DEF CommitMigrate
<1>5. CASE CommitBind(p)
  <2>1. [snap[p] EXCEPT !.bind = BindOf(p, snap[p])] \in DocType
    BY <1>1, BoundTyped DEF Typing
  <2>2. QED
    BY <1>5, <2>1, WriteTyped DEF CommitBind, At
<1>6. CASE CommitFill(p)
  BY <1>1, <1>6, FilledTyped, WriteTyped DEF CommitFill, At
<1>7. QED
  BY <1>3, <1>4, <1>5, <1>6 DEF Commit

LEMMA MaterializeTyped ==
  ASSUME Typing, NEW p \in Proc, Materialize(p)
  PROVE  Typing'
<1>1. snap[p] \in DocType /\ gen \in [Proc -> Nat] /\ live \in SUBSET Proc
  BY DEF Typing, TypeOK
<1>2. CASE AdvanceRead(p)
  <2>1. PICK a \in Calls(p, "advance_read", FacetArgs({"pending", "verified", "attention"})) :
          /\ UNCHANGED <<obj, nextGen, gen, live>>
          /\ \/ a.status \in MatTransitions(obj.mat[a.view].status) /\ Plan(p, a, "advance_write")
             \/ Return(p)
    BY <1>2 DEF AdvanceRead
  <2>2. a \in ArgType
    BY <2>1, ArgSets DEF Calls, Typing, TypeOK
  <2>3. /\ a.status \in MatTransitions(obj.mat[a.view].status) => a.status \in MatStatus
        /\ a.view \in View
    BY <2>1 DEF Calls, FacetArgs, MatStatus, Typing, ArgsFit
  <2>4. QED
    BY <1>1, <2>1, <2>2, <2>3, ReadTyped DEF At
<1>3. CASE AdvanceWrite(p)
  <2>1. arg[p].status \in MatStatus
    BY <1>3 DEF AdvanceWrite, Typing, ArgsFit
  <2>2. QED
    BY <1>1, <1>3, <2>1, FacetTyped, WriteTyped DEF AdvanceWrite, At
<1>4. CASE FailureRead(p)
  <2>1. PICK a \in Calls(p, "failure_read", FacetArgs({"none"})) :
          UNCHANGED <<obj, nextGen, gen, live>> /\ (Return(p) \/ Plan(p, a, "failure_write"))
    BY <1>4 DEF FailureRead
  <2>2. a \in ArgType /\ a.view \in View
    BY <2>1, ArgSets DEF Calls, FacetArgs, Typing, TypeOK, ArgsFit
  <2>3. QED
    BY <1>1, <2>1, <2>2, ReadTyped DEF At
<1>5. CASE FailureWrite(p)
  <2>1. FailureRecorded(snap[p], arg[p].view) \in DocType
    BY <1>1, <1>5, FacetTyped DEF FailureWrite, Typing, ArgsFit
  <2>2. QED
    BY <1>5, <2>1, WriteTyped DEF FailureWrite, At
<1>6. QED
  BY <1>2, <1>3, <1>4, <1>5 DEF Materialize

LEMMA CleanupTyped ==
  ASSUME Typing, NEW p \in Proc, Cleanup(p)
  PROVE  Typing'
<1>1. snap[p] \in DocType /\ gen \in [Proc -> Nat] /\ live \in SUBSET Proc
  BY DEF Typing, TypeOK
<1>2. CASE CleanupRead(p)
  <2>1. PICK a \in Calls(p, "cleanup_read", CleanupArgs) :
          UNCHANGED <<obj, nextGen, gen, live>> /\ (Return(p) \/ Plan(p, a, "cleanup_write"))
    BY <1>2 DEF CleanupRead
  <2>2. a \in ArgType /\ a.status \in FacetGoals
    BY <2>1, ArgSets DEF Calls, CleanupArgs, Typing, TypeOK, ArgsFit
  <2>3. QED
    BY <1>1, <2>1, <2>2, ReadTyped DEF At
<1>3. CASE CleanupWrite(p)
  <2>1. arg[p].status \in {"retained", "release_pending", "released"}
    BY <1>3, InputsAssumption DEF CleanupWrite, Typing, ArgsFit
  <2>2. QED
    BY <1>1, <1>3, <2>1, FacetTyped, WriteTyped DEF CleanupWrite, At
<1>4. QED
  BY <1>2, <1>3 DEF Cleanup

LEMMA ReleaseTyped ==
  ASSUME Typing, NEW p \in Proc, Release(p)
  PROVE  Typing'
<1>1. snap[p] \in DocType /\ obj \in DocType /\ obj.gen \in Nat
      /\ gen \in [Proc -> Nat] /\ live \in SUBSET Proc /\ nextGen \in Nat \ {0}
  BY DEF Typing, TypeOK, DocType
<1>2. Return(p) \/ Again(p, "release_read") => CallerTyped /\ ArgsFit'
  BY ReturnTyped, AgainTyped, ReturnFits, AgainFits DEF Typing, At
<1>3. live' \in SUBSET Proc \/ ~(UNCHANGED live \/ EndAuthority(ExecOf[p]))
  BY <1>1 DEF EndAuthority
<1>4. CASE Inspect(p)
  BY <1>1, <1>4 DEF Inspect, Typing, TypeOK, ArgsFit
<1>5. CASE ReleaseRead(p)
  <2>1. UNCHANGED <<obj, nextGen, gen, live>>
    BY <1>5 DEF ReleaseRead
  <2>2. Return(p) \/ Plan(p, NoArg, "mark_write") \/ Plan(p, NoArg, "delete_write")
    BY <1>5 DEF ReleaseRead
  <2>3. QED
    BY <1>1, <2>1, <2>2, NoDocType, ReadTyped DEF At
<1>6. CASE ReleaseDelete(p)
  <2>1. obj' \in DocType /\ nextGen' \in Nat \ {0} /\ gen' \in [Proc -> Nat] /\ live' \in SUBSET Proc
    BY <1>1, <1>3, <1>6, NoDocType DEF ReleaseDelete, Removed
  <2>2. QED
    BY <1>2, <1>6, <2>1 DEF ReleaseDelete, Typing, TypeOK, CallerTyped
<1>7. CASE ReleaseMark(p)
  <2>1. gen' \in [Proc -> Nat] /\ live' \in SUBSET Proc
    BY <1>1, <1>3, <1>7 DEF ReleaseMark
  <2>2. obj' \in DocType /\ nextGen' \in Nat \ {0}
    BY <1>1, <1>7, EndedTyped, LandsTyped DEF ReleaseMark, Refused, Typing
  <2>3. QED
    BY <1>2, <1>7, <2>1, <2>2 DEF ReleaseMark, Typing, TypeOK, CallerTyped
<1>8. QED
  BY <1>4, <1>5, <1>6, <1>7 DEF Release

LEMMA InitTyped == Init => Typing
<1>1. \A e \in Exec : LegacyDoc(e) \in DocType
  BY NoDocType DEF LegacyDoc, DocType
<1>2. QED
  BY <1>1, NoDocType DEF Init, Typing, TypeOK, ArgsFit, At

LEMMA StepTyped == Typing /\ [Next]_vars => Typing'
<1>1. ASSUME Typing, UNCHANGED vars
      PROVE  Typing'
  BY <1>1 DEF Typing, TypeOK, ArgsFit, vars
<1>2. ASSUME Typing, Next
      PROVE  Typing'
  BY <1>2, AcquireTyped, CommitTyped, MaterializeTyped, CleanupTyped, ReleaseTyped DEF Next
<1>3. QED
  BY <1>1, <1>2

(* Every variable keeps its type, for every instance of the constants.     *)
THEOREM TypeCorrect == Spec => []TypeOK
<1>1. Typing => TypeOK
  BY DEF Typing
<1>2. QED
  BY <1>1, InitTyped, StepTyped, PTL DEF Spec

-----------------------------------------------------------------------------
(* Exclusive authority.                                                    *)
(*                                                                         *)
(* A conditional write lands only if the object still is the one the       *)
(* caller read (GenerationsIdentify); what a caller about to open an epoch *)
(* has read has no active owner (PlansFit); so when the epoch opens nobody *)
(* is live, because a live caller is the active owner (LiveOwns).          *)

ReadPhases == {"acquire_read", "commit_read", "advance_read", "failure_read", "cleanup_read", "release_read"}

(* A caller that returns or reads again forgets what it read. *)
Forgets(p) ==
  /\ \E x \in ReadPhases \cup {"idle"} : at' = [at EXCEPT ![p] = x]
  /\ snap' = [snap EXCEPT ![p] = NoDoc]

LEMMA ReturnForgets ==
  ASSUME NEW p \in Proc, Return(p)
  PROVE  Forgets(p)
  BY DEF Return, Forgets

LEMMA AgainForgets ==
  ASSUME NEW p \in Proc, NEW r \in ReadPhases, Again(p, r)
  PROVE  Forgets(p)
  BY ReturnForgets DEF Again, Forgets

LEMMA ForgetsPlansFit ==
  ASSUME TypeOK, PlansFit, NEW p \in Proc, Forgets(p)
  PROVE  PlansFit'
  BY DEF TypeOK, PlansFit, Forgets, ReadPhases

LEMMA NoDocFacts == NoDoc.gen = 0 /\ NoDoc.shape = "none" /\ NoDoc.exec = NoExec /\ ~NoDoc.active
  BY DEF NoDoc

LEMMA KeptIdentify ==
  ASSUME TypeOK, GenerationsIdentify, NEW p \in Proc, UNCHANGED <<obj, nextGen>>,
         \/ Forgets(p)
         \/ snap' = [snap EXCEPT ![p] = obj]
         \/ UNCHANGED snap
  PROVE  GenerationsIdentify'
<1>1. nextGen \in Nat \ {0} /\ obj.gen \in Nat
  BY DEF TypeOK, DocType
<1>2. ASSUME NEW q \in Proc
      PROVE  snap'[q] = snap[q] \/ snap'[q] = NoDoc \/ snap'[q] = obj
  BY DEF TypeOK, Forgets
<1>3. QED
  BY <1>1, <1>2, NoDocFacts DEF GenerationsIdentify

LEMMA LandedIdentify ==
  ASSUME TypeOK, GenerationsIdentify, NEW p \in Proc, NEW d \in DocType,
         Lands(p, d), d.shape # "none", Forgets(p)
  PROVE  GenerationsIdentify'
<1>1. nextGen \in Nat \ {0} /\ nextGen' = nextGen + 1
  BY DEF TypeOK, Lands
<1>2. obj'.gen = nextGen /\ obj'.shape # "none"
  BY DEF Lands, DocType
<1>3. ASSUME NEW q \in Proc
      PROVE  snap'[q] = snap[q] \/ snap'[q] = NoDoc
  BY DEF TypeOK, Forgets
<1>4. \A q \in Proc : snap[q].gen \in Nat
  BY DEF TypeOK, DocType
<1>5. QED
  BY <1>1, <1>2, <1>3, <1>4, NoDocFacts DEF GenerationsIdentify

LEMMA RemovedIdentify ==
  ASSUME TypeOK, GenerationsIdentify, NEW p \in Proc, Removed(p), Forgets(p)
  PROVE  GenerationsIdentify'
<1>1. nextGen \in Nat \ {0} /\ nextGen' = nextGen /\ obj' = NoDoc
  BY DEF TypeOK, Removed
<1>2. ASSUME NEW q \in Proc
      PROVE  snap'[q] = snap[q] \/ snap'[q] = NoDoc
  BY DEF TypeOK, Forgets
<1>3. QED
  BY <1>1, <1>2, NoDocFacts DEF GenerationsIdentify

(* What lands was derived from the object itself. *)
LEMMA LandsOnRead ==
  ASSUME GenerationsIdentify, NEW p \in Proc, NEW d, Lands(p, d)
  PROVE  snap[p] = obj
  BY DEF GenerationsIdentify, Lands

(* Authority survives a write that keeps the active owner. *)
KeepsOwner(d, s) ==
  s.shape = "root" /\ s.active =>
    d.shape = "root" /\ d.active /\ d.exec = s.exec /\ d.token = s.token

LEMMA LandedOwner ==
  ASSUME AuthorityInv, NEW p \in Proc, NEW d \in DocType, Lands(p, d),
         KeepsOwner(d, snap[p]), UNCHANGED live
  PROVE  LiveOwns'
<1>1. snap[p] = obj
  BY LandsOnRead DEF AuthorityInv
<1>2. obj'.shape = d.shape /\ obj'.active = d.active /\ obj'.exec = d.exec /\ obj'.token = d.token
  BY DEF Lands, DocType
<1>3. QED
  BY <1>1, <1>2 DEF AuthorityInv, LiveOwns, KeepsOwner, Owns

LEMMA WriteKeepsAuthority ==
  ASSUME AuthorityInv, NEW p \in Proc, NEW d \in DocType, NEW r \in ReadPhases, Write(p, d, r),
         d.shape # "none", KeepsOwner(d, snap[p]), UNCHANGED live
  PROVE  GenerationsIdentify' /\ PlansFit' /\ LiveOwns'
<1>1. Forgets(p)
  BY ReturnForgets, AgainForgets DEF Write
<1>2. PlansFit'
  BY <1>1, ForgetsPlansFit DEF AuthorityInv
<1>3. CASE Lands(p, d)
  BY <1>1, <1>2, <1>3, LandedIdentify, LandedOwner DEF AuthorityInv
<1>4. CASE UNCHANGED <<obj, nextGen>>
  <2>1. GenerationsIdentify'
    BY <1>1, <1>4, KeptIdentify DEF AuthorityInv
  <2>2. LiveOwns'
    BY <1>4 DEF AuthorityInv, LiveOwns, Owns
  <2>3. QED
    BY <1>2, <2>1, <2>2
<1>5. QED
  BY <1>3, <1>4 DEF Write, Refused

(* A read that plans a write remembers the object as it is. *)
LEMMA PlanKeepsAuthority ==
  ASSUME AuthorityInv, NEW p \in Proc, NEW a, NEW w \in At, Plan(p, a, w),
         UNCHANGED <<obj, nextGen, live>>,
         w = "acquire_write" /\ obj.shape = "root" => ~obj.active,
         w \in {"advance_write", "failure_write", "cleanup_write"} => obj.shape = "root",
         w \in {"commit_write", "advance_write", "failure_write", "cleanup_write",
                "delete_write", "mark_write"} => obj.shape # "none" /\ obj.exec = ExecOf[p]
  PROVE  GenerationsIdentify' /\ PlansFit' /\ LiveOwns'
<1>1. GenerationsIdentify'
  BY KeptIdentify DEF AuthorityInv, Plan
<1>2. PlansFit'
  BY DEF AuthorityInv, TypeOK, PlansFit, Plan
<1>3. LiveOwns'
  BY DEF AuthorityInv, LiveOwns, Owns
<1>4. QED
  BY <1>1, <1>2, <1>3

LEMMA ReturnKeepsAuthority ==
  ASSUME AuthorityInv, NEW p \in Proc, Return(p), UNCHANGED <<obj, nextGen, live>>
  PROVE  GenerationsIdentify' /\ PlansFit' /\ LiveOwns'
<1>1. Forgets(p)
  BY ReturnForgets
<1>2. GenerationsIdentify' /\ PlansFit'
  BY <1>1, KeptIdentify, ForgetsPlansFit DEF AuthorityInv
<1>3. LiveOwns'
  BY DEF AuthorityInv, LiveOwns, Owns
<1>4. QED
  BY <1>2, <1>3

LEMMA FreshFacts ==
  ASSUME NEW p \in Proc
  PROVE  FreshEpoch(p).shape = "root" /\ FreshEpoch(p).active /\ Owns(p, FreshEpoch(p))
  BY DEF FreshEpoch, Owns, NoDoc

LEMMA ReownedFacts ==
  ASSUME NEW p \in Proc, NEW d \in DocType
  PROVE  Reowned(p, d).shape = d.shape /\ Reowned(p, d).active /\ Owns(p, Reowned(p, d))
  BY DEF Reowned, Owns, DocType

LEMMA MigratedFacts ==
  ASSUME NEW d \in DocType, NEW proof
  PROVE  Migrated(d, proof).shape = "root"
  BY DEF Migrated, DocType

LEMMA AcquireKeepsAuthority ==
  ASSUME AuthorityInv, NEW p \in Proc, Acquire(p)
  PROVE  GenerationsIdentify' /\ PlansFit' /\ LiveOwns'
<1>1. TypeOK /\ snap[p] \in DocType /\ obj \in DocType
  BY DEF AuthorityInv, TypeOK
<1>2. Return(p) \/ Again(p, "acquire_read") => Forgets(p)
  BY ReturnForgets, AgainForgets DEF ReadPhases
<1>3. ASSUME snap[p] = obj, obj.shape = "root" => ~obj.active
      PROVE  live = {}
  BY <1>3 DEF AuthorityInv, LiveOwns
<1>4. CASE AcquireRead(p)
  <2>1. PICK a \in Calls(p, "acquire_read", {NoArg}) :
          /\ UNCHANGED <<obj, nextGen>>
          /\ \/ /\ obj.shape = "root" /\ obj.active /\ Owns(p, obj)
                /\ Grant(p, obj.gen) /\ Return(p)
             \/ Return(p) /\ UNCHANGED live
             \/ /\ obj.shape = "root" => ~obj.active
                /\ Plan(p, a, "acquire_write") /\ UNCHANGED live
    BY <1>4 DEF AcquireRead
  <2>2. CASE obj.shape = "root" /\ obj.active /\ Owns(p, obj) /\ Grant(p, obj.gen) /\ Return(p)
    <3>1. GenerationsIdentify' /\ PlansFit'
      BY <1>1, <1>2, <2>1, <2>2, KeptIdentify, ForgetsPlansFit DEF AuthorityInv
    <3>2. LiveOwns'
      BY <2>1, <2>2 DEF AuthorityInv, LiveOwns, Grant, Owns
    <3>3. QED
      BY <3>1, <3>2
  <2>3. QED
    BY <2>1, <2>2, ReturnKeepsAuthority, PlanKeepsAuthority DEF At
<1>5. CASE AcquireCreate(p)
  <2>1. FreshEpoch(p) \in DocType /\ FreshEpoch(p).shape = "root"
    BY FreshTyped, FreshFacts
  <2>2. Forgets(p)
    BY <1>2, <1>5 DEF AcquireCreate
  <2>3. PlansFit'
    BY <1>1, <2>2, ForgetsPlansFit DEF AuthorityInv
  <2>4. CASE Lands(p, FreshEpoch(p))
    <3>1. GenerationsIdentify'
      BY <1>1, <2>1, <2>2, <2>4, LandedIdentify DEF AuthorityInv
    <3>2. live = {}
      BY <1>3, <1>5, <2>4, LandsOnRead DEF AcquireCreate, AuthorityInv
    <3>3. live' \in {{}, {p}}
      BY <1>5, <3>2 DEF AcquireCreate, Grant
    <3>4. obj'.shape = "root" /\ obj'.active /\ Owns(p, obj')
      BY <2>1, <2>4, FreshFacts DEF Lands, DocType, Owns
    <3>5. QED
      BY <2>3, <3>1, <3>3, <3>4 DEF LiveOwns, Owns
  <2>5. CASE UNCHANGED <<obj, nextGen, gen, live>>
    <3>1. GenerationsIdentify'
      BY <1>1, <2>2, <2>5, KeptIdentify DEF AuthorityInv
    <3>2. LiveOwns'
      BY <2>5 DEF AuthorityInv, LiveOwns, Owns
    <3>3. QED
      BY <2>3, <3>1, <3>2
  <2>6. QED
    BY <1>5, <2>4, <2>5 DEF AcquireCreate
<1>6. CASE AcquireMigrate(p)
  <2>1. Forgets(p)
    BY <1>2, <1>6 DEF AcquireMigrate
  <2>2. PlansFit'
    BY <1>1, <2>1, ForgetsPlansFit DEF AuthorityInv
  <2>3. CASE \E proof \in Proofs : Lands(p, Migrated(snap[p], proof))
    <3>1. PICK proof \in Proofs : Lands(p, Migrated(snap[p], proof))
      BY <2>3
    <3>2. GenerationsIdentify'
      BY <1>1, <2>1, <3>1, MigratedTyped, MigratedFacts, LandedIdentify DEF AuthorityInv
    <3>3. live = {} /\ live' = live
      BY <1>3, <1>6, <3>1, LandsOnRead DEF AcquireMigrate, AuthorityInv
    <3>4. QED
      BY <2>2, <3>2, <3>3 DEF LiveOwns
  <2>4. CASE UNCHANGED <<obj, nextGen>>
    <3>1. GenerationsIdentify'
      BY <1>1, <2>1, <2>4, KeptIdentify DEF AuthorityInv
    <3>2. LiveOwns'
      BY <1>6, <2>4 DEF AcquireMigrate, AuthorityInv, LiveOwns, Owns
    <3>3. QED
      BY <2>2, <3>1, <3>2
  <2>5. QED
    BY <1>6, <2>3, <2>4 DEF AcquireMigrate, Refused
<1>7. CASE AcquireOpen(p)
  <2>1. Reowned(p, snap[p]) \in DocType /\ Reowned(p, snap[p]).shape = "root"
    BY <1>1, <1>7, ReownedTyped, ReownedFacts DEF AcquireOpen
  <2>2. ~snap[p].active
    BY <1>7 DEF AcquireOpen, AuthorityInv, PlansFit
  <2>3. CASE Lands(p, Reowned(p, snap[p])) /\ Grant(p, nextGen) /\ Return(p)
    <3>1. GenerationsIdentify' /\ PlansFit'
      BY <1>1, <1>2, <2>1, <2>3, LandedIdentify, ForgetsPlansFit DEF AuthorityInv
    <3>2. live' = {p}
      BY <1>3, <2>2, <2>3, LandsOnRead DEF AuthorityInv, Grant
    <3>3. obj'.shape = "root" /\ obj'.active /\ Owns(p, obj')
      BY <1>1, <2>1, <2>3, ReownedFacts DEF Lands, DocType, Owns
    <3>4. QED
      BY <3>1, <3>2, <3>3 DEF LiveOwns, Owns
  <2>4. CASE Write(p, Reowned(p, snap[p]), "acquire_read") /\ UNCHANGED <<gen, live>>
    BY <2>1, <2>2, <2>4, WriteKeepsAuthority DEF KeepsOwner, ReadPhases
  <2>5. QED
    BY <1>7, <2>3, <2>4 DEF AcquireOpen
<1>8. QED
  BY <1>4, <1>5, <1>6, <1>7 DEF Acquire

LEMMA CommitKeepsAuthority ==
  ASSUME AuthorityInv, NEW p \in Proc, Commit(p)
  PROVE  GenerationsIdentify' /\ PlansFit' /\ LiveOwns'
<1>1. TypeOK /\ snap[p] \in DocType /\ obj \in DocType
  BY DEF AuthorityInv, TypeOK
<1>2. CASE CommitRead(p)
  <2>1. PICK a \in Calls(p, "commit_read", CommitArgs) :
          /\ UNCHANGED <<obj, nextGen, gen, live>>
          /\ \/ Return(p)
             \/ obj.shape # "none" /\ obj.exec = ExecOf[p] /\ Plan(p, a, "commit_write")
    BY <1>2 DEF CommitRead, CommitSettled
  <2>2. QED
    BY <2>1, ReturnKeepsAuthority, PlanKeepsAuthority DEF At
<1>3. CASE CommitMigrate(p)
  <2>1. Migrated(snap[p], "none") \in DocType /\ Migrated(snap[p], "none").shape = "root"
    BY <1>1, MigratedTyped, MigratedFacts DEF Proofs
  <2>2. KeepsOwner(Migrated(snap[p], "none"), snap[p])
    BY <1>3 DEF CommitMigrate, KeepsOwner
  <2>3. CASE Lands(p, Migrated(snap[p], "none")) /\ Again(p, "commit_read")
    <3>1. Forgets(p)
      BY <2>3, AgainForgets DEF ReadPhases
    <3>2. GenerationsIdentify' /\ PlansFit'
      BY <1>1, <2>1, <2>3, <3>1, LandedIdentify, ForgetsPlansFit DEF AuthorityInv
    <3>3. LiveOwns'
      BY <1>3, <2>1, <2>2, <2>3, LandedOwner DEF CommitMigrate
    <3>4. QED
      BY <3>2, <3>3
  <2>4. CASE Write(p, Migrated(snap[p], "none"), "commit_read")
    BY <1>3, <2>1, <2>2, <2>4, WriteKeepsAuthority DEF CommitMigrate, ReadPhases
  <2>5. QED
    BY <1>3, <2>3, <2>4 DEF CommitMigrate
<1>4. CASE CommitBind(p)
  <2>1. [snap[p] EXCEPT !.bind = BindOf(p, snap[p])] \in DocType
    BY <1>1, BoundTyped
  <2>2. [snap[p] EXCEPT !.bind = BindOf(p, snap[p])].shape = "root"
        /\ KeepsOwner([snap[p] EXCEPT !.bind = BindOf(p, snap[p])], snap[p])
    BY <1>1, <1>4 DEF CommitBind, KeepsOwner, DocType
  <2>3. QED
    BY <1>4, <2>1, <2>2, WriteKeepsAuthority DEF CommitBind, ReadPhases
<1>5. CASE CommitFill(p)
  <2>1. [snap[p] EXCEPT !.bind.fid = p] \in DocType
    BY <1>1, FilledTyped
  <2>2. [snap[p] EXCEPT !.bind.fid = p].shape = "root"
        /\ KeepsOwner([snap[p] EXCEPT !.bind.fid = p], snap[p])
    BY <1>1, <1>5 DEF CommitFill, KeepsOwner, DocType
  <2>3. QED
    BY <1>5, <2>1, <2>2, WriteKeepsAuthority DEF CommitFill, ReadPhases
<1>6. QED
  BY <1>2, <1>3, <1>4, <1>5 DEF Commit

(* Facet writes leave the owner alone. *)
LEMMA FacetFacts ==
  ASSUME NEW d \in DocType, NEW v, NEW s
  PROVE  /\ KeepsOwner(Advanced(d, v, s), d) /\ Advanced(d, v, s).shape = d.shape
         /\ KeepsOwner(FailureRecorded(d, v), d) /\ FailureRecorded(d, v).shape = d.shape
         /\ KeepsOwner([d EXCEPT !.cleanup = s], d) /\ [d EXCEPT !.cleanup = s].shape = d.shape
  BY DEF KeepsOwner, Advanced, FailureRecorded, DocType

LEMMA MaterializeKeepsAuthority ==
  ASSUME AuthorityInv, NEW p \in Proc, Materialize(p)
  PROVE  GenerationsIdentify' /\ PlansFit' /\ LiveOwns'
<1>1. snap[p] \in DocType /\ obj \in DocType
  BY DEF AuthorityInv, TypeOK
<1>2. ASSUME NEW a, NEW w \in {"advance_write", "failure_write"}, UNCHANGED <<obj, nextGen, gen, live>>,
             Return(p) \/ (FacetOwner(p) /\ Plan(p, a, w))
      PROVE  GenerationsIdentify' /\ PlansFit' /\ LiveOwns'
  <2>1. CASE Return(p)
    BY <1>2, <2>1, ReturnKeepsAuthority
  <2>2. CASE FacetOwner(p) /\ Plan(p, a, w)
    <3>1. w \in At /\ w # "acquire_write" /\ obj.shape = "root" /\ obj.shape # "none"
          /\ obj.exec = ExecOf[p]
      BY <2>2 DEF At, FacetOwner
    <3>2. QED
      BY <1>2, <2>2, <3>1, PlanKeepsAuthority
  <2>3. QED
    BY <1>2, <2>1, <2>2
<1>3. CASE AdvanceRead(p)
  BY <1>2, <1>3 DEF AdvanceRead
<1>4. CASE FailureRead(p)
  BY <1>2, <1>4 DEF FailureRead
<1>5. CASE AdvanceWrite(p)
  <2>1. snap[p].shape = "root" /\ arg[p].status \in MatStatus
    BY <1>5 DEF AdvanceWrite, AuthorityInv, PlansFit, ArgsFit
  <2>2. QED
    BY <1>1, <1>5, <2>1, FacetTyped, FacetFacts, WriteKeepsAuthority DEF AdvanceWrite, ReadPhases
<1>6. CASE FailureWrite(p)
  <2>1. snap[p].shape = "root" /\ arg[p].view \in View
    BY <1>6 DEF FailureWrite, AuthorityInv, PlansFit, ArgsFit
  <2>2. QED
    BY <1>1, <1>6, <2>1, FacetTyped, FacetFacts, WriteKeepsAuthority DEF FailureWrite, ReadPhases
<1>7. QED
  BY <1>3, <1>4, <1>5, <1>6 DEF Materialize

LEMMA CleanupKeepsAuthority ==
  ASSUME AuthorityInv, NEW p \in Proc, Cleanup(p)
  PROVE  GenerationsIdentify' /\ PlansFit' /\ LiveOwns'
<1>1. snap[p] \in DocType /\ obj \in DocType
  BY DEF AuthorityInv, TypeOK
<1>2. CASE CleanupRead(p)
  <2>1. PICK a \in Calls(p, "cleanup_read", CleanupArgs) :
          /\ UNCHANGED <<obj, nextGen, gen, live>>
          /\ Return(p) \/ (FacetOwner(p) /\ Plan(p, a, "cleanup_write"))
    BY <1>2 DEF CleanupRead
  <2>2. QED
    BY <2>1, ReturnKeepsAuthority, PlanKeepsAuthority DEF At, FacetOwner
<1>3. CASE CleanupWrite(p)
  <2>1. snap[p].shape = "root" /\ arg[p].status \in {"retained", "release_pending", "released"}
    BY <1>3, InputsAssumption DEF CleanupWrite, AuthorityInv, PlansFit, ArgsFit
  <2>2. QED
    BY <1>1, <1>3, <2>1, FacetTyped, FacetFacts, WriteKeepsAuthority DEF CleanupWrite, ReadPhases
<1>4. QED
  BY <1>2, <1>3 DEF Cleanup

LEMMA ReleaseKeepsAuthority ==
  ASSUME AuthorityInv, NEW p \in Proc, Release(p)
  PROVE  GenerationsIdentify' /\ PlansFit' /\ LiveOwns'
<1>1. TypeOK /\ snap[p] \in DocType /\ obj \in DocType /\ ExecOf[p] \in Exec
  BY NamesAssumption DEF AuthorityInv, TypeOK
<1>2. Return(p) \/ Again(p, "release_read") => Forgets(p)
  BY ReturnForgets, AgainForgets DEF ReadPhases
<1>3. CASE Inspect(p)
  BY <1>1, <1>3 DEF Inspect, AuthorityInv, GenerationsIdentify, PlansFit, LiveOwns, Owns
<1>4. CASE ReleaseRead(p)
  <2>1. UNCHANGED <<obj, nextGen, gen, live>>
    BY <1>4 DEF ReleaseRead
  <2>2. \/ Return(p)
        \/ /\ obj.shape # "none" /\ obj.exec = ExecOf[p]
           /\ Plan(p, NoArg, "mark_write") \/ Plan(p, NoArg, "delete_write")
    BY <1>4 DEF ReleaseRead, Foreign
  <2>3. CASE Return(p)
    BY <2>1, <2>3, ReturnKeepsAuthority
  <2>4. ASSUME obj.shape # "none", obj.exec = ExecOf[p],
               NEW w \in {"mark_write", "delete_write"}, Plan(p, NoArg, w)
        PROVE  GenerationsIdentify' /\ PlansFit' /\ LiveOwns'
    <3>1. w \in At /\ w \notin {"acquire_write", "advance_write", "failure_write", "cleanup_write"}
      BY <2>4 DEF At
    <3>2. QED
      BY <2>1, <2>4, <3>1, PlanKeepsAuthority
  <2>5. QED
    BY <2>2, <2>3, <2>4
<1>5. ASSUME snap[p] = obj, snap[p].exec = ExecOf[p], EndAuthority(ExecOf[p])
      PROVE  live' = {}
  BY <1>5 DEF AuthorityInv, LiveOwns, Owns, EndAuthority
<1>6. CASE ReleaseDelete(p)
  <2>1. Forgets(p)
    BY <1>2, <1>6 DEF ReleaseDelete
  <2>2. PlansFit'
    BY <1>1, <2>1, ForgetsPlansFit DEF AuthorityInv
  <2>3. CASE Removed(p) /\ EndAuthority(ExecOf[p])
    <3>1. GenerationsIdentify'
      BY <1>1, <2>1, <2>3, RemovedIdentify DEF AuthorityInv
    <3>2. snap[p] = obj
      BY <2>3 DEF Removed, AuthorityInv, GenerationsIdentify
    <3>3. snap[p].exec = ExecOf[p]
      BY <1>6 DEF ReleaseDelete, AuthorityInv, PlansFit
    <3>4. QED
      BY <1>5, <2>2, <2>3, <3>1, <3>2, <3>3 DEF LiveOwns
  <2>4. CASE UNCHANGED <<obj, nextGen, live>>
    BY <1>6, <2>4, ReturnKeepsAuthority DEF ReleaseDelete
  <2>5. QED
    BY <1>6, <2>3, <2>4 DEF ReleaseDelete
<1>7. CASE ReleaseMark(p)
  <2>1. Forgets(p)
    BY <1>2, <1>7 DEF ReleaseMark
  <2>2. PlansFit'
    BY <1>1, <2>1, ForgetsPlansFit DEF AuthorityInv
  <2>3. snap[p].exec = ExecOf[p] /\ snap[p].shape # "none"
    BY <1>7 DEF ReleaseMark, AuthorityInv, PlansFit
  <2>4. CASE Lands(p, Ended(snap[p])) /\ EndAuthority(ExecOf[p])
    <3>1. Ended(snap[p]).shape # "none"
      BY <1>1, <2>3 DEF Ended, DocType
    <3>2. GenerationsIdentify'
      BY <1>1, <2>1, <2>4, <3>1, EndedTyped, LandedIdentify DEF AuthorityInv
    <3>3. QED
      BY <1>5, <2>2, <2>3, <2>4, <3>2, LandsOnRead DEF AuthorityInv, LiveOwns
  <2>5. CASE UNCHANGED <<obj, nextGen, live>>
    <3>1. GenerationsIdentify'
      BY <1>1, <2>1, <2>5, KeptIdentify DEF AuthorityInv
    <3>2. LiveOwns'
      BY <2>5 DEF AuthorityInv, LiveOwns, Owns
    <3>3. QED
      BY <2>2, <3>1, <3>2
  <2>6. QED
    BY <1>7, <2>4, <2>5 DEF ReleaseMark, Refused
<1>8. QED
  BY <1>3, <1>4, <1>6, <1>7 DEF Release

LEMMA InitAuthority == Init => AuthorityInv
<1> SUFFICES ASSUME Init
             PROVE  AuthorityInv
  OBVIOUS
<1>1. TypeOK /\ ArgsFit
  BY InitTyped DEF Typing
<1>2. \A e \in Exec : LegacyDoc(e).gen = 1 /\ LegacyDoc(e).shape = "legacy"
  BY DEF LegacyDoc, NoDoc
<1>3. GenerationsIdentify
  BY <1>2, NoDocFacts DEF Init, GenerationsIdentify
<1>4. PlansFit /\ LiveOwns
  BY DEF Init, PlansFit, LiveOwns
<1>5. QED
  BY <1>1, <1>3, <1>4 DEF AuthorityInv

LEMMA StepAuthority == AuthorityInv /\ [Next]_vars => AuthorityInv'
<1> SUFFICES ASSUME AuthorityInv, [Next]_vars
             PROVE  AuthorityInv'
  OBVIOUS
<1>1. TypeOK' /\ ArgsFit'
  BY StepTyped DEF AuthorityInv, Typing
<1>2. CASE UNCHANGED vars
  BY <1>1, <1>2 DEF vars, AuthorityInv, GenerationsIdentify, PlansFit, LiveOwns, Owns
<1>3. CASE Next
  <2>1. GenerationsIdentify' /\ PlansFit' /\ LiveOwns'
    BY <1>3, AcquireKeepsAuthority, CommitKeepsAuthority, MaterializeKeepsAuthority,
       CleanupKeepsAuthority, ReleaseKeepsAuthority DEF Next
  <2>2. QED
    BY <1>1, <2>1 DEF AuthorityInv
<1>4. QED
  BY <1>2, <1>3

(* The strengthened invariant the run TaskRootClaims checks. *)
THEOREM AuthorityInvariant == Spec => []AuthorityInv
  BY InitAuthority, StepAuthority, PTL DEF Spec

(* No two callers ever hold unended running authority on one task.         *)
THEOREM AuthorityIsExclusive == Spec => []ExclusiveAuthority
<1>1. AuthorityInv => ExclusiveAuthority
  BY DEF AuthorityInv, LiveOwns, Owns, ExclusiveAuthority
<1>2. QED
  BY <1>1, AuthorityInvariant, PTL

-----------------------------------------------------------------------------
(* What becomes of the document: its archive, its failure budget, its       *)
(* verdicts, and that it implements TaskAuthority.                          *)

(* What a write that lands makes of a document, but for its generation. *)
Bind(e, n, h, f) == [exec |-> e, epoch |-> n, hash |-> h, fid |-> f]

Opens(d, e) ==
  \/ d.shape = "none" /\ \E p \in Proc : e = FreshEpoch(p)
  \/ d.shape = "legacy" /\ \E proof \in Proofs : e = Migrated(d, proof)
  \/ /\ d.shape = "root" /\ ~d.active /\ (Bound(d) => d.cleanup = "released")
     /\ \E p \in Proc : e = Reowned(p, d)

Binds(d, e) ==
  \/ /\ d.shape = "root" /\ ~Bound(d)
     /\ \E h \in Hash \cup {NoHash}, f \in Proc \cup {NoProc} :
          e = [d EXCEPT !.bind = Bind(d.exec, d.epoch, h, f)]
  \/ /\ d.shape = "root" /\ Bound(d) /\ d.bind.fid = NoProc
     /\ \E p \in Proc : e = [d EXCEPT !.bind.fid = p]

Facets(d, e) ==
  \/ /\ d.shape = "root"
     /\ \/ \E v \in View : \E s \in MatTransitions(d.mat[v].status) : e = Advanced(d, v, s)
        \/ \E v \in View : e = FailureRecorded(d, v)
        \/ \E s \in FacetGoals : e = [d EXCEPT !.cleanup = s]
  \/ d.shape # "none" /\ e = Ended(d)

Becomes(d, e) == Opens(d, e) \/ Binds(d, e) \/ Facets(d, e)

(* What a step does to the document. *)
Written ==
  /\ nextGen <= MaxGen
  /\ \E e \in DocType : Becomes(obj, e) /\ obj' = [e EXCEPT !.gen = nextGen]

DocStep == obj' = obj \/ (obj' = NoDoc /\ ~Bound(obj)) \/ Written

-----------------------------------------------------------------------------
(* Every step is such a step, and keeps what the plans rely on. *)

LEMMA LandsWritten ==
  ASSUME AuthorityInv, NEW p \in Proc, NEW d \in DocType, Lands(p, d), Becomes(snap[p], d)
  PROVE  Written
  BY LandsOnRead DEF AuthorityInv, Lands, Written

LEMMA WriteSteps ==
  ASSUME AuthorityInv, NEW p \in Proc, NEW d \in DocType, NEW r, Write(p, d, r), Becomes(snap[p], d)
  PROVE  DocStep
  BY LandsWritten DEF Write, Refused, DocStep

(* A caller that returns or reads again has no plan; the others keep theirs. *)
LEMMA ForgottenPlans ==
  ASSUME TypeOK, PlansSound, NEW p \in Proc, NEW r \in ReadPhases, Return(p) \/ Again(p, r)
  PROVE  PlansSound'
<1>1. at' \in [Proc -> At] /\ snap' \in [Proc -> DocType] /\ arg' \in [Proc -> ArgType]
  BY ReturnTyped, AgainTyped DEF CallerTyped, ReadPhases, At
<1>2. at'[p] \in ReadPhases \cup {"idle"}
  BY DEF Return, Again, TypeOK
<1>3. ASSUME NEW q \in Proc, q # p
      PROVE  at'[q] = at[q] /\ snap'[q] = snap[q] /\ arg'[q] = arg[q]
  BY <1>3 DEF Return, Again, TypeOK
<1>4. QED
  BY <1>2, <1>3 DEF PlansSound, Blocked, Owns, Bound, ReadPhases

LEMMA NewPlan ==
  ASSUME TypeOK, PlansSound, NEW p \in Proc, NEW a, NEW w \in At, Plan(p, a, w),
         w = "acquire_write" => ~Blocked(p, obj),
         w = "commit_write" /\ obj.shape = "root" /\ Bound(obj) => obj.bind.fid = NoProc,
         w = "advance_write" => a.status \in MatTransitions(obj.mat[a.view].status),
         w = "delete_write" => ~Bound(obj)
  PROVE  PlansSound'
<1>1. at'[p] = w /\ snap'[p] = obj /\ arg'[p] = a
  BY DEF Plan, TypeOK
<1>2. ASSUME NEW q \in Proc, q # p
      PROVE  at'[q] = at[q] /\ snap'[q] = snap[q] /\ arg'[q] = arg[q]
  BY <1>2 DEF Plan, TypeOK
<1>3. QED
  BY <1>1, <1>2 DEF PlansSound, Blocked, Owns, Bound

LEMMA KeptPlans ==
  ASSUME PlansSound, UNCHANGED <<at, snap, arg>>
  PROVE  PlansSound'
  BY DEF PlansSound, Blocked, Owns, Bound

LEMMA AcquireSteps ==
  ASSUME AuthorityInv, PlansSound, NEW p \in Proc, Acquire(p)
  PROVE  DocStep /\ PlansSound'
<1>1. TypeOK /\ snap[p] \in DocType /\ obj \in DocType /\ "acquire_read" \in ReadPhases
  BY DEF AuthorityInv, TypeOK, ReadPhases
<1>2. Return(p) \/ Again(p, "acquire_read") => PlansSound'
  BY <1>1, ForgottenPlans
<1>3. CASE AcquireRead(p)
  <2>1. PICK a \in Calls(p, "acquire_read", {NoArg}) :
          /\ UNCHANGED <<obj, nextGen>>
          /\ Return(p) \/ (~Blocked(p, obj) /\ Plan(p, a, "acquire_write"))
    BY <1>3 DEF AcquireRead, Blocked
  <2>2. CASE Return(p)
    BY <1>2, <2>1, <2>2 DEF DocStep
  <2>3. CASE ~Blocked(p, obj) /\ Plan(p, a, "acquire_write")
    BY <1>1, <2>1, <2>3, NewPlan DEF DocStep, At
  <2>4. QED
    BY <2>1, <2>2, <2>3
<1>4. CASE AcquireCreate(p)
  <2>1. FreshEpoch(p) \in DocType /\ Becomes(snap[p], FreshEpoch(p))
    BY <1>4, FreshTyped DEF AcquireCreate, Becomes, Opens
  <2>2. QED
    BY <1>2, <1>4, <2>1, LandsWritten DEF AcquireCreate, DocStep
<1>5. CASE AcquireMigrate(p)
  <2>1. ASSUME NEW proof \in Proofs
        PROVE  Migrated(snap[p], proof) \in DocType /\ Becomes(snap[p], Migrated(snap[p], proof))
    BY <1>1, <1>5, MigratedTyped DEF AcquireMigrate, Becomes, Opens
  <2>2. QED
    BY <1>2, <1>5, <2>1, LandsWritten DEF AcquireMigrate, Refused, DocStep
<1>6. CASE AcquireOpen(p)
  <2>1. ~snap[p].active /\ (Bound(snap[p]) => snap[p].cleanup = "released")
    BY <1>6 DEF AcquireOpen, AuthorityInv, PlansFit, PlansSound, Blocked
  <2>2. Reowned(p, snap[p]) \in DocType /\ Becomes(snap[p], Reowned(p, snap[p]))
    BY <1>1, <1>6, <2>1, ReownedTyped DEF AcquireOpen, Becomes, Opens
  <2>3. QED
    BY <1>2, <1>6, <2>2, LandsWritten, WriteSteps DEF AcquireOpen, Write, DocStep
<1>7. QED
  BY <1>3, <1>4, <1>5, <1>6 DEF Acquire

LEMMA CommitSteps ==
  ASSUME AuthorityInv, PlansSound, NEW p \in Proc, Commit(p)
  PROVE  DocStep /\ PlansSound'
<1>1. TypeOK /\ snap[p] \in DocType /\ obj \in DocType /\ "commit_read" \in ReadPhases
  BY DEF AuthorityInv, TypeOK, ReadPhases
<1>2. Return(p) \/ Again(p, "commit_read") => PlansSound'
  BY <1>1, ForgottenPlans
<1>3. CASE CommitRead(p)
  <2>1. PICK a \in Calls(p, "commit_read", CommitArgs) :
          /\ UNCHANGED <<obj, nextGen, gen, live>>
          /\ \/ Return(p)
             \/ (Bound(obj) => obj.shape # "root" \/ obj.bind.fid = NoProc) /\ Plan(p, a, "commit_write")
    BY <1>3 DEF CommitRead, CommitSettled
  <2>2. CASE Return(p)
    BY <1>2, <2>1, <2>2 DEF DocStep
  <2>3. CASE ~Return(p)
    BY <1>1, <2>1, <2>3, NewPlan DEF DocStep, At
  <2>4. QED
    BY <2>2, <2>3
<1>4. CASE CommitMigrate(p)
  <2>1. Migrated(snap[p], "none") \in DocType /\ Becomes(snap[p], Migrated(snap[p], "none"))
    BY <1>1, <1>4, MigratedTyped DEF CommitMigrate, Becomes, Opens, Proofs
  <2>2. QED
    BY <1>2, <1>4, <2>1, LandsWritten, WriteSteps DEF CommitMigrate, Write, DocStep
<1>5. CASE CommitBind(p)
  <2>1. [snap[p] EXCEPT !.bind = BindOf(p, snap[p])] \in DocType
    BY <1>1, BoundTyped
  <2>2. Becomes(snap[p], [snap[p] EXCEPT !.bind = BindOf(p, snap[p])])
    <3>1. snap[p].exec = ExecOf[p] /\ snap[p].shape = "root" /\ ~Bound(snap[p])
      BY <1>5 DEF CommitBind, AuthorityInv, PlansFit
    <3>2. arg[p].hash \in Hash \cup {NoHash}
      BY <1>1 DEF TypeOK, ArgType
    <3>3. BindOf(p, snap[p]) = Bind(snap[p].exec, snap[p].epoch, arg[p].hash, IF arg[p].offer THEN p ELSE NoProc)
      BY <3>1 DEF BindOf, Bind
    <3>4. QED
      BY <3>1, <3>2, <3>3 DEF Becomes, Binds
  <2>3. QED
    BY <1>2, <1>5, <2>1, <2>2, WriteSteps DEF CommitBind, Write
<1>6. CASE CommitFill(p)
  <2>1. [snap[p] EXCEPT !.bind.fid = p] \in DocType
    BY <1>1, FilledTyped
  <2>2. Becomes(snap[p], [snap[p] EXCEPT !.bind.fid = p])
    BY <1>6 DEF CommitFill, PlansSound, Becomes, Binds
  <2>3. QED
    BY <1>2, <1>6, <2>1, <2>2, WriteSteps DEF CommitFill, Write
<1>7. QED
  BY <1>3, <1>4, <1>5, <1>6 DEF Commit

LEMMA FacetSteps ==
  ASSUME AuthorityInv, PlansSound, NEW p \in Proc, Materialize(p) \/ Cleanup(p)
  PROVE  DocStep /\ PlansSound'
<1>1. TypeOK /\ snap[p] \in DocType /\ obj \in DocType
  BY DEF AuthorityInv, TypeOK
<1>2. ASSUME NEW r \in {"advance_read", "failure_read", "cleanup_read"}, Return(p) \/ Again(p, r)
      PROVE  PlansSound'
  BY <1>1, <1>2, ForgottenPlans DEF ReadPhases
<1>3. Return(p) => PlansSound'
  BY <1>2
<1>4. ASSUME NEW d \in DocType, NEW r \in {"advance_read", "failure_read", "cleanup_read"},
             Write(p, d, r), Facets(snap[p], d)
      PROVE  DocStep /\ PlansSound'
  BY <1>2, <1>4, WriteSteps DEF Becomes, Write
<1>5. CASE AdvanceRead(p)
  <2>1. PICK a \in Calls(p, "advance_read", FacetArgs({"pending", "verified", "attention"})) :
          /\ UNCHANGED <<obj, nextGen, gen, live>>
          /\ \/ Return(p)
             \/ a.status \in MatTransitions(obj.mat[a.view].status) /\ Plan(p, a, "advance_write")
    BY <1>5 DEF AdvanceRead
  <2>2. QED
    BY <1>1, <1>3, <2>1, NewPlan DEF DocStep, At
<1>6. CASE FailureRead(p)
  <2>1. PICK a \in Calls(p, "failure_read", FacetArgs({"none"})) :
          UNCHANGED <<obj, nextGen, gen, live>> /\ (Return(p) \/ Plan(p, a, "failure_write"))
    BY <1>6 DEF FailureRead
  <2>2. QED
    BY <1>1, <1>3, <2>1, NewPlan DEF DocStep, At
<1>7. CASE CleanupRead(p)
  <2>1. PICK a \in Calls(p, "cleanup_read", CleanupArgs) :
          UNCHANGED <<obj, nextGen, gen, live>> /\ (Return(p) \/ Plan(p, a, "cleanup_write"))
    BY <1>7 DEF CleanupRead
  <2>2. QED
    BY <1>1, <1>3, <2>1, NewPlan DEF DocStep, At
<1>8. CASE AdvanceWrite(p)
  <2>1. snap[p].shape = "root" /\ arg[p].status \in MatStatus
        /\ arg[p].status \in MatTransitions(snap[p].mat[arg[p].view].status)
    BY <1>8 DEF AdvanceWrite, AuthorityInv, PlansFit, ArgsFit, PlansSound
  <2>2. arg[p].view \in View
    BY <1>8 DEF AdvanceWrite, AuthorityInv, ArgsFit
  <2>3. QED
    BY <1>1, <1>4, <1>8, <2>1, <2>2, FacetTyped DEF AdvanceWrite, Facets
<1>9. CASE FailureWrite(p)
  <2>1. snap[p].shape = "root" /\ arg[p].view \in View
    BY <1>9 DEF FailureWrite, AuthorityInv, PlansFit, ArgsFit
  <2>2. QED
    BY <1>1, <1>4, <1>9, <2>1, FacetTyped DEF FailureWrite, Facets
<1>10. CASE CleanupWrite(p)
  <2>1. snap[p].shape = "root" /\ arg[p].status \in FacetGoals
    BY <1>10 DEF CleanupWrite, AuthorityInv, PlansFit, ArgsFit
  <2>2. arg[p].status \in {"retained", "release_pending", "released"}
    BY <2>1, InputsAssumption
  <2>3. QED
    BY <1>1, <1>4, <1>10, <2>1, <2>2, FacetTyped DEF CleanupWrite, Facets
<1>11. QED
  BY <1>5, <1>6, <1>7, <1>8, <1>9, <1>10 DEF Materialize, Cleanup

LEMMA ReleaseSteps ==
  ASSUME AuthorityInv, PlansSound, NEW p \in Proc, Release(p)
  PROVE  DocStep /\ PlansSound'
<1>1. TypeOK /\ snap[p] \in DocType /\ obj \in DocType /\ "release_read" \in ReadPhases
  BY DEF AuthorityInv, TypeOK, ReadPhases
<1>2. Return(p) \/ Again(p, "release_read") => PlansSound'
  BY <1>1, ForgottenPlans
<1>3. CASE Inspect(p)
  BY <1>3, KeptPlans DEF Inspect, DocStep
<1>4. CASE ReleaseRead(p)
  <2>1. UNCHANGED <<obj, nextGen, gen, live>>
    BY <1>4 DEF ReleaseRead
  <2>2. \/ Return(p) \/ Plan(p, NoArg, "mark_write")
        \/ ~Bound(obj) /\ Plan(p, NoArg, "delete_write")
    BY <1>4 DEF ReleaseRead
  <2>3. QED
    BY <1>1, <1>2, <2>1, <2>2, NewPlan DEF DocStep, At
<1>5. CASE ReleaseDelete(p)
  <2>1. Return(p) /\ (obj' = obj \/ Removed(p))
    BY <1>5 DEF ReleaseDelete
  <2>2. Removed(p) => snap[p] = obj /\ obj' = NoDoc
    BY DEF Removed, AuthorityInv, GenerationsIdentify
  <2>3. ~Bound(snap[p])
    BY <1>5 DEF ReleaseDelete, PlansSound
  <2>4. QED
    BY <1>2, <2>1, <2>2, <2>3 DEF DocStep
<1>6. CASE ReleaseMark(p)
  <2>1. snap[p].shape # "none"
    BY <1>6 DEF ReleaseMark, AuthorityInv, PlansFit
  <2>2. Ended(snap[p]) \in DocType /\ Becomes(snap[p], Ended(snap[p]))
    BY <1>1, <2>1, EndedTyped DEF Becomes, Facets
  <2>3. QED
    BY <1>2, <1>6, <2>2, LandsWritten DEF ReleaseMark, Refused, DocStep
<1>7. QED
  BY <1>3, <1>4, <1>5, <1>6 DEF Release

LEMMA Steps ==
  ASSUME AuthorityInv, PlansSound, [Next]_vars
  PROVE  DocStep /\ PlansSound'
<1>1. CASE UNCHANGED vars
  BY <1>1, KeptPlans DEF vars, DocStep
<1>2. CASE Next
  BY <1>2, AcquireSteps, CommitSteps, FacetSteps, ReleaseSteps DEF Next
<1>3. QED
  BY <1>1, <1>2

-----------------------------------------------------------------------------
(* The document stays whole, its archive in order, its budgets kept.       *)

DocInv == DocsWhole /\ HistoryComplete /\ MaterializationBudget

(* Reopening puts the verdict of the epoch that ends behind the archive.   *)
LEMMA ReownedKeeps ==
  ASSUME RootInv, NEW p \in Proc, NEW g \in Nat, obj.gen < g,
         obj.shape = "root", Bound(obj) => obj.cleanup = "released",
         obj' = [Reowned(p, obj) EXCEPT !.gen = g]
  PROVE  DocInv'
<1>1. obj \in DocType /\ ExecOf[p] \in Exec /\ DocsWhole /\ HistoryComplete /\ MaterializationBudget
  BY NamesAssumption DEF RootInv, AuthorityInv, TypeOK
<1>2. obj.epoch \in Nat /\ obj.gen \in Nat /\ obj.history \in Seq(ArchiveType)
  BY <1>1 DEF DocType
<1>3. CASE ~Bound(obj)
  <2>1. /\ obj'.shape = "root" /\ obj'.exec = ExecOf[p] /\ obj'.gen = g /\ obj'.epoch = obj.epoch
        /\ obj'.bind = NoBind /\ obj'.history = obj.history /\ obj'.mat = obj.mat
    BY <1>1, <1>3 DEF Reowned, Bound, DocType
  <2>2. QED
    BY <1>1, <1>2, <2>1 DEF DocInv, DocsWhole, HistoryComplete, MaterializationBudget, Bound
<1>4. CASE Bound(obj)
  <2>1. /\ obj'.shape = "root" /\ obj'.exec = ExecOf[p] /\ obj'.gen = g /\ obj'.epoch = obj.epoch + 1
        /\ obj'.bind = NoBind /\ obj'.history = Archived(obj) /\ obj'.mat = FreshMat
    BY <1>1, <1>4 DEF Reowned, DocType
  <2>2. DocsWhole' /\ MaterializationBudget'
    BY <1>1, <1>2, <2>1 DEF DocsWhole, MaterializationBudget, Bound, FreshMat, FreshView
  <2> DEFINE last == [epoch |-> obj.epoch, exec |-> obj.exec, bind |-> obj.bind, cleanup |-> obj.cleanup]
  <2>3. last \in ArchiveType /\ obj.epoch = Len(obj.history) + 1 /\ obj'.history = Append(obj.history, last)
    BY <1>1, <2>1 DEF Archived, HistoryComplete, DocType, ArchiveType
  <2>4. ASSUME NEW i \in DOMAIN obj'.history
        PROVE  LET h == obj'.history[i] IN
               /\ h.epoch = i /\ h.cleanup = "released"
               /\ h.bind # NoBind /\ h.bind.exec = h.exec
               /\ h.bind.epoch \in {0, i} /\ (h.bind.epoch = 0 => i = 1)
    <3>1. CASE i \in DOMAIN obj.history
      <4>1. obj'.history[i] = obj.history[i]
        BY <1>2, <2>3, <3>1
      <4>2. QED
        BY <1>1, <3>1, <4>1 DEF HistoryComplete
    <3>2. CASE i = obj.epoch
      <4>1. obj'.history[i] = last
        BY <1>2, <2>3, <3>2
      <4>2. QED
        BY <1>1, <1>4, <3>2, <4>1 DEF DocsWhole, Bound
    <3>3. QED
      BY <1>2, <2>3, <2>4, <3>1, <3>2
  <2>5. HistoryComplete'
    BY <1>2, <2>1, <2>3, <2>4 DEF HistoryComplete
  <2>6. QED
    BY <2>2, <2>5 DEF DocInv
<1>5. QED
  BY <1>3, <1>4

LEMMA OpensKeeps ==
  ASSUME RootInv, NEW e \in DocType, NEW g \in Nat, obj.gen < g, Opens(obj, e),
         obj' = [e EXCEPT !.gen = g]
  PROVE  DocInv'
<1>1. obj \in DocType /\ DocsWhole /\ HistoryComplete /\ MaterializationBudget
  BY DEF RootInv, AuthorityInv, TypeOK
<1>2. obj.gen \in Nat /\ g >= 1
  BY <1>1 DEF DocType
<1>3. ASSUME NEW p \in Proc, e = FreshEpoch(p)
      PROVE  DocInv'
  <2>1. /\ obj'.shape = "root" /\ obj'.exec = ExecOf[p] /\ obj'.gen = g /\ obj'.epoch = 1
        /\ obj'.bind = NoBind /\ obj'.history = <<>> /\ obj'.mat = FreshMat
    BY <1>3 DEF FreshEpoch, NoDoc
  <2>2. QED
    BY <1>2, <2>1, NamesAssumption DEF DocInv, DocsWhole, HistoryComplete, MaterializationBudget, Bound,
       FreshMat, FreshView
<1>4. ASSUME NEW proof \in Proofs, obj.shape = "legacy", e = Migrated(obj, proof)
      PROVE  DocInv'
  <2>1. /\ obj'.shape = "root" /\ obj'.exec = obj.exec /\ obj'.gen = g /\ obj'.epoch = 1
        /\ obj'.bind \in {NoBind, [NoBind EXCEPT !.exec = obj.exec]}
        /\ obj'.history = obj.history /\ obj'.mat = obj.mat
    BY <1>1, <1>4 DEF Migrated, DocType
  <2>2. obj.exec \in Exec /\ obj.history = <<>>
    BY <1>1, <1>4 DEF DocsWhole
  <2>3. [NoBind EXCEPT !.exec = obj.exec].exec = obj.exec /\ [NoBind EXCEPT !.exec = obj.exec].epoch = 0
    BY DEF NoBind
  <2>4. DocsWhole'
    BY <1>2, <2>1, <2>2, <2>3 DEF DocsWhole, Bound
  <2>5. HistoryComplete'
    BY <2>1, <2>2 DEF HistoryComplete
  <2>6. MaterializationBudget'
    BY <1>1, <2>1 DEF MaterializationBudget
  <2>7. QED
    BY <2>4, <2>5, <2>6 DEF DocInv
<1>5. QED
  BY <1>3, <1>4, ReownedKeeps DEF Opens

LEMMA BindsKeeps ==
  ASSUME RootInv, NEW e \in DocType, NEW g \in Nat, obj.gen < g, Binds(obj, e),
         obj' = [e EXCEPT !.gen = g]
  PROVE  DocInv'
<1>1. obj \in DocType /\ DocsWhole /\ HistoryComplete /\ MaterializationBudget
  BY DEF RootInv, AuthorityInv, TypeOK
<1>2. obj.epoch \in Nat /\ obj.gen \in Nat /\ obj.bind \in BindType /\ obj.exec \in Exec
  BY <1>1 DEF DocType, DocsWhole, Binds
<1>3. PICK b \in BindType : /\ e = [obj EXCEPT !.bind = b]
                            /\ b.exec = obj.exec
                            /\ b.epoch \in {0, obj.epoch} /\ (b.epoch = 0 => obj.epoch = 1)
  <2>1. ASSUME NEW h \in Hash \cup {NoHash}, NEW f \in Proc \cup {NoProc},
               e = [obj EXCEPT !.bind = Bind(obj.exec, obj.epoch, h, f)], obj.shape = "root"
        PROVE  \E b \in BindType : /\ e = [obj EXCEPT !.bind = b]
                                   /\ b.exec = obj.exec
                                   /\ b.epoch \in {0, obj.epoch} /\ (b.epoch = 0 => obj.epoch = 1)
    <3>1. Bind(obj.exec, obj.epoch, h, f) \in BindType
      BY <1>2 DEF Bind, BindType
    <3>2. obj.epoch # 0
      BY <1>1, <2>1 DEF HistoryComplete, DocType
    <3>3. QED
      BY <2>1, <3>1, <3>2 DEF Bind
  <2>2. ASSUME NEW p \in Proc, e = [obj EXCEPT !.bind.fid = p], Bound(obj)
        PROVE  \E b \in BindType : /\ e = [obj EXCEPT !.bind = b]
                                   /\ b.exec = obj.exec
                                   /\ b.epoch \in {0, obj.epoch} /\ (b.epoch = 0 => obj.epoch = 1)
    <3>1. [obj.bind EXCEPT !.fid = p] \in BindType /\ e = [obj EXCEPT !.bind = [obj.bind EXCEPT !.fid = p]]
      BY <1>2, <2>2 DEF BindType
    <3>2. QED
      BY <1>1, <1>2, <2>2, <3>1 DEF DocsWhole, BindType
  <2>3. QED
    BY <2>1, <2>2 DEF Binds
<1>4. /\ obj'.shape = obj.shape /\ obj'.exec = obj.exec /\ obj'.gen = g /\ obj'.epoch = obj.epoch
      /\ obj'.bind = b /\ obj'.history = obj.history /\ obj'.mat = obj.mat
  BY <1>1, <1>3 DEF DocType
<1>5. obj.shape = "root"
  BY DEF Binds
<1>6. QED
  BY <1>1, <1>2, <1>3, <1>4, <1>5 DEF DocInv, DocsWhole, HistoryComplete, MaterializationBudget, Bound

LEMMA FacetsKeeps ==
  ASSUME RootInv, NEW e \in DocType, NEW g \in Nat, obj.gen < g, Facets(obj, e),
         obj' = [e EXCEPT !.gen = g]
  PROVE  DocInv'
<1>1. obj \in DocType /\ DocsWhole /\ HistoryComplete /\ MaterializationBudget
  BY DEF RootInv, AuthorityInv, TypeOK
<1>2. obj.epoch \in Nat /\ obj.gen \in Nat /\ obj.mat \in [View -> [status : MatStatus, retries : Nat]]
  BY <1>1 DEF DocType
<1>3. /\ obj'.shape = obj.shape /\ obj'.exec = obj.exec /\ obj'.gen = g /\ obj'.epoch = obj.epoch
      /\ obj'.bind = obj.bind /\ obj'.history = obj.history /\ obj'.mat = e.mat
  BY <1>1 DEF DocType, Facets, Advanced, FailureRecorded, Ended
<1>4. DocsWhole' /\ HistoryComplete'
  BY <1>1, <1>2, <1>3 DEF DocsWhole, HistoryComplete, Bound
<1>5. MaterializationBudget'
  <2>1. ASSUME NEW v \in View, NEW s, e = Advanced(obj, v, s)
        PROVE  MaterializationBudget'
    <3>1. e.mat = [obj.mat EXCEPT ![v] = [status |-> s, retries |-> 0]]
      BY <1>1, <2>1 DEF Advanced, DocType
    <3>2. QED
      BY <1>1, <1>2, <1>3, <3>1, BoundsAssumption DEF MaterializationBudget
  <2>2. ASSUME NEW v \in View, e = FailureRecorded(obj, v)
        PROVE  MaterializationBudget'
    <3> DEFINE n == obj.mat[v].retries + 1
    <3>1. e.mat = [obj.mat EXCEPT ![v] = [status  |-> IF n >= Threshold THEN "attention" ELSE "pending",
                                           retries |-> n]]
      BY <1>1, <2>2 DEF FailureRecorded, DocType
    <3>2. n \in Nat /\ Threshold \in Nat
      BY <1>2, BoundsAssumption
    <3>3. QED
      BY <1>1, <1>2, <1>3, <3>1, <3>2 DEF MaterializationBudget
  <2>3. e.mat = obj.mat => MaterializationBudget'
    BY <1>1, <1>3 DEF MaterializationBudget
  <2>4. QED
    BY <1>1, <2>1, <2>2, <2>3 DEF Facets, Ended, DocType
<1>6. QED
  BY <1>4, <1>5 DEF DocInv

LEMMA InitDoc == Init => DocInv /\ PlansSound
<1> SUFFICES ASSUME Init
             PROVE  DocInv /\ PlansSound
  OBVIOUS
<1>1. PlansSound
  BY DEF Init, PlansSound
<1>2. ASSUME obj = NoDoc
      PROVE  DocInv
  BY <1>2 DEF NoDoc, FreshMat, FreshView, Bound, DocInv, DocsWhole, HistoryComplete, MaterializationBudget
<1>3. ASSUME NEW x \in Exec, obj = LegacyDoc(x)
      PROVE  DocInv
  BY <1>3 DEF LegacyDoc, NoDoc, FreshMat, FreshView, Bound, DocInv, DocsWhole, HistoryComplete,
     MaterializationBudget
<1>4. QED
  BY <1>1, <1>2, <1>3 DEF Init

LEMMA StepRoot == RootInv /\ [Next]_vars => RootInv'
<1> SUFFICES ASSUME RootInv, [Next]_vars
             PROVE  RootInv'
  OBVIOUS
<1>1. AuthorityInv' /\ DocStep /\ PlansSound'
  BY StepAuthority, Steps DEF RootInv
<1>2. CASE obj' = obj
  BY <1>1, <1>2 DEF RootInv, DocsWhole, HistoryComplete, MaterializationBudget, Bound
<1>3. CASE obj' = NoDoc
  BY <1>1, <1>3 DEF RootInv, NoDoc, FreshMat, FreshView, Bound, DocsWhole, HistoryComplete,
     MaterializationBudget
<1>4. CASE Written
  <2>1. PICK e \in DocType : Becomes(obj, e) /\ obj' = [e EXCEPT !.gen = nextGen]
    BY <1>4 DEF Written
  <2>2. nextGen \in Nat /\ obj.gen < nextGen
    BY DEF RootInv, AuthorityInv, TypeOK, GenerationsIdentify
  <2>3. DocInv'
    BY <2>1, <2>2, OpensKeeps, BindsKeeps, FacetsKeeps DEF Becomes
  <2>4. QED
    BY <1>1, <2>3 DEF RootInv, DocInv
<1>5. QED
  BY <1>1, <1>2, <1>3, <1>4 DEF DocStep

(* The inductive invariant of the document, which the run task_root_claims *)
(* checks: what one read and one conditional write of task_root.py keep.   *)
THEOREM RootInvariant == Spec => []RootInv
<1>1. Init => RootInv
  BY InitAuthority, InitDoc DEF RootInv, DocInv
<1>2. QED
  BY <1>1, StepRoot, PTL DEF Spec

(* Every epoch is archived, in order, with its own verdict and only after  *)
(* its cleanup, whichever callers acquire, bind and release, and migrate.  *)
THEOREM HistoryIsComplete == Spec => []HistoryComplete
<1>1. RootInv => HistoryComplete
  BY DEF RootInv
<1>2. QED
  BY <1>1, RootInvariant, PTL

(* No view is given up before its failures are used up, nor kept after.    *)
THEOREM BudgetIsKept == Spec => []MaterializationBudget
<1>1. RootInv => MaterializationBudget
  BY DEF RootInv
<1>2. QED
  BY <1>1, RootInvariant, PTL

-----------------------------------------------------------------------------
(* Verdicts are kept. *)

KeepsVerdicts ==
  obj.shape = "root" /\ obj'.shape = "root" =>
    \A e \in 1 .. obj.epoch :
      Verdict(obj, e) # NoBind =>
        /\ [Verdict(obj', e) EXCEPT !.fid = NoProc] = [Verdict(obj, e) EXCEPT !.fid = NoProc]
        /\ Verdict(obj, e).fid # NoProc => Verdict(obj', e).fid = Verdict(obj, e).fid

(* A write that leaves the archive and the verdict of the epoch alone.     *)
LEMMA SameVerdicts ==
  ASSUME obj'.history = obj.history, obj'.epoch = obj.epoch, obj'.bind = obj.bind
  PROVE  KeepsVerdicts
  BY DEF KeepsVerdicts, Verdict

LEMMA WriteKeepsVerdicts ==
  ASSUME RootInv, NEW d \in DocType, NEW g, Becomes(obj, d), obj' = [d EXCEPT !.gen = g],
         obj.shape = "root"
  PROVE  KeepsVerdicts
<1>1. obj \in DocType /\ HistoryComplete
  BY DEF RootInv, AuthorityInv, TypeOK
<1>2. obj.epoch = Len(obj.history) + 1 /\ obj.history \in Seq(ArchiveType) /\ obj.bind \in BindType
  BY <1>1 DEF HistoryComplete, DocType
<1>3. /\ obj'.history = d.history /\ obj'.epoch = d.epoch /\ obj'.bind = d.bind
  BY DEF DocType
<1>4. ASSUME NEW p \in Proc, d = Reowned(p, obj), Bound(obj)
      PROVE  KeepsVerdicts
  <2> DEFINE last == [epoch |-> obj.epoch, exec |-> obj.exec, bind |-> obj.bind, cleanup |-> obj.cleanup]
  <2>1. d.history = Append(obj.history, last) /\ last \in ArchiveType
    BY <1>1, <1>4 DEF Reowned, Archived, DocType, ArchiveType
  <2>2. ASSUME NEW e \in 1 .. obj.epoch
        PROVE  Verdict(obj', e) = Verdict(obj, e)
    BY <1>2, <1>3, <2>1, <2>2 DEF Verdict
  <2>3. QED
    BY <2>2 DEF KeepsVerdicts
<1>5. ASSUME NEW p \in Proc, d = Reowned(p, obj), ~Bound(obj)
      PROVE  KeepsVerdicts
  BY <1>1, <1>3, <1>5, SameVerdicts DEF Reowned, DocType
<1>6. ASSUME NEW b \in BindType, d = [obj EXCEPT !.bind = b],
             Bound(obj) => obj.bind.fid = NoProc /\ b = [obj.bind EXCEPT !.fid = b.fid]
      PROVE  KeepsVerdicts
  <2>1. obj'.history = obj.history /\ obj'.epoch = obj.epoch /\ obj'.bind = b
    BY <1>1, <1>3, <1>6 DEF DocType
  <2>2. ASSUME NEW e \in 1 .. obj.epoch, e # obj.epoch
        PROVE  Verdict(obj', e) = Verdict(obj, e)
    BY <1>2, <2>1, <2>2 DEF Verdict
  <2>3. Verdict(obj', obj.epoch) = b /\ Verdict(obj, obj.epoch) = obj.bind
    BY <1>2, <2>1 DEF Verdict
  <2>4. Bound(obj) => [b EXCEPT !.fid = NoProc] = [obj.bind EXCEPT !.fid = NoProc]
    BY <1>2, <1>6 DEF BindType
  <2>5. QED
    BY <1>6, <2>2, <2>3, <2>4 DEF KeepsVerdicts, Bound
<1>7. CASE Opens(obj, d)
  BY <1>4, <1>5, <1>7 DEF Opens
<1>8. CASE Binds(obj, d)
  <2>1. ASSUME NEW h \in Hash \cup {NoHash}, NEW f \in Proc \cup {NoProc}, ~Bound(obj),
               d = [obj EXCEPT !.bind = Bind(obj.exec, obj.epoch, h, f)]
        PROVE  KeepsVerdicts
    <3>1. Bind(obj.exec, obj.epoch, h, f) \in BindType
      BY <1>1 DEF Bind, BindType, DocType
    <3>2. QED
      BY <1>6, <2>1, <3>1
  <2>2. ASSUME NEW p \in Proc, obj.bind.fid = NoProc, d = [obj EXCEPT !.bind.fid = p]
        PROVE  KeepsVerdicts
    <3>1. /\ [obj.bind EXCEPT !.fid = p] \in BindType
          /\ [obj.bind EXCEPT !.fid = p].fid = p
          /\ d = [obj EXCEPT !.bind = [obj.bind EXCEPT !.fid = p]]
      BY <1>2, <2>2 DEF BindType
    <3>2. QED
      BY <1>6, <2>2, <3>1
  <2>3. QED
    BY <1>8, <2>1, <2>2 DEF Binds
<1>9. CASE Facets(obj, d)
  <2>1. d.history = obj.history /\ d.epoch = obj.epoch /\ d.bind = obj.bind
    BY <1>1, <1>9 DEF Facets, Advanced, FailureRecorded, Ended, DocType
  <2>2. QED
    BY <1>3, <2>1, SameVerdicts
<1>10. QED
  BY <1>7, <1>8, <1>9 DEF Becomes

(* A verdict once bound is neither lost nor changed while the object lives,*)
(* except for its missing Drive id, filled in once.                        *)
THEOREM VerdictsAreImmutable == Spec => VerdictImmutable
<1>1. RootInv /\ [Next]_vars => [KeepsVerdicts]_obj
  <2> SUFFICES ASSUME RootInv, [Next]_vars, obj' # obj, obj.shape = "root", obj'.shape = "root"
               PROVE  KeepsVerdicts
    BY DEF KeepsVerdicts
  <2>1. Written
    BY Steps DEF RootInv, DocStep, NoDoc
  <2>2. QED
    BY <2>1, WriteKeepsVerdicts DEF Written
<1>2. QED
  BY <1>1, RootInvariant, PTL DEF Spec, VerdictImmutable, KeepsVerdicts

-----------------------------------------------------------------------------
(* The Task Root implements the abstract authority, write by write.        *)

Mapped(d) == [holder |-> [exec |-> d.exec, token |-> d.token], active |-> d.active,
              decided |-> Bound(d), verdicts |-> Cast(d)]

(* What the abstract authority sees of a document. *)
LEMMA SeenAlike ==
  ASSUME NEW d, NEW e, e.exec = d.exec, e.token = d.token, e.active = d.active,
         Bound(e) = Bound(d), e.history = d.history,
         Bound(d) => VerdictOf(e.bind) = VerdictOf(d.bind)
  PROVE  Mapped(e) = Mapped(d)
  BY DEF Mapped, Cast

LEMMA CastUnbound ==
  ASSUME NEW d \in DocType, NEW e \in DocType, ~Bound(d), e.history = d.history
  PROVE  Cast(e) = IF Bound(e) THEN Append(Cast(d), VerdictOf(e.bind)) ELSE Cast(d)
  BY DEF Cast

LEMMA CastEmpty ==
  ASSUME NEW d, ~Bound(d), d.history = <<>>
  PROVE  Cast(d) = <<>>
  BY DEF Cast

(* Archiving the verdict of an epoch changes no verdict. *)
LEMMA CastArchived ==
  ASSUME NEW d \in DocType, NEW e \in DocType, Bound(d), ~Bound(e), e.history = Archived(d)
  PROVE  Cast(e) = Cast(d)
<1> DEFINE last == [epoch |-> d.epoch, exec |-> d.exec, bind |-> d.bind, cleanup |-> d.cleanup]
           VerdictType == {VerdictOf(b) : b \in BindType}
           past == [i \in DOMAIN d.history |-> VerdictOf(d.history[i].bind)]
           now == [i \in DOMAIN e.history |-> VerdictOf(e.history[i].bind)]
<1>1. d.history \in Seq(ArchiveType) /\ last \in ArchiveType /\ e.history = Append(d.history, last)
  BY DEF Archived, DocType, ArchiveType
<1>2. past \in Seq(VerdictType) /\ Len(past) = Len(d.history)
  <2>1. DOMAIN d.history = 1 .. Len(d.history) /\ Len(d.history) \in Nat
    BY <1>1
  <2>2. ASSUME NEW i \in DOMAIN d.history
        PROVE  d.history[i].bind \in BindType
    <3>1. d.history[i] \in ArchiveType
      BY <1>1, <2>1, <2>2
    <3>2. QED
      BY <3>1 DEF ArchiveType
  <2>3. past \in [1 .. Len(d.history) -> VerdictType]
    <3>1. \A i \in DOMAIN d.history : VerdictOf(d.history[i].bind) \in VerdictType
      BY <2>2
    <3> HIDE DEF VerdictType
    <3>2. QED
      BY <2>1, <3>1
  <2>4. QED
    BY <2>1, <2>3
<1>3. DOMAIN now = 1 .. Len(d.history) + 1
  BY <1>1
<1>4. VerdictOf(d.bind) \in VerdictType
  BY DEF DocType
<1>5. DOMAIN Append(past, VerdictOf(d.bind)) = 1 .. Len(d.history) + 1
  BY <1>2, <1>4
<1>6. ASSUME NEW i \in 1 .. Len(d.history) + 1
      PROVE  now[i] = Append(past, VerdictOf(d.bind))[i]
  <2>1. CASE i = Len(d.history) + 1
    BY <1>1, <1>2, <1>3, <1>4, <2>1
  <2>2. CASE i # Len(d.history) + 1
    BY <1>1, <1>2, <1>3, <1>4, <2>2
  <2>3. QED
    BY <2>1, <2>2
<1>7. now = Append(past, VerdictOf(d.bind))
  <2> DEFINE then == Append(past, VerdictOf(d.bind))
  <2>1. then \in Seq(VerdictType) /\ Len(then) = Len(d.history) + 1
    BY <1>2, <1>4
  <2>2. then = [i \in 1 .. Len(d.history) + 1 |-> then[i]]
    BY <2>1
  <2>3. now = [i \in 1 .. Len(d.history) + 1 |-> now[i]]
    BY <1>3
  <2>4. QED
    BY <1>6, <2>2, <2>3
<1>8. QED
  BY <1>7 DEF Cast

(* The abstract state is that of Mapped(obj), a step of it one between two. *)
AuthorityStep(d, e) ==
  \/ Mapped(e) = Mapped(d)
  \/ /\ ~d.active /\ e.active /\ e.exec \in Exec /\ e.token \in Proc \cup {NoProc}
     /\ ~Bound(e) /\ Cast(e) = Cast(d)
  \/ /\ d.exec \in Exec /\ e.exec = d.exec /\ e.token = d.token /\ ~Bound(d) /\ Bound(e)
     /\ e.active # d.active => d.active /\ ~e.active
     /\ Cast(e) = Append(Cast(d), VerdictOf(e.bind))
     /\ VerdictOf(e.bind) \in [exec : {d.exec}, epoch : 0 .. MaxGen, hash : Hash \cup {NoHash}]
  \/ /\ d.exec \in Exec /\ ~e.active /\ e.exec = d.exec /\ e.token = d.token /\ Bound(e) = Bound(d)
     /\ Cast(e) = Cast(d)
  \/ ~Bound(d) /\ e = NoDoc

LEMMA AuthorityStepAllowed ==
  ASSUME AuthorityStep(obj, obj'), obj.active \in BOOLEAN, obj'.active \in BOOLEAN
  PROVE  [Authority!Next]_(Authority!vars)
<1>1. Bound(obj)' = Bound(obj') /\ Cast(obj)' = Cast(obj')
  BY DEF Bound, Cast, VerdictOf
<1>2. obj.exec \in Exec => [exec |-> obj.exec, token |-> obj.token] # [exec |-> NoExec, token |-> NoProc]
  BY NamesAssumption
<1>3. CASE Mapped(obj') = Mapped(obj)
  BY <1>1, <1>3 DEF Mapped, Authority!vars
<1>4. CASE /\ ~obj.active /\ obj'.active /\ obj'.exec \in Exec /\ obj'.token \in Proc \cup {NoProc}
           /\ ~Bound(obj') /\ Cast(obj') = Cast(obj)
  <2>1. Authority!Claim
    BY <1>1, <1>4 DEF Authority!Claim, Authority!Holder
  <2>2. QED
    BY <2>1 DEF Authority!Next
<1>5. CASE /\ obj.exec \in Exec /\ obj'.exec = obj.exec /\ obj'.token = obj.token /\ ~Bound(obj) /\ Bound(obj')
           /\ obj'.active # obj.active => obj.active /\ ~obj'.active
           /\ Cast(obj') = Append(Cast(obj), VerdictOf(obj'.bind))
           /\ VerdictOf(obj'.bind) \in [exec : {obj.exec}, epoch : 0 .. MaxGen, hash : Hash \cup {NoHash}]
  <2> DEFINE v == VerdictOf(obj'.bind)
  <2>1. v \in [exec : Exec, epoch : 0 .. MaxGen, hash : Hash \cup {NoHash}] /\ v.exec = obj.exec
    BY <1>5
  <2>2. Authority!Cast
    BY <1>1, <1>2, <1>5, <2>1 DEF Authority!Cast
  <2>3. Authority!Decide \/ Authority!Settle
    BY <1>5, <2>2 DEF Authority!Decide, Authority!Settle
  <2>4. QED
    BY <2>3 DEF Authority!Next
<1>6. CASE /\ obj.exec \in Exec /\ ~obj'.active /\ obj'.exec = obj.exec /\ obj'.token = obj.token
           /\ Bound(obj') = Bound(obj) /\ Cast(obj') = Cast(obj)
  <2>1. Authority!End
    BY <1>1, <1>2, <1>6 DEF Authority!End
  <2>2. QED
    BY <2>1 DEF Authority!Next
<1>7. CASE ~Bound(obj) /\ obj' = NoDoc
  <2>1. ~Bound(NoDoc) /\ NoDoc.history = <<>> /\ ~NoDoc.active /\ NoDoc.exec = NoExec /\ NoDoc.token = NoProc
    BY DEF NoDoc, Bound
  <2>2. Cast(NoDoc) = <<>>
    BY <2>1, CastEmpty
  <2>3. Authority!Discard
    BY <1>1, <1>7, <2>1, <2>2 DEF Authority!Discard
  <2>4. QED
    BY <2>3 DEF Authority!Next
<1>8. QED
  BY <1>3, <1>4, <1>5, <1>6, <1>7 DEF AuthorityStep

LEMMA OpensAllowed ==
  ASSUME RootInv, NEW d \in DocType, NEW g \in Nat, Opens(obj, d), obj' = [d EXCEPT !.gen = g]
  PROVE  AuthorityStep(obj, obj')
<1>1. obj \in DocType /\ DocsWhole /\ obj' \in DocType
  BY StampTyped DEF RootInv, AuthorityInv, TypeOK
<1>2. ASSUME NEW p \in Proc, d = FreshEpoch(p), obj.shape = "none"
      PROVE  AuthorityStep(obj, obj')
  <2>1. obj = NoDoc
    BY <1>2 DEF RootInv, AuthorityInv, GenerationsIdentify
  <2>2. ~Bound(obj) /\ obj.history = <<>> /\ ~obj.active
    BY <2>1 DEF NoDoc, Bound
  <2>3. /\ obj'.active /\ obj'.exec = ExecOf[p] /\ obj'.token = p
        /\ ~Bound(obj') /\ obj'.history = <<>>
    BY <1>2 DEF FreshEpoch, NoDoc, Bound
  <2>4. QED
    BY <2>2, <2>3, CastEmpty, NamesAssumption DEF AuthorityStep
<1>3. ASSUME NEW proof \in Proofs, d = Migrated(obj, proof), obj.shape = "legacy"
      PROVE  AuthorityStep(obj, obj')
  <2>1. obj.exec \in Exec /\ obj.exec # NoExec /\ ~Bound(obj) /\ obj.history = <<>> /\ obj.bind = NoBind
    BY <1>1, <1>3, NamesAssumption DEF DocsWhole, Bound
  <2>2. /\ obj'.exec = obj.exec /\ obj'.token = obj.token /\ obj'.history = obj.history
        /\ obj'.active = (proof = "none")
        /\ obj'.bind = IF proof = "none" THEN NoBind ELSE [NoBind EXCEPT !.exec = obj.exec]
    BY <1>1, <1>3 DEF Migrated, DocType
  <2>3. CASE proof = "none"
    <3>1. obj'.active /\ ~Bound(obj') /\ obj'.bind = obj.bind
      BY <2>1, <2>2, <2>3 DEF Bound
    <3>2. obj.token \in Proc \cup {NoProc} /\ obj.active \in BOOLEAN
      BY <1>1 DEF DocType
    <3>3. Cast(obj') = Cast(obj)
      BY <1>1, <2>1, <2>2, <3>1, CastUnbound
    <3>4. CASE obj.active
      <4>1. obj'.active = obj.active
        BY <2>2, <2>3, <3>4
      <4>2. Bound(obj') = Bound(obj)
        BY <3>1 DEF Bound
      <4>3. Mapped(obj') = Mapped(obj)
        BY <2>1, <2>2, <4>1, <4>2, SeenAlike
      <4>4. QED
        BY <4>3 DEF AuthorityStep
    <3>5. CASE ~obj.active
      BY <2>1, <2>2, <3>1, <3>2, <3>3, <3>5 DEF AuthorityStep
    <3>6. QED
      BY <3>4, <3>5
  <2>4. CASE proof # "none"
    <3>1. ~obj'.active /\ obj'.bind = [NoBind EXCEPT !.exec = obj.exec]
      BY <2>2, <2>4
    <3>2. Bound(obj')
      BY <2>1, <3>1 DEF Bound, NoBind
    <3>3. Cast(obj') = Append(Cast(obj), VerdictOf(obj'.bind))
      BY <1>1, <2>1, <2>2, <3>2, CastUnbound
    <3>4. VerdictOf(obj'.bind) = [exec |-> obj.exec, epoch |-> 0, hash |-> NoHash]
      BY <3>1 DEF VerdictOf, NoBind
    <3>5. VerdictOf(obj'.bind) \in [exec : {obj.exec}, epoch : 0 .. MaxGen, hash : Hash \cup {NoHash}]
      BY <3>4, BoundsAssumption
    <3>6. obj.active \in BOOLEAN
      BY <1>1 DEF DocType
    <3>7. QED
      BY <2>1, <2>2, <3>1, <3>2, <3>3, <3>5, <3>6 DEF AuthorityStep
  <2>5. QED
    BY <2>3, <2>4
<1>4. ASSUME NEW p \in Proc, d = Reowned(p, obj), obj.shape = "root", ~obj.active
      PROVE  AuthorityStep(obj, obj')
  <2>1. obj'.active /\ obj'.exec = ExecOf[p] /\ obj'.token = p /\ obj'.bind = NoBind
        /\ obj'.history = IF Bound(obj) THEN Archived(obj) ELSE obj.history
    BY <1>1, <1>4 DEF Reowned, DocType, Bound
  <2>2. ~Bound(obj')
    BY <2>1 DEF Bound
  <2>3. Cast(obj') = Cast(obj)
    BY <1>1, <2>1, <2>2, CastArchived, CastUnbound
  <2>4. QED
    BY <1>4, <2>1, <2>2, <2>3, NamesAssumption DEF AuthorityStep
<1>5. QED
  BY <1>2, <1>3, <1>4 DEF Opens

LEMMA BindsAllowed ==
  ASSUME RootInv, NEW d \in DocType, nextGen <= MaxGen, Binds(obj, d), obj' = [d EXCEPT !.gen = nextGen]
  PROVE  AuthorityStep(obj, obj')
<1>1. obj \in DocType /\ DocsWhole /\ obj.gen < nextGen /\ nextGen \in Nat /\ obj' \in DocType
  BY StampTyped DEF RootInv, AuthorityInv, TypeOK, GenerationsIdentify
<1>2. obj.exec \in Exec /\ obj.exec # NoExec /\ obj.epoch <= obj.gen /\ obj.epoch \in Nat /\ obj.gen \in Nat
  BY <1>1, NamesAssumption DEF Binds, DocsWhole, DocType
<1>3. ASSUME NEW h \in Hash \cup {NoHash}, NEW f \in Proc \cup {NoProc}, ~Bound(obj),
             d = [obj EXCEPT !.bind = Bind(obj.exec, obj.epoch, h, f)]
      PROVE  AuthorityStep(obj, obj')
  <2>1. /\ obj'.exec = obj.exec /\ obj'.token = obj.token /\ obj'.active = obj.active
        /\ obj'.history = obj.history /\ obj'.bind = Bind(obj.exec, obj.epoch, h, f)
    BY <1>1, <1>3 DEF DocType
  <2>2. Bound(obj')
    BY <1>2, <2>1 DEF Bound, Bind, NoBind
  <2>3. Cast(obj') = Append(Cast(obj), VerdictOf(obj'.bind))
    BY <1>1, <1>3, <2>1, <2>2, CastUnbound
  <2>4. VerdictOf(obj'.bind) = [exec |-> obj.exec, epoch |-> obj.epoch, hash |-> h]
    BY <2>1 DEF VerdictOf, Bind
  <2>5. VerdictOf(obj'.bind) \in [exec : {obj.exec}, epoch : 0 .. MaxGen, hash : Hash \cup {NoHash}]
    <3>1. obj.epoch \in 0 .. MaxGen
      BY <1>1, <1>2, BoundsAssumption
    <3>2. QED
      BY <2>4, <3>1
  <2>6. QED
    BY <1>2, <1>3, <2>1, <2>2, <2>3, <2>5 DEF AuthorityStep
<1>4. ASSUME NEW p \in Proc, Bound(obj), d = [obj EXCEPT !.bind.fid = p]
      PROVE  AuthorityStep(obj, obj')
  <2>1. obj.bind \in BindType /\ obj.bind.exec = obj.exec
    BY <1>1, <1>4 DEF DocType, DocsWhole
  <2>2. /\ obj'.exec = obj.exec /\ obj'.token = obj.token /\ obj'.active = obj.active
        /\ obj'.history = obj.history /\ obj'.bind = [obj.bind EXCEPT !.fid = p]
    BY <1>1, <1>4 DEF DocType
  <2>3. obj'.bind.exec = obj.exec /\ VerdictOf(obj'.bind) = VerdictOf(obj.bind)
    BY <2>1, <2>2 DEF VerdictOf, BindType
  <2>4. Bound(obj')
    BY <1>2, <2>3 DEF Bound, NoBind
  <2>5. QED
    BY <1>4, <2>2, <2>3, <2>4, SeenAlike DEF AuthorityStep
<1>5. QED
  BY <1>3, <1>4 DEF Binds

LEMMA FacetsAllowed ==
  ASSUME RootInv, NEW d \in DocType, NEW g \in Nat, Facets(obj, d), obj' = [d EXCEPT !.gen = g]
  PROVE  AuthorityStep(obj, obj')
<1>1. obj \in DocType /\ DocsWhole
  BY DEF RootInv, AuthorityInv, TypeOK
<1>2. /\ obj'.exec = obj.exec /\ obj'.token = obj.token /\ obj'.bind = obj.bind
      /\ obj'.history = obj.history
  BY <1>1 DEF Facets, Advanced, FailureRecorded, Ended, DocType
<1>3. Bound(obj') = Bound(obj) /\ Cast(obj') = Cast(obj)
  BY <1>2 DEF Bound, Cast
<1>4. CASE obj.shape # "none" /\ d = Ended(obj)
  <2>1. ~obj'.active /\ obj.exec \in Exec
    BY <1>1, <1>4 DEF Ended, DocType, DocsWhole
  <2>2. QED
    BY <1>2, <1>3, <2>1 DEF AuthorityStep
<1>5. CASE obj'.active = obj.active
  BY <1>2, <1>3, <1>5, SeenAlike DEF AuthorityStep
<1>6. QED
  BY <1>1, <1>4, <1>5 DEF Facets, Advanced, FailureRecorded, DocType

LEMMA InitMapped == Init => Authority!Init
<1> SUFFICES ASSUME Init
             PROVE  Authority!Init
  OBVIOUS
<1>1. CASE obj = NoDoc
  <2>1. ~Bound(obj) /\ obj.history = <<>> /\ obj.exec = NoExec /\ obj.token = NoProc /\ obj.active = FALSE
    BY <1>1 DEF NoDoc, Bound
  <2>2. QED
    BY <2>1, CastEmpty DEF Authority!Init
<1>2. ASSUME NEW x \in Exec, obj = LegacyDoc(x)
      PROVE  Authority!Init
  <2>1. ~Bound(obj) /\ obj.history = <<>> /\ obj.exec = x /\ obj.token = NoProc /\ obj.active = TRUE
    BY <1>2 DEF LegacyDoc, NoDoc, Bound
  <2>2. QED
    BY <2>1, CastEmpty DEF Authority!Init, Authority!Holder
<1>3. QED
  BY <1>1, <1>2 DEF Init

LEMMA StepMapped == RootInv /\ [Next]_vars => [Authority!Next]_(Authority!vars)
<1> SUFFICES ASSUME RootInv, [Next]_vars
             PROVE  [Authority!Next]_(Authority!vars)
  OBVIOUS
<1>1. DocStep /\ obj \in DocType /\ obj' \in DocType
  BY Steps, StepRoot DEF RootInv, AuthorityInv, TypeOK
<1>2. AuthorityStep(obj, obj')
  <2>1. CASE obj' = obj
    BY <2>1 DEF AuthorityStep
  <2>2. CASE obj' = NoDoc /\ ~Bound(obj)
    BY <2>2 DEF AuthorityStep
  <2>3. CASE Written
    <3>1. nextGen \in Nat
      BY DEF RootInv, AuthorityInv, TypeOK
    <3>2. QED
      BY <2>3, <3>1, OpensAllowed, BindsAllowed, FacetsAllowed DEF Written, Becomes
  <2>4. QED
    BY <1>1, <2>1, <2>2, <2>3 DEF DocStep
<1>3. QED
  BY <1>1, <1>2, AuthorityStepAllowed DEF DocType

(* Reads, conditional writes, retries and lost replies of any number of    *)
(* callers amount to claiming, deciding, ending and discarding, one at a   *)
(* time: task_root.py implements TaskAuthority.                            *)
THEOREM TaskRootImplements == Spec => ImplementsAuthority
  BY InitMapped, StepMapped, RootInvariant, PTL DEF Spec, ImplementsAuthority, Authority!Spec
=============================================================================

------------------------ MODULE CleanupEvidenceProofs ------------------------
(***************************************************************************)
(* Theorems about the merge of cleanup evidence, for read-only and write   *)
(* Executions and for any set of terminal outcomes the updates report.     *)
(***************************************************************************)
EXTENDS CleanupEvidenceOrder, TLAPS

(* An update has the fields and values of an evidence record: what every   *)
(* caller of merge_cleanup_evidence passes is one of the Updates.          *)
LEMMA UpdatesType == Updates \subseteq Evidence
<1>1. CleanupResults \subseteq
        {"not_required", "failed", "released"} \X {"not_attempted", "failed", "not_released", "released"}
  BY DEF CleanupResults
<1>2. ASSUME NEW s \in Verdict
      PROVE  /\ Retained(s, {}) \in Evidence /\ Retained(s, {"execution"}) \in Evidence
             /\ Persisted(s) \in Evidence /\ Repaired(s) \in Evidence
  BY VerdictAssumption
     DEF Retained, Persisted, Repaired, NoEvidence, Evidence, AllParts, WriterUnreleased
<1>3. ASSUME NEW s \in Verdict, NEW r \in CleanupResults
      PROVE  Cleaned(s, r[1], r[2]) \in Evidence
  BY <1>1, VerdictAssumption DEF Cleaned, Evidence, AllParts
<1>4. ClaimReleased \in Evidence
  BY DEF ClaimReleased, NoEvidence, Evidence
<1>5. QED
  BY <1>2, <1>3, <1>4 DEF Updates

(* The merge of two records is a record (merge_cleanup_evidence).          *)
LEMMA MergeType ==
  ASSUME NEW old \in Evidence, NEW new \in Evidence
  PROVE  Merge(old, new) \in Evidence
BY DEF Merge, Furthest, Sticky, Evidence

(* The merge takes nothing back (merge_cleanup_evidence).                  *)
LEMMA MergeAdvances ==
  ASSUME NEW old \in Evidence, NEW new \in Evidence, Mergeable(old, new)
  PROVE  NoLess(old, Merge(old, new))
<1>1. Rank(old.persistence) <= Rank(Merge(old, new).persistence)
  BY DEF Merge, Furthest, Rank, Evidence
<1>2. QED
  BY <1>1 DEF NoLess, Merge, Sticky, Evidence

(* Folding an update a second time changes nothing, which is what lets a   *)
(* recovery pass repeat a step that may already have been recorded.        *)
THEOREM MergeIdempotent ==
  ASSUME NEW old \in Evidence, NEW new \in Evidence, Mergeable(old, new)
  PROVE  Merge(Merge(old, new), new) = Merge(old, new)
BY DEF Merge, Furthest, Rank, Sticky, Evidence

(* Every reachable record has the fields and values of the schema.         *)
THEOREM TypeCorrect == Spec => []TypeOK
<1>1. Init => TypeOK
  <2>1. NoEvidence \in Evidence
    BY DEF NoEvidence, Evidence
  <2>2. QED
    BY <2>1 DEF Init, TypeOK
<1>2. TypeOK /\ [Next]_vars => TypeOK'
  <2> SUFFICES ASSUME TypeOK, [Next]_vars PROVE TypeOK'
    OBVIOUS
  <2>1. ASSUME NEW u \in Updates, Fold(u) PROVE TypeOK'
    <3>1. u \in Evidence /\ evidence \in Evidence
      BY UpdatesType DEF TypeOK
    <3>2. Merge(evidence, u) \in Evidence
      BY <3>1, MergeType
    <3>3. QED
      BY <2>1, <3>2 DEF Fold, TypeOK
  <2>2. ASSUME NEW u \in Updates, Refuse(u) PROVE TypeOK'
    BY <2>2 DEF Refuse, TypeOK
  <2>3. CASE UNCHANGED vars
    BY <2>3 DEF vars, TypeOK
  <2>4. QED
    BY <2>1, <2>2, <2>3 DEF Next
<1>3. QED
  BY <1>1, <1>2, PTL DEF Spec

(* No update, however late or contradictory, takes back what an earlier    *)
(* one established (the action property the run evidence_orders checks).   *)
THEOREM EvidenceKept == Spec => EvidenceNeverRegresses
<1>1. TypeOK /\ [Next]_vars => [NoLess(evidence, evidence')]_vars
  <2> SUFFICES ASSUME TypeOK, [Next]_vars, ~UNCHANGED vars PROVE NoLess(evidence, evidence')
    OBVIOUS
  <2>1. ASSUME NEW u \in Updates, Fold(u) PROVE NoLess(evidence, evidence')
    BY <2>1, UpdatesType, MergeAdvances DEF Fold, TypeOK
  <2>2. ASSUME NEW u \in Updates, Refuse(u) PROVE NoLess(evidence, evidence')
    <3>1. Rank(evidence.persistence) \in 0 .. 3
      BY DEF TypeOK, Evidence, Rank
    <3>2. evidence' = evidence
      BY <2>2 DEF Refuse
    <3>3. QED
      BY <3>1, <3>2 DEF NoLess
  <2>3. QED
    BY <2>1, <2>2 DEF Next
<1>2. QED
  BY <1>1, TypeCorrect, PTL DEF Spec, EvidenceNeverRegresses

-----------------------------------------------------------------------------
(* Order decides nothing *)

Kinds == IF Write THEN {"released"} ELSE {"released", "not_required"}

(* Inductive form of OrderDecidesNothing for a record e and the updates s: *)
(* the last conjunct of the property is replaced by what it needs of the   *)
(* writer lease, which is sticky in two values.                            *)
Sums(e, s) ==
  /\ \A u \in s : Rank(u.persistence) <= Rank(e.persistence)
  /\ e.persistence \in {"none"} \cup {u.persistence : u \in s}
  /\ e.persisted = UNION {u.persisted : u \in s}
  /\ Outcomes(s) = {e.outcome} \ {"none"}
  /\ e.claim = "released" <=> \E u \in s : u.claim = "released"
  /\ e.writer = "released" <=> \E u \in s : u.writer = "released"
  /\ e.writer \in {"none"} \cup {u.writer : u \in s}
  /\ e.writer \in Kinds <=> \E u \in s : u.writer \in Kinds

(* A write Execution's lease is never called not required, and a read-only *)
(* one's is never called released (_retain_terminal_authority,             *)
(* cleanup_execution): the two sticky values of writer_release never meet. *)
LEMMA WriterKinds ==
  ASSUME NEW u \in Updates
  PROVE  u.writer # (IF Write THEN "not_required" ELSE "released")
<1>1. ASSUME NEW r \in CleanupResults
      PROVE  r[1] # (IF Write THEN "not_required" ELSE "released")
  BY DEF CleanupResults
<1>2. ASSUME NEW s \in Verdict, NEW r \in CleanupResults, u = Cleaned(s, r[1], r[2])
      PROVE  u.writer # (IF Write THEN "not_required" ELSE "released")
  BY <1>1, <1>2 DEF Cleaned
<1>3. ASSUME NEW s \in Verdict,
             u \in {Retained(s, {}), Retained(s, {"execution"}), Persisted(s), Repaired(s)}
      PROVE  u.writer # (IF Write THEN "not_required" ELSE "released")
  <2>1. u.writer \in {WriterUnreleased, "none"}
    <3>1. \A d : Retained(s, d).writer = WriterUnreleased
      BY DEF Retained
    <3>2. Persisted(s).writer = WriterUnreleased /\ Repaired(s).writer = "none"
      BY DEF Persisted, Repaired, NoEvidence
    <3>3. QED
      BY <1>3, <3>1, <3>2
  <2>2. QED
    BY <2>1 DEF WriterUnreleased
<1>4. ASSUME u = ClaimReleased
      PROVE  u.writer # (IF Write THEN "not_required" ELSE "released")
  BY <1>4 DEF ClaimReleased, NoEvidence
<1>5. CASE u = ClaimReleased
  BY <1>4, <1>5
<1>6. CASE u # ClaimReleased
  <2>1. PICK s \in Verdict :
          u \in {Retained(s, {}), Retained(s, {"execution"}), Persisted(s), Repaired(s)}
                \cup {Cleaned(s, r[1], r[2]) : r \in CleanupResults}
    BY <1>6 DEF Updates
  <2>2. CASE u \in {Cleaned(s, r[1], r[2]) : r \in CleanupResults}
    <3>1. PICK r \in CleanupResults : u = Cleaned(s, r[1], r[2])
      BY <2>2
    <3>2. QED
      BY <3>1, <1>2
  <2>3. QED
    BY <2>1, <2>2, <1>3
<1>7. QED
  BY <1>5, <1>6

(* One fold keeps the sums (merge_cleanup_evidence).                       *)
LEMMA SumsStep ==
  ASSUME NEW e \in Evidence, NEW s \in SUBSET Updates, NEW u \in Updates,
         Sums(e, s), Mergeable(e, u)
  PROVE  Sums(Merge(e, u), s \cup {u})
<1> DEFINE m == Merge(e, u)
           t == s \cup {u}
<1>1. u \in Evidence /\ s \subseteq Evidence
  BY UpdatesType
<1>2. \A v \in t : Rank(v.persistence) <= Rank(m.persistence)
  <2>1. \A v \in t : v \in Evidence
    BY <1>1
  <2>2. \A v \in Evidence : Rank(v.persistence) \in 0 .. 3
    BY DEF Evidence, Rank
  <2>3. Rank(e.persistence) <= Rank(m.persistence) /\ Rank(u.persistence) <= Rank(m.persistence)
    BY <1>1, <2>2 DEF Merge, Furthest
  <2>4. m \in Evidence
    BY <1>1, MergeType
  <2>5. QED
    BY <2>1, <2>2, <2>3, <2>4 DEF Sums
<1>3. m.persistence \in {"none"} \cup {v.persistence : v \in t}
  BY DEF Sums, Merge, Furthest
<1>4. m.persisted = UNION {v.persisted : v \in t}
  BY DEF Sums, Merge
<1>5. Outcomes(t) = {m.outcome} \ {"none"}
  BY DEF Sums, Merge, Mergeable, Outcomes
<1>6. m.claim = "released" <=> \E v \in t : v.claim = "released"
  BY DEF Sums, Merge, Sticky
<1>7. e.writer = "not_required" => ~Write
  BY WriterKinds, WriteAssumption DEF Sums
<1>8. m.writer = "released" <=> \E v \in t : v.writer = "released"
  BY <1>7, WriterKinds DEF Sums, Merge, Sticky
<1>9. m.writer \in {"none"} \cup {v.writer : v \in t}
  BY DEF Sums, Merge, Sticky
<1>10. m.writer \in Kinds <=> \E v \in t : v.writer \in Kinds
  BY <1>7, WriterKinds DEF Sums, Merge, Sticky, Kinds
<1>11. QED
  BY <1>2, <1>3, <1>4, <1>5, <1>6, <1>8, <1>9, <1>10 DEF Sums

(* Which updates were folded decides what a release or a publication       *)
(* depends on, never their order or number (merge_cleanup_evidence as      *)
(* _terminal_cleanup_confirmed reads it).                                  *)
THEOREM OrderIndependent == Spec => []OrderDecidesNothing
<1> DEFINE Inv == Sums(evidence, folded)
<1>1. Init => Inv
  BY DEF Init, Sums, NoEvidence, Outcomes, Kinds
<1>2. TypeOK /\ Inv /\ [Next]_vars => Inv'
  <2> SUFFICES ASSUME TypeOK, Inv, [Next]_vars PROVE Inv'
    OBVIOUS
  <2>1. ASSUME NEW u \in Updates, Fold(u) PROVE Inv'
    <3>1. Sums(Merge(evidence, u), folded \cup {u})
      BY <2>1, SumsStep DEF TypeOK, Fold
    <3>2. QED
      BY <2>1, <3>1 DEF Fold
  <2>2. ASSUME NEW u \in Updates, Refuse(u) PROVE Inv'
    BY <2>2 DEF Refuse
  <2>3. CASE UNCHANGED vars
    BY <2>3 DEF vars
  <2>4. QED
    BY <2>1, <2>2, <2>3 DEF Next
<1>3. TypeOK /\ Inv => OrderDecidesNothing
  <2> SUFFICES ASSUME TypeOK, Inv PROVE OrderDecidesNothing
    OBVIOUS
  <2>1. ASSUME NEW s \in Verdict
        PROVE  CleanupConfirmed(evidence, s) <=> Confirmable(folded, s)
    <3>1. s # "none"
      BY VerdictAssumption
    <3>2. evidence.outcome = s <=> Outcomes(folded) = {s}
      BY <3>1 DEF Sums
    <3>3. evidence.persistence = "complete" <=> \E u \in folded : u.persistence = "complete"
      <4>1. \A u \in folded : u \in Evidence
        BY UpdatesType DEF TypeOK
      <4>2. ASSUME NEW u \in folded, u.persistence = "complete"
            PROVE  evidence.persistence = "complete"
        BY <4>1, <4>2 DEF Sums, Rank, TypeOK, Evidence
      <4>3. evidence.persistence = "complete" => \E u \in folded : u.persistence = "complete"
        BY DEF Sums
      <4>4. QED
        BY <4>2, <4>3
    <3>4. QED
      BY <3>2, <3>3 DEF Sums, CleanupConfirmed, Confirmable, Kinds
  <2>2. QED
    BY <2>1 DEF Sums, OrderDecidesNothing
<1>4. QED
  BY <1>1, <1>2, <1>3, TypeCorrect, PTL DEF Spec
=============================================================================

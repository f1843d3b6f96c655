--------------------------- MODULE CleanupEvidence ---------------------------
(***************************************************************************)
(* Execution.cleanup_evidence: what is known of how far a terminal         *)
(* Execution has been wound up, and the merge every writer folds its       *)
(* update in with (manager/execution_lifecycle.py merge_cleanup_evidence). *)
(* "none" is an absent field.  The audit texts (errors, terminal_at,       *)
(* session_id, error_kind) decide nothing and are left out.                *)
(***************************************************************************)
EXTENDS Naturals

CONSTANT Write   \* TRUE: production_write executions, FALSE: read_only ones

ASSUME WriteAssumption == Write \in BOOLEAN

-----------------------------------------------------------------------------
(* The record *)

AllParts == {"execution", "handoff", "task"}

Evidence ==
  [persistence : {"none", "incomplete", "partial", "complete"},
   persisted   : SUBSET AllParts,
   claim       : {"none", "not_attempted", "not_released", "retained", "failed", "released"},
   writer      : {"none", "retained", "failed", "not_required", "released"},
   outcome     : {"none", "completed", "failed", "interrupted"}]

NoEvidence ==
  [persistence |-> "none", persisted |-> {}, claim |-> "none", writer |-> "none",
   outcome |-> "none"]

Rank(p) ==
  CASE p = "none" -> 0 [] p = "incomplete" -> 1 [] p = "partial" -> 2 [] p = "complete" -> 3

Furthest(old, new) == IF Rank(old) >= Rank(new) THEN old ELSE new

(* Variants named ...Mutant are faulty forms of the definition that        *)
(* follows; no action uses them.                                           *)
StickyMutant(old, new, sticky) == IF new # "none" THEN new ELSE old
Sticky(old, new, sticky) ==
  IF old \in sticky \/ (new = "none" /\ new \notin sticky) THEN old ELSE new

Mergeable(old, new) == "none" \in {old.outcome, new.outcome} \/ old.outcome = new.outcome

MergeMutant(old, new) ==
  [persistence |-> Furthest(old.persistence, new.persistence),
   persisted   |-> old.persisted \cup new.persisted,
   claim       |-> Sticky(old.claim, new.claim, {"released"}),
   writer      |-> Sticky(old.writer, new.writer, {"released", "not_required"}),
   outcome     |-> new.outcome]
Merge(old, new) ==
  [persistence |-> Furthest(old.persistence, new.persistence),
   persisted   |-> old.persisted \cup new.persisted,
   claim       |-> Sticky(old.claim, new.claim, {"released"}),
   writer      |-> Sticky(old.writer, new.writer, {"released", "not_required"}),
   outcome     |-> IF old.outcome = "none" THEN new.outcome ELSE old.outcome]

(* Terminal status is publishable only on this evidence. *)
CleanupConfirmed(e, status) ==
  /\ e.outcome = status
  /\ e.persistence = "complete"
  /\ e.persisted = AllParts
  /\ e.claim = "released"
  /\ e.writer \in (IF Write THEN {"released"} ELSE {"released", "not_required"})

-----------------------------------------------------------------------------
(* The updates the code folds in *)

WriterUnreleased == IF Write THEN "retained" ELSE "not_required"

Retained(s, done) ==
  [persistence |-> IF done = {} THEN "incomplete" ELSE "partial", persisted |-> done,
   claim |-> "retained", writer |-> WriterUnreleased, outcome |-> s]

Persisted(s) ==
  [persistence |-> "complete", persisted |-> AllParts, claim |-> "retained",
   writer |-> WriterUnreleased, outcome |-> s]

(* "not_released" stands for every reason release_runtime_claim gives. *)
Cleaned(s, w, c) ==
  [persistence |-> "complete", persisted |-> AllParts, claim |-> c, writer |-> w,
   outcome |-> s]

RepairedMutant(s) == [NoEvidence EXCEPT !.persistence = "complete", !.outcome = s]
Repaired(s) ==
  [NoEvidence EXCEPT !.persistence = "complete", !.persisted = AllParts, !.outcome = s]

ClaimReleased == [NoEvidence EXCEPT !.claim = "released"]
=============================================================================

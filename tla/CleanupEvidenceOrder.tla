------------------------ MODULE CleanupEvidenceOrder ------------------------
(***************************************************************************)
(* The updates of one Execution's cleanup evidence, folded into its record *)
(* in any order, each once or more often: what the worker and the recovery *)
(* passes that replace it do (manager/execution_lifecycle.py,              *)
(* manager/command_watcher.py).                                            *)
(***************************************************************************)
EXTENDS CleanupEvidence

CONSTANT Verdict    \* terminal statuses the updates may report

ASSUME VerdictAssumption == Verdict \subseteq {"completed", "failed", "interrupted"}

VARIABLES
  evidence,  \* the record
  folded,    \* the updates it has taken in
  refused    \* an update was refused for a conflicting provider outcome

vars == <<evidence, folded, refused>>

CleanupResults ==
  IF Write
  THEN {<<"failed", "not_attempted">>} \cup ({"released"} \X {"failed", "not_released", "released"})
  ELSE {"not_required"} \X {"failed", "not_released", "released"}

Updates ==
  {ClaimReleased}
  \cup (UNION {{Retained(s, {}), Retained(s, {"execution"}), Persisted(s), Repaired(s)}
               \cup {Cleaned(s, r[1], r[2]) : r \in CleanupResults} : s \in Verdict})

-----------------------------------------------------------------------------
(* Folding *)

Fold(u) ==
  /\ Mergeable(evidence, u)
  /\ evidence' = Merge(evidence, u)
  /\ folded' = folded \cup {u}
  /\ UNCHANGED refused

(* A conflicting outcome raises: the caller writes nothing. *)
Refuse(u) ==
  /\ ~Mergeable(evidence, u)
  /\ refused' = TRUE
  /\ UNCHANGED <<evidence, folded>>

Init ==
  /\ evidence = NoEvidence
  /\ folded = {}
  /\ refused = FALSE

Next == \E u \in Updates : Fold(u) \/ Refuse(u)

Spec == Init /\ [][Next]_vars

-----------------------------------------------------------------------------
(* Properties *)

(* The record has the fields, and only the values, merge_cleanup_evidence  *)
(* produces from the updates of execution_lifecycle.py.                    *)
TypeOK ==
  /\ evidence \in Evidence
  /\ folded \subseteq Updates
  /\ refused \in BOOLEAN

(* What the callers have established between them. *)
Outcomes(s) == {u.outcome : u \in s} \ {"none"}

Confirmable(s, status) ==
  /\ Outcomes(s) = {status}
  /\ \E u \in s : u.persistence = "complete"
  /\ UNION {u.persisted : u \in s} = AllParts
  /\ \E u \in s : u.claim = "released"
  /\ \E u \in s : u.writer \in (IF Write THEN {"released"} ELSE {"released", "not_required"})

(* Every field a release or a publication depends on is settled by which   *)
(* updates were folded, in whatever order and however often: persistence   *)
(* is as far as anybody came, the parts are all that were reported, claim  *)
(* and lease are released if anybody released them, there is one outcome,  *)
(* and so the Command is publishable (_terminal_cleanup_confirmed) exactly *)
(* if the updates together allow it.                                       *)
OrderDecidesNothing ==
  /\ \A u \in folded : Rank(u.persistence) <= Rank(evidence.persistence)
  /\ evidence.persistence \in {"none"} \cup {u.persistence : u \in folded}
  /\ evidence.persisted = UNION {u.persisted : u \in folded}
  /\ Outcomes(folded) = {evidence.outcome} \ {"none"}
  /\ evidence.claim = "released" <=> \E u \in folded : u.claim = "released"
  /\ evidence.writer = "released" <=> \E u \in folded : u.writer = "released"
  /\ \A s \in Verdict : CleanupConfirmed(evidence, s) <=> Confirmable(folded, s)

(* What merge_cleanup_evidence promises of every field: no update, however *)
(* late, takes back what an earlier one established; a release stays       *)
(* released and the provider outcome is recorded once.                     *)
NoLess(old, new) ==
  /\ Rank(old.persistence) <= Rank(new.persistence)
  /\ old.persisted \subseteq new.persisted
  /\ old.claim = "released" => new.claim = "released"
  /\ old.writer \in {"released", "not_required"} => new.writer = old.writer
  /\ old.outcome # "none" => new.outcome = old.outcome

EvidenceNeverRegresses == [][NoLess(evidence, evidence')]_vars
=============================================================================

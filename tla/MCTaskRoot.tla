----------------------------- MODULE MCTaskRoot -----------------------------
(* Instances of TaskRoot: three callers that compete for the claim and      *)
(* agree on one proposal, or two callers of one execution that disagree on  *)
(* it and move every facet.                                                 *)
EXTENDS TaskRoot, TLC

CONSTANTS p1, p2, p3, e1, e2, h1, h2

VARIABLE proposal   \* the one that all agree on, NoHash when they disagree

MCExecOf == p1 :> e1 @@ p2 :> e1 @@ p3 :> e2

SymTwinsHashes == Permutations({p1, p2}) \cup Permutations({h1, h2})

(* A legacy claim is one of the twins where they disagree, and one of the  *)
(* third caller's execution where all compete.                             *)
MCInit ==
  /\ Init /\ proposal \in Hash \cup {NoHash}
  /\ obj # LegacyDoc(IF proposal = NoHash THEN e2 ELSE e1)

Compete ==
  /\ proposal # NoHash
  /\ \E p \in Proc :
       /\ Acquire(p) \/ Commit(p) \/ Release(p)
       /\ arg'[p].hash \in {proposal, NoHash} /\ ~arg'[p].offer

(* One write fewer, a view comes to "attention" by its failures only, and a *)
(* refused caller gives up, and may call again, unless it acquires.         *)
Disagree ==
  /\ proposal = NoHash
  /\ \E p \in {p1, p2} :
       /\ Acquire(p) \/ Commit(p) \/ Materialize(p) \/ Cleanup(p) \/ Release(p)
       /\ arg'[p].status # "attention"
       /\ tries'[p] = 0 \/ at'[p] \in {"acquire_read", "acquire_write"}
  /\ nextGen' <= MaxGen

MCNext == (Compete \/ Disagree) /\ UNCHANGED proposal

MCSpec == MCInit /\ [][MCNext]_<<vars, proposal>>
=============================================================================

---------------------------- MODULE MCWriterLease ----------------------------
(* Instances of WriterLease: two workers, of one execution or of two, an   *)
(* operator at the command line and a Command Watcher, over one repository.*)
EXTENDS WriterLease, TLC

CONSTANTS r1, r2, o1, w1, e1, e2

MCRepoOf == [e \in Exec |-> "a"]
MCExecOf == [p \in Owner |-> IF p = r1 THEN e1 ELSE e2]
MCExecOfTwins == [p \in Owner |-> IF p \in Runner THEN e1 ELSE e2]

(* At most two calls run at once. *)
TwoCalls == Cardinality({p \in Proc : Running(p)}) <= 2

AlikeRunners == Permutations(Runner)
=============================================================================

--------------------------- MODULE TaskAuthority ---------------------------
(***************************************************************************)
(* What a task's authority object promises, without generations, replies   *)
(* or retries: one holder at a time, at most one verdict per claim, cast   *)
(* by the holder's execution, and verdicts that are only ever appended.    *)
(* An object discarded before its verdict takes the archive along.         *)
(***************************************************************************)
EXTENDS Naturals, Sequences

CONSTANTS
  Exec,      \* executions
  Token,     \* claim tokens, one per caller
  NoHolder,  \* the holder of a task never claimed
  Verdicts   \* verdicts an execution can cast; v.exec is its execution

VARIABLES
  holder,    \* the claim granted last: [exec, token]
  active,    \* whether that claim still has running authority
  decided,   \* whether it has a verdict
  verdicts   \* the verdicts of the object, oldest first

vars == <<holder, active, decided, verdicts>>

Holder == [exec : Exec, token : Token]

Init ==
  /\ decided = FALSE
  /\ verdicts = <<>>
  /\ \/ holder = NoHolder /\ active = FALSE
     \/ holder \in Holder /\ active = TRUE

Claim ==
  /\ ~active
  /\ active' = TRUE
  /\ holder' \in Holder
  /\ decided' = FALSE
  /\ UNCHANGED verdicts

Cast ==
  /\ ~decided
  /\ decided' = TRUE
  /\ holder # NoHolder
  /\ \E v \in Verdicts : v.exec = holder.exec /\ verdicts' = Append(verdicts, v)
  /\ UNCHANGED holder

Decide == Cast /\ UNCHANGED active

(* A legacy claim found terminal: its verdict ends its authority. *)
Settle == active /\ Cast /\ active' = FALSE

End ==
  /\ holder # NoHolder
  /\ active' = FALSE
  /\ UNCHANGED <<holder, decided, verdicts>>

Discard ==
  /\ ~decided
  /\ holder' = NoHolder
  /\ active' = FALSE
  /\ decided' = FALSE
  /\ verdicts' = <<>>

Next == Claim \/ Decide \/ Settle \/ End \/ Discard

Spec == Init /\ [][Next]_vars
=============================================================================

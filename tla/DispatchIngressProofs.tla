----------------------- MODULE DispatchIngressProofs -----------------------
(* Proofs about DispatchIngress for any requests, pollers, contracts and   *)
(* faults.                                                                  *)
EXTENDS DispatchIngress, TLAPS

Claims == [status : {"none", "accepted", "dispatched", "failed"}, generation : 0 .. MaxGenerations]

Calls ==
    [pc : PollerPcs, request : Requests \cup {"none"}, scope : Scopes \cup {"unset"},
     generation : 0 .. MaxGenerations, own : BOOLEAN, retry : BOOLEAN, waiting : BOOLEAN,
     doc : TaskDocs, active : SUBSET (Requests \cup Others)]

Sweeps == [pc : SweeperPcs, request : Requests \cup {"none"}, doc : TaskDocs]

LEMMA Typed ==
    ASSUME TypeOK
    PROVE  /\ kind \in [Requests -> Kinds] /\ claim \in [Requests -> Claims]
           /\ task \in [Requests -> TaskDocs]
           /\ command \in [Requests -> {"none", "queued", "taken"}]
           /\ project \in SUBSET (Requests \cup Others)
           /\ my \in [Pollers -> Calls] /\ sweep \in [Sweepers -> Sweeps]
           /\ answers \in [Requests -> SUBSET {"queued", "waiting_quota"}]
           /\ doubt \in [Requests -> SUBSET {"ambiguous", "refailed", "crashed", "clashed"}]
           /\ faults \in 0 .. MaxFaults
  BY DEF TypeOK, Claims, Calls, Sweeps

LEMMA Nulls ==
    /\ NoClaim \in Claims /\ NoTask \in TaskDocs /\ IdleCall \in Calls /\ IdleSweep \in Sweeps
    /\ 1 \in 0 .. MaxGenerations
<1>1. 0 \in 0 .. MaxGenerations /\ 1 \in 0 .. MaxGenerations
  BY BoundsAreNumbers
<1>2. NoClaim \in Claims
  BY <1>1 DEF NoClaim, Claims
<1>3. NoTask \in TaskDocs
  BY DEF NoTask, TaskDocs
<1>4. IdleSweep \in Sweeps
  BY <1>3 DEF IdleSweep, Sweeps, SweeperPcs
<1>5. IdleCall \in Calls
  BY <1>1, <1>3 DEF IdleCall, Calls, PollerPcs
<1>6. QED
  BY <1>1, <1>2, <1>3, <1>4, <1>5

-----------------------------------------------------------------------------
(* Types *)

LEMMA FirstSteps ==
    ASSUME TypeOK, NEW r \in Requests
    PROVE  /\ kind[r] = "auto" => FirstStep(r) = "dispatch"
           /\ kind[r] = "local" => FirstStep(r) = "createTask"
           /\ kind[r] = "retry" => FirstStep(r) = "putCommand"
           /\ kind[r] \in {"auto", "local", "retry"}
  BY DEF TypeOK, Kinds, FirstStep

(* A call moves on: only its own record changes. *)
Moves(p, m) == m \in Calls /\ my' = [my EXCEPT ![p] = m]

LEMMA CallTyped ==
    ASSUME TypeOK, NEW p \in Pollers, NEW m \in Calls, my' = [my EXCEPT ![p] = m]
    PROVE  my' \in [Pollers -> Calls] /\ my'[p] = m /\ \A q \in Pollers : q # p => my'[q] = my[q]
  BY DEF TypeOK, Calls

(* The call of a poller p that is not idle. *)
LEMMA Called ==
    ASSUME RequestInv, NEW p \in Pollers, my[p].pc # "idle"
    PROVE  /\ CallFits(p) /\ my[p] \in Calls /\ my[p].request \in Requests
           /\ task[my[p].request] \in TaskDocs /\ claim[my[p].request] \in Claims
           /\ claim[my[p].request].generation \in Nat /\ my[p].generation \in Nat
<1>1. TypeOK /\ CallFits(p) /\ my[p].request \in Requests
  BY DEF RequestInv, CallsFit, CallFits
<1>2. my[p] \in Calls /\ claim[my[p].request] \in Claims
  BY <1>1, Typed
<1>3. QED
  BY <1>1, <1>2, Typed, BoundsAreNumbers DEF Claims, Calls

(* What the moves of a call do to it. *)
Same(p) ==
    /\ my'[p].request = my[p].request /\ my'[p].generation = my[p].generation
    /\ my'[p].own = my[p].own /\ my'[p].retry = my[p].retry

OnlyCall(p) == my' \in [Pollers -> Calls] /\ \A q \in Pollers : q # p => my'[q] = my[q]

LEMMA GotoMoves ==
    ASSUME TypeOK, NEW p \in Pollers, NEW pc \in PollerPcs, Goto(p, pc)
    PROVE  /\ OnlyCall(p) /\ Same(p) /\ my'[p].pc = pc
           /\ my'[p].waiting = my[p].waiting /\ my'[p].doc = my[p].doc
  BY Typed DEF Goto, OnlyCall, Same, Calls

LEMMA FinishMoves ==
    ASSUME TypeOK, NEW p \in Pollers, Finish(p)
    PROVE  OnlyCall(p) /\ my'[p] = IdleCall /\ my'[p].pc = "idle" /\ my'[p].request = "none"
  BY Typed, Nulls DEF Finish, OnlyCall, IdleCall

Failed(p) ==
    /\ OnlyCall(p)
    /\ \/ my'[p] = IdleCall
       \/ /\ Same(p) /\ kind[my[p].request] # "retry" /\ my'[p].waiting = my[p].waiting
          /\ \/ my'[p].pc = "findTask" /\ my[p].own /\ ~my[p].retry
             \/ my'[p].pc = "markFailed" /\ my[p].retry

LEMMA FailMoves ==
    ASSUME TypeOK, NEW p \in Pollers, Fail(p)
    PROVE  Failed(p)
<1>1. CASE FailurePc(p) = "idle"
  BY <1>1, FinishMoves DEF Fail, Finish, Failed
<1>2. CASE FailurePc(p) # "idle"
  <2>1. my' = [my EXCEPT ![p] = [my[p] EXCEPT !.pc = FailurePc(p)]]
    BY <1>2 DEF Fail
  <2>2. /\ kind[my[p].request] # "retry"
        /\ \/ FailurePc(p) = "findTask" /\ my[p].own /\ ~my[p].retry
           \/ FailurePc(p) = "markFailed" /\ my[p].retry
    <3>1. CASE my[p].retry
      BY <1>2, <3>1 DEF FailurePc
    <3>2. CASE ~my[p].retry
      BY <1>2, <3>2 DEF FailurePc
    <3>3. QED
      BY <3>1, <3>2
  <2>3. FailurePc(p) \in PollerPcs
    BY <2>2 DEF PollerPcs, FailurePcs
  <2> DEFINE pc == FailurePc(p)
  <2> HIDE DEF pc
  <2>4. my'[p] = [my[p] EXCEPT !.pc = pc] /\ my[p] \in Calls /\ OnlyCall(p) /\ my'[p].pc = pc
    BY <2>1, <2>3, Typed DEF pc, OnlyCall, Calls
  <2>5. Same(p) /\ my'[p].waiting = my[p].waiting
    BY <2>4 DEF Same, Calls
  <2>6. QED
    BY <2>2, <2>4, <2>5 DEF pc, Failed
<1>3. QED
  BY <1>1, <1>2

-----------------------------------------------------------------------------
(* The steps of a poller *)

(* A new call on r: it won the claim, it found one, or it lost the reply. *)
Enters(p, r) ==
    /\ OnlyCall(p) /\ my[p].pc = "idle" /\ my'[p].request = r
    /\ my'[p].retry = FALSE /\ my'[p].waiting = FALSE /\ my'[p].doc = NoTask
    /\ my'[p].generation = claim'[r].generation /\ claim'[r] # NoClaim
    /\ UNCHANGED <<task, command, sweep, kind>>

Wins(p, r) ==
    /\ Enters(p, r) /\ my'[p].own /\ my'[p].pc = FirstStep(r)
    /\ claim[r] = NoClaim
    /\ claim' = [claim EXCEPT ![r] = [status |-> "accepted", generation |-> 1]]

Loses(p, r) ==
    /\ Enters(p, r) /\ ~my'[p].own /\ claim' = claim
    /\ \/ my'[p].pc = "retryCas" /\ claim[r].status = "failed" /\ kind[r] # "retry"
       \/ my'[p].pc = "lookCommand"

Wonders(p, r) ==
    /\ Enters(p, r) /\ ~my'[p].own /\ my'[p].pc = FirstStep(r)
    /\ claim' = [claim EXCEPT ![r] = IF @ = NoClaim
                                     THEN [status |-> "accepted", generation |-> 1] ELSE @]

LEMMA WinMoves ==
    ASSUME TypeOK, NEW p \in Pollers, NEW r \in Requests, NEW s \in Scopes, WinClaim(p, r, s)
    PROVE  Wins(p, r)
<1>1. FirstStep(r) \in PollerPcs /\ TRUE \in BOOLEAN
  BY FirstSteps DEF PollerPcs, CreatorPcs
<1> DEFINE m == NewCall(r, s, FirstStep(r), 1, TRUE)
<1>3. my' = [my EXCEPT ![p] = m]
  BY DEF WinClaim
<1>7. m = NewCall(r, s, FirstStep(r), 1, TRUE)
  OBVIOUS
<1>8. project \in SUBSET (Requests \cup Others)
  BY DEF TypeOK
<1> HIDE DEF m
<1>2. m \in Calls /\ m.pc = FirstStep(r) /\ m.request = r /\ m.generation = 1 /\ m.own = TRUE
      /\ m.retry = FALSE /\ m.waiting = FALSE /\ m.doc = NoTask
  BY <1>1, <1>7, <1>8, Nulls DEF NewCall, IdleCall, Calls
<1>4. OnlyCall(p) /\ my'[p] = m
  BY <1>2, <1>3, CallTyped DEF OnlyCall
<1>5. claim'[r].generation = 1 /\ claim'[r] # NoClaim
  BY Typed DEF WinClaim, NoClaim
<1>6. QED
  BY <1>2, <1>4, <1>5 DEF WinClaim, Wins, Enters, NoClaim
  
LEMMA LoseMoves ==
    ASSUME TypeOK, NEW p \in Pollers, NEW r \in Requests, NEW s \in Scopes, LoseClaim(p, r, s)
    PROVE  Loses(p, r)
<1>1. RetryStep(r) \in PollerPcs /\ FALSE \in BOOLEAN /\ claim[r].generation \in 0 .. MaxGenerations
  BY Typed DEF RetryStep, PollerPcs, Claims
<1> DEFINE m == NewCall(r, s, RetryStep(r), claim[r].generation, FALSE)
<1>3. my' = [my EXCEPT ![p] = m]
  BY DEF LoseClaim
<1>7. m = NewCall(r, s, RetryStep(r), claim[r].generation, FALSE)
  OBVIOUS
<1>8. project \in SUBSET (Requests \cup Others)
  BY DEF TypeOK
<1> HIDE DEF m
<1>2. m \in Calls /\ m.pc = RetryStep(r) /\ m.request = r /\ m.generation = claim[r].generation
      /\ m.own = FALSE /\ m.retry = FALSE /\ m.waiting = FALSE /\ m.doc = NoTask
  BY <1>1, <1>7, <1>8, Nulls DEF NewCall, IdleCall, Calls
<1>4. OnlyCall(p) /\ my'[p] = m
  BY <1>2, <1>3, CallTyped DEF OnlyCall
<1>5. QED
  BY <1>2, <1>4 DEF LoseClaim, Loses, Enters, RetryStep, records

LEMMA WonderMoves ==
    ASSUME TypeOK, NEW p \in Pollers, NEW r \in Requests, NEW s \in Scopes, AmbiguousClaim(p, r, s)
    PROVE  Wonders(p, r) /\ doubt' = [doubt EXCEPT ![r] = @ \cup {"ambiguous"}]
<1>1. claim'[r] = (IF claim[r] = NoClaim THEN [status |-> "accepted", generation |-> 1] ELSE claim[r])
  BY Typed DEF AmbiguousClaim
<1>2. /\ FirstStep(r) \in PollerPcs /\ FALSE \in BOOLEAN
      /\ claim'[r] # NoClaim /\ claim'[r].generation \in 0 .. MaxGenerations
  BY <1>1, FirstSteps, Typed, Nulls DEF PollerPcs, CreatorPcs, Claims, NoClaim
<1> DEFINE m == NewCall(r, s, FirstStep(r), claim'[r].generation, FALSE)
<1>4. my' = [my EXCEPT ![p] = m]
  BY DEF AmbiguousClaim
<1>7. m = NewCall(r, s, FirstStep(r), claim'[r].generation, FALSE)
  OBVIOUS
<1>8. project \in SUBSET (Requests \cup Others)
  BY DEF TypeOK
<1> HIDE DEF m
<1>3. m \in Calls /\ m.pc = FirstStep(r) /\ m.request = r /\ m.generation = claim'[r].generation
      /\ m.own = FALSE /\ m.retry = FALSE /\ m.waiting = FALSE /\ m.doc = NoTask
  BY <1>2, <1>7, <1>8, Nulls DEF NewCall, IdleCall, Calls
<1>5. OnlyCall(p) /\ my'[p] = m
  BY <1>3, <1>4, CallTyped DEF OnlyCall
<1>6. QED
  BY <1>2, <1>3, <1>5 DEF AmbiguousClaim, Wonders, Enters
LEMMA Cases ==
    ASSUME [Next]_vars
    PROVE  \/ UNCHANGED vars
           \/ \E p \in Pollers, r \in Requests, s \in Scopes :
                WinClaim(p, r, s) \/ LoseClaim(p, r, s) \/ AmbiguousClaim(p, r, s)
           \/ \E p \in Pollers :
                \/ RetryFailed(p) \/ DispatchFails(p) \/ (\E usable \in BOOLEAN : Dispatch(p, usable))
                \/ CreateTask(p) \/ PutProject(p) \/ VerifyProject(p)
                \/ StampRead(p) \/ StampWrite(p) \/ StampVerify(p)
           \/ \E p \in Pollers :
                \/ PutCommand(p) \/ VerifyCommand(p) \/ MarkDispatched(p)
                \/ FindTask(p) \/ FindCommand(p) \/ MarkFailed(p)
                \/ LookCommand(p) \/ LookTask(p) \/ CrashPoller(p)
           \/ \E s \in Sweepers, r \in Requests : FindWaiting(s, r)
           \/ \E s \in Sweepers :
                \/ (\E usable \in BOOLEAN : Promote(s, usable)) \/ Recheck(s)
                \/ SweepPutCommand(s) \/ SweepVerifyCommand(s)
                \/ UpdateRead(s) \/ UpdateWrite(s) \/ CrashSweeper(s)
           \/ \E r \in Requests : Take(r)
           \/ OtherProjectPut
  BY DEF Next, Poll, PollerStep, SweeperStep

(* A swap on the claim of a call. *)
LEMMA Marks ==
    ASSUME TypeOK, NEW p \in Pollers, my[p].request \in Requests, NEW status \in {"accepted", "dispatched", "failed"},
           CanMark(p), Mark(p, status)
    PROVE  LET r == my[p].request IN
           /\ claim' \in [Requests -> Claims]
           /\ my[p].generation = claim[r].generation /\ claim[r].generation \in Nat
           /\ my[p].generation + 1 \in 0 .. MaxGenerations
           /\ claim'[r] = [status |-> status, generation |-> my[p].generation + 1]
           /\ claim'[r].status = status /\ claim'[r].generation = claim[r].generation + 1
           /\ claim'[r] # NoClaim
           /\ \A q \in Requests : q # r => claim'[q] = claim[q]
<1> DEFINE r == my[p].request
           c == [status |-> status, generation |-> my[p].generation + 1]
<1>1. claim \in [Requests -> Claims] /\ claim[r] \in Claims /\ claim[r].generation \in 0 .. MaxGenerations
  BY Typed DEF Claims
<1>2. my[p].generation = claim[r].generation /\ my[p].generation + 1 \in 0 .. MaxGenerations
  BY <1>1, BoundsAreNumbers DEF CanMark
<1>3. c \in Claims /\ c.status = status /\ c.generation = my[p].generation + 1 /\ c # NoClaim
  BY <1>2 DEF Claims, NoClaim
<1>4. claim' = [claim EXCEPT ![r] = c]
  BY DEF Mark
<1> HIDE DEF c
<1>5. claim' \in [Requests -> Claims] /\ claim'[r] = c /\ \A q \in Requests : q # r => claim'[q] = claim[q]
  BY <1>1, <1>3, <1>4
<1>6. QED
  BY <1>1, <1>2, <1>3, <1>5 DEF c

LEMMA Created ==
    ASSUME RequestInv, NEW p \in Pollers, CreateTask(p)
    PROVE  LET r == my[p].request IN
           /\ task' \in [Requests -> TaskDocs] /\ task'[r].exists /\ task'[r].scope = "unset"
           /\ ~my[p].waiting => ~Waiting(task'[r])
           /\ \A q \in Requests : q # r => task'[q] = task[q]
<1> DEFINE r == my[p].request
           d == [exists |-> TRUE, scope |-> "unset",
                 recommended |-> kind[r] = "auto" /\ ~my[p].waiting, assessed |-> kind[r] = "auto"]
<1>1. r \in Requests /\ TypeOK
  BY Called DEF CreateTask, RequestInv
<1>2. task' = [task EXCEPT ![r] = d]
  BY DEF CreateTask
<1>3. d \in TaskDocs /\ d.exists /\ d.scope = "unset" /\ (~my[p].waiting => ~Waiting(d))
  BY DEF TaskDocs, Waiting
<1> HIDE DEF d
<1>4. QED
  BY <1>1, <1>2, <1>3, Typed

Grows ==
    /\ kind' = kind
    /\ \A r \in Requests :
         /\ task[r].exists => task'[r].exists
         /\ task'[r].exists \/ task'[r] = task[r]
         /\ command[r] # "none" => command'[r] # "none"
         /\ claim[r] # NoClaim => claim'[r] # NoClaim
         /\ claim[r].generation <= claim'[r].generation
         /\ claim'[r].generation = claim[r].generation => claim'[r] = claim[r]
         /\ \A d \in doubt[r] : d \in doubt'[r]

LEMMA ClaimsGrow ==
    ASSUME TypeOK, NEW r \in Requests, claim[r] = NoClaim, NEW x \in Requests,
           claim' = [claim EXCEPT ![r] = [status |-> "accepted", generation |-> 1]]
    PROVE  /\ claim[x] # NoClaim => claim'[x] # NoClaim
           /\ claim[x].generation <= claim'[x].generation
           /\ claim'[x].generation = claim[x].generation => claim'[x] = claim[x]
<1>1. claim[x].generation \in Nat
  BY Typed, BoundsAreNumbers DEF Claims
<1>2. QED
  BY <1>1, Typed DEF NoClaim

LEMMA StepGrows ==
    ASSUME RequestInv, [Next]_vars
    PROVE  Grows
<1>1. TypeOK /\ \A r \in Requests : claim[r].generation \in Nat
  BY Typed, BoundsAreNumbers DEF RequestInv, Claims
<1>2. ASSUME UNCHANGED <<kind, task, command, claim>>, \A r \in Requests : \A d \in doubt[r] : d \in doubt'[r]
      PROVE  Grows
  BY <1>1, <1>2 DEF Grows
<1>3. ASSUME NEW r \in Requests, NEW x \in {"ambiguous", "refailed", "crashed", "clashed"},
             doubt' = [doubt EXCEPT ![r] = @ \cup {x}]
      PROVE  \A q \in Requests : \A d \in doubt[q] : d \in doubt'[q]
  BY <1>1, <1>3, Typed
<1>4. ASSUME NEW p \in Pollers, NEW r \in Requests, NEW s \in Scopes,
             WinClaim(p, r, s) \/ LoseClaim(p, r, s) \/ AmbiguousClaim(p, r, s)
      PROVE  Grows
  <2>1. CASE WinClaim(p, r, s)
    BY <1>1, <2>1, ClaimsGrow DEF WinClaim, Grows
  <2>2. CASE LoseClaim(p, r, s)
    BY <1>2, <2>2 DEF LoseClaim, records
  <2>3. CASE AmbiguousClaim(p, r, s)
    <3>1. CASE claim[r] = NoClaim
      <4>1. claim' = [claim EXCEPT ![r] = [status |-> "accepted", generation |-> 1]]
        BY <2>3, <3>1, <1>1, Typed DEF AmbiguousClaim
      <4>2. QED
        BY <1>1, <1>3, <2>3, <3>1, <4>1, ClaimsGrow DEF AmbiguousClaim, Grows
    <3>2. CASE claim[r] # NoClaim
      <4>1. claim' = claim
        BY <2>3, <3>2, <1>1, Typed DEF AmbiguousClaim
      <4>2. QED
        BY <1>2, <1>3, <2>3, <4>1 DEF AmbiguousClaim
    <3>3. QED
      BY <3>1, <3>2
  <2>4. QED
    BY <1>4, <2>1, <2>2, <2>3
<1>5. ASSUME NEW p \in Pollers, NEW status \in {"accepted", "dispatched", "failed"},
             my[p].pc # "idle", CanMark(p), Mark(p, status),
             UNCHANGED <<kind, task, command>>, \A r \in Requests : \A d \in doubt[r] : d \in doubt'[r]
      PROVE  Grows
  <2>1. my[p].request \in Requests
    BY <1>5, Called
  <2>2. /\ claim'[my[p].request] # NoClaim
        /\ claim'[my[p].request].generation = claim[my[p].request].generation + 1
        /\ \A q \in Requests : q # my[p].request => claim'[q] = claim[q]
    BY <1>1, <1>5, <2>1, Marks
  <2>3. ASSUME NEW r \in Requests
        PROVE  /\ claim[r] # NoClaim => claim'[r] # NoClaim
               /\ claim[r].generation <= claim'[r].generation
               /\ claim'[r].generation = claim[r].generation => claim'[r] = claim[r]
    BY <1>1, <2>2
  <2>4. QED
    BY <1>5, <2>3 DEF Grows
<1>6. ASSUME NEW p \in Pollers, RetryFailed(p) \/ MarkDispatched(p)
      PROVE  Grows
  BY <1>2, <1>5, <1>6 DEF RetryFailed, MarkDispatched
<1>7. ASSUME NEW p \in Pollers, MarkFailed(p)
      PROVE  Grows
  <2>1. my[p].request \in Requests
    BY <1>7, Called DEF MarkFailed
  <2>2. \A r \in Requests : \A d \in doubt[r] : d \in doubt'[r]
    BY <1>1, <1>7, <2>1, Typed DEF MarkFailed
  <2>3. QED
    BY <1>2, <1>5, <1>7, <2>2 DEF MarkFailed
<1>8. ASSUME NEW p \in Pollers,
             \/ DispatchFails(p) \/ (\E usable \in BOOLEAN : Dispatch(p, usable))
             \/ PutProject(p) \/ StampRead(p) \/ StampVerify(p) \/ VerifyCommand(p)
             \/ FindTask(p) \/ FindCommand(p) \/ LookCommand(p) \/ LookTask(p)
      PROVE  Grows
  BY <1>2, <1>8
     DEF DispatchFails, Dispatch, PutProject, StampRead, StampVerify, VerifyCommand,
         FindTask, FindCommand, LookCommand, LookTask, records
<1>9. ASSUME NEW p \in Pollers, VerifyProject(p) \/ CrashPoller(p)
      PROVE  Grows
  <2>1. my[p].request \in Requests
    BY <1>9, Called DEF VerifyProject, CrashPoller
  <2>2. QED
    BY <1>2, <1>3, <1>9, <2>1 DEF VerifyProject, CrashPoller, records
<1>10. ASSUME NEW p \in Pollers, CreateTask(p)
       PROVE  Grows
  <2>1. my[p].request \in Requests /\ UNCHANGED <<kind, claim, command, doubt>>
    BY <1>10, Called DEF CreateTask
  <2>2. QED
    BY <1>1, <1>10, <2>1, Created, Called DEF Grows
<1>11. ASSUME NEW p \in Pollers, StampWrite(p)
       PROVE  Grows
  <2>1. my[p].request \in Requests /\ my[p].doc.exists
    BY <1>11, Called DEF StampWrite, CallFits
  <2>2. QED
    BY <1>1, <1>11, <2>1, Typed DEF StampWrite, Grows
<1>12. ASSUME NEW p \in Pollers, PutCommand(p)
       PROVE  Grows
  BY <1>1, <1>12, Called, Typed DEF PutCommand, Grows
<1>13. ASSUME NEW s \in Sweepers, SweepPutCommand(s)
       PROVE  Grows
  BY <1>1, <1>13, Typed DEF SweepPutCommand, Grows
<1>14. ASSUME NEW s \in Sweepers, UpdateWrite(s)
       PROVE  Grows
  <2>1. sweep[s].request \in Requests /\ sweep[s].doc.exists
    BY <1>14 DEF UpdateWrite, RequestInv, CallsFit
  <2>2. QED
    BY <1>1, <1>14, <2>1, Typed DEF UpdateWrite, Grows
<1>15. ASSUME NEW r \in Requests, Take(r)
       PROVE  Grows
  BY <1>1, <1>15, Typed DEF Take, Grows
<1>16. ASSUME NEW s \in Sweepers,
              \/ \E r \in Requests : FindWaiting(s, r)
              \/ (\E usable \in BOOLEAN : Promote(s, usable)) \/ Recheck(s)
              \/ SweepVerifyCommand(s) \/ UpdateRead(s) \/ CrashSweeper(s)
       PROVE  Grows
  BY <1>2, <1>16
     DEF FindWaiting, Promote, Recheck, SweepVerifyCommand, UpdateRead, CrashSweeper, records
<1>17. CASE OtherProjectPut \/ UNCHANGED vars
  BY <1>2, <1>17 DEF OtherProjectPut, vars
<1>18. QED
  BY <1>4, <1>6, <1>7, <1>8, <1>9, <1>10, <1>11, <1>12, <1>13, <1>14, <1>15, <1>16, <1>17, Cases
-----------------------------------------------------------------------------
(* The moves of a call *)

Quits(p) == OnlyCall(p) /\ my'[p] = IdleCall

(* To the next step, with what it knows. *)
GoesOn(p, pc) == OnlyCall(p) /\ Same(p) /\ my'[p].waiting = my[p].waiting /\ my'[p].pc = pc

LEMMA RetryMoves ==
    ASSUME RequestInv, NEW p \in Pollers, RetryFailed(p)
    PROVE  LET r == my[p].request IN
           /\ OnlyCall(p) /\ my'[p].request = r /\ my'[p].own = my[p].own
           /\ my'[p].waiting = my[p].waiting
           /\ \/ /\ CanMark(p) /\ Mark(p, "accepted")
                 /\ my'[p].pc = FirstStep(r) /\ my'[p].retry
                 /\ my'[p].generation = my[p].generation + 1
              \/ claim' = claim /\ GoesOn(p, "lookCommand")
<1> DEFINE r == my[p].request
<1>1. TypeOK /\ r \in Requests /\ my[p] \in Calls
  BY Called DEF RequestInv, RetryFailed
<1>2. CASE CanMark(p)
  <2>1. my[p].generation + 1 \in 0 .. MaxGenerations
    BY <1>1, <1>2, Marks DEF RetryFailed
  <2>2. FirstStep(r) \in PollerPcs
    BY <1>1, FirstSteps DEF PollerPcs, CreatorPcs
  <2> DEFINE m == [my[p] EXCEPT !.pc = FirstStep(r), !.retry = TRUE, !.generation = @ + 1]
  <2>3. my' = [my EXCEPT ![p] = m]
    BY <1>1, <1>2, Typed DEF RetryFailed, Calls
  <2>4. /\ m \in Calls /\ m.request = r /\ m.own = my[p].own /\ m.waiting = my[p].waiting
        /\ m.pc = FirstStep(r) /\ m.retry /\ m.generation = my[p].generation + 1
    BY <1>1, <2>1, <2>2 DEF Calls
  <2> HIDE DEF m
  <2>5. OnlyCall(p) /\ my'[p] = m
    BY <1>1, <2>3, <2>4, CallTyped DEF OnlyCall
  <2>6. QED
    BY <1>2, <2>4, <2>5 DEF RetryFailed
<1>3. CASE ~CanMark(p)
  BY <1>1, <1>3, GotoMoves DEF RetryFailed, GoesOn, Same, PollerPcs
<1>4. QED
  BY <1>2, <1>3

LEMMA DispatchMoves ==
    ASSUME RequestInv, NEW p \in Pollers, NEW usable \in BOOLEAN, Dispatch(p, usable)
    PROVE  /\ OnlyCall(p) /\ Same(p)
           /\ my'[p].pc = IF task[my[p].request].exists THEN "stampRead" ELSE "createTask"
<1>1. TypeOK /\ my[p] \in Calls /\ project \in SUBSET (Requests \cup Others)
  BY Called DEF RequestInv, Dispatch, TypeOK
<1> DEFINE pc == IF task[my[p].request].exists THEN "stampRead" ELSE "createTask"
           m == [my[p] EXCEPT !.waiting = ~usable, !.active = project, !.pc = pc]
<1>2. pc \in PollerPcs
  BY DEF PollerPcs, CreatorPcs
<1>3. my' = [my EXCEPT ![p] = m]
  BY <1>1, Typed DEF Dispatch, Calls
<1> HIDE DEF pc
<1>4. /\ m \in Calls /\ m.request = my[p].request /\ m.own = my[p].own /\ m.retry = my[p].retry
      /\ m.generation = my[p].generation /\ m.pc = pc
  BY <1>1, <1>2 DEF Calls
<1> HIDE DEF m
<1>5. OnlyCall(p) /\ my'[p] = m
  BY <1>1, <1>3, <1>4, CallTyped DEF OnlyCall
<1>6. QED
  BY <1>4, <1>5 DEF Same, pc

LEMMA VerifyProjectMoves ==
    ASSUME RequestInv, NEW p \in Pollers, VerifyProject(p)
    PROVE  Failed(p) \/ GoesOn(p, "stampRead")
<1>1. TypeOK /\ my[p] \in Calls /\ "stampRead" \in PollerPcs
  BY Called DEF RequestInv, VerifyProject, PollerPcs, CreatorPcs
<1>2. CASE Fail(p)
  BY <1>1, <1>2, FailMoves
<1>3. CASE my' = [my EXCEPT ![p].pc = "stampRead", ![p].active = {}]
  <2> DEFINE m == [my[p] EXCEPT !.pc = "stampRead", !.active = {}]
  <2>1. my' = [my EXCEPT ![p] = m]
    BY <1>1, <1>3, Typed DEF Calls
  <2>2. /\ m \in Calls /\ m.request = my[p].request /\ m.own = my[p].own /\ m.retry = my[p].retry
        /\ m.generation = my[p].generation /\ m.pc = "stampRead" /\ m.waiting = my[p].waiting
    BY <1>1 DEF Calls
  <2> HIDE DEF m
  <2>3. OnlyCall(p) /\ my'[p] = m
    BY <1>1, <2>1, <2>2, CallTyped DEF OnlyCall
  <2>4. QED
    BY <2>2, <2>3 DEF Same, GoesOn
<1>4. QED
  BY <1>2, <1>3 DEF VerifyProject

LEMMA StampReadMoves ==
    ASSUME RequestInv, NEW p \in Pollers, StampRead(p)
    PROVE  LET old == task[my[p].request] IN
           /\ GoesOn(p, "stampWrite")
           /\ my'[p].doc.exists = old.exists /\ (Waiting(my'[p].doc) <=> Waiting(old))
           /\ my'[p].doc.scope = my[p].scope /\ my[p].scope \in Scopes \cup {"unset"}
<1>1. TypeOK /\ my[p] \in Calls /\ task[my[p].request] \in TaskDocs /\ "stampWrite" \in PollerPcs
  BY Called DEF RequestInv, StampRead, PollerPcs, CreatorPcs
<1> DEFINE old == task[my[p].request]
           d == [old EXCEPT !.scope = my[p].scope]
           m == [my[p] EXCEPT !.doc = d, !.scope = "unset", !.pc = "stampWrite"]
<1>2. /\ d \in TaskDocs /\ d.exists = old.exists /\ (Waiting(d) <=> Waiting(old))
      /\ d.scope = my[p].scope /\ my[p].scope \in Scopes \cup {"unset"}
  BY <1>1 DEF TaskDocs, Calls, Waiting
<1>3. my' = [my EXCEPT ![p] = m]
  BY <1>1, Typed DEF StampRead, Calls
<1> HIDE DEF d
<1>4. /\ m \in Calls /\ m.request = my[p].request /\ m.own = my[p].own /\ m.retry = my[p].retry
      /\ m.generation = my[p].generation /\ m.pc = "stampWrite" /\ m.waiting = my[p].waiting /\ m.doc = d
  BY <1>1, <1>2 DEF Calls
<1> HIDE DEF m
<1>5. OnlyCall(p) /\ my'[p] = m
  BY <1>1, <1>3, <1>4, CallTyped DEF OnlyCall
<1>6. QED
  BY <1>2, <1>4, <1>5 DEF Same, GoesOn

LEMMA StampVerifyMoves ==
    ASSUME RequestInv, NEW p \in Pollers, StampVerify(p)
    PROVE  Failed(p) \/ GoesOn(p, IF my[p].waiting THEN "markDispatched" ELSE "putCommand")
<1> DEFINE pc == IF my[p].waiting THEN "markDispatched" ELSE "putCommand"
<1>1. TypeOK /\ my[p] \in Calls /\ pc \in PollerPcs /\ NoTask \in TaskDocs
  BY Called, Nulls DEF RequestInv, StampVerify, PollerPcs, CreatorPcs
<1>2. CASE Fail(p)
  BY <1>1, <1>2, FailMoves
<1>3. CASE my' = [my EXCEPT ![p].doc = NoTask, ![p].pc = pc]
  <2> DEFINE m == [my[p] EXCEPT !.doc = NoTask, !.pc = pc]
  <2>1. my' = [my EXCEPT ![p] = m]
    BY <1>1, <1>3, Typed DEF Calls
  <2> HIDE DEF pc
  <2>2. /\ m \in Calls /\ m.request = my[p].request /\ m.own = my[p].own /\ m.retry = my[p].retry
        /\ m.generation = my[p].generation /\ m.pc = pc /\ m.waiting = my[p].waiting
    BY <1>1 DEF Calls
  <2> HIDE DEF m
  <2>3. OnlyCall(p) /\ my'[p] = m
    BY <1>1, <2>1, <2>2, CallTyped DEF OnlyCall
  <2>4. QED
    BY <2>2, <2>3 DEF Same, GoesOn, pc
<1>4. QED
  BY <1>2, <1>3 DEF StampVerify

LEMMA QuitMoves ==
    ASSUME RequestInv, NEW p \in Pollers, Finish(p)
    PROVE  Quits(p)
  BY FinishMoves DEF Quits, RequestInv

LEMMA GotoGoesOn ==
    ASSUME RequestInv, NEW p \in Pollers, NEW pc \in PollerPcs, Goto(p, pc)
    PROVE  GoesOn(p, pc) /\ my'[p].doc = my[p].doc
  BY GotoMoves DEF GoesOn, RequestInv
(* A call goes on or ends and leaves the records as they are. *)
Walks(p) ==
    LET r == my[p].request IN
    /\ my[p].pc # "idle" /\ UNCHANGED <<claim, task, command, sweep>>
    /\ \/ Quits(p)
       \/ my[p].pc \in CreatorPcs /\ Failed(p)
       \/ /\ my[p].pc = "dispatch" /\ OnlyCall(p) /\ Same(p)
          /\ my'[p].pc = IF task[r].exists THEN "stampRead" ELSE "createTask"
       \/ my[p].pc = "putProject" /\ GoesOn(p, "verifyProject")
       \/ my[p].pc = "verifyProject" /\ GoesOn(p, "stampRead")
       \/ /\ my[p].pc = "stampRead" /\ GoesOn(p, "stampWrite")
          /\ my'[p].doc.exists = task[r].exists /\ (Waiting(my'[p].doc) <=> Waiting(task[r]))
       \/ my[p].pc = "stampVerify" /\ GoesOn(p, IF my[p].waiting THEN "markDispatched" ELSE "putCommand")
       \/ my[p].pc = "verifyCommand" /\ GoesOn(p, "markDispatched") /\ kind[r] # "retry"
       \/ my[p].pc = "findTask" /\ GoesOn(p, "findCommand") /\ ~task[r].exists
       \/ my[p].pc = "findCommand" /\ GoesOn(p, "markFailed")
       \/ my[p].pc = "lookCommand" /\ GoesOn(p, "lookTask")
       \/ my[p].pc = "retryCas" /\ GoesOn(p, "lookCommand")

(* The steps of a call that change a record. *)
Reopens(p) ==
    /\ my[p].pc = "retryCas" /\ UNCHANGED <<task, command, sweep, doubt>> /\ CanMark(p) /\ Mark(p, "accepted")
    /\ OnlyCall(p) /\ my'[p].request = my[p].request /\ my'[p].own = my[p].own
    /\ my'[p].waiting = my[p].waiting /\ my'[p].retry
    /\ my'[p].pc = FirstStep(my[p].request) /\ my'[p].generation = my[p].generation + 1

Creates(p) ==
    /\ my[p].pc = "createTask" /\ UNCHANGED <<claim, command, sweep>> /\ CreateTask(p)
    /\ GoesOn(p, "putProject")

Stamps(p) ==
    /\ my[p].pc = "stampWrite" /\ UNCHANGED <<claim, command, sweep>>
    /\ task' = [task EXCEPT ![my[p].request] = my[p].doc]
    /\ GoesOn(p, "stampVerify") /\ my'[p].doc = my[p].doc

Commands(p) ==
    /\ my[p].pc = "putCommand" /\ UNCHANGED <<claim, task, sweep>>
    /\ command' = [command EXCEPT ![my[p].request] = "queued"]
    /\ GoesOn(p, "verifyCommand")

Closes(p) ==
    /\ UNCHANGED <<task, command, sweep>> /\ CanMark(p) /\ Quits(p)
    /\ \/ my[p].pc = "markDispatched" /\ Mark(p, "dispatched")
       \/ /\ my[p].pc = "markFailed" /\ Mark(p, "failed")
          /\ doubt' = [doubt EXCEPT ![my[p].request] = IF my[p].retry THEN @ \cup {"refailed"} ELSE @]

LEMMA PollerKinds ==
    ASSUME RequestInv, NEW p \in Pollers, PollerStep(p) \/ CrashPoller(p)
    PROVE  Walks(p) \/ Reopens(p) \/ Creates(p) \/ Stamps(p) \/ Commands(p) \/ Closes(p)
<1>1. PollerPcs = {"idle", "retryCas", "lookCommand", "lookTask"} \cup CreatorPcs \cup FailurePcs
  BY DEF PollerPcs
<1>2. ASSUME Finish(p), UNCHANGED <<claim, task, command, sweep>>, my[p].pc # "idle"
      PROVE  Walks(p)
  BY <1>2, QuitMoves DEF Walks
<1>3. ASSUME Fail(p), UNCHANGED <<claim, task, command, sweep>>, my[p].pc \in CreatorPcs
      PROVE  Walks(p)
  BY <1>3, FailMoves DEF Walks, RequestInv, CreatorPcs
<1>4. CASE RetryFailed(p)
  BY <1>4, RetryMoves DEF RetryFailed, Walks, Reopens
<1>5. CASE DispatchFails(p)
  BY <1>3, <1>5 DEF DispatchFails, records, CreatorPcs
<1>6. ASSUME NEW usable \in BOOLEAN, Dispatch(p, usable)
      PROVE  Walks(p)
  BY <1>6, DispatchMoves DEF Dispatch, Walks, records
<1>7. CASE CreateTask(p)
  BY <1>1, <1>7, GotoGoesOn DEF CreateTask, Creates, CreatorPcs
<1>8. CASE PutProject(p)
  BY <1>1, <1>8, GotoGoesOn DEF PutProject, Walks, CreatorPcs
<1>9. CASE VerifyProject(p)
  BY <1>9, VerifyProjectMoves DEF VerifyProject, Walks, records, CreatorPcs
<1>10. CASE StampRead(p)
  BY <1>10, StampReadMoves DEF StampRead, Walks, records
<1>11. CASE StampWrite(p)
  BY <1>1, <1>11, GotoGoesOn DEF StampWrite, Stamps, CreatorPcs
<1>12. CASE StampVerify(p)
  BY <1>12, StampVerifyMoves DEF StampVerify, Walks, records, CreatorPcs
<1>13. CASE PutCommand(p)
  BY <1>1, <1>13, GotoGoesOn DEF PutCommand, Commands, CreatorPcs
<1>14. CASE VerifyCommand(p)
  BY <1>1, <1>2, <1>3, <1>14, GotoGoesOn DEF VerifyCommand, Walks, Answer, records, CreatorPcs
<1>15. CASE MarkDispatched(p)
  BY <1>2, <1>15, QuitMoves DEF MarkDispatched, Answer, Closes
<1>16. CASE FindTask(p)
  BY <1>1, <1>2, <1>16, GotoGoesOn DEF FindTask, Walks, records, FailurePcs
<1>17. CASE FindCommand(p)
  BY <1>1, <1>2, <1>17, GotoGoesOn DEF FindCommand, Walks, records, FailurePcs
<1>18. CASE MarkFailed(p)
  <2>1. CASE CanMark(p)
    <3>1. doubt' = [doubt EXCEPT ![my[p].request] = IF my[p].retry THEN @ \cup {"refailed"} ELSE @]
      BY <1>18, <2>1 DEF MarkFailed
    <3>2. QED
      BY <1>18, <2>1, <3>1, QuitMoves DEF MarkFailed, Closes
  <2>2. CASE ~CanMark(p)
    BY <1>2, <1>18, <2>2 DEF MarkFailed
  <2>3. QED
    BY <2>1, <2>2
<1>19. CASE LookCommand(p)
  BY <1>1, <1>2, <1>19, GotoGoesOn DEF LookCommand, Walks, Answer, Refuse, records
<1>20. CASE LookTask(p)
  BY <1>2, <1>20 DEF LookTask, Answer, Refuse, records
<1>21. CASE CrashPoller(p)
  BY <1>2, <1>21 DEF CrashPoller, records
<1>22. QED
  BY <1>4, <1>5, <1>6, <1>7, <1>8, <1>9, <1>10, <1>11, <1>12, <1>13, <1>14, <1>15, <1>16,
     <1>17, <1>18, <1>19, <1>20, <1>21 DEF PollerStep
(* The steps of a sweep. *)
OnlySweep(s) == sweep' \in [Sweepers -> Sweeps] /\ \A t \in Sweepers : t # s => sweep'[t] = sweep[t]

SweepsOn(s, pc) == OnlySweep(s) /\ sweep'[s].request = sweep[s].request /\ sweep'[s].pc = pc

Sweeping(s) ==
    LET r == sweep[s].request IN
    /\ UNCHANGED <<claim, my>>
    /\ \/ UNCHANGED <<task, command>> /\ OnlySweep(s) /\ sweep'[s] = IdleSweep
       \/ /\ UNCHANGED <<task, command>> /\ OnlySweep(s) /\ sweep'[s].pc = "promote"
          /\ \E q \in Requests : sweep'[s].request = q /\ Waiting(task[q]) /\ command[q] = "none"
       \/ UNCHANGED <<task, command>> /\ sweep[s].pc = "promote" /\ SweepsOn(s, "recheck")
       \/ /\ UNCHANGED <<task, command>> /\ sweep[s].pc = "recheck" /\ command[r] = "none"
          /\ SweepsOn(s, "putCommand")
       \/ /\ sweep[s].pc = "putCommand" /\ task' = task
          /\ command' = [command EXCEPT ![r] = "queued"] /\ SweepsOn(s, "verifyCommand")
       \/ UNCHANGED <<task, command>> /\ sweep[s].pc = "verifyCommand" /\ SweepsOn(s, "updateRead")
       \/ /\ UNCHANGED <<task, command>> /\ sweep[s].pc = "updateRead" /\ SweepsOn(s, "updateWrite")
          /\ sweep'[s].doc = [task[r] EXCEPT !.recommended = TRUE]
       \/ /\ sweep[s].pc = "updateWrite" /\ command' = command
          /\ task' = [task EXCEPT ![r] = sweep[s].doc]
          /\ OnlySweep(s) /\ sweep'[s] = IdleSweep

LEMMA SweepGotoOn ==
    ASSUME TypeOK, NEW s \in Sweepers, NEW pc \in SweeperPcs, SweepGoto(s, pc)
    PROVE  SweepsOn(s, pc)
  BY Typed DEF SweepGoto, SweepsOn, OnlySweep, Sweeps

LEMMA SweepStops ==
    ASSUME TypeOK, NEW s \in Sweepers, StopSweep(s)
    PROVE  OnlySweep(s) /\ sweep'[s] = IdleSweep
  BY Typed, Nulls DEF StopSweep, OnlySweep

LEMMA SweeperKinds ==
    ASSUME RequestInv, NEW s \in Sweepers,
           SweeperStep(s) \/ CrashSweeper(s) \/ \E r \in Requests : FindWaiting(s, r)
    PROVE  Sweeping(s)
<1>1. TypeOK
  BY DEF RequestInv
<1>2. ASSUME NEW r \in Requests, FindWaiting(s, r)
      PROVE  Sweeping(s)
  <2> DEFINE m == [pc |-> "promote", request |-> r, doc |-> NoTask]
  <2>1. m \in Sweeps /\ m.pc = "promote" /\ m.request = r
    BY Nulls DEF Sweeps, SweeperPcs
  <2>2. sweep' = [sweep EXCEPT ![s] = m]
    BY <1>2 DEF FindWaiting
  <2> HIDE DEF m
  <2>3. OnlySweep(s) /\ sweep'[s] = m
    BY <1>1, <2>1, <2>2, Typed DEF OnlySweep
  <2>4. QED
    BY <1>2, <2>1, <2>3 DEF FindWaiting, Sweeping, records
<1>3. ASSUME NEW usable \in BOOLEAN, Promote(s, usable)
      PROVE  Sweeping(s)
  BY <1>1, <1>3, SweepGotoOn, SweepStops DEF Promote, Sweeping, records, SweeperPcs
<1>4. CASE Recheck(s)
  BY <1>1, <1>4, SweepGotoOn, SweepStops DEF Recheck, Sweeping, records, SweeperPcs
<1>5. CASE SweepPutCommand(s)
  BY <1>1, <1>5, SweepGotoOn DEF SweepPutCommand, Sweeping, SweeperPcs
<1>6. CASE SweepVerifyCommand(s)
  BY <1>1, <1>6, SweepGotoOn, SweepStops DEF SweepVerifyCommand, Sweeping, records, SweeperPcs
<1>7. CASE UpdateRead(s)
  <2>1. task[sweep[s].request] \in TaskDocs /\ sweep[s] \in Sweeps
    BY <1>1, <1>7, Typed DEF UpdateRead, RequestInv, CallsFit
  <2> DEFINE d == [task[sweep[s].request] EXCEPT !.recommended = TRUE]
             m == [sweep[s] EXCEPT !.pc = "updateWrite", !.doc = d]
  <2>2. d \in TaskDocs
    BY <2>1 DEF TaskDocs
  <2>3. sweep' = [sweep EXCEPT ![s] = m]
    BY <1>1, <1>7, Typed DEF UpdateRead, Sweeps
  <2> HIDE DEF d
  <2>4. m \in Sweeps /\ m.pc = "updateWrite" /\ m.request = sweep[s].request /\ m.doc = d
    BY <2>1, <2>2 DEF Sweeps, SweeperPcs
  <2> HIDE DEF m
  <2>5. OnlySweep(s) /\ sweep'[s] = m
    BY <1>1, <2>3, <2>4, Typed DEF OnlySweep
  <2>6. QED
    BY <1>7, <2>4, <2>5 DEF UpdateRead, Sweeping, SweepsOn, records, d
<1>8. CASE UpdateWrite(s)
  BY <1>1, <1>8, SweepStops DEF UpdateWrite, Sweeping
<1>9. CASE CrashSweeper(s)
  BY <1>1, <1>9, SweepStops DEF CrashSweeper, Sweeping, records
<1>10. QED
  BY <1>2, <1>3, <1>4, <1>5, <1>6, <1>7, <1>8, <1>9 DEF SweeperStep

(* All steps, by what they change. *)
Takes(r) ==
    /\ UNCHANGED <<claim, task, my, sweep>> /\ command[r] = "queued"
    /\ command' = [command EXCEPT ![r] = "taken"]

Idles == UNCHANGED <<claim, task, command, my, sweep>>

LEMMA StepKinds ==
    ASSUME RequestInv, [Next]_vars
    PROVE  \/ \E p \in Pollers, r \in Requests :
               Wins(p, r) \/ Loses(p, r) \/ (Wonders(p, r) /\ "ambiguous" \in doubt'[r])
           \/ \E p \in Pollers :
               Walks(p) \/ Reopens(p) \/ Creates(p) \/ Stamps(p) \/ Commands(p) \/ Closes(p)
           \/ \E s \in Sweepers : Sweeping(s)
           \/ \E r \in Requests : Takes(r)
           \/ Idles
<1>1. TypeOK
  BY DEF RequestInv
<1>2. ASSUME NEW p \in Pollers, NEW r \in Requests, NEW s \in Scopes, AmbiguousClaim(p, r, s)
      PROVE  Wonders(p, r) /\ "ambiguous" \in doubt'[r]
  BY <1>1, <1>2, WonderMoves, Typed
<1>3. ASSUME NEW r \in Requests, Take(r)
      PROVE  Takes(r)
  BY <1>3 DEF Take, Takes
<1>4. CASE OtherProjectPut \/ UNCHANGED vars
  BY <1>4 DEF OtherProjectPut, Idles, vars
<1>5. QED
  BY <1>1, <1>2, <1>3, <1>4, WinMoves, LoseMoves, PollerKinds, SweeperKinds DEF Next, Poll

LEMMA ClaimTyped ==
    ASSUME RequestInv, [Next]_vars
    PROVE  claim' \in [Requests -> Claims]
<1>1. TypeOK /\ claim \in [Requests -> Claims]
  BY Typed DEF RequestInv
<1>2. [status |-> "accepted", generation |-> 1] \in Claims
  BY Nulls DEF Claims
<1>3. ASSUME NEW p \in Pollers, NEW r \in Requests, Wins(p, r) \/ Wonders(p, r)
      PROVE  claim' \in [Requests -> Claims]
  BY <1>1, <1>2, <1>3 DEF Wins, Wonders
<1>4. ASSUME NEW p \in Pollers, Reopens(p) \/ Closes(p)
      PROVE  claim' \in [Requests -> Claims]
  <2>1. my[p].request \in Requests
    BY <1>4, Called DEF Reopens, Closes
  <2>2. QED
    BY <1>1, <1>4, <2>1, Marks DEF Reopens, Closes
<1>5. ASSUME claim' = claim
      PROVE  claim' \in [Requests -> Claims]
  BY <1>1, <1>5
<1>6. QED
  BY <1>3, <1>4, <1>5, StepKinds
     DEF Loses, Walks, Creates, Stamps, Commands, Sweeping, Takes, Idles

LEMMA TaskTyped ==
    ASSUME RequestInv, [Next]_vars
    PROVE  task' \in [Requests -> TaskDocs]
<1>1. TypeOK /\ task \in [Requests -> TaskDocs]
  BY Typed DEF RequestInv
<1>2. ASSUME NEW p \in Pollers, Creates(p)
      PROVE  task' \in [Requests -> TaskDocs]
  BY <1>2, Created DEF Creates
<1>3. ASSUME NEW p \in Pollers, Stamps(p)
      PROVE  task' \in [Requests -> TaskDocs]
  <2>1. my[p].doc \in TaskDocs
    BY <1>3, Called DEF Stamps, Calls
  <2>2. QED
    BY <1>1, <1>3, <2>1 DEF Stamps
<1>4. ASSUME NEW s \in Sweepers, Sweeping(s)
      PROVE  task' \in [Requests -> TaskDocs]
  <2>1. sweep[s].doc \in TaskDocs
    BY <1>1, Typed DEF Sweeps
  <2>2. QED
    BY <1>1, <1>4, <2>1 DEF Sweeping
<1>5. ASSUME task' = task
      PROVE  task' \in [Requests -> TaskDocs]
  BY <1>1, <1>5
<1>6. QED
  BY <1>2, <1>3, <1>4, <1>5, StepKinds
     DEF Wins, Loses, Wonders, Enters, Walks, Reopens, Commands, Closes, Takes, Idles

LEMMA CommandTyped ==
    ASSUME RequestInv, [Next]_vars
    PROVE  command' \in [Requests -> {"none", "queued", "taken"}]
<1>1. TypeOK /\ command \in [Requests -> {"none", "queued", "taken"}]
  BY Typed DEF RequestInv
<1>2. ASSUME NEW r, command' = [command EXCEPT ![r] = "queued"] \/ command' = [command EXCEPT ![r] = "taken"]
      PROVE  command' \in [Requests -> {"none", "queued", "taken"}]
  BY <1>1, <1>2
<1>3. ASSUME command' = command
      PROVE  command' \in [Requests -> {"none", "queued", "taken"}]
  BY <1>1, <1>3
<1>4. QED
  BY <1>2, <1>3, StepKinds
     DEF Wins, Loses, Wonders, Enters, Walks, Reopens, Creates, Stamps, Commands, Closes, Sweeping,
         Takes, Idles

(* The variables no decision reads back: the Project, what was answered, the
   history of faults. *)
LEMMA OthersTyped ==
    ASSUME RequestInv, [Next]_vars
    PROVE  /\ project' \in SUBSET (Requests \cup Others)
           /\ answers' \in [Requests -> SUBSET {"queued", "waiting_quota"}]
           /\ doubt' \in [Requests -> SUBSET {"ambiguous", "refailed", "crashed", "clashed"}]
           /\ faults' \in 0 .. MaxFaults
<1>1. /\ TypeOK /\ project \in SUBSET (Requests \cup Others)
      /\ answers \in [Requests -> SUBSET {"queued", "waiting_quota"}]
      /\ doubt \in [Requests -> SUBSET {"ambiguous", "refailed", "crashed", "clashed"}]
      /\ faults \in 0 .. MaxFaults
  BY Typed DEF RequestInv
<1>2. Fault => faults' \in 0 .. MaxFaults
  BY <1>1, BoundsAreNumbers DEF Fault
<1>3. ASSUME NEW p, NEW what \in {"queued", "waiting_quota"}, Answer(p, what)
      PROVE  answers' \in [Requests -> SUBSET {"queued", "waiting_quota"}]
  BY <1>1, <1>3 DEF Answer
<1>4. ASSUME NEW r, NEW x \in {"ambiguous", "refailed", "crashed", "clashed"},
             doubt' = [doubt EXCEPT ![r] = @ \cup {x}]
      PROVE  doubt' \in [Requests -> SUBSET {"ambiguous", "refailed", "crashed", "clashed"}]
  BY <1>1, <1>4
<1>5. project' \in SUBSET (Requests \cup Others)
  <2>1. ASSUME NEW p \in Pollers, PutProject(p)
        PROVE  project' \in SUBSET (Requests \cup Others)
    <3>1. my[p].request \in Requests /\ my[p].active \in SUBSET (Requests \cup Others)
      BY <2>1, Called DEF PutProject, Calls
    <3>2. QED
      BY <2>1, <3>1 DEF PutProject
  <2>2. OtherProjectPut => project' \in SUBSET (Requests \cup Others)
    BY <1>1 DEF OtherProjectPut
  <2>3. ASSUME project' = project
        PROVE  project' \in SUBSET (Requests \cup Others)
    BY <1>1, <2>3
  <2>4. QED
    BY <2>1, <2>2, <2>3, Cases
       DEF WinClaim, LoseClaim, AmbiguousClaim, RetryFailed, DispatchFails, Dispatch, CreateTask,
           VerifyProject, StampRead, StampWrite, StampVerify, PutCommand, VerifyCommand,
           MarkDispatched, FindTask, FindCommand, MarkFailed, LookCommand, LookTask, CrashPoller,
           FindWaiting, Promote, Recheck, SweepPutCommand, SweepVerifyCommand, UpdateRead,
           UpdateWrite, CrashSweeper, Take, records, vars
<1>6. answers' \in [Requests -> SUBSET {"queued", "waiting_quota"}]
  <2>1. ASSUME answers' = answers
        PROVE  answers' \in [Requests -> SUBSET {"queued", "waiting_quota"}]
    BY <1>1, <2>1
  <2>2. QED
    BY <1>3, <2>1, Cases
       DEF WinClaim, LoseClaim, AmbiguousClaim, RetryFailed, DispatchFails, Dispatch, CreateTask,
           PutProject, VerifyProject, StampRead, StampWrite, StampVerify, PutCommand, VerifyCommand,
           MarkDispatched, FindTask, FindCommand, MarkFailed, LookCommand, LookTask, CrashPoller,
           FindWaiting, Promote, Recheck, SweepPutCommand, SweepVerifyCommand, UpdateRead,
           UpdateWrite, CrashSweeper, Take, OtherProjectPut, Refuse, vars
<1>7. doubt' \in [Requests -> SUBSET {"ambiguous", "refailed", "crashed", "clashed"}]
  <2>1. ASSUME doubt' = doubt
        PROVE  doubt' \in [Requests -> SUBSET {"ambiguous", "refailed", "crashed", "clashed"}]
    BY <1>1, <2>1
  <2>2. ASSUME NEW p \in Pollers, MarkFailed(p)
        PROVE  doubt' \in [Requests -> SUBSET {"ambiguous", "refailed", "crashed", "clashed"}]
    BY <1>1, <2>2 DEF MarkFailed
  <2>3. QED
    BY <1>4, <2>1, <2>2, Cases
       DEF WinClaim, LoseClaim, AmbiguousClaim, RetryFailed, DispatchFails, Dispatch, CreateTask,
           PutProject, VerifyProject, StampRead, StampWrite, StampVerify, PutCommand, VerifyCommand,
           MarkDispatched, FindTask, FindCommand, LookCommand, LookTask, CrashPoller,
           FindWaiting, Promote, Recheck, SweepPutCommand, SweepVerifyCommand, UpdateRead,
           UpdateWrite, CrashSweeper, Take, OtherProjectPut, vars
<1>8. faults' \in 0 .. MaxFaults
  <2>1. ASSUME faults' = faults
        PROVE  faults' \in 0 .. MaxFaults
    BY <1>1, <2>1
  <2>2. QED
    BY <1>2, <2>1, Cases
       DEF WinClaim, LoseClaim, AmbiguousClaim, RetryFailed, DispatchFails, Dispatch, CreateTask,
           PutProject, VerifyProject, StampRead, StampWrite, StampVerify, PutCommand, VerifyCommand,
           MarkDispatched, FindTask, FindCommand, MarkFailed, LookCommand, LookTask, CrashPoller,
           FindWaiting, Promote, Recheck, SweepPutCommand, SweepVerifyCommand, UpdateRead,
           UpdateWrite, CrashSweeper, Take, OtherProjectPut, vars
<1>9. QED
  BY <1>5, <1>6, <1>7, <1>8

LEMMA StepTyped == RequestInv /\ [Next]_vars => TypeOK'
<1> SUFFICES ASSUME RequestInv, [Next]_vars
             PROVE  TypeOK'
  OBVIOUS
<1>1. TypeOK /\ kind' = kind
  BY StepGrows DEF RequestInv, Grows
<1>2. my' \in [Pollers -> Calls]
  BY <1>1, StepKinds, Typed
     DEF Wins, Loses, Wonders, Enters, Walks, Reopens, Creates, Stamps, Commands, Closes, Sweeping,
         Takes, Idles, Quits, GoesOn, Failed, OnlyCall
<1>3. sweep' \in [Sweepers -> Sweeps]
  BY <1>1, StepKinds, Typed
     DEF Wins, Loses, Wonders, Enters, Walks, Reopens, Creates, Stamps, Commands, Closes, Sweeping,
         Takes, Idles, OnlySweep, SweepsOn
<1>4. kind' \in [Requests -> Kinds]
  BY <1>1, Typed
<1>5. QED
  BY <1>2, <1>3, <1>4, ClaimTyped, TaskTyped, CommandTyped, OthersTyped
     DEF TypeOK, Claims, Calls, Sweeps

-----------------------------------------------------------------------------
(* The calls *)

LEMMA PcSets ==
    /\ CreatorPcs = {"dispatch", "createTask", "putProject", "verifyProject", "stampRead",
                     "stampWrite", "stampVerify", "putCommand", "verifyCommand", "markDispatched"}
    /\ FailurePcs = {"findTask", "findCommand", "markFailed"}
    /\ OnTask = {"putProject", "verifyProject", "stampRead", "stampWrite", "stampVerify",
                 "putCommand", "verifyCommand", "markDispatched"}
  BY DEF CreatorPcs, FailurePcs, OnTask

(* What is known of a call outlives the steps of the others. *)
LEMMA KeptFits ==
    ASSUME RequestInv, [Next]_vars, NEW p \in Pollers, my'[p] = my[p], my[p].pc # "idle"
    PROVE  CallFits(p)'
<1>1. Grows /\ CallFits(p) /\ my[p].request \in Requests
  BY StepGrows, Called
<1>2. /\ claim[my[p].request].generation \in Nat /\ my[p].generation \in Nat
      /\ claim'[my[p].request].generation \in Nat
  BY Called, StepTyped, Typed, ClaimTyped, BoundsAreNumbers DEF Claims
<1>3. QED
  BY <1>1, <1>2 DEF Grows, CallFits

LEMMA WalkFits ==
    ASSUME RequestInv, [Next]_vars, NEW p \in Pollers, Walks(p), my'[p].pc # "idle"
    PROVE  CallFits(p)'
<1>1. CallFits(p) /\ kind' = kind /\ my'[p].request = my[p].request /\ TypeOK
  BY Called, StepGrows DEF Walks, Grows, Quits, GoesOn, Failed, Same, IdleCall, RequestInv
<1>2. my[p].request \in Requests /\ UNCHANGED <<claim, task, command>> /\ Same(p)
  BY <1>1, Called DEF Walks, Quits, GoesOn, Failed, IdleCall
<1>3. CASE Failed(p) /\ my[p].pc \in CreatorPcs
  BY <1>1, <1>2, <1>3, PcSets DEF Failed, IdleCall, CallFits, Same
<1>4. CASE my[p].pc = "dispatch" /\ my'[p].pc = IF task[my[p].request].exists THEN "stampRead" ELSE "createTask"
  BY <1>1, <1>2, <1>4, PcSets DEF CallFits, Same
<1>5. CASE \/ my[p].pc = "putProject" /\ GoesOn(p, "verifyProject")
           \/ my[p].pc = "verifyProject" /\ GoesOn(p, "stampRead")
  BY <1>1, <1>2, <1>5, PcSets DEF CallFits, Same, GoesOn
<1>6. CASE my[p].pc = "stampRead" /\ GoesOn(p, "stampWrite") /\ my'[p].doc.exists = task[my[p].request].exists
  BY <1>1, <1>2, <1>6, PcSets DEF CallFits, Same, GoesOn
<1>7. CASE \/ my[p].pc = "stampVerify" /\ GoesOn(p, IF my[p].waiting THEN "markDispatched" ELSE "putCommand")
           \/ my[p].pc = "verifyCommand" /\ GoesOn(p, "markDispatched") /\ kind[my[p].request] # "retry"
  BY <1>1, <1>2, <1>7, PcSets DEF CallFits, Same, GoesOn
<1>8. CASE \/ my[p].pc = "findTask" /\ GoesOn(p, "findCommand")
           \/ my[p].pc = "findCommand" /\ GoesOn(p, "markFailed")
           \/ my[p].pc = "lookCommand" /\ GoesOn(p, "lookTask")
           \/ my[p].pc = "retryCas" /\ GoesOn(p, "lookCommand")
  BY <1>1, <1>2, <1>8, PcSets DEF CallFits, Same, GoesOn
<1>9. ~Quits(p)
  BY DEF Quits, IdleCall
<1>10. QED
  BY <1>3, <1>4, <1>5, <1>6, <1>7, <1>8, <1>9 DEF Walks

LEMMA EnterFits ==
    ASSUME RequestInv, [Next]_vars, NEW p \in Pollers, NEW r \in Requests,
           Wins(p, r) \/ Loses(p, r) \/ Wonders(p, r)
    PROVE  CallFits(p)'
<1>1. /\ Enters(p, r) /\ TypeOK /\ kind' = kind
      /\ \A q \in Requests : kind[q] = "retry" => task[q].exists
  BY StepGrows DEF Grows, Wins, Loses, Wonders, RequestInv, CallsFit
<1>2. claim'[r].generation \in Nat /\ claim'[r] \in Claims
  BY ClaimTyped, BoundsAreNumbers DEF Claims
<1>3. CASE Wins(p, r)
  <2>1. claim'[r] = [status |-> "accepted", generation |-> 1]
    BY <1>1, <1>3, Typed DEF Wins
  <2>2. QED
    BY <1>1, <1>2, <1>3, <2>1, FirstSteps, PcSets DEF Wins, Enters, CallFits
<1>4. CASE Loses(p, r)
  BY <1>1, <1>2, <1>4, PcSets DEF Loses, Enters, CallFits
<1>5. CASE Wonders(p, r)
  BY <1>1, <1>2, <1>5, FirstSteps, PcSets DEF Wonders, Enters, CallFits
<1>6. QED
  BY <1>3, <1>4, <1>5

LEMMA ChangeFits ==
    ASSUME RequestInv, [Next]_vars, NEW p \in Pollers, my'[p].pc # "idle",
           Reopens(p) \/ Creates(p) \/ Stamps(p) \/ Commands(p) \/ Closes(p)
    PROVE  CallFits(p)'
<1>1. CASE Reopens(p)
  <2>1. CallFits(p) /\ kind' = kind /\ TypeOK /\ my[p].request \in Requests
    BY <1>1, Called, StepGrows DEF Reopens, Grows, RequestInv
  <2>2. /\ my[p].generation = claim[my[p].request].generation /\ claim'[my[p].request] # NoClaim
        /\ claim'[my[p].request].status = "accepted" /\ my[p].generation \in Nat
        /\ claim'[my[p].request].generation = claim[my[p].request].generation + 1
    BY <1>1, <2>1, Marks DEF Reopens
  <2>3. kind[my[p].request] # "retry"
    BY <1>1, <2>1 DEF Reopens, CallFits
  <2>4. QED
    BY <1>1, <2>1, <2>2, <2>3, FirstSteps, PcSets DEF Reopens, CallFits
<1>2. CASE Creates(p)
  <2>1. CallFits(p) /\ kind' = kind /\ my[p].request \in Requests
    BY <1>2, Called, StepGrows DEF Creates, Grows
  <2>2. task'[my[p].request].exists
    BY <1>2, <2>1, Created DEF Creates
  <2>3. QED
    BY <1>2, <2>1, <2>2, PcSets DEF Creates, CallFits, GoesOn, Same
<1>3. CASE Stamps(p)
  <2>1. CallFits(p) /\ kind' = kind /\ my[p].request \in Requests /\ TypeOK
    BY <1>3, Called, StepGrows DEF Stamps, Grows, RequestInv
  <2>2. task'[my[p].request].exists /\ my[p].doc.exists
    BY <1>3, <2>1, Typed DEF Stamps, CallFits
  <2>3. QED
    BY <1>3, <2>1, <2>2, PcSets DEF Stamps, CallFits, GoesOn, Same
<1>4. CASE Commands(p)
  <2>1. CallFits(p) /\ kind' = kind /\ my[p].request \in Requests /\ TypeOK
    BY <1>4, Called, StepGrows DEF Commands, Grows, RequestInv
  <2>2. command'[my[p].request] # "none"
    BY <1>4, <2>1, Typed DEF Commands
  <2>3. QED
    BY <1>4, <2>1, <2>2, PcSets DEF Commands, CallFits, GoesOn, Same
<1>5. ~Closes(p)
  BY DEF Closes, Quits, IdleCall
<1>6. QED
  BY <1>1, <1>2, <1>3, <1>4, <1>5

(* The step that moves the call of p. *)
Moving(p) ==
    \/ \E r \in Requests :
         Wins(p, r) \/ Loses(p, r) \/ (Wonders(p, r) /\ "ambiguous" \in doubt'[r])
    \/ Walks(p) \/ Reopens(p) \/ Creates(p) \/ Stamps(p) \/ Commands(p) \/ Closes(p)

LEMMA CallMoves ==
    ASSUME RequestInv, [Next]_vars, NEW p \in Pollers, my'[p] # my[p]
    PROVE  Moving(p)
<1>1. ASSUME NEW q \in Pollers, Moving(q)
      PROVE  OnlyCall(q)
  BY <1>1
     DEF Moving, Wins, Loses, Wonders, Enters, Walks, Reopens, Creates, Stamps, Commands, Closes,
         Quits, GoesOn, Failed
<1>2. \E q \in Pollers : Moving(q)
  BY StepKinds DEF Moving, Sweeping, Takes, Idles
<1>3. QED
  BY <1>1, <1>2 DEF OnlyCall

LEMMA StepPollers ==
    ASSUME RequestInv, [Next]_vars, NEW p \in Pollers, my'[p].pc # "idle"
    PROVE  CallFits(p)'
  BY KeptFits, CallMoves, EnterFits, WalkFits, ChangeFits DEF Moving

LEMMA StepSweepers ==
    ASSUME RequestInv, [Next]_vars, NEW s \in Sweepers, sweep'[s].pc # "idle"
    PROVE  /\ sweep'[s].request \in Requests
           /\ kind'[sweep'[s].request] # "retry" /\ task'[sweep'[s].request].exists
           /\ sweep'[s].pc = "updateWrite" => sweep'[s].doc.exists
<1>1. /\ TypeOK /\ Grows
      /\ sweep[s].pc # "idle" =>
           /\ sweep[s].request \in Requests
           /\ kind[sweep[s].request] # "retry" /\ task[sweep[s].request].exists
           /\ sweep[s].pc = "updateWrite" => sweep[s].doc.exists
      /\ \A r \in Requests : kind[r] = "retry" => task[r].exists /\ task[r].recommended
  BY StepGrows DEF RequestInv, CallsFit
<1>2. CASE sweep'[s] = sweep[s]
  BY <1>1, <1>2 DEF Grows
<1>3. CASE sweep'[s] # sweep[s]
  <2>1. Sweeping(s)
    BY <1>3, StepKinds
       DEF Wins, Loses, Wonders, Enters, Walks, Reopens, Creates, Stamps, Commands, Closes, Sweeping,
           Takes, Idles, OnlySweep, SweepsOn
  <2>2. CASE sweep'[s].pc = "promote" /\ \E q \in Requests : sweep'[s].request = q /\ Waiting(task[q])
    BY <1>1, <2>2 DEF Grows, Waiting
  <2>3. CASE \E pc \in {"recheck", "putCommand", "verifyCommand", "updateRead"} :
               sweep[s].pc # "idle" /\ SweepsOn(s, pc)
    BY <1>1, <2>3 DEF Grows, SweepsOn
  <2>4. CASE /\ sweep[s].pc = "updateRead" /\ SweepsOn(s, "updateWrite")
             /\ sweep'[s].doc = [task[sweep[s].request] EXCEPT !.recommended = TRUE]
    <3>1. task[sweep[s].request] \in TaskDocs
      BY <1>1, <2>4, Typed
    <3>2. sweep'[s].doc.exists
      BY <1>1, <2>4, <3>1 DEF TaskDocs
    <3>3. QED
      BY <1>1, <2>4, <3>2 DEF Grows, SweepsOn
  <2>5. sweep'[s] # IdleSweep
    BY DEF IdleSweep
  <2>6. QED
    BY <2>1, <2>2, <2>3, <2>4, <2>5 DEF Sweeping
<1>4. QED
  BY <1>2, <1>3

(* What a step does to the Task of r. *)
LEMMA TaskMoves ==
    ASSUME RequestInv, [Next]_vars, NEW r \in Requests, task'[r] # task[r]
    PROVE  \/ \E p \in Pollers : my[p].request = r /\ (Creates(p) \/ Stamps(p))
           \/ \E s \in Sweepers : /\ Updating(s, r) /\ OnlySweep(s) /\ sweep'[s] = IdleSweep
                                  /\ task' = [task EXCEPT ![r] = sweep[s].doc]
                                  /\ UNCHANGED <<my, claim, command>>
<1>1. TypeOK
  BY DEF RequestInv
<1>2. ASSUME NEW p \in Pollers, Creates(p)
      PROVE  my[p].request = r
  BY <1>2, Created DEF Creates
<1>3. ASSUME NEW p \in Pollers, Stamps(p)
      PROVE  my[p].request = r
  BY <1>1, <1>3, Typed DEF Stamps
<1>4. ASSUME NEW s \in Sweepers, Sweeping(s)
      PROVE  /\ Updating(s, r) /\ OnlySweep(s) /\ sweep'[s] = IdleSweep
             /\ task' = [task EXCEPT ![r] = sweep[s].doc]
             /\ UNCHANGED <<my, claim, command>>
  BY <1>1, <1>4, Typed DEF Sweeping, Updating
<1>5. QED
  BY <1>2, <1>3, <1>4, StepKinds
     DEF Wins, Loses, Wonders, Enters, Walks, Reopens, Commands, Closes, Takes, Idles

LEMMA StepRetries ==
    ASSUME RequestInv, [Next]_vars, NEW r \in Requests, kind[r] = "retry"
    PROVE  task'[r] = task[r]
<1>1. ASSUME NEW p \in Pollers, my[p].request = r
      PROVE  ~Creates(p) /\ ~Stamps(p)
  BY <1>1, Called DEF Creates, Stamps, CallFits
<1>2. ASSUME NEW s \in Sweepers
      PROVE  ~Updating(s, r)
  BY <1>2 DEF Updating, RequestInv, CallsFit
<1>3. QED
  BY <1>1, <1>2, TaskMoves

LEMMA StepCalls == RequestInv /\ [Next]_vars => CallsFit'
<1> SUFFICES ASSUME RequestInv, [Next]_vars
             PROVE  CallsFit'
  OBVIOUS
<1>1. CallsFit /\ Grows
  BY StepGrows DEF RequestInv
<1>2. \A r \in Requests : task'[r].exists \/ task'[r] = NoTask
  BY <1>1 DEF CallsFit, Grows
<1>3. \A r \in Requests : kind'[r] = "retry" => task'[r].exists /\ task'[r].recommended
  BY <1>1, StepRetries DEF CallsFit, Grows
<1>4. \A p \in Pollers : my'[p].pc # "idle" => CallFits(p)'
  BY StepPollers
<1>5. QED
  BY <1>2, <1>3, <1>4, StepSweepers DEF CallsFit

-----------------------------------------------------------------------------
(* The owner of a claim *)

OwnerFits(r) ==
    /\ \A p, q \in Pollers : Owning(p, r) /\ Owning(q, r) => p = q
    /\ \A p \in Pollers : Owning(p, r) =>
         /\ my[p].own \/ my[p].retry
         /\ claim[r].status = "accepted" /\ my[p].generation = claim[r].generation
         /\ my[p].pc \in {"findCommand", "markFailed"} /\ ~my[p].retry => ~task[r].exists

LEMMA Owners == OwnersFit <=> \A r \in Requests : "ambiguous" \notin doubt[r] => OwnerFits(r)
  BY DEF OwnersFit, OwnerFits

LEMMA Owned ==
    ASSUME RequestInv, NEW p \in Pollers, NEW r \in Requests, Owning(p, r)
    PROVE  my[p].pc # "idle" /\ CallFits(p) /\ claim[r] # NoClaim
<1>1. my[p].pc # "idle"
  BY PcSets DEF Owning
<1>2. QED
  BY <1>1, Called DEF Owning, CallFits

(* No call becomes the owner of r, and nothing of r changes under it. *)
LEMMA KeptOwner ==
    ASSUME NEW r \in Requests, OwnerFits(r), claim'[r] = claim[r],
           \A p \in Pollers : Owning(p, r)' =>
             /\ Owning(p, r) /\ Same(p)
             /\ my'[p].pc \in {"findCommand", "markFailed"} /\ ~my'[p].retry =>
                  ~task'[r].exists
    PROVE  OwnerFits(r)'
  BY DEF OwnerFits, Owning, Same

(* Exactly one call owns r, and it has just begun to create. *)
LEMMA NewOwner ==
    ASSUME NEW r \in Requests, NEW p \in Pollers,
           \A q \in Pollers : q # p => ~Owning(q, r)',
           my'[p].own \/ my'[p].retry, my'[p].pc \notin {"findCommand", "markFailed"},
           claim'[r].status = "accepted", my'[p].generation = claim'[r].generation
    PROVE  OwnerFits(r)'
  BY DEF OwnerFits

LEMMA StepOwner ==
    ASSUME RequestInv, [Next]_vars, NEW r \in Requests, "ambiguous" \notin doubt'[r]
    PROVE  OwnerFits(r)'
<1>1. Grows /\ TypeOK /\ OwnerFits(r)
  BY StepGrows, Owners DEF Grows, RequestInv
<1>2. ASSUME NEW p \in Pollers, OnlyCall(p)
      PROVE  \A q \in Pollers : q # p => my'[q] = my[q] /\ Same(q) /\ (Owning(q, r)' <=> Owning(q, r))
  BY <1>2 DEF OnlyCall, Same, Owning
<1>3. ASSUME my' = my, claim' = claim, task'[r].exists => task[r].exists
      PROVE  OwnerFits(r)'
  BY <1>1, <1>3 DEF OwnerFits, Owning
<1>4. ASSUME NEW p \in Pollers, NEW x \in Requests, Wins(p, x)
      PROVE  OwnerFits(r)'
  <2>1. OnlyCall(p) /\ task' = task
    BY <1>4 DEF Wins, Enters
  <2>2. CASE x = r
    <3>1. \A q \in Pollers : ~Owning(q, r)
      BY <1>4, <2>2, Owned DEF Wins
    <3>2. claim'[r].status = "accepted"
      BY <1>1, <1>4, <2>2, Typed DEF Wins
    <3>3. my'[p].pc \notin {"findCommand", "markFailed"}
      BY <1>1, <1>4, FirstSteps DEF Wins
    <3>4. QED
      BY <1>2, <1>4, <2>1, <2>2, <3>1, <3>2, <3>3, NewOwner DEF Wins, Enters
  <2>3. CASE x # r
    <3>1. claim'[r] = claim[r] /\ ~Owning(p, r)'
      BY <1>1, <1>4, <2>3, Typed DEF Wins, Enters, Owning
    <3>2. QED
      BY <1>1, <1>2, <2>1, <3>1, KeptOwner DEF OwnerFits
  <2>4. QED
    BY <2>2, <2>3
<1>5. ASSUME NEW p \in Pollers, NEW x \in Requests, Loses(p, x)
      PROVE  OwnerFits(r)'
  <2>1. OnlyCall(p) /\ task' = task /\ claim'[r] = claim[r]
    BY <1>5 DEF Loses, Enters
  <2>2. ~Owning(p, r)'
    BY <1>5, PcSets DEF Loses, Owning
  <2>3. QED
    BY <1>1, <1>2, <2>1, <2>2, KeptOwner DEF OwnerFits
<1>6. ASSUME NEW p \in Pollers, NEW x \in Requests, Wonders(p, x), "ambiguous" \in doubt'[x]
      PROVE  OwnerFits(r)'
  <2>1. OnlyCall(p) /\ task' = task /\ x # r
    BY <1>6 DEF Wonders, Enters
  <2>2. claim'[r] = claim[r] /\ ~Owning(p, r)'
    BY <1>1, <1>6, <2>1, Typed DEF Wonders, Enters, Owning
  <2>3. QED
    BY <1>1, <1>2, <2>1, <2>2, KeptOwner DEF OwnerFits
<1>7. ASSUME NEW p \in Pollers, Walks(p)
      PROVE  OwnerFits(r)'
  <2>1. OnlyCall(p) /\ task' = task /\ claim' = claim
    BY <1>7 DEF Walks, Quits, GoesOn, Failed
  <2>2. CASE Quits(p)
    <3>1. ~Owning(p, r)'
      BY <2>2, PcSets DEF Quits, IdleCall, Owning
    <3>2. QED
      BY <1>1, <1>2, <2>1, <3>1, KeptOwner DEF OwnerFits
  <2>3. CASE ~Quits(p)
    <3>1. Same(p)
      BY <1>7, <2>3 DEF Walks, Failed, GoesOn, Quits
    <3>2. Owning(p, r)' => Owning(p, r)
      BY <1>7, <2>3, <3>1, PcSets DEF Walks, Failed, GoesOn, Quits, Owning, Same
    <3>3. Owning(p, r)' /\ my'[p].pc \in {"findCommand", "markFailed"} /\ ~my'[p].retry => ~task'[r].exists
      BY <1>1, <1>7, <2>1, <2>3, <3>1, <3>2, PcSets
         DEF Walks, Failed, GoesOn, Quits, Owning, Same, OwnerFits
    <3>4. QED
      BY <1>1, <1>2, <2>1, <3>1, <3>2, <3>3, KeptOwner DEF OwnerFits
  <2>4. QED
    BY <2>2, <2>3
<1>8. ASSUME NEW p \in Pollers, Reopens(p)
      PROVE  OwnerFits(r)'
  <2> DEFINE x == my[p].request
  <2>1. /\ x \in Requests /\ CallFits(p) /\ OnlyCall(p) /\ UNCHANGED <<task, doubt>>
    BY <1>8, Called DEF Reopens
  <2>2. /\ my[p].generation = claim[x].generation /\ claim'[x].status = "accepted"
        /\ claim'[x].generation = my[p].generation + 1
        /\ \A q \in Requests : q # x => claim'[q] = claim[q]
    BY <1>1, <1>8, <2>1, Marks DEF Reopens
  <2>3. CASE x = r
    <3>1. claim[r].status = "failed"
      BY <1>8, <2>1, <2>2, <2>3 DEF Reopens, CallFits
    <3>2. \A q \in Pollers : ~Owning(q, r)
      BY <1>1, <3>1 DEF OwnerFits
    <3>3. my'[p].pc \notin {"findCommand", "markFailed"}
      BY <1>1, <1>8, <2>1, FirstSteps DEF Reopens
    <3>4. QED
      BY <1>2, <1>8, <2>1, <2>2, <2>3, <3>2, <3>3, NewOwner DEF Reopens
  <2>4. CASE x # r
    <3>1. claim'[r] = claim[r] /\ ~Owning(p, r)'
      BY <1>8, <2>2, <2>4 DEF Reopens, Owning
    <3>2. QED
      BY <1>1, <1>2, <2>1, <3>1, KeptOwner DEF OwnerFits
  <2>5. QED
    BY <2>3, <2>4
<1>9. ASSUME NEW p \in Pollers, Creates(p) \/ Stamps(p) \/ Commands(p)
      PROVE  OwnerFits(r)'
  <2>1. /\ OnlyCall(p) /\ Same(p) /\ claim' = claim /\ my[p].pc \in CreatorPcs
        /\ my'[p].pc \in {"putProject", "stampVerify", "verifyCommand"}
    BY <1>9, PcSets DEF Creates, Stamps, Commands, GoesOn
  <2>2. Owning(p, r)' => Owning(p, r)
    BY <2>1 DEF Owning, Same
  <2>3. ASSUME NEW q \in Pollers, q # p, Owning(q, r)', my'[q].pc \in {"findCommand", "markFailed"}, ~my'[q].retry
        PROVE  ~task'[r].exists
    <3>1. Owning(q, r) /\ ~task[r].exists /\ my[p].request # r
      BY <1>1, <1>2, <2>1, <2>3 DEF OwnerFits, Owning
    <3>2. task'[r] = task[r]
      <4>1. Owning(q, r) /\ ~Owning(p, r)
        BY <3>1 DEF Owning
      <4>2. CASE Creates(p)
        BY <3>1, <4>2, Created DEF Creates
      <4>3. CASE Stamps(p)
        BY <1>1, <3>1, <4>3, Typed DEF Stamps
      <4>4. CASE Commands(p)
        BY <4>4 DEF Commands
      <4>5. QED
        BY <1>9, <4>2, <4>3, <4>4
    <3>3. QED
      BY <3>1, <3>2
  <2>4. QED
    BY <1>1, <1>2, <2>1, <2>2, <2>3, KeptOwner DEF Same
<1>10. ASSUME NEW p \in Pollers, Closes(p)
       PROVE  OwnerFits(r)'
  <2>1. OnlyCall(p) /\ task' = task /\ ~Owning(p, r)' /\ my[p].pc \in {"markDispatched", "markFailed"}
    BY <1>10, PcSets DEF Closes, Quits, Owning, IdleCall
  <2>2. CASE my[p].request = r
    <3>1. \A q \in Pollers : ~Owning(q, r)'
      BY <1>1, <1>2, <2>1, <2>2, PcSets DEF OwnerFits, Owning
    <3>2. QED
      BY <3>1 DEF OwnerFits
  <2>3. CASE my[p].request # r
    <3>1. my[p].request \in Requests
      BY <2>1, Called
    <3>2. claim'[r] = claim[r]
      BY <1>1, <1>10, <2>3, <3>1, Marks DEF Closes
    <3>3. QED
      BY <1>1, <1>2, <2>1, <3>2, KeptOwner DEF OwnerFits
  <2>4. QED
    BY <2>2, <2>3
<1>11. ASSUME NEW s \in Sweepers, Sweeping(s)
       PROVE  OwnerFits(r)'
  <2>1. task'[r].exists => task[r].exists
    <3>1. CASE task'[r] = task[r]
      BY <3>1
    <3>2. CASE task' = [task EXCEPT ![sweep[s].request] = sweep[s].doc] /\ sweep[s].pc = "updateWrite"
      BY <1>1, <3>2, Typed DEF RequestInv, CallsFit
    <3>3. QED
      BY <1>11, <3>1, <3>2 DEF Sweeping
  <2>2. QED
    BY <1>3, <1>11, <2>1 DEF Sweeping
<1>12. QED
  BY <1>3, <1>4, <1>5, <1>6, <1>7, <1>8, <1>9, <1>10, <1>11, StepKinds DEF Takes, Idles

LEMMA StepOwners == RequestInv /\ [Next]_vars => OwnersFit'
<1> SUFFICES ASSUME RequestInv, [Next]_vars
             PROVE  OwnersFit'
  OBVIOUS
<1>1. \A r \in Requests : "ambiguous" \notin doubt'[r] => OwnerFits(r)'
  BY StepOwner
<1>2. QED
  BY <1>1 DEF OwnersFit, OwnerFits

-----------------------------------------------------------------------------
(* What the owner of a claim creates *)

Made(p, r) ==
    /\ my[p].pc \in {"dispatch", "createTask"} => ~task[r].exists
    /\ my[p].pc \in Uncommanded /\ ~my[p].waiting =>
         /\ ~Waiting(task[r]) /\ command[r] = "none"
         /\ my[p].pc \in {"stampWrite", "stampVerify"} => ~Waiting(my[p].doc)
         /\ \A s \in Sweepers : ~Promoting(s, r)
    /\ my[p].pc \in Unstamped =>
         /\ task[r].scope = "unset"
         /\ \A s \in Sweepers : Updating(s, r) => sweep[s].doc.scope = "unset"

OneContract(r) ==
    \E contract \in Scopes \cup {"unset"} :
         /\ task[r].scope \in {"unset", contract}
         /\ \A s \in Sweepers : Updating(s, r) => sweep[s].doc.scope \in {"unset", contract}

LEMMA Creations ==
    CreatedOnce <=> \A r \in Requests : Definite(r) =>
                      /\ \A p \in Pollers : Owning(p, r) => Made(p, r)
                      /\ OneContract(r)
  BY DEF CreatedOnce, Made, OneContract

LEMMA StepSets ==
    /\ Unstamped = {"dispatch", "createTask", "putProject", "verifyProject", "stampRead", "stampWrite"}
    /\ Uncommanded = {"dispatch", "createTask", "putProject", "verifyProject", "stampRead", "stampWrite",
                      "stampVerify", "putCommand"}
  BY DEF Unstamped, Uncommanded

LEMMA Definites ==
    ASSUME RequestInv, [Next]_vars, NEW r \in Requests, Definite(r)'
    PROVE  Definite(r) /\ "ambiguous" \notin doubt[r] /\ "ambiguous" \notin doubt'[r] /\ "refailed" \notin doubt'[r]
  BY StepGrows DEF Definite, Grows

(* Without a Task there is nothing else of r. *)
LEMMA Blank ==
    ASSUME RequestInv, NEW r \in Requests, ~task[r].exists
    PROVE  /\ task[r] = NoTask /\ task[r].scope = "unset" /\ ~Waiting(task[r]) /\ command[r] = "none"
           /\ \A s \in Sweepers : ~Promoting(s, r) /\ ~Updating(s, r)
           /\ kind[r] # "retry"
<1>1. task[r] = NoTask /\ command[r] = "none" /\ kind[r] # "retry"
  BY DEF RequestInv, CallsFit, BackedByRecords
<1>2. ASSUME NEW s \in Sweepers
      PROVE  ~Promoting(s, r) /\ ~Updating(s, r)
  BY DEF RequestInv, CallsFit, Promoting, Updating
<1>3. QED
  BY <1>1, <1>2 DEF NoTask, Waiting

(* What a step does to the sweeps on r, and to its Command. *)
LEMMA SweepMoves ==
    ASSUME RequestInv, [Next]_vars, NEW s \in Sweepers, sweep'[s] # sweep[s]
    PROVE  Sweeping(s)
  BY StepKinds
     DEF Wins, Loses, Wonders, Enters, Walks, Reopens, Creates, Stamps, Commands, Closes, Sweeping,
         Takes, Idles, OnlySweep, SweepsOn

LEMMA Promotions ==
    ASSUME RequestInv, [Next]_vars, NEW r \in Requests, NEW s \in Sweepers, Promoting(s, r)'
    PROVE  Promoting(s, r) \/ (Waiting(task[r]) /\ command[r] = "none" /\ UNCHANGED <<my, task>>)
<1>1. CASE sweep'[s] = sweep[s]
  BY <1>1 DEF Promoting
<1>2. CASE sweep'[s] # sweep[s]
  <2>1. Sweeping(s) /\ sweep'[s].pc # "idle" /\ sweep'[s].request = r
    BY <1>2, SweepMoves DEF Promoting
  <2>2. sweep'[s] # IdleSweep
    BY <2>1 DEF IdleSweep
  <2>3. CASE UNCHANGED <<task, command>> /\ \E q \in Requests : sweep'[s].request = q /\ Waiting(task[q]) /\ command[q] = "none"
    BY <2>1, <2>3 DEF Sweeping
  <2>4. CASE sweep[s].pc # "idle" /\ \E pc \in SweeperPcs : SweepsOn(s, pc)
    BY <2>1, <2>4 DEF SweepsOn, Promoting
  <2>5. QED
    BY <2>1, <2>2, <2>3, <2>4 DEF Sweeping, SweeperPcs
<1>3. QED
  BY <1>1, <1>2

LEMMA Updates ==
    ASSUME RequestInv, [Next]_vars, NEW r \in Requests, NEW s \in Sweepers, Updating(s, r)'
    PROVE  \/ Updating(s, r) /\ sweep'[s].doc = sweep[s].doc
           \/ Promoting(s, r) /\ sweep'[s].doc.scope = task[r].scope /\ UNCHANGED <<my, task, command>>
<1>1. CASE sweep'[s] = sweep[s]
  BY <1>1 DEF Updating
<1>2. CASE sweep'[s] # sweep[s]
  <2>1. /\ sweep[s].pc = "updateRead" /\ SweepsOn(s, "updateWrite") /\ UNCHANGED <<my, task, command>>
        /\ sweep'[s].doc = [task[sweep[s].request] EXCEPT !.recommended = TRUE]
    BY <1>2, SweepMoves DEF Sweeping, SweepsOn, Updating, IdleSweep
  <2>2. sweep[s].request = r /\ task[r] \in TaskDocs
    BY <2>1, Typed DEF SweepsOn, Updating, RequestInv
  <2>3. QED
    BY <2>1, <2>2 DEF TaskDocs, Promoting
<1>3. QED
  BY <1>1, <1>2

LEMMA CommandMoves ==
    ASSUME RequestInv, [Next]_vars, NEW r \in Requests, command'[r] # command[r]
    PROVE  \/ \E p \in Pollers : my[p].request = r /\ Commands(p)
           \/ \E s \in Sweepers : sweep[s].request = r /\ sweep[s].pc = "putCommand" /\ Sweeping(s)
           \/ command[r] = "queued" /\ UNCHANGED <<claim, task, my, sweep>>
<1>1. TypeOK
  BY DEF RequestInv
<1>2. ASSUME NEW p \in Pollers, Commands(p)
      PROVE  my[p].request = r
  BY <1>1, <1>2, Typed DEF Commands
<1>3. ASSUME NEW s \in Sweepers, Sweeping(s)
      PROVE  sweep[s].request = r /\ sweep[s].pc = "putCommand"
  BY <1>1, <1>3, Typed DEF Sweeping
<1>4. ASSUME NEW x \in Requests, Takes(x)
      PROVE  command[r] = "queued" /\ UNCHANGED <<claim, task, my, sweep>>
  BY <1>1, <1>4, Typed DEF Takes
<1>5. QED
  BY <1>2, <1>3, <1>4, StepKinds
     DEF Wins, Loses, Wonders, Enters, Walks, Reopens, Creates, Stamps, Closes, Idles

(* The steps of the others leave what the owner made as it was. *)
LEMMA KeptMade ==
    ASSUME RequestInv, [Next]_vars, NEW r \in Requests, Definite(r)',
           NEW p \in Pollers, Owning(p, r), my'[p] = my[p]
    PROVE  Made(p, r)'
<1>1. Definite(r) /\ Made(p, r) /\ TypeOK
  BY Definites, Creations DEF RequestInv
<1>2. ASSUME NEW q \in Pollers, my[q].request = r, Creates(q) \/ Stamps(q) \/ Commands(q)
      PROVE  FALSE
  <2>1. Owning(q, r) /\ my'[q] # my[q]
    BY <1>2, PcSets DEF Creates, Stamps, Commands, Owning, GoesOn
  <2>2. q = p
    BY <1>1, <2>1, Definites DEF RequestInv, OwnersFit
  <2>3. QED
    BY <2>1, <2>2
<1>3. ASSUME my[p].pc \in {"dispatch", "createTask"}
      PROVE  ~task'[r].exists
  <2>1. \A s \in Sweepers : ~Updating(s, r)
    BY <1>1, <1>3, Blank DEF Made
  <2>2. task'[r] = task[r]
    BY <1>2, <2>1, TaskMoves
  <2>3. QED
    BY <1>1, <1>3, <2>2 DEF Made
<1>4. ASSUME my[p].pc \in Uncommanded, ~my[p].waiting
      PROVE  /\ ~Waiting(task'[r]) /\ command'[r] = "none"
             /\ my[p].pc \in {"stampWrite", "stampVerify"} => ~Waiting(my[p].doc)
             /\ \A s \in Sweepers : ~Promoting(s, r)'
  <2>1. /\ ~Waiting(task[r]) /\ command[r] = "none"
        /\ my[p].pc \in {"stampWrite", "stampVerify"} => ~Waiting(my[p].doc)
        /\ \A s \in Sweepers : ~Promoting(s, r) /\ ~Updating(s, r)
    BY <1>1, <1>4 DEF Made, Promoting, Updating
  <2>2. task'[r] = task[r]
    BY <1>2, <2>1, TaskMoves
  <2>3. command'[r] = "none"
    BY <1>2, <2>1, CommandMoves DEF Promoting
  <2>4. QED
    BY <2>1, <2>2, <2>3, Promotions
<1>5. ASSUME my[p].pc \in Unstamped
      PROVE  /\ task'[r].scope = "unset"
             /\ \A s \in Sweepers : Updating(s, r)' => sweep'[s].doc.scope = "unset"
  <2>1. task[r].scope = "unset" /\ \A s \in Sweepers : Updating(s, r) => sweep[s].doc.scope = "unset"
    BY <1>1, <1>5 DEF Made
  <2>2. task'[r].scope = "unset"
    <3>1. CASE task'[r] = task[r]
      BY <2>1, <3>1
    <3>2. ASSUME NEW s \in Sweepers, Updating(s, r), task' = [task EXCEPT ![r] = sweep[s].doc]
          PROVE  task'[r].scope = "unset"
      BY <1>1, <2>1, <3>2, Typed
    <3>3. QED
      BY <1>2, <3>1, <3>2, TaskMoves
  <2>3. QED
    BY <2>1, <2>2, Updates
<1>6. QED
  BY <1>3, <1>4, <1>5 DEF Made

LEMMA MovedMade ==
    ASSUME RequestInv, [Next]_vars, NEW r \in Requests, Definite(r)',
           NEW p \in Pollers, Owning(p, r)', my'[p] # my[p]
    PROVE  Made(p, r)'
<1>1. /\ Definite(r) /\ TypeOK /\ kind' = kind /\ my'[p].request = r
      /\ Owning(p, r) => Made(p, r)
  BY Definites, Creations, StepGrows DEF RequestInv, Grows, Owning
<1>2. ASSUME ~task[r].exists, UNCHANGED <<task, command, sweep>>,
             my'[p].pc \notin {"stampWrite", "stampVerify"}
      PROVE  Made(p, r)'
  BY <1>2, Blank DEF Made, Waiting, Promoting, Updating
<1>3. CASE Wins(p, r)
  <2>1. claim[r] = NoClaim /\ UNCHANGED <<task, command, sweep>> /\ my'[p].pc = FirstStep(r) /\ ~my'[p].waiting
    BY <1>3 DEF Wins, Enters
  <2>2. CASE kind[r] = "retry"
    <3>1. command[r] = "none" /\ task[r].recommended /\ \A s \in Sweepers : ~Promoting(s, r)
      BY <2>1, <2>2 DEF RequestInv, BackedByRecords, CallsFit, Promoting
    <3>2. my'[p].pc = "putCommand"
      BY <1>1, <2>1, <2>2, FirstSteps
    <3>3. QED
      BY <2>1, <3>1, <3>2, StepSets DEF Made, Waiting, Promoting
  <2>3. CASE kind[r] # "retry"
    <3>1. ~task[r].exists
      BY <2>1, <2>3 DEF RequestInv, BackedByRecords
    <3>2. QED
      BY <1>1, <1>2, <2>1, <3>1, FirstSteps
  <2>4. QED
    BY <2>2, <2>3
<1>4. CASE Walks(p)
  <2>1. ~Quits(p) /\ Same(p) /\ UNCHANGED <<claim, task, command, sweep>>
    BY <1>1, <1>4, PcSets DEF Walks, Quits, GoesOn, Failed, Owning, IdleCall
  <2>2. Owning(p, r) /\ Made(p, r)
    BY <1>1, <1>4, <2>1, PcSets DEF Walks, Quits, GoesOn, Failed, Owning, Same, IdleCall
  <2>3. CASE Failed(p)
    BY <2>1, <2>3, PcSets, StepSets DEF Failed, Quits, Made
  <2>4. CASE my[p].pc = "dispatch" /\ my'[p].pc = IF task[r].exists THEN "stampRead" ELSE "createTask"
    BY <1>2, <2>1, <2>2, <2>4 DEF Made
  <2>5. CASE \/ my[p].pc = "putProject" /\ GoesOn(p, "verifyProject")
             \/ my[p].pc = "verifyProject" /\ GoesOn(p, "stampRead")
             \/ my[p].pc = "stampVerify" /\ GoesOn(p, IF my[p].waiting THEN "markDispatched" ELSE "putCommand")
    BY <2>1, <2>2, <2>5, StepSets DEF Made, GoesOn, Promoting, Updating, Waiting
  <2>6. CASE /\ my[p].pc = "stampRead" /\ GoesOn(p, "stampWrite")
             /\ Waiting(my'[p].doc) <=> Waiting(task[r])
    BY <2>1, <2>2, <2>6, StepSets DEF Made, GoesOn, Promoting, Updating, Waiting
  <2>7. CASE my'[p].pc \in {"markDispatched", "findCommand", "markFailed", "lookTask", "lookCommand"}
    BY <2>7, StepSets DEF Made
  <2>8. my[p].request = r
    BY <2>2 DEF Owning
  <2>9. QED
    BY <1>4, <2>1, <2>3, <2>4, <2>5, <2>6, <2>7, <2>8 DEF Walks, GoesOn
<1>5. CASE Reopens(p)
  <2>1. my[p].request = r /\ my[p].pc # "idle" /\ UNCHANGED <<task, command, sweep>>
    BY <1>1, <1>5 DEF Reopens
  <2>2. CallFits(p) /\ my[p].generation = claim[r].generation
    BY <2>1, <1>1, <1>5, Called, Marks DEF Reopens
  <2>3. claim[r].status = "failed"
    BY <1>5, <2>1, <2>2 DEF Reopens, CallFits
  <2>4. ~task[r].exists
    BY <1>1, <2>3 DEF RequestInv, OwnerFailsTruthfully, Definite
  <2>5. QED
    BY <1>1, <1>2, <1>5, <2>1, <2>4, FirstSteps DEF Reopens
<1>6. CASE Creates(p)
  <2>1. my[p].request = r /\ Same(p) /\ my'[p].waiting = my[p].waiting /\ my'[p].pc = "putProject"
        /\ UNCHANGED <<command, sweep>>
    BY <1>1, <1>6 DEF Creates, GoesOn, Same
  <2>2. Owning(p, r)
    BY <1>6, <2>1, PcSets DEF Creates, Owning
  <2>3. ~task[r].exists
    BY <1>1, <1>6, <2>2 DEF Made, Creates
  <2>4. task'[r].scope = "unset" /\ (~my[p].waiting => ~Waiting(task'[r]))
    BY <1>6, <2>1, Created DEF Creates
  <2>5. QED
    BY <2>1, <2>3, <2>4, Blank DEF Made, Promoting, Updating, Waiting
<1>7. CASE Stamps(p)
  <2>1. /\ my[p].request = r /\ my'[p].waiting = my[p].waiting /\ my'[p].pc = "stampVerify"
        /\ my[p].pc = "stampWrite" /\ my'[p].doc = my[p].doc /\ UNCHANGED <<command, sweep>>
    BY <1>1, <1>7 DEF Stamps, GoesOn, Same
  <2>2. Made(p, r) /\ task'[r] = my[p].doc
    BY <1>1, <1>7, <2>1, PcSets, Typed DEF Stamps, Owning
  <2>3. QED
    BY <2>1, <2>2, StepSets DEF Made, Promoting, Updating, Waiting
<1>8. CASE Commands(p)
  BY <1>8, StepSets DEF Commands, GoesOn, Made
<1>9. ~Closes(p) /\ \A x \in Requests : ~Loses(p, x)
  BY PcSets DEF Closes, Quits, IdleCall, Loses, Owning
<1>10. ASSUME NEW x \in Requests, Wins(p, x) \/ (Wonders(p, x) /\ "ambiguous" \in doubt'[x])
       PROVE  x = r /\ Wins(p, r)
  BY <1>1, <1>10, Definites DEF Wins, Wonders, Enters
<1>11. QED
  BY <1>3, <1>4, <1>5, <1>6, <1>7, <1>8, <1>9, <1>10, CallMoves DEF Moving

(* The write contract of r is one: that of its Task, or of the stamp. *)
LEMMA StepContract ==
    ASSUME RequestInv, [Next]_vars, NEW r \in Requests, Definite(r)'
    PROVE  OneContract(r)'
<1>1. Definite(r) /\ OneContract(r) /\ TypeOK
  BY Definites, Creations DEF RequestInv
<1>2. PICK contract \in Scopes \cup {"unset"} :
         /\ task[r].scope \in {"unset", contract}
         /\ \A s \in Sweepers : Updating(s, r) => sweep[s].doc.scope \in {"unset", contract}
  BY <1>1 DEF OneContract
<1>3. CASE task'[r] = task[r]
  <2>1. \A s \in Sweepers : Updating(s, r)' => sweep'[s].doc.scope \in {"unset", contract}
    BY <1>2, Updates
  <2>2. QED
    BY <1>2, <1>3, <2>1 DEF OneContract
<1>4. ASSUME NEW p \in Pollers, my[p].request = r, Creates(p)
      PROVE  OneContract(r)'
  <2>1. task'[r].scope = "unset" /\ sweep' = sweep
    BY <1>4, Created DEF Creates
  <2>2. QED
    BY <1>2, <2>1 DEF OneContract, Updating
<1>5. ASSUME NEW p \in Pollers, my[p].request = r, Stamps(p)
      PROVE  OneContract(r)'
  <2>1. Owning(p, r) /\ Made(p, r) /\ my[p].doc \in TaskDocs /\ sweep' = sweep
    BY <1>1, <1>5, Called, Creations, PcSets DEF Stamps, Owning, RequestInv, Calls
  <2>2. task'[r] = my[p].doc /\ my[p].doc.scope \in Scopes \cup {"unset"}
    BY <1>1, <1>5, <2>1, Typed DEF Stamps, TaskDocs
  <2>3. \A s \in Sweepers : Updating(s, r) => sweep[s].doc.scope = "unset"
    BY <1>5, <2>1, StepSets DEF Stamps, Made
  <2>4. QED
    BY <2>1, <2>2, <2>3 DEF OneContract, Updating
<1>6. ASSUME NEW s \in Sweepers, Updating(s, r), task' = [task EXCEPT ![r] = sweep[s].doc],
             OnlySweep(s), sweep'[s] = IdleSweep
      PROVE  OneContract(r)'
  <2>1. task'[r].scope \in {"unset", contract}
    BY <1>1, <1>2, <1>6, Typed
  <2>2. \A t \in Sweepers : Updating(t, r)' => sweep'[t].doc.scope \in {"unset", contract}
    BY <1>2, <1>6 DEF OnlySweep, Updating, IdleSweep
  <2>3. QED
    BY <2>1, <2>2 DEF OneContract
<1>7. QED
  BY <1>3, <1>4, <1>5, <1>6, TaskMoves

LEMMA StepCreated == RequestInv /\ [Next]_vars => CreatedOnce'
<1> SUFFICES ASSUME RequestInv, [Next]_vars
             PROVE  CreatedOnce'
  OBVIOUS
<1>1. \A r \in Requests : Definite(r)' => OneContract(r)'
  BY StepContract
<1>2. ASSUME NEW r \in Requests, Definite(r)', NEW p \in Pollers, Owning(p, r)'
      PROVE  Made(p, r)'
  <2>1. CASE my'[p] = my[p]
    <3>1. Owning(p, r)
      BY <1>2, <2>1 DEF Owning
    <3>2. QED
      BY <1>2, <2>1, <3>1, KeptMade
  <2>2. CASE my'[p] # my[p]
    BY <1>2, <2>2, MovedMade
  <2>3. QED
    BY <2>1, <2>2
<1>3. QED
  BY <1>1, <1>2 DEF CreatedOnce, OneContract, Made

-----------------------------------------------------------------------------
(* The records *)

LEMMA StepSweepFirst == RequestInv /\ [Next]_vars => SweepPutsFirst'
<1> SUFFICES ASSUME RequestInv, [Next]_vars, OneSweep, NEW s \in Sweepers, NEW r \in Requests,
                    sweep'[s].pc = "putCommand", sweep'[s].request = r, Definite(r)'
             PROVE  command'[r] = "none"
  BY DEF SweepPutsFirst, OneSweep
<1>1. TypeOK /\ Definite(r)
  BY Definites DEF RequestInv
<1>2. CASE sweep'[s] = sweep[s]
  <2>1. command[r] = "none"
    BY <1>1, <1>2 DEF RequestInv, SweepPutsFirst
  <2>2. ASSUME NEW p \in Pollers, my[p].request = r, Commands(p)
        PROVE  FALSE
    <3>1. Owning(p, r) /\ ~my[p].waiting
      BY <2>2, PcSets, Called DEF Commands, Owning, CallFits
    <3>2. ~Promoting(s, r)
      BY <1>1, <2>2, <3>1, Creations, StepSets DEF RequestInv, Made, Commands
    <3>3. QED
      BY <1>2, <3>2 DEF Promoting
  <2>3. ASSUME NEW t \in Sweepers, sweep[t].pc = "putCommand", Sweeping(t)
        PROVE  FALSE
    BY <1>2, <2>3 DEF OneSweep, Sweeping, SweepsOn, IdleSweep
  <2>4. QED
    BY <2>1, <2>2, <2>3, CommandMoves
<1>3. CASE sweep'[s] # sweep[s]
  <2>1. command[sweep[s].request] = "none" /\ sweep[s].request = r /\ command' = command
    <3>1. Sweeping(s) /\ sweep'[s].pc = "putCommand"
      BY <1>3, SweepMoves
    <3>2. sweep'[s] # IdleSweep
      BY <3>1 DEF IdleSweep
    <3>3. QED
      BY <3>1, <3>2 DEF Sweeping, SweepsOn
  <2>2. QED
    BY <2>1
<1>4. QED
  BY <1>2, <1>3

(* What a caller is told is on record. *)
LEMMA Answered ==
    ASSUME RequestInv, [Next]_vars, NEW r \in Requests, NEW what \in answers'[r], what \notin answers[r]
    PROVE  \/ what = "queued" /\ command[r] # "none"
           \/ what = "waiting_quota" /\ task[r].exists
<1>1. TypeOK
  BY DEF RequestInv
<1>2. ASSUME NEW p \in Pollers, NEW x, Answer(p, x)
      PROVE  x = what /\ my[p].request = r
  BY <1>1, <1>2, Typed DEF Answer
<1>3. ASSUME NEW p \in Pollers, VerifyCommand(p)
      PROVE  what = "queued" /\ command[r] # "none"
  BY <1>2, <1>3 DEF VerifyCommand
<1>4. ASSUME NEW p \in Pollers, MarkDispatched(p)
      PROVE  \/ what = "queued" /\ command[r] # "none"
             \/ what = "waiting_quota" /\ task[r].exists
  <2>1. CallFits(p) /\ my[p].request = r /\ what = (IF my[p].waiting THEN "waiting_quota" ELSE "queued")
    BY <1>2, <1>4, Called DEF MarkDispatched
  <2>2. QED
    BY <1>4, <2>1, PcSets DEF MarkDispatched, CallFits
<1>5. ASSUME NEW p \in Pollers, LookCommand(p)
      PROVE  what = "queued" /\ command[r] # "none"
  BY <1>2, <1>5 DEF LookCommand, Refuse
<1>6. ASSUME NEW p \in Pollers, LookTask(p)
      PROVE  what = "waiting_quota" /\ task[r].exists
  BY <1>2, <1>6 DEF LookTask, Refuse
<1>7. answers' # answers
  OBVIOUS
<1>8. QED
  BY <1>3, <1>4, <1>5, <1>6, <1>7, Cases
     DEF WinClaim, LoseClaim, AmbiguousClaim, RetryFailed, DispatchFails, Dispatch, CreateTask,
         PutProject, VerifyProject, StampRead, StampWrite, StampVerify, PutCommand,
         FindTask, FindCommand, MarkFailed, CrashPoller,
         FindWaiting, Promote, Recheck, SweepPutCommand, SweepVerifyCommand, UpdateRead,
         UpdateWrite, CrashSweeper, Take, OtherProjectPut, vars

(* What a step does to the claim of r. *)
LEMMA ClaimMoves ==
    ASSUME RequestInv, [Next]_vars, NEW r \in Requests, claim'[r] # claim[r]
    PROVE  \/ claim[r] = NoClaim /\ claim'[r] = [status |-> "accepted", generation |-> 1]
              /\ UNCHANGED <<task, command>>
           \/ \E p \in Pollers :
                /\ my[p].request = r /\ my[p].generation = claim[r].generation
                /\ \/ Reopens(p) /\ claim'[r].status = "accepted"
                   \/ Closes(p) /\ my[p].pc = "markDispatched" /\ claim'[r].status = "dispatched"
                   \/ Closes(p) /\ my[p].pc = "markFailed" /\ claim'[r].status = "failed"
<1>1. TypeOK
  BY DEF RequestInv
<1>2. ASSUME NEW p \in Pollers, NEW x \in Requests, Wins(p, x) \/ Wonders(p, x)
      PROVE  claim[r] = NoClaim /\ claim'[r] = [status |-> "accepted", generation |-> 1]
             /\ UNCHANGED <<task, command>>
  BY <1>1, <1>2, Typed DEF Wins, Wonders, Enters
<1>3. ASSUME NEW p \in Pollers, Reopens(p)
      PROVE  /\ my[p].request = r /\ my[p].generation = claim[r].generation
             /\ claim'[r].status = "accepted"
  <2>1. my[p].request \in Requests
    BY <1>3, Called DEF Reopens
  <2>2. QED
    BY <1>1, <1>3, <2>1, Marks DEF Reopens
<1>4. ASSUME NEW p \in Pollers, Closes(p)
      PROVE  /\ my[p].request = r /\ my[p].generation = claim[r].generation
             /\ \/ my[p].pc = "markDispatched" /\ claim'[r].status = "dispatched"
                \/ my[p].pc = "markFailed" /\ claim'[r].status = "failed"
  <2>1. my[p].request \in Requests
    BY <1>4, Called DEF Closes
  <2>2. QED
    BY <1>1, <1>4, <2>1, Marks DEF Closes
<1>5. QED
  BY <1>2, <1>3, <1>4, StepKinds
     DEF Loses, Walks, Creates, Stamps, Commands, Sweeping, Takes, Idles

LEMMA StepBacked == RequestInv /\ [Next]_vars => BackedByRecords'
<1> SUFFICES ASSUME RequestInv, [Next]_vars, NEW r \in Requests
             PROVE  /\ command'[r] # "none" => task'[r].exists /\ claim'[r] # NoClaim
                    /\ task'[r].exists /\ kind'[r] # "retry" => claim'[r] # NoClaim
                    /\ claim'[r].status = "dispatched" => task'[r].exists
                    /\ "queued" \in answers'[r] => command'[r] # "none"
                    /\ "waiting_quota" \in answers'[r] => task'[r].exists
  BY DEF BackedByRecords
<1>1. /\ Grows /\ TypeOK
      /\ command[r] # "none" => task[r].exists /\ claim[r] # NoClaim
      /\ task[r].exists /\ kind[r] # "retry" => claim[r] # NoClaim
      /\ claim[r].status = "dispatched" => task[r].exists
      /\ "queued" \in answers[r] => command[r] # "none"
      /\ "waiting_quota" \in answers[r] => task[r].exists
  BY StepGrows DEF RequestInv, BackedByRecords
<1>2. ASSUME command'[r] # "none"
      PROVE  task'[r].exists /\ claim'[r] # NoClaim
  <2>1. ASSUME NEW p \in Pollers, my[p].request = r, Commands(p)
        PROVE  task[r].exists /\ claim[r] # NoClaim
    BY <2>1, Called, PcSets DEF Commands, CallFits
  <2>2. ASSUME NEW s \in Sweepers, sweep[s].request = r, sweep[s].pc = "putCommand"
        PROVE  task[r].exists /\ claim[r] # NoClaim
    BY <1>1, <2>2 DEF RequestInv, CallsFit
  <2>3. QED
    BY <1>1, <1>2, <2>1, <2>2, CommandMoves DEF Grows
<1>3. ASSUME task'[r].exists, kind'[r] # "retry"
      PROVE  claim'[r] # NoClaim
  <2>1. ASSUME NEW p \in Pollers, my[p].request = r, Creates(p) \/ Stamps(p)
        PROVE  claim[r] # NoClaim
    BY <2>1, Called DEF Creates, Stamps, CallFits
  <2>2. ASSUME NEW s \in Sweepers, Updating(s, r)
        PROVE  task[r].exists
    BY <2>2 DEF RequestInv, CallsFit, Updating
  <2>3. QED
    BY <1>1, <1>3, <2>1, <2>2, TaskMoves DEF Grows
<1>4. ASSUME claim'[r].status = "dispatched"
      PROVE  task'[r].exists
  <2>1. ASSUME NEW p \in Pollers, my[p].request = r, my[p].pc = "markDispatched"
        PROVE  task[r].exists
    BY <2>1, Called, PcSets DEF CallFits
  <2>2. QED
    BY <1>1, <1>4, <2>1, ClaimMoves DEF Grows
<1>5. /\ "queued" \in answers'[r] => command'[r] # "none"
      /\ "waiting_quota" \in answers'[r] => task'[r].exists
  BY <1>1, Answered DEF Grows
<1>6. QED
  BY <1>2, <1>3, <1>4, <1>5

LEMMA StepFails == RequestInv /\ [Next]_vars => OwnerFailsTruthfully'
<1> SUFFICES ASSUME RequestInv, [Next]_vars, NEW r \in Requests, claim'[r].status = "failed", Definite(r)'
             PROVE  ~task'[r].exists /\ command'[r] = "none"
  BY DEF OwnerFailsTruthfully, Definite
<1>1. TypeOK /\ Definite(r) /\ OwnerFits(r) /\ "refailed" \notin doubt'[r]
  BY Definites, Owners DEF RequestInv
<1>2. CASE claim'[r] = claim[r]
  <2>1. ~task[r].exists /\ command[r] = "none"
    BY <1>1, <1>2 DEF RequestInv, OwnerFailsTruthfully, Definite
  <2>2. ASSUME NEW p \in Pollers, my[p].request = r, Creates(p) \/ Stamps(p) \/ Commands(p)
        PROVE  FALSE
    BY <1>1, <1>2, <2>2, PcSets DEF Creates, Stamps, Commands, Owning, OwnerFits
  <2>3. \A s \in Sweepers : ~Promoting(s, r) /\ ~Updating(s, r)
    BY <2>1, Blank
  <2>4. task'[r] = task[r]
    BY <2>2, <2>3, TaskMoves
  <2>5. command'[r] = command[r]
    BY <2>1, <2>2, <2>3, CommandMoves DEF Promoting
  <2>6. QED
    BY <2>1, <2>4, <2>5
<1>3. CASE claim'[r] # claim[r]
  <2>1. PICK p \in Pollers : /\ my[p].request = r /\ Closes(p) /\ my[p].pc = "markFailed"
    BY <1>3, ClaimMoves
  <2>2. /\ doubt' = [doubt EXCEPT ![my[p].request] = IF my[p].retry THEN @ \cup {"refailed"} ELSE @]
        /\ UNCHANGED <<task, command>>
    BY <2>1 DEF Closes
  <2>3. ~my[p].retry
    BY <1>1, <2>1, <2>2, Typed
  <2>4. ~task[r].exists
    BY <1>1, <2>1, <2>3, PcSets DEF Owning, OwnerFits
  <2>5. QED
    BY <2>2, <2>4, Blank
<1>4. QED
  BY <1>2, <1>3

-----------------------------------------------------------------------------
(* The theorems *)

LEMMA InitRequest == Init => RequestInv
<1> SUFFICES ASSUME Init
             PROVE  RequestInv
  OBVIOUS
<1>1. \A s \in Scopes : ExistingTask(s) \in TaskDocs
  BY DEF ExistingTask, TaskDocs
<1>2. \A r \in Requests : task[r] \in TaskDocs
  BY <1>1, Nulls DEF Init
<1>3. /\ task \in [Requests -> TaskDocs] /\ claim \in [Requests -> Claims]
      /\ command \in [Requests -> {"none", "queued", "taken"}]
      /\ my \in [Pollers -> Calls] /\ sweep \in [Sweepers -> Sweeps]
      /\ answers \in [Requests -> SUBSET {"queued", "waiting_quota"}]
      /\ doubt \in [Requests -> SUBSET {"ambiguous", "refailed", "crashed", "clashed"}]
  BY <1>1, Nulls DEF Init
<1>4. TypeOK
  BY <1>3, BoundsAreNumbers DEF Init, TypeOK, Claims, Calls, Sweeps
<1>5. \A p \in Pollers : my[p].pc = "idle" /\ \A r \in Requests : ~Owning(p, r)
  BY PcSets DEF Init, IdleCall, Owning
<1>6. \A s \in Sweepers : sweep[s].pc = "idle" /\ \A r \in Requests : ~Updating(s, r)
  BY DEF Init, IdleSweep, Updating
<1>7. ASSUME NEW r \in Requests
      PROVE  /\ task[r].exists <=> kind[r] = "retry"
             /\ task[r] = NoTask \/ \E s \in Scopes : task[r] = ExistingTask(s)
             /\ task[r].exists \/ task[r] = NoTask
             /\ task[r].exists => task[r].recommended
             /\ task[r].scope \in Scopes \cup {"unset"}
             /\ claim[r].status # "dispatched" /\ claim[r].status # "failed" /\ command[r] = "none"
             /\ answers[r] = {}
  BY DEF Init, NoTask, ExistingTask, NoClaim
<1>8. CallsFit
  BY <1>5, <1>6, <1>7 DEF CallsFit
<1>9. OwnersFit
  BY <1>5 DEF OwnersFit
<1>10. CreatedOnce
  BY <1>5, <1>6, <1>7 DEF CreatedOnce
<1>11. SweepPutsFirst
  BY <1>6 DEF SweepPutsFirst
<1>12. BackedByRecords /\ OwnerFailsTruthfully
  BY <1>7 DEF BackedByRecords, OwnerFailsTruthfully
<1>13. QED
  BY <1>4, <1>8, <1>9, <1>10, <1>11, <1>12 DEF RequestInv

LEMMA StepRequest == RequestInv /\ [Next]_vars => RequestInv'
  BY StepTyped, StepCalls, StepOwners, StepCreated, StepSweepFirst, StepBacked, StepFails DEF RequestInv

(* The records of a request appear in order and a failed claim tells the
   truth, whatever pollers, sweeps, crashes and lost replies do
   (cloud/dispatch_ingress.py:handle_dispatch). *)
THEOREM RequestInvariant == Spec => []RequestInv
<1>1. QED
  BY InitRequest, StepRequest, PTL DEF Spec

(* Only one call at a time is inside create() for a request, unless the
   reply of a claim was lost (dispatch_requests.py: create-if-absent). *)
THEOREM OneCallCreates == Spec => []OneCreator
<1>1. RequestInv => OneCreator
  BY DEF RequestInv, OwnersFit, OneCreator, Owning, Creating
<1>2. QED
  BY <1>1, RequestInvariant, PTL

(* With one sweep at a time, no replay, retry or sweep undoes a taken
   Command, a write contract or a dispatched claim. *)
THEOREM NothingIsUndone == ASSUME OneSweep PROVE Spec => ReplaysUndoNothing
<1>1. ASSUME RequestInv, [Next]_vars, NEW r \in Requests, command[r] = "taken", Definite(r)
      PROVE  command'[r] = "taken"
  <2>1. ASSUME NEW p \in Pollers, my[p].request = r, Commands(p)
        PROVE  FALSE
    <3>1. Owning(p, r) /\ ~my[p].waiting
      BY <1>1, <2>1, PcSets, Called DEF Commands, Owning, CallFits
    <3>2. QED
      BY <1>1, <2>1, <3>1, Creations, StepSets DEF RequestInv, Made, Commands
  <2>2. ASSUME NEW s \in Sweepers, sweep[s].request = r, sweep[s].pc = "putCommand"
        PROVE  FALSE
    BY <1>1, <2>2, OneSweep DEF RequestInv, SweepPutsFirst
  <2>3. QED
    BY <1>1, <2>1, <2>2, CommandMoves
<1>2. ASSUME RequestInv, [Next]_vars, NEW r \in Requests, task[r].scope \in Scopes, Definite(r)
      PROVE  task'[r].scope \in {task[r].scope, "unset"}
  <2>1. task[r].scope # "unset" /\ TypeOK /\ OneContract(r)
    BY <1>2, ScopesAreContracts, Creations DEF RequestInv
  <2>2. ASSUME NEW p \in Pollers, my[p].request = r, Creates(p) \/ Stamps(p)
        PROVE  FALSE
    <3>1. Owning(p, r) /\ my[p].pc \in Unstamped
      BY <2>2, PcSets, StepSets DEF Creates, Stamps, Owning
    <3>2. QED
      BY <1>2, <2>1, <3>1, Creations DEF RequestInv, Made
  <2>3. ASSUME NEW s \in Sweepers, Updating(s, r), task' = [task EXCEPT ![r] = sweep[s].doc]
        PROVE  task'[r].scope \in {task[r].scope, "unset"}
    BY <2>1, <2>3, Typed DEF OneContract
  <2>4. QED
    BY <1>2, <2>2, <2>3, TaskMoves
<1>3. ASSUME RequestInv, [Next]_vars, NEW r \in Requests, claim[r].status = "dispatched"
      PROVE  claim'[r].status = "dispatched"
  <2>1. ASSUME NEW p \in Pollers, my[p].request = r, my[p].generation = claim[r].generation
        PROVE  ~Reopens(p) /\ ~(Closes(p) /\ my[p].pc = "markFailed")
    BY <1>3, <2>1, Called, PcSets DEF Reopens, CallFits
  <2>2. claim[r] # NoClaim
    BY <1>3 DEF NoClaim
  <2>3. QED
    BY <1>3, <2>1, <2>2, ClaimMoves
<1>4. RequestInv /\ [Next]_vars =>
        [\A r \in Requests :
           command[r] = "taken" /\ doubt[r] \cap {"ambiguous", "refailed"} = {}
              => command'[r] = "taken"]_vars
  BY <1>1 DEF Definite
<1>5. RequestInv /\ [Next]_vars =>
        [\A r \in Requests :
           task[r].scope \in Scopes /\ doubt[r] \cap {"ambiguous", "refailed"} = {}
              => task'[r].scope \in {task[r].scope, "unset"}]_vars
  BY <1>2 DEF Definite
<1>6. RequestInv /\ [Next]_vars =>
        [\A r \in Requests : claim[r].status = "dispatched" => claim'[r].status = "dispatched"]_vars
  BY <1>3
<1>7. QED
  BY <1>4, <1>5, <1>6, RequestInvariant, PTL
     DEF Spec, ReplaysUndoNothing, TakenStaysTaken, ContractFixed, DispatchedIsFinal
=============================================================================

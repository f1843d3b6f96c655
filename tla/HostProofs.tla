----------------------------- MODULE HostProofs -----------------------------
(***************************************************************************)
(* The components of a host: the Codex launch, the Session Centers, the    *)
(* scheduled components, the configuration lock.  Proved of HostSpec for   *)
(* every value of the constants; a component moves only in its own part.   *)
(***************************************************************************)
EXTENDS MCHost, Sequences, TLAPS

-----------------------------------------------------------------------------
(* A Codex launch *)

Endings == {"completed", "failed", "interrupted"}

Messages ==
    UNION {[kind : {"reply"}, id : 1 .. 3, ok : BOOLEAN], [kind : {"ask"}, what : {"file", "command"}],
           [kind : {"turn", "other"}, status : Endings, blocked : BOOLEAN], [kind : {"nonsense"}]}

Notes == [kind : {"turn", "other", "failure"}, status : Endings \cup {"protocol_error", "process_exit"},
          blocked : BOOLEAN]

Replies == [id : 0 .. 3, ok : BOOLEAN]

CallerType ==
    [step : {"initialize", "thread", "turn", "wait"}, waits : 0 .. 3, governed : BOOLEAN,
     ended : {"no", "failure", "process_exit", "timeout", "file_change_blocked"} \cup Endings]

ClientType ==
    [box : Seq(Replies), failure : {"none", "protocol_error", "process_exit"}, notes : Seq(Notes),
     closed : BOOLEAN, reads : BOOLEAN]

ServerType ==
    [asked : SUBSET (1 .. 3), turn : {"none", "running"} \cup Endings, blocked : BOOLEAN,
     process : {"up", "stopping", "gone"}, granted : SUBSET {"file", "command"}, extras : Nat]

AppTyped == caller \in CallerType /\ client \in ClientType /\ server \in ServerType /\ pipe \in Seq(Messages)

\* The launch has one request out, the one of its step, and an answer in its box is to that one.
\* The app-server has said yes to "turn" only after it started one.
AnswersFit ==
    /\ caller.waits # 0 => caller.step # "wait" /\ caller.waits = App!Id(caller.step)
    /\ caller.waits = 0 => client.box = <<>>
    /\ \A i \in DOMAIN client.box : client.box[i].ok =>
         client.box[i].id = caller.waits /\ (client.box[i].id = 3 => server.turn # "none")
    /\ \A i \in DOMAIN pipe : pipe[i].kind = "reply" /\ pipe[i].id = 3 /\ pipe[i].ok => server.turn # "none"
    /\ caller.step = "wait" => server.turn # "none"

\* What a note says of the turn is true, and remains so: a turn ends once, and no later refusal
\* of an edit concerns a governed turn.
Truthful(note) ==
    note.kind = "turn" =>
        server.turn = note.status /\ (caller.governed /\ ~note.blocked => ~server.blocked)

NotesFit ==
    /\ \A i \in DOMAIN client.notes : Truthful(client.notes[i])
    /\ \A i \in DOMAIN pipe : Truthful(pipe[i])
    /\ caller.ended = "completed" => server.turn = "completed" /\ (caller.governed => ~server.blocked)

GrantsFit == server.granted # {} => caller.governed /\ server.granted = {"file"}

AppInv == AppTyped /\ AnswersFit /\ NotesFit /\ GrantsFit

LEMMA Ids ==
    /\ App!Id("initialize") = 1 /\ App!Id("thread") = 2 /\ App!Id("turn") = 3
    /\ App!Steps[1] = "initialize" /\ App!Steps[2] = "thread" /\ App!Steps[3] = "turn" /\ App!Steps[4] = "wait"
BY DEF App!Id, App!Steps

LEMMA InitApp == HostInit => AppInv
<1> SUFFICES ASSUME App!Init, MaxAsks \in Nat PROVE AppInv
  BY HostAssumption DEF HostInit
<1>1. AppTyped
  BY DEF App!Init, AppTyped, CallerType, ClientType, ServerType
<1>2. QED
  BY <1>1 DEF App!Init, AppInv, AnswersFit, NotesFit, GrantsFit

\* What is taken from the front of a queue, or put at its end.
LEMMA Taken ==
    ASSUME NEW S, NEW s \in Seq(S), s # <<>>
    PROVE  /\ Tail(s) \in Seq(S) /\ Head(s) = s[1] /\ 1 \in DOMAIN s
           /\ \A i \in DOMAIN Tail(s) : i + 1 \in DOMAIN s /\ Tail(s)[i] = s[i + 1]
OBVIOUS

LEMMA Added ==
    ASSUME NEW S, NEW s \in Seq(S), NEW e \in S
    PROVE  /\ Append(s, e) \in Seq(S)
           /\ \A i \in DOMAIN Append(s, e) :
                Append(s, e)[i] = e \/ (i \in DOMAIN s /\ Append(s, e)[i] = s[i])
OBVIOUS

\* What a failure makes of a client.
LEMMA FailedKeeps ==
    ASSUME AppInv, NEW kind \in {"protocol_error", "process_exit"}, NEW c,
           c = App!Failed(client, caller.waits, kind) \/ c = [App!Failed(client, caller.waits, kind) EXCEPT !.reads = FALSE]
    PROVE  /\ c \in ClientType
           /\ caller.waits = 0 => c.box = <<>>
           /\ \A i \in DOMAIN c.box : c.box[i].ok => i \in DOMAIN client.box /\ c.box[i] = client.box[i]
           /\ \A i \in DOMAIN c.notes : c.notes[i].kind = "turn" => i \in DOMAIN client.notes /\ c.notes[i] = client.notes[i]
<1> DEFINE box == IF caller.waits = 0 THEN client.box ELSE Append(client.box, [id |-> 0, ok |-> FALSE])
           note == [kind |-> "failure", status |-> kind, blocked |-> FALSE]
           notes == Append(client.notes, note)
<1>1. AppTyped /\ (caller.waits = 0 => client.box = <<>>)
  BY DEF AppInv, AnswersFit
<1>2. CASE client.failure # "none"
  BY <1>1, <1>2 DEF App!Failed, AppTyped, ClientType
<1>3. CASE client.failure = "none"
  <2>1. client.box \in Seq(Replies) /\ client.notes \in Seq(Notes)
    BY <1>1 DEF AppTyped, ClientType
  <2>2. [id |-> 0, ok |-> FALSE] \in Replies /\ note \in Notes
    BY DEF Replies, Notes
  <2>3. box \in Seq(Replies) /\ notes \in Seq(Notes)
    BY <2>1, <2>2, Added
  <2>4. \A i \in DOMAIN box : box[i].ok => i \in DOMAIN client.box /\ box[i] = client.box[i]
    BY <2>1, <2>2, Added
  <2>5. \A i \in DOMAIN notes : notes[i].kind = "turn" => i \in DOMAIN client.notes /\ notes[i] = client.notes[i]
    BY <2>1, <2>2, Added
  <2>6. \E reads \in {client.reads, FALSE} :
          c = [box |-> box, failure |-> kind, notes |-> notes, closed |-> TRUE, reads |-> reads]
    BY <1>1, <1>3 DEF App!Failed, AppTyped, ClientType
  <2>7. client.reads \in BOOLEAN
    BY <1>1 DEF AppTyped, ClientType
  <2>8. PICK reads \in BOOLEAN :
          c = [box |-> box, failure |-> kind, notes |-> notes, closed |-> TRUE, reads |-> reads]
    BY <2>6, <2>7
  <2>9. c.box = box /\ c.notes = notes /\ (caller.waits = 0 => box = <<>>)
    BY <1>1, <2>8
  <2>10. c \in ClientType
    BY <2>3, <2>8 DEF ClientType
  <2>11. QED
    BY <2>4, <2>5, <2>9, <2>10
<1>4. QED
  BY <1>2, <1>3

LEMMA StoppedKeeps ==
    ASSUME AppTyped
    PROVE  /\ App!Stopped(server).turn = server.turn /\ App!Stopped(server).blocked = server.blocked
           /\ App!Stopped(server).granted = server.granted
           /\ App!Stopped(server) \in ServerType
BY DEF App!Stopped, AppTyped, ServerType

LEMMA RaiseKeeps ==
    ASSUME AppTyped, caller.ended = "no",
           NEW kind \in {"failure", "process_exit", "timeout", "file_change_blocked"} \cup Endings,
           App!Raise(kind)
    PROVE  /\ caller' \in CallerType /\ caller'.governed = caller.governed /\ caller'.step = caller.step
           /\ caller'.waits = 0 /\ caller'.ended = kind
<1>1. caller' = [step |-> caller.step, waits |-> 0, governed |-> caller.governed, ended |-> kind]
  BY DEF App!Raise, AppTyped, CallerType
<1>2. caller.step \in {"initialize", "thread", "turn", "wait"} /\ caller.governed \in BOOLEAN /\ 0 \in 0 .. 3
  BY DEF AppTyped, CallerType
<1>3. QED
  BY <1>1, <1>2 DEF CallerType, Endings

-----------------------------------------------------------------------------
\* The caller and the reader leave the turn as it is, put nothing new in the pipe, and a note or
\* an answer that they keep has come through it.
Copied(new, old) == \A i \in DOMAIN new : \E j \in DOMAIN old : new[i] = old[j]

TurnKept ==
    /\ caller'.governed = caller.governed /\ server'.turn = server.turn
    /\ caller.governed => server'.blocked = server.blocked

FromPipe(note) == \E j \in DOMAIN pipe : pipe[j].kind = "turn" /\ pipe[j].status = note.status /\ pipe[j].blocked = note.blocked

NotesCopied ==
    \A i \in DOMAIN client'.notes : client'.notes[i].kind = "turn" =>
        (\E j \in DOMAIN client.notes : client'.notes[i] = client.notes[j]) \/ FromPipe(client'.notes[i])

BoxCopied ==
    \A i \in DOMAIN client'.box : client'.box[i].ok =>
        \/ caller'.waits = caller.waits /\ \E j \in DOMAIN client.box : client'.box[i] = client.box[j]
        \/ /\ client'.box[i].id = caller'.waits
           /\ \E j \in DOMAIN pipe : pipe[j].kind = "reply" /\ pipe[j].ok /\ pipe[j].id = client'.box[i].id

StepFits ==
    /\ caller'.waits # 0 => caller'.step # "wait" /\ caller'.waits = App!Id(caller'.step)
    /\ caller'.waits = 0 => client'.box = <<>>
    /\ caller'.step = "wait" => server.turn # "none"

LEMMA AppCarries ==
    ASSUME AppInv, TurnKept, Copied(pipe', pipe), NotesCopied, BoxCopied, StepFits,
           caller'.ended = "completed" =>
             caller.ended = "completed" \/ (server.turn = "completed" /\ (caller.governed => ~server.blocked)),
           server'.granted = server.granted \/ (caller.governed /\ server'.granted = {"file"})
    PROVE  AnswersFit' /\ NotesFit' /\ GrantsFit'
<1>1. \A i \in DOMAIN client'.box : client'.box[i].ok =>
        client'.box[i].id = caller'.waits /\ (client'.box[i].id = 3 => server.turn # "none")
  BY DEF AppInv, AnswersFit, BoxCopied
<1>2. \A i \in DOMAIN pipe' : pipe'[i].kind = "reply" /\ pipe'[i].id = 3 /\ pipe'[i].ok => server.turn # "none"
  BY DEF AppInv, AnswersFit, Copied
<1>3. AnswersFit'
  BY <1>1, <1>2 DEF StepFits, AnswersFit, TurnKept
<1>4. \A i \in DOMAIN client'.notes : Truthful(client'.notes[i])
  BY DEF AppInv, NotesFit, NotesCopied, FromPipe, Truthful
<1>5. \A i \in DOMAIN pipe' : Truthful(pipe'[i])
  BY DEF AppInv, NotesFit, Copied
<1>6. NotesFit'
  BY <1>4, <1>5 DEF AppInv, NotesFit, Truthful, TurnKept
<1>7. GrantsFit'
  BY DEF AppInv, GrantsFit, TurnKept
<1>8. QED
  BY <1>3, <1>6, <1>7

\* What holds when neither the pipe nor what was taken from it changes.
LEMMA SameCopies ==
    /\ UNCHANGED pipe => Copied(pipe', pipe)
    /\ client'.notes = client.notes => NotesCopied
    /\ client'.box = client.box /\ caller'.waits = caller.waits => BoxCopied
    /\ client'.box = <<>> => BoxCopied
BY DEF Copied, NotesCopied, BoxCopied

LEMMA FailedCopies ==
    ASSUME AppInv, NEW kind \in {"protocol_error", "process_exit"}, caller'.waits = caller.waits,
           client' = App!Failed(client, caller.waits, kind)
             \/ client' = [App!Failed(client, caller.waits, kind) EXCEPT !.reads = FALSE]
    PROVE  NotesCopied /\ BoxCopied /\ (caller.waits = 0 => client'.box = <<>>)
BY FailedKeeps DEF NotesCopied, BoxCopied

LEMMA RequestKeeps ==
    ASSUME AppInv, App!Request
    PROVE  AppInv'
<1> USE DEF AppInv
<1>1. /\ caller.waits = 0 /\ caller.step # "wait" /\ caller.ended = "no" /\ client.box = <<>> /\ UNCHANGED pipe
  BY DEF App!Request, App!Working, AnswersFit
<1>2. CASE client.failure # "none" /\ App!Raise("failure") /\ UNCHANGED <<client, server, pipe>>
  <2>1. /\ caller' \in CallerType /\ caller'.governed = caller.governed /\ caller'.step = caller.step
        /\ caller'.waits = 0 /\ caller'.ended = "failure"
    BY <1>1, <1>2, RaiseKeeps
  <2>2. AppTyped'
    BY <1>1, <1>2, <2>1 DEF AppTyped
  <2>3. TurnKept /\ StepFits
    BY <1>1, <1>2, <2>1 DEF TurnKept, StepFits
  <2>4. QED
    BY <1>1, <1>2, <2>1, <2>2, <2>3, SameCopies, AppCarries
<1>3. CASE App!Raise("process_exit") /\ App!Fail("process_exit")
  <2>1. client' = App!Failed(client, caller.waits, "process_exit") /\ server' = App!Stopped(server)
    BY <1>3 DEF App!Fail
  <2>2. /\ caller' \in CallerType /\ caller'.governed = caller.governed /\ caller'.step = caller.step
        /\ caller'.waits = caller.waits /\ caller'.ended = "process_exit"
    BY <1>1, <1>3, RaiseKeeps
  <2>3. AppTyped'
    BY <1>1, <2>1, <2>2, FailedKeeps, StoppedKeeps DEF AppTyped
  <2>4. NotesCopied /\ BoxCopied /\ client'.box = <<>>
    BY <1>1, <2>1, <2>2, FailedCopies
  <2>5. TurnKept /\ StepFits /\ server'.granted = server.granted
    BY <1>1, <2>1, <2>2, <2>4, StoppedKeeps DEF TurnKept, StepFits
  <2>6. QED
    BY <1>1, <2>2, <2>3, <2>4, <2>5, SameCopies, AppCarries
<1>4. CASE /\ caller' = [caller EXCEPT !.waits = App!Id(caller.step)]
           /\ server' = [server EXCEPT !.asked = @ \cup {App!Id(caller.step)}]
           /\ UNCHANGED client
  <2>1. App!Id(caller.step) \in 1 .. 3
    BY <1>1, Ids DEF AppTyped, CallerType
  <2>2. /\ caller' \in CallerType /\ caller'.governed = caller.governed /\ caller'.step = caller.step
        /\ caller'.waits = App!Id(caller.step) /\ caller'.ended = caller.ended
    BY <1>4, <2>1 DEF AppTyped, CallerType
  <2>3. /\ server' \in ServerType /\ server'.turn = server.turn /\ server'.blocked = server.blocked
        /\ server'.granted = server.granted
    BY <1>4, <2>1 DEF AppTyped, ServerType
  <2>4. AppTyped'
    BY <1>1, <1>4, <2>2, <2>3 DEF AppTyped
  <2>5. TurnKept /\ StepFits
    BY <1>1, <1>4, <2>1, <2>2, <2>3 DEF TurnKept, StepFits
  <2>6. BoxCopied
    BY <1>1, <1>4 DEF BoxCopied
  <2>7. QED
    BY <1>1, <1>4, <2>2, <2>3, <2>4, <2>5, <2>6, SameCopies, AppCarries
<1>5. QED
  BY <1>2, <1>3, <1>4 DEF App!Request

LEMMA TakeReplyKeeps ==
    ASSUME AppInv, App!TakeReply
    PROVE  AppInv'
<1> USE DEF AppInv
<1>1. /\ client.box \in Seq(Replies) /\ client.box # <<>> /\ caller.waits # 0 /\ caller.ended = "no"
      /\ client' = [client EXCEPT !.box = <<>>] /\ UNCHANGED <<server, pipe>>
  BY DEF App!TakeReply, App!Working, AppTyped, ClientType
<1>2. Head(client.box) = client.box[1] /\ 1 \in DOMAIN client.box
  BY <1>1, Taken
<1>3. client'.box = <<>> /\ client'.notes = client.notes /\ client' \in ClientType
  <2>1. <<>> \in Seq(Replies) /\ client \in ClientType
    BY DEF AppTyped
  <2>2. QED
    BY <1>1, <2>1 DEF ClientType
<1>4. CASE App!Raise("failure")
  <2>1. /\ caller' \in CallerType /\ caller'.governed = caller.governed /\ caller'.step = caller.step
        /\ caller'.waits = 0 /\ caller'.ended = "failure"
    BY <1>1, <1>4, RaiseKeeps
  <2>2. AppTyped'
    BY <1>1, <1>3, <2>1 DEF AppTyped
  <2>3. TurnKept /\ StepFits
    BY <1>1, <1>3, <2>1 DEF TurnKept, StepFits, AnswersFit
  <2>4. QED
    BY <1>1, <1>3, <2>1, <2>2, <2>3, SameCopies, AppCarries
<1>5. CASE /\ client.box[1].ok
           /\ caller' = [caller EXCEPT !.waits = 0, !.step = App!Steps[App!Id(caller.step) + 1]]
  <2>1. caller.waits = App!Id(caller.step) /\ caller.step # "wait"
    BY <1>1 DEF AnswersFit
  <2>2. caller.step = "turn" => server.turn # "none"
    BY <1>2, <1>5, <2>1, Ids DEF AnswersFit
  <2>3. caller.step \in {"initialize", "thread", "turn"}
    BY <2>1 DEF AppTyped, CallerType
  <2>4. App!Steps[App!Id(caller.step) + 1] =
          IF caller.step = "initialize" THEN "thread" ELSE IF caller.step = "thread" THEN "turn" ELSE "wait"
    BY <2>3, Ids
  <2>5. PICK s \in {"thread", "turn", "wait"} :
          /\ caller' = [caller EXCEPT !.waits = 0, !.step = s]
          /\ s = "wait" => caller.step = "turn"
    BY <1>5, <2>3, <2>4
  <2>6. /\ caller' \in CallerType /\ caller'.governed = caller.governed /\ caller'.step = s
        /\ caller'.waits = 0 /\ caller'.ended = caller.ended
    <3>1. caller' = [step |-> s, waits |-> 0, governed |-> caller.governed, ended |-> caller.ended]
      BY <2>5 DEF AppTyped, CallerType
    <3>2. caller.governed \in BOOLEAN /\ 0 \in 0 .. 3 /\ s \in {"initialize", "thread", "turn", "wait"}
      BY DEF AppTyped, CallerType
    <3>3. QED
      BY <1>1, <3>1, <3>2 DEF CallerType
  <2>7. AppTyped'
    BY <1>1, <1>3, <2>6 DEF AppTyped
  <2>8. TurnKept /\ StepFits
    BY <1>1, <1>3, <2>2, <2>5, <2>6 DEF TurnKept, StepFits
  <2>9. QED
    BY <1>1, <1>3, <2>6, <2>7, <2>8, SameCopies, AppCarries
<1>6. QED
  BY <1>2, <1>4, <1>5 DEF App!TakeReply

LEMMA TimeoutKeeps ==
    ASSUME AppInv, App!RequestTimesOut \/ App!TurnTimesOut
    PROVE  AppInv'
<1> USE DEF AppInv
<1>1. caller.ended = "no" /\ App!Raise("timeout") /\ UNCHANGED <<client, server, pipe>>
  BY DEF App!RequestTimesOut, App!TurnTimesOut, App!Working
<1>2. client.box = <<>>
  BY DEF App!RequestTimesOut, App!TurnTimesOut, AnswersFit
<1>3. /\ caller' \in CallerType /\ caller'.governed = caller.governed /\ caller'.step = caller.step
      /\ caller'.waits = 0 /\ caller'.ended = "timeout"
  BY <1>1, RaiseKeeps
<1>4. AppTyped'
  BY <1>1, <1>3 DEF AppTyped
<1>5. TurnKept /\ StepFits
  BY <1>1, <1>2, <1>3 DEF TurnKept, StepFits, AnswersFit
<1>6. QED
  BY <1>1, <1>2, <1>3, <1>4, <1>5, SameCopies, AppCarries

LEMMA NextEventKeeps ==
    ASSUME AppInv, App!NextEvent
    PROVE  AppInv'
<1> USE DEF AppInv
<1>1. /\ caller.step = "wait" /\ caller.waits = 0 /\ client.box = <<>> /\ caller.ended = "no"
      /\ UNCHANGED <<server, pipe>>
  BY DEF App!NextEvent, App!Working, AnswersFit
<1>2. CASE App!Raise("failure") /\ UNCHANGED client
  <2>1. /\ caller' \in CallerType /\ caller'.governed = caller.governed /\ caller'.step = caller.step
        /\ caller'.waits = 0 /\ caller'.ended = "failure"
    BY <1>1, <1>2, RaiseKeeps
  <2>2. AppTyped'
    BY <1>1, <1>2, <2>1 DEF AppTyped
  <2>3. TurnKept /\ StepFits
    BY <1>1, <1>2, <2>1 DEF TurnKept, StepFits, AnswersFit
  <2>4. QED
    BY <1>1, <1>2, <2>1, <2>2, <2>3, SameCopies, AppCarries
<1>3. CASE client.notes # <<>> /\ ~(App!Raise("failure") /\ UNCHANGED client)
  <2> DEFINE note == Head(client.notes)
             ends == IF note.status = "completed" /\ caller.governed /\ note.blocked
                     THEN "file_change_blocked" ELSE note.status
  <2>1. client.notes \in Seq(Notes)
    BY DEF AppTyped, ClientType
  <2>2. /\ Tail(client.notes) \in Seq(Notes) /\ note = client.notes[1] /\ 1 \in DOMAIN client.notes
        /\ \A i \in DOMAIN Tail(client.notes) :
             i + 1 \in DOMAIN client.notes /\ Tail(client.notes)[i] = client.notes[i + 1]
    BY <1>3, <2>1, Taken
  <2>3. client' = [client EXCEPT !.notes = Tail(client.notes)]
    BY <1>3 DEF App!NextEvent
  <2>4. UNCHANGED caller \/ (note.kind = "turn" /\ caller' = [caller EXCEPT !.ended = ends])
    BY <1>3 DEF App!NextEvent, App!Governed
  <2>5. Truthful(note)
    BY <2>2 DEF NotesFit
  <2>6. note.kind = "turn" =>
          /\ note.status \in Endings /\ ends \in {"file_change_blocked"} \cup Endings
          /\ ends = "completed" => server.turn = "completed" /\ (caller.governed => ~server.blocked)
    <3>1. note \in Notes
      BY <2>1, <2>2
    <3>2. note.status \in Endings \cup {"protocol_error", "process_exit"}
      BY <3>1 DEF Notes
    <3>3. server.turn \in {"none", "running"} \cup Endings
      BY DEF AppTyped, ServerType
    <3>4. QED
      BY <2>5, <3>2, <3>3 DEF Truthful, Endings
  <2>7. client'.notes = Tail(client.notes) /\ client'.box = <<>> /\ client' \in ClientType
    BY <1>1, <2>2, <2>3 DEF AppTyped, ClientType
  <2>8. caller' \in CallerType
    BY <2>4, <2>6 DEF AppTyped, CallerType
  <2>9. NotesCopied
    BY <2>2, <2>7 DEF NotesCopied
  <2>10. /\ caller'.governed = caller.governed /\ caller'.step = caller.step /\ caller'.waits = caller.waits
         /\ caller'.ended = "completed" => server.turn = "completed" /\ (caller.governed => ~server.blocked)
    BY <1>1, <2>4, <2>6 DEF AppTyped, CallerType
  <2>11. TurnKept /\ StepFits
    BY <1>1, <2>7, <2>10 DEF TurnKept, StepFits, AnswersFit
  <2>12. QED
    BY <1>1, <2>7, <2>8, <2>9, <2>10, <2>11, SameCopies, AppCarries DEF AppTyped
<1>4. QED
  BY <1>2, <1>3 DEF App!NextEvent

LEMMA CloseKeeps ==
    ASSUME AppInv, App!Close
    PROVE  AppInv'
<1> USE DEF AppInv
<1>1. client' = [client EXCEPT !.closed = TRUE] /\ server' = App!Stopped(server) /\ UNCHANGED <<caller, pipe>>
  BY DEF App!Close
<1>2. AppTyped' /\ client'.box = client.box /\ client'.notes = client.notes
  BY <1>1, StoppedKeeps DEF AppTyped, ClientType
<1>3. TurnKept /\ StepFits /\ server'.granted = server.granted
  BY <1>1, <1>2, StoppedKeeps DEF TurnKept, StepFits, AnswersFit
<1>4. QED
  BY <1>1, <1>2, <1>3, SameCopies, AppCarries

LEMMA CallerKeeps ==
    ASSUME AppInv, App!Caller
    PROVE  AppInv'
BY RequestKeeps, TakeReplyKeeps, TimeoutKeeps, NextEventKeeps, CloseKeeps DEF App!Caller

\* What the reader takes from the pipe.
LEMMA ReadTyped ==
    ASSUME AppTyped, pipe # <<>>, pipe' = Tail(pipe)
    PROVE  /\ pipe' \in Seq(Messages) /\ Head(pipe) \in Messages /\ Copied(pipe', pipe)
           /\ 1 \in DOMAIN pipe /\ Head(pipe) = pipe[1]
<1>1. pipe \in Seq(Messages)
  BY DEF AppTyped
<1>2. /\ Tail(pipe) \in Seq(Messages) /\ Head(pipe) = pipe[1] /\ 1 \in DOMAIN pipe
      /\ \A i \in DOMAIN Tail(pipe) : i + 1 \in DOMAIN pipe /\ Tail(pipe)[i] = pipe[i + 1]
  BY <1>1, Taken
<1>3. Head(pipe) \in Messages
  BY <1>1, <1>2
<1>4. QED
  BY <1>2, <1>3 DEF Copied

\* A reader that fails the client.
LEMMA ReaderFails ==
    ASSUME AppInv, NEW kind \in {"protocol_error", "process_exit"},
           client' = [App!Failed(client, caller.waits, kind) EXCEPT !.reads = FALSE],
           server' \in {server, App!Stopped(server)}, pipe' \in Seq(Messages), Copied(pipe', pipe), UNCHANGED caller
    PROVE  AppInv'
<1>1. AppTyped /\ AnswersFit
  BY DEF AppInv
<1>2. AppTyped'
  BY <1>1, FailedKeeps, StoppedKeeps DEF AppTyped
<1>3. NotesCopied /\ BoxCopied /\ (caller.waits = 0 => client'.box = <<>>)
  BY FailedCopies
<1>4. TurnKept /\ StepFits /\ server'.granted = server.granted
  BY <1>1, <1>3, StoppedKeeps DEF TurnKept, StepFits, AnswersFit
<1>5. AnswersFit' /\ NotesFit' /\ GrantsFit'
  BY <1>3, <1>4, AppCarries
<1>6. QED
  BY <1>2, <1>5 DEF AppInv

LEMMA ReadReplyKeeps ==
    ASSUME AppInv, App!ReadReply
    PROVE  AppInv'
<1>1. AppTyped /\ AnswersFit
  BY DEF AppInv
<1>2. pipe # <<>> /\ pipe' = Tail(pipe) /\ Head(pipe).kind = "reply" /\ UNCHANGED caller
  BY DEF App!ReadReply, App!Reads
<1>3. pipe' \in Seq(Messages) /\ Head(pipe) \in Messages /\ Copied(pipe', pipe) /\ 1 \in DOMAIN pipe /\ Head(pipe) = pipe[1]
  BY <1>1, <1>2, ReadTyped
<1>4. CASE caller.waits = Head(pipe).id
  <2> DEFINE reply == [id |-> Head(pipe).id, ok |-> Head(pipe).ok]
             box == Append(client.box, reply)
  <2>1. client' = [client EXCEPT !.box = box] /\ UNCHANGED server
    BY <1>4 DEF App!ReadReply
  <2>2. Head(pipe).id \in 1 .. 3 /\ reply \in Replies
    BY <1>2, <1>3 DEF Messages, Replies
  <2>3. client.box \in Seq(Replies)
    BY <1>1 DEF AppTyped, ClientType
  <2>4. /\ box \in Seq(Replies)
        /\ \A i \in DOMAIN box : box[i] = reply \/ (i \in DOMAIN client.box /\ box[i] = client.box[i])
    BY <2>2, <2>3, Added
  <2>5. client' \in ClientType /\ client'.box = box /\ client'.notes = client.notes
    BY <1>1, <2>1, <2>4 DEF AppTyped, ClientType
  <2>6. AppTyped'
    BY <1>1, <1>2, <1>3, <2>1, <2>5 DEF AppTyped
  <2>7. BoxCopied
    BY <1>2, <1>3, <1>4, <2>4, <2>5 DEF BoxCopied
  <2>8. TurnKept /\ StepFits /\ caller.waits # 0
    BY <1>1, <1>2, <1>4, <2>1, <2>2 DEF TurnKept, StepFits, AnswersFit
  <2>9. AnswersFit' /\ NotesFit' /\ GrantsFit'
    BY <1>2, <1>3, <2>1, <2>5, <2>7, <2>8, SameCopies, AppCarries
  <2>10. QED
    BY <2>6, <2>9 DEF AppInv
<1>5. CASE caller.waits # Head(pipe).id
  BY <1>2, <1>3, <1>5, ReaderFails DEF App!ReadReply
<1>6. QED
  BY <1>4, <1>5

LEMMA ReadAskKeeps ==
    ASSUME AppInv, App!ReadAsk
    PROVE  AppInv'
<1>1. AppTyped /\ AnswersFit
  BY DEF AppInv
<1>2. pipe # <<>> /\ pipe' = Tail(pipe) /\ Head(pipe).kind = "ask" /\ UNCHANGED caller
  BY DEF App!ReadAsk, App!Reads
<1>3. pipe' \in Seq(Messages) /\ Head(pipe) \in Messages /\ Copied(pipe', pipe)
  BY <1>1, <1>2, ReadTyped
<1>4. CASE client.failure = "none" /\ server.process # "gone"
  <2>1. UNCHANGED client
    BY <1>4 DEF App!ReadAsk
  <2>2. CASE App!Decision(Head(pipe).what)
    <3>1. caller.governed /\ server' = [server EXCEPT !.granted = @ \cup {"file"}]
      BY <1>4, <2>2 DEF App!ReadAsk, App!Decision, App!Governed
    <3>2. server.granted \in SUBSET {"file", "command"} /\ (server.granted # {} => server.granted = {"file"})
      BY <1>1 DEF AppTyped, ServerType, AppInv, GrantsFit
    <3>3. /\ server' \in ServerType /\ server'.turn = server.turn /\ server'.blocked = server.blocked
          /\ server'.granted = {"file"}
      BY <1>1, <3>1, <3>2 DEF AppTyped, ServerType
    <3>4. AppTyped' /\ TurnKept /\ StepFits
      BY <1>1, <1>2, <1>3, <2>1, <3>3 DEF AppTyped, TurnKept, StepFits, AnswersFit
    <3>5. AnswersFit' /\ NotesFit' /\ GrantsFit'
      BY <1>2, <1>3, <2>1, <3>1, <3>3, <3>4, SameCopies, AppCarries
    <3>6. QED
      BY <3>4, <3>5 DEF AppInv
  <2>3. CASE ~App!Decision(Head(pipe).what)
    <3>1. server' = [server EXCEPT !.blocked = @ \/ Head(pipe).what = "file"]
      BY <1>4, <2>3 DEF App!ReadAsk
    <3>2. caller.governed => Head(pipe).what # "file"
      BY <2>3 DEF App!Decision, App!Governed
    <3>3. /\ server' \in ServerType /\ server'.turn = server.turn /\ server'.granted = server.granted
          /\ caller.governed => server'.blocked = server.blocked
      BY <1>1, <3>1, <3>2 DEF AppTyped, ServerType
    <3>4. AppTyped' /\ TurnKept /\ StepFits
      BY <1>1, <1>2, <1>3, <2>1, <3>3 DEF AppTyped, TurnKept, StepFits, AnswersFit
    <3>5. AnswersFit' /\ NotesFit' /\ GrantsFit'
      BY <1>2, <1>3, <2>1, <3>3, <3>4, SameCopies, AppCarries
    <3>6. QED
      BY <3>4, <3>5 DEF AppInv
  <2>4. QED
    BY <2>2, <2>3
<1>5. CASE ~(client.failure = "none" /\ server.process # "gone")
  BY <1>2, <1>3, <1>5, ReaderFails DEF App!ReadAsk
<1>6. QED
  BY <1>4, <1>5

LEMMA ReadNoteKeeps ==
    ASSUME AppInv, App!ReadNote
    PROVE  AppInv'
<1> DEFINE note == [kind |-> Head(pipe).kind, status |-> Head(pipe).status, blocked |-> Head(pipe).blocked]
           notes == Append(client.notes, note)
<1>1. AppTyped /\ AnswersFit
  BY DEF AppInv
<1>2. /\ pipe # <<>> /\ pipe' = Tail(pipe) /\ Head(pipe).kind \in {"turn", "other"} /\ UNCHANGED <<caller, server>>
      /\ client' = [client EXCEPT !.notes = notes]
  BY DEF App!ReadNote
<1>3. pipe' \in Seq(Messages) /\ Head(pipe) \in Messages /\ Copied(pipe', pipe) /\ 1 \in DOMAIN pipe /\ Head(pipe) = pipe[1]
  BY <1>1, <1>2, ReadTyped
<1>4. note \in Notes
  BY <1>2, <1>3 DEF Messages, Notes
<1>5. client.notes \in Seq(Notes)
  BY <1>1 DEF AppTyped, ClientType
<1>6. /\ notes \in Seq(Notes)
      /\ \A i \in DOMAIN notes : notes[i] = note \/ (i \in DOMAIN client.notes /\ notes[i] = client.notes[i])
  BY <1>4, <1>5, Added
<1>7. client' \in ClientType /\ client'.box = client.box /\ client'.notes = notes
  BY <1>1, <1>2, <1>6 DEF AppTyped, ClientType
<1>8. AppTyped' /\ TurnKept /\ StepFits
  BY <1>1, <1>2, <1>3, <1>7 DEF AppTyped, TurnKept, StepFits, AnswersFit
<1>9. NotesCopied
  <2>1. note.kind = "turn" => FromPipe(note)
    BY <1>3 DEF FromPipe
  <2>2. QED
    BY <1>6, <1>7, <2>1 DEF NotesCopied
<1>10. AnswersFit' /\ NotesFit' /\ GrantsFit'
  BY <1>2, <1>3, <1>7, <1>8, <1>9, SameCopies, AppCarries
<1>11. QED
  BY <1>8, <1>10 DEF AppInv

LEMMA ReaderKeeps ==
    ASSUME AppInv, App!Reader
    PROVE  AppInv'
<1>1. AppTyped
  BY DEF AppInv
<1>2. CASE App!ReadNonsense
  <2>1. pipe # <<>> /\ pipe' = Tail(pipe) /\ UNCHANGED caller
    BY <1>2 DEF App!ReadNonsense, App!Reads
  <2>2. pipe' \in Seq(Messages) /\ Copied(pipe', pipe)
    BY <1>1, <2>1, ReadTyped
  <2>3. QED
    BY <1>2, <2>1, <2>2, ReaderFails DEF App!ReadNonsense
<1>3. CASE App!ReadEnd
  <2>1. pipe' \in Seq(Messages) /\ UNCHANGED <<caller, pipe>>
    BY <1>1, <1>3 DEF App!ReadEnd, AppTyped
  <2>2. QED
    BY <1>3, <2>1, SameCopies, ReaderFails DEF App!ReadEnd
<1>4. QED
  BY <1>2, <1>3, ReadReplyKeeps, ReadAskKeeps, ReadNoteKeeps DEF App!Reader

\* The app-server writes to the pipe; a turn that has ended stays as it is.
LEMMA ServerWrites ==
    ASSUME AppInv, NEW m \in Messages, pipe' = Append(pipe, m), UNCHANGED <<caller, client>>, server' \in ServerType,
           server.turn # "none" => server'.turn # "none",
           m.kind = "reply" /\ m.id = 3 /\ m.ok => server'.turn # "none",
           server.turn \in Endings => server'.turn = server.turn /\ server'.blocked = server.blocked,
           m.kind = "turn" => Truthful(m)', server'.granted = server.granted
    PROVE  AppInv'
<1> DEFINE Stays(n) == n.kind = "turn" =>
             server'.turn = n.status /\ (caller.governed /\ ~n.blocked => ~server'.blocked)
<1>1. AppTyped /\ AnswersFit /\ NotesFit /\ GrantsFit
  BY DEF AppInv
<1>2. pipe \in Seq(Messages) /\ client.notes \in Seq(Notes)
  BY <1>1 DEF AppTyped, ClientType
<1>3. /\ pipe' \in Seq(Messages)
      /\ \A i \in DOMAIN pipe' : pipe'[i] = m \/ (i \in DOMAIN pipe /\ pipe'[i] = pipe[i])
  BY <1>2, Added
<1>4. AppTyped'
  BY <1>1, <1>3 DEF AppTyped
<1>5. AnswersFit'
  <2>1. \A i \in DOMAIN pipe' : pipe'[i].kind = "reply" /\ pipe'[i].id = 3 /\ pipe'[i].ok => server'.turn # "none"
    BY <1>1, <1>3 DEF AnswersFit
  <2>2. QED
    BY <1>1, <2>1 DEF AnswersFit
<1>6. \A n : Truthful(n) /\ (n.kind = "turn" => n.status \in Endings) => Stays(n)
  BY DEF Truthful
<1>7. \A i \in DOMAIN pipe : pipe[i].kind = "turn" => pipe[i].status \in Endings
  <2>1. \A i \in DOMAIN pipe : pipe[i] \in Messages
    BY <1>2
  <2>2. QED
    BY <2>1 DEF Messages
<1>8. \A i \in DOMAIN client.notes : client.notes[i].kind = "turn" => client.notes[i].status \in Endings
  <2>1. \A i \in DOMAIN client.notes : client.notes[i] \in Notes
    BY <1>2
  <2>2. ASSUME NEW i \in DOMAIN client.notes, client.notes[i].kind = "turn"
        PROVE  client.notes[i].status \in Endings
    <3>1. client.notes[i].status = server.turn
      BY <1>1, <2>2 DEF NotesFit, Truthful
    <3>2. client.notes[i].status \in Endings \cup {"protocol_error", "process_exit"}
      BY <2>1 DEF Notes
    <3>3. server.turn \in {"none", "running"} \cup Endings
      BY <1>1 DEF AppTyped, ServerType
    <3>4. QED
      BY <3>1, <3>2, <3>3
  <2>3. QED
    BY <2>2
<1>9. \A i \in DOMAIN pipe' : Stays(pipe'[i])
  <2>1. \A i \in DOMAIN pipe : Stays(pipe[i])
    BY <1>1, <1>6, <1>7 DEF NotesFit
  <2>2. Stays(m)
    BY DEF Truthful
  <2>3. QED
    BY <1>3, <2>1, <2>2
<1>10. \A i \in DOMAIN client.notes : Stays(client.notes[i])
  BY <1>1, <1>6, <1>8 DEF NotesFit
<1>11. NotesFit'
  BY <1>1, <1>9, <1>10 DEF NotesFit, Truthful, Endings
<1>12. QED
  BY <1>1, <1>4, <1>5, <1>11 DEF AppInv, GrantsFit

LEMMA ServerKeeps ==
    ASSUME AppInv, App!Server
    PROVE  AppInv'
<1>1. AppTyped /\ AnswersFit /\ NotesFit /\ GrantsFit
  BY DEF AppInv
<1>2. server \in ServerType
  BY <1>1 DEF AppTyped
<1>3. CASE App!ServerAnswers
  <2>1. PICK i \in server.asked, ok \in BOOLEAN, again \in BOOLEAN :
          /\ again => server.extras > 0
          /\ pipe' = Append(pipe, [kind |-> "reply", id |-> i, ok |-> ok])
          /\ server' = [server EXCEPT !.asked = IF again THEN @ ELSE @ \ {i},
                                      !.extras = IF again THEN @ - 1 ELSE @,
                                      !.turn = IF i = 3 /\ ok /\ @ = "none" THEN "running" ELSE @]
    BY Zenon, <1>3 DEF App!ServerAnswers, App!Write
  <2>2. i \in 1 .. 3
    BY <1>2 DEF ServerType
  <2>3. [kind |-> "reply", id |-> i, ok |-> ok] \in Messages
    BY <2>2 DEF Messages
  <2>4. /\ server' \in ServerType /\ server'.granted = server.granted /\ server'.blocked = server.blocked
        /\ server.turn # "none" => server'.turn = server.turn
        /\ i = 3 /\ ok => server'.turn # "none"
    <3> DEFINE asked == IF again THEN server.asked ELSE server.asked \ {i}
               extras == IF again THEN server.extras - 1 ELSE server.extras
               turn == IF i = 3 /\ ok /\ server.turn = "none" THEN "running" ELSE server.turn
    <3>1. asked \in SUBSET (1 .. 3) /\ extras \in Nat /\ turn \in {"none", "running"} \cup Endings
      BY <1>2, <2>1 DEF ServerType
    <3>2. server' = [server EXCEPT !.asked = asked, !.extras = extras, !.turn = turn]
      BY <2>1
    <3> HIDE DEF asked, extras, turn
    <3>3. /\ server' \in ServerType /\ server'.granted = server.granted /\ server'.blocked = server.blocked
          /\ server'.turn = turn
      BY <1>2, <3>1, <3>2 DEF ServerType
    <3>4. QED
      BY <3>3 DEF turn
  <2>5. QED
    BY <1>3, <2>1, <2>3, <2>4, ServerWrites DEF App!ServerAnswers, Endings
<1>4. CASE App!ServerAsks
  <2>1. PICK what \in {"file", "command"} : pipe' = Append(pipe, [kind |-> "ask", what |-> what])
    BY <1>4 DEF App!ServerAsks, App!Write
  <2>2. [kind |-> "ask", what |-> what] \in Messages
    BY DEF Messages
  <2>3. /\ server' \in ServerType /\ server'.granted = server.granted /\ server'.blocked = server.blocked
        /\ server'.turn = server.turn
    BY <1>2, <1>4 DEF App!ServerAsks, ServerType
  <2>4. QED
    BY <1>4, <2>1, <2>2, <2>3, ServerWrites DEF App!ServerAsks
<1>5. CASE App!ServerEndsTurn
  <2>1. PICK status \in Endings, failed \in BOOLEAN :
          /\ server' = [server EXCEPT !.turn = status, !.blocked = @ \/ failed]
          /\ pipe' = Append(pipe, [kind |-> "turn", status |-> status, blocked |-> server.blocked \/ failed])
    BY <1>5 DEF App!ServerEndsTurn, App!Write, App!Note, Endings
  <2> DEFINE m == [kind |-> "turn", status |-> status, blocked |-> server.blocked \/ failed]
  <2>2. server.blocked \in BOOLEAN /\ server.turn = "running" /\ UNCHANGED <<caller, client>>
    BY <1>2, <1>5 DEF ServerType, App!ServerEndsTurn
  <2>3. m \in Messages
    BY <2>2 DEF Messages
  <2>4. /\ server' \in ServerType /\ server'.granted = server.granted /\ server'.turn = status
        /\ server'.blocked = (server.blocked \/ failed)
    BY <1>2, <2>1, <2>2 DEF ServerType
  <2>5. Truthful(m)' /\ server'.turn # "none" /\ server.turn \notin Endings
    BY <2>2, <2>4 DEF Truthful, Endings
  <2>6. QED
    BY <2>1, <2>2, <2>3, <2>4, <2>5, ServerWrites
<1>6. CASE App!ServerStrays
  <2>1. PICK m \in {[kind |-> "other", status |-> "completed", blocked |-> FALSE], [kind |-> "nonsense"]} :
          pipe' = Append(pipe, m)
    BY <1>6 DEF App!ServerStrays, App!Write, App!Note
  <2>2. m \in Messages /\ m.kind \in {"other", "nonsense"}
    <3>1. "completed" \in Endings
      BY DEF Endings
    <3>2. CASE m = [kind |-> "nonsense"]
      BY <3>2 DEF Messages
    <3>3. CASE m = [kind |-> "other", status |-> "completed", blocked |-> FALSE]
      <4>1. m \in [kind : {"turn", "other"}, status : Endings, blocked : BOOLEAN]
        BY <3>1, <3>3
      <4>2. QED
        BY <3>3, <4>1 DEF Messages
    <3>4. QED
      BY <3>2, <3>3
  <2>3. /\ server' \in ServerType /\ server'.granted = server.granted /\ server'.blocked = server.blocked
        /\ server'.turn = server.turn
    BY <1>2, <1>6 DEF App!ServerStrays, ServerType
  <2>4. QED
    BY <1>6, <2>1, <2>2, <2>3, ServerWrites DEF App!ServerStrays
<1>7. CASE App!ServerExits
  <2>1. /\ server' \in ServerType /\ server'.granted = server.granted /\ server'.blocked = server.blocked
        /\ server'.turn = server.turn
    BY <1>2, <1>7 DEF App!ServerExits, ServerType
  <2>2. AppTyped' /\ TurnKept /\ StepFits
    BY <1>1, <1>7, <2>1 DEF App!ServerExits, AppTyped, TurnKept, StepFits, AnswersFit
  <2>3. AnswersFit' /\ NotesFit' /\ GrantsFit'
    BY <1>7, <2>1, <2>2, SameCopies, AppCarries DEF App!ServerExits
  <2>4. QED
    BY <2>2, <2>3 DEF AppInv
<1>8. QED
  BY <1>3, <1>4, <1>5, <1>6, <1>7 DEF App!Server

LEMMA AppSame ==
    ASSUME AppInv, UNCHANGED appvars
    PROVE  AppInv'
BY DEF AppInv, appvars, AppTyped, AnswersFit, NotesFit, GrantsFit, Truthful

LEMMA AppKept ==
    ASSUME AppInv, [HostNext]_hostvars
    PROVE  AppInv'
BY CallerKeeps, ReaderKeeps, ServerKeeps, AppSame DEF HostNext, hostvars, App!Next

(* Whatever the app-server answers, late, twice or never, and whoever sees a *)
(* failure first: a launch waits for a turn only after its own request       *)
(* started one, is reported completed only if that turn completed with every *)
(* edit made, and approves nothing but file changes of a governed write      *)
(* (codex_launcher.py).                                                      *)
THEOREM AppSafeAlways == HostSpec => []AppSafe
<1>1. AppInv => AppSafe
  <2>1. ASSUME AppInv
        PROVE  App!TypeOK
    <3>1. caller \in CallerType /\ client \in ClientType /\ server \in ServerType
      BY <2>1 DEF AppInv, AppTyped
    <3>2. {App!Steps[i] : i \in 1 .. 4} = {"initialize", "thread", "turn", "wait"}
      BY Ids
    <3>3. QED
      BY <3>1, <3>2 DEF App!TypeOK, CallerType, ClientType, ServerType, Replies, Endings
  <2>2. ASSUME AppInv
        PROVE  App!CompletionEarned /\ App!AnswerIsOurs /\ App!OnlyFileChanges
    BY <2>2 DEF AppInv, AnswersFit, NotesFit, GrantsFit, App!CompletionEarned, App!AnswerIsOurs, App!OnlyFileChanges,
       App!Governed
  <2>3. QED
    BY <2>1, <2>2 DEF AppSafe
<1>2. QED
  BY InitApp, AppKept, <1>1, PTL DEF HostSpec

-----------------------------------------------------------------------------
(* Scheduled components *)

TickType ==
    [at : {"idle", "work", "beat", "gate", "open", "sweep", "run", "note"}, copy : [Components -> Tasks!Marks],
     times : [Components -> Tasks!Marks], left : SUBSET Components, one : Components \cup {"none"}, doubt : BOOLEAN]

TasksTyped ==
    /\ enabled \in [Components -> BOOLEAN] /\ tick \in [Components -> TickType]
    /\ heart \in [Components -> Tasks!Marks] /\ marker \in Tasks!Marks /\ cooldown \in [Components -> Tasks!Marks]
    /\ seen \in SUBSET {"overlap", "disabled", "hot"}

\* A sweep has components left; what it is about to start is enabled, or nobody knows.
SweepsFit ==
    \A c \in Components :
        /\ tick[c].at = "sweep" => tick[c].left # {}
        /\ tick[c].at \in {"run", "note"} => tick[c].one \in Components
        /\ tick[c].at = "run" => enabled[tick[c].one] \/ tick[c].doubt

\* As long as no two sweeps have met there is one, and nothing becomes hot while it decides.
SweepsAlone ==
    "overlap" \notin seen =>
        /\ \A c, d \in Components : Tasks!Sweeping(c) /\ Tasks!Sweeping(d) => c = d
        /\ \A c \in Components : tick[c].at = "run" => cooldown[tick[c].one] # "fresh"

TasksInv ==
    TasksTyped /\ SweepsFit /\ SweepsAlone /\ "disabled" \notin seen /\ "hot" \notin seen

LEMMA InitTasks == HostInit => TasksInv
<1> SUFFICES ASSUME Tasks!Init PROVE TasksInv
  BY DEF HostInit
<1>1. Tasks!Idle \in TickType /\ Tasks!Idle.at = "idle"
  BY DEF Tasks!Idle, Tasks!Blank, Tasks!Marks, TickType
<1>2. TasksTyped
  BY <1>1 DEF Tasks!Init, Tasks!Blank, Tasks!Marks, TasksTyped
<1>3. QED
  BY <1>1, <1>2 DEF Tasks!Init, TasksInv, SweepsFit, SweepsAlone, Tasks!Sweeping

LEMMA TicksTyped ==
    ASSUME TasksTyped, NEW c \in Components
    PROVE  tick[c] \in TickType /\ Tasks!Idle \in TickType /\ Tasks!Idle.at = "idle"
BY DEF TasksTyped, Tasks!Idle, Tasks!Blank, Tasks!Marks, TickType

\* A step of one tick that is no sweep, or leaves it where it is.
LEMMA QuietTick ==
    ASSUME TasksInv, NEW c \in Components, NEW t \in TickType, tick' = [tick EXCEPT ![c] = t],
           t.at \notin {"sweep", "run", "note"}, UNCHANGED <<enabled, cooldown, seen>>,
           heart' \in [Components -> Tasks!Marks], marker' \in Tasks!Marks
    PROVE  TasksInv'
<1>1. TasksTyped /\ SweepsFit /\ SweepsAlone
  BY DEF TasksInv
<1>2. TasksTyped' /\ tick'[c] = t /\ \A d \in Components \ {c} : tick'[d] = tick[d]
  BY <1>1 DEF TasksTyped
<1>3. SweepsFit'
  BY <1>1, <1>2 DEF SweepsFit
<1>4. SweepsAlone'
  BY <1>1, <1>2 DEF SweepsAlone, Tasks!Sweeping
<1>5. QED
  BY <1>2, <1>3, <1>4 DEF TasksInv

\* Time passes for the ticks, or a user has changed what one is about to start.
LEMMA TicksAge ==
    ASSUME TasksInv, tick' \in [Components -> TickType], enabled' \in [Components -> BOOLEAN], UNCHANGED <<marker, seen>>,
           heart' \in [Components -> Tasks!Marks], cooldown' \in [Components -> Tasks!Marks],
           \A c \in Components : cooldown'[c] = "fresh" => cooldown[c] = "fresh",
           \A c \in Components : tick'[c].at = tick[c].at /\ tick'[c].left = tick[c].left /\ tick'[c].one = tick[c].one,
           \A c \in Components : tick[c].at = "run" /\ (enabled[tick[c].one] \/ tick[c].doubt) =>
             enabled'[tick[c].one] \/ tick'[c].doubt
    PROVE  TasksInv'
<1>1. TasksTyped /\ SweepsFit /\ SweepsAlone
  BY DEF TasksInv
<1>2. TasksTyped'
  BY <1>1 DEF TasksTyped
<1>3. SweepsFit'
  BY <1>1 DEF SweepsFit
<1>4. SweepsAlone'
  BY <1>1 DEF SweepsFit, SweepsAlone, Tasks!Sweeping
<1>5. QED
  BY <1>2, <1>3, <1>4 DEF TasksInv

LEMMA TickKeeps ==
    ASSUME TasksInv, NEW c \in Components, Tasks!Tick(c)
    PROVE  TasksInv'
<1>1. TasksTyped /\ SweepsFit /\ SweepsAlone
  BY DEF TasksInv
<1>2. tick[c] \in TickType /\ Tasks!Idle \in TickType /\ Tasks!Idle.at = "idle"
  BY <1>1, TicksTyped
<1>3. CASE Tasks!BeatRead(c)
  <2>1. PICK copy \in [Components -> Tasks!Marks] :
          tick' = [tick EXCEPT ![c] = [@ EXCEPT !.at = "beat", !.copy = copy]]
    <3>1. Tasks!Blank \in [Components -> Tasks!Marks] /\ heart \in [Components -> Tasks!Marks]
      BY <1>1 DEF Tasks!Blank, Tasks!Marks, TasksTyped
    <3>2. tick \in [Components -> TickType]
      BY <1>1 DEF TasksTyped
    <3>3. QED
      BY <1>2, <1>3, <3>1, <3>2 DEF Tasks!BeatRead
  <2>2. [tick[c] EXCEPT !.at = "beat", !.copy = copy] \in TickType
    BY <1>2 DEF TickType
  <2>3. [tick[c] EXCEPT !.at = "beat", !.copy = copy].at = "beat"
    BY <1>2 DEF TickType
  <2>4. QED
    BY <1>1, <1>3, <2>1, <2>2, <2>3, QuietTick DEF Tasks!BeatRead, TasksTyped
<1>4. CASE Tasks!BeatWrite(c)
  <2>1. heart' \in [Components -> Tasks!Marks]
    BY <1>2, <1>4 DEF Tasks!BeatWrite, TickType, Tasks!Marks
  <2>2. [Tasks!Idle EXCEPT !.at = "gate"] \in TickType /\ [Tasks!Idle EXCEPT !.at = "gate"].at = "gate"
    BY <1>2 DEF TickType
  <2>3. QED
    BY <1>1, <1>4, <2>1, <2>2, QuietTick DEF Tasks!BeatWrite, TasksTyped
<1>5. CASE Tasks!GateRead(c)
  <2>1. [Tasks!Idle EXCEPT !.at = "open"] \in TickType /\ [Tasks!Idle EXCEPT !.at = "open"].at = "open"
    BY <1>2 DEF TickType
  <2>2. QED
    BY <1>1, <1>2, <1>5, <2>1, QuietTick DEF Tasks!GateRead, TasksTyped
<1>6. CASE Tasks!GateWrite(c)
  <2> DEFINE t == [Tasks!Idle EXCEPT !.at = "sweep", !.copy = heart, !.left = Components]
  <2>1. t \in TickType /\ t.at = "sweep" /\ t.left = Components
    BY <1>1, <1>2 DEF TickType, TasksTyped
  <2>2. /\ tick' = [tick EXCEPT ![c] = t] /\ UNCHANGED <<enabled, heart, cooldown>> /\ marker' = "fresh"
        /\ seen' = seen \cup (IF \E d \in Components \ {c} : Tasks!Sweeping(d) THEN {"overlap"} ELSE {})
    BY <1>6 DEF Tasks!GateWrite
  <2> HIDE DEF t
  <2>3. TasksTyped' /\ tick'[c] = t /\ \A d \in Components \ {c} : tick'[d] = tick[d]
    BY <1>1, <2>1, <2>2 DEF TasksTyped, Tasks!Marks
  <2>4. SweepsFit'
    BY <1>1, <2>1, <2>2, <2>3 DEF SweepsFit
  <2>5. SweepsAlone'
    BY <1>1, <2>1, <2>2, <2>3 DEF SweepsAlone, Tasks!Sweeping
  <2>6. QED
    BY <2>2, <2>3, <2>4, <2>5 DEF TasksInv
<1>7. CASE Tasks!Inspect(c)
  <2>1. PICK answered \in BOOLEAN :
          LET d == Tasks!First(tick[c].left)
              looked == [tick[c] EXCEPT !.left = @ \ {d}, !.copy[d] = "none"]
          IN  tick' = [tick EXCEPT ![c] =
                         IF Tasks!Degraded(c, d, answered) /\ cooldown[d] # "fresh"
                         THEN [looked EXCEPT !.one = d, !.at = "run", !.doubt = ~answered]
                         ELSE Tasks!Continue(looked)]
    <3>1. \E answered \in BOOLEAN :
            LET d == Tasks!First(tick[c].left)
                looked == [tick[c] EXCEPT !.left = @ \ {d}, !.copy[d] = "none"]
            IN  /\ tick' = [tick EXCEPT ![c] =
                           IF Tasks!Degraded(c, d, answered) /\ cooldown[d] # "fresh"
                           THEN [looked EXCEPT !.one = d, !.at = "run", !.doubt = ~answered]
                           ELSE Tasks!Continue(looked)]
                /\ IF answered THEN UNCHANGED errors ELSE Tasks!Error
      BY <1>7, Zenon DEF Tasks!Inspect
    <3>2. QED
      BY <3>1, Zenon
  <2>2. tick[c].at = "sweep" /\ UNCHANGED <<enabled, heart, marker, cooldown, seen>>
    BY <1>7 DEF Tasks!Inspect, Tasks!At
  <2> DEFINE d == Tasks!First(tick[c].left)
             looked == [tick[c] EXCEPT !.left = @ \ {d}, !.copy[d] = "none"]
             ran == [looked EXCEPT !.one = d, !.at = "run", !.doubt = ~answered]
             t == IF Tasks!Degraded(c, d, answered) /\ cooldown[d] # "fresh" THEN ran ELSE Tasks!Continue(looked)
  <2>3. tick' = [tick EXCEPT ![c] = t]
    BY <2>1
  <2>4. d \in tick[c].left /\ d \in Components
    BY <1>1, <1>2, <2>2 DEF SweepsFit, Tasks!First, TickType
  <2>5. looked \in TickType
    BY <1>2, <2>4 DEF TickType, Tasks!Marks
  <2>6. ran \in TickType /\ ran.at = "run" /\ ran.one = d /\ ran.doubt = ~answered
    <3> HIDE DEF looked, d
    <3>1. QED
      BY <2>4, <2>5 DEF TickType
  <2>7. Tasks!Degraded(c, d, answered) => enabled[d] \/ ~answered
    BY DEF Tasks!Degraded
  <2>8. Tasks!Continue(looked) \in TickType
        /\ \/ Tasks!Continue(looked).at = "idle"
           \/ Tasks!Continue(looked).at = "sweep" /\ Tasks!Continue(looked).left # {}
    <3> HIDE DEF looked
    <3>1. QED
      BY <1>2, <2>5 DEF Tasks!Continue, TickType
  <2> HIDE DEF looked, ran, d
  <2>9. t \in TickType /\ (t.at = "sweep" => t.left # {}) /\ t.at \in {"idle", "sweep", "run"}
        /\ (t.at = "run" => t.one \in Components /\ (enabled[t.one] \/ t.doubt) /\ cooldown[t.one] # "fresh")
    BY <2>4, <2>6, <2>7, <2>8
  <2> HIDE DEF t
  <2>10. TasksTyped' /\ tick'[c] = t /\ \A e \in Components \ {c} : tick'[e] = tick[e]
    BY <1>1, <2>2, <2>3, <2>9 DEF TasksTyped
  <2>11. SweepsFit'
    BY <1>1, <2>2, <2>9, <2>10 DEF SweepsFit
  <2>12. SweepsAlone'
    BY <1>1, <2>2, <2>9, <2>10 DEF SweepsAlone, Tasks!Sweeping
  <2>13. QED
    BY <2>2, <2>10, <2>11, <2>12 DEF TasksInv
<1>8. CASE Tasks!Run(c)
  <2> DEFINE d == tick[c].one
             t == [tick[c] EXCEPT !.at = "note", !.times = cooldown]
             noted == [tick EXCEPT ![c] = t]
             u == [tick[d] EXCEPT !.at = "work"]
  <2>1. tick[c].at = "run" /\ d \in Components /\ UNCHANGED <<enabled, heart, marker, cooldown>>
    BY <1>1, <1>8 DEF Tasks!Run, Tasks!At, SweepsFit
  <2>2. tick \in [Components -> TickType] /\ tick[d] \in TickType /\ cooldown \in [Components -> Tasks!Marks]
    BY <1>1, <2>1 DEF TasksTyped
  <2>3. t \in TickType /\ t.at = "note" /\ t.one = d /\ u \in TickType /\ u.at = "work"
    BY <1>2, <2>2 DEF TickType
  <2>4. noted \in [Components -> TickType] /\ noted[c] = t
        /\ \A e \in Components \ {c} : noted[e] = tick[e]
    BY <2>2, <2>3
  <2>5. tick' = noted \/ (tick' = [noted EXCEPT ![d] = u] /\ d # c /\ tick[d].at = "idle")
    <3>1. tick' = noted \/ tick' = [noted EXCEPT ![d].at = IF Tasks!Running(d) THEN @ ELSE "work"]
      BY <1>8, <2>1, <2>2 DEF Tasks!Run
    <3>2. CASE tick' = [noted EXCEPT ![d].at = IF Tasks!Running(d) THEN @ ELSE "work"]
      <4>1. CASE Tasks!Running(d)
        <5>1. tick' = [noted EXCEPT ![d] = [noted[d] EXCEPT !.at = noted[d].at]]
          BY <3>2, <4>1
        <5> HIDE DEF noted, t, u
        <5>2. noted[d] \in TickType
          BY <2>1, <2>4
        <5>3. [noted[d] EXCEPT !.at = noted[d].at] = noted[d]
          BY <5>2 DEF TickType
        <5>4. QED
          BY <2>4, <5>1, <5>3
      <4>2. CASE ~Tasks!Running(d)
        BY <2>1, <2>2, <2>3, <2>4, <3>2, <4>2 DEF Tasks!Running
      <4>3. QED
        BY <4>1, <4>2
    <3>3. QED
      BY <3>1, <3>2
  <2>6. seen' = seen
    <3>1. enabled[d] \/ tick[c].doubt
      BY <1>1, <2>1 DEF SweepsFit
    <3>2. cooldown[d] # "fresh" \/ "overlap" \in seen
      BY <1>1, <2>1 DEF SweepsAlone
    <3>3. QED
      BY <1>8, <3>1, <3>2 DEF Tasks!Run
  <2> HIDE DEF d, t, noted, u
  <2>7. /\ tick' \in [Components -> TickType] /\ tick'[c] = t
        /\ \A e \in Components \ {c} : tick'[e] = tick[e] \/ tick'[e].at = "work"
    BY <2>1, <2>3, <2>4, <2>5
  <2>8. TasksTyped'
    BY <1>1, <2>1, <2>6, <2>7 DEF TasksTyped
  <2>9. SweepsFit'
    BY <1>1, <2>1, <2>3, <2>7 DEF SweepsFit
  <2>10. SweepsAlone'
    BY <1>1, <2>1, <2>3, <2>6, <2>7 DEF SweepsAlone, Tasks!Sweeping
  <2>11. QED
    BY <2>6, <2>8, <2>9, <2>10 DEF TasksInv
<1>9. CASE Tasks!Note(c)
  <2> DEFINE swept == [tick[c] EXCEPT !.times = Tasks!Blank, !.one = "none", !.doubt = FALSE]
             t == Tasks!Continue(swept)
  <2>1. tick[c].at = "note" /\ UNCHANGED <<enabled, heart, marker, seen>>
    BY <1>9 DEF Tasks!Note, Tasks!At
  <2>2. cooldown' \in [Components -> Tasks!Marks]
    <3>1. tick[c].times \in [Components -> Tasks!Marks] /\ "fresh" \in Tasks!Marks
      BY <1>2 DEF TickType, Tasks!Marks
    <3>2. QED
      BY <1>9, <3>1 DEF Tasks!Note
  <2>3. swept \in TickType
    BY <1>2 DEF TickType, Tasks!Blank, Tasks!Marks
  <2>4. tick' = [tick EXCEPT ![c] = t]
    <3>1. tick \in [Components -> TickType]
      BY <1>1 DEF TasksTyped
    <3>2. QED
      BY <1>9, <3>1 DEF Tasks!Note
  <2> HIDE DEF swept
  <2>5. t \in TickType /\ (t.at = "idle" \/ (t.at = "sweep" /\ t.left # {}))
    BY <1>2, <2>3 DEF Tasks!Continue, TickType
  <2> HIDE DEF t
  <2>6. TasksTyped' /\ tick'[c] = t /\ \A e \in Components \ {c} : tick'[e] = tick[e]
    BY <1>1, <2>1, <2>2, <2>4, <2>5 DEF TasksTyped
  <2>7. SweepsFit'
    BY <1>1, <2>1, <2>5, <2>6 DEF SweepsFit
  <2>8. "overlap" \notin seen => \A e \in Components \ {c} : ~Tasks!Sweeping(e)
    BY <1>1, <2>1 DEF SweepsAlone, Tasks!Sweeping
  <2>9. SweepsAlone'
    BY <2>1, <2>5, <2>6, <2>8 DEF SweepsAlone, Tasks!Sweeping
  <2>10. QED
    BY <2>1, <2>6, <2>7, <2>9 DEF TasksInv
<1>10. QED
  BY <1>3, <1>4, <1>5, <1>6, <1>7, <1>8, <1>9 DEF Tasks!Tick

LEMMA TriggerKeeps ==
    ASSUME TasksInv, NEW c \in Components, Tasks!Trigger(c)
    PROVE  TasksInv'
<1>1. TasksTyped /\ tick[c] \in TickType
  BY TicksTyped DEF TasksInv
<1>2. [tick[c] EXCEPT !.at = "work"] \in TickType /\ [tick[c] EXCEPT !.at = "work"].at = "work"
  BY <1>1 DEF TickType
<1>3. tick' = [tick EXCEPT ![c] = [tick[c] EXCEPT !.at = "work"]] /\ UNCHANGED <<enabled, heart, marker, cooldown, seen>>
  BY DEF Tasks!Trigger
<1>4. heart \in [Components -> Tasks!Marks] /\ marker \in Tasks!Marks
  BY <1>1 DEF TasksTyped
<1>5. QED
  BY <1>2, <1>3, <1>4, QuietTick

LEMMA KilledTickKeeps ==
    ASSUME TasksInv, NEW c \in Components, Tasks!TickKilled(c)
    PROVE  TasksInv'
<1>1. TasksTyped /\ Tasks!Idle \in TickType /\ Tasks!Idle.at = "idle"
  BY TicksTyped DEF TasksInv
<1>2. tick' = [tick EXCEPT ![c] = Tasks!Idle] /\ UNCHANGED <<enabled, heart, marker, cooldown, seen>>
  BY DEF Tasks!TickKilled
<1>3. heart \in [Components -> Tasks!Marks] /\ marker \in Tasks!Marks
  BY <1>1 DEF TasksTyped
<1>4. QED
  BY <1>1, <1>2, <1>3, QuietTick

LEMMA AgedTyped ==
    ASSUME NEW marks \in [Components -> Tasks!Marks], NEW c \in Components
    PROVE  /\ Tasks!Aged(marks, c) \in [Components -> Tasks!Marks]
           /\ \A d \in Components : Tasks!Aged(marks, c)[d] = "fresh" => marks[d] = "fresh"
BY DEF Tasks!Aged, Tasks!Marks

LEMMA SwitchKeeps ==
    ASSUME TasksInv, NEW c \in Components, Tasks!Switch(c)
    PROVE  TasksInv'
<1>1. TasksTyped /\ SweepsFit
  BY DEF TasksInv
<1> DEFINE t(d) == [tick[d] EXCEPT !.doubt = @ \/ (tick[d].at = "run" /\ tick[d].one = c)]
<1>2. tick' = [d \in Components |-> t(d)] /\ enabled' = [enabled EXCEPT ![c] = ~@]
      /\ UNCHANGED <<heart, marker, cooldown, seen>>
  BY DEF Tasks!Switch
<1>3. ASSUME NEW d \in Components
      PROVE  /\ t(d) \in TickType /\ t(d).at = tick[d].at /\ t(d).left = tick[d].left /\ t(d).one = tick[d].one
             /\ t(d).doubt = (tick[d].doubt \/ (tick[d].at = "run" /\ tick[d].one = c))
  <2>1. tick[d] \in TickType
    BY <1>1, TicksTyped
  <2>2. QED
    BY <2>1 DEF TickType
<1> HIDE DEF t
<1>4. tick' \in [Components -> TickType] /\ \A d \in Components : tick'[d] = t(d)
  BY <1>2, <1>3
<1>5. enabled' \in [Components -> BOOLEAN] /\ \A d \in Components \ {c} : enabled'[d] = enabled[d]
  BY <1>1, <1>2 DEF TasksTyped
<1>6. ASSUME NEW d \in Components, tick[d].at = "run", enabled[tick[d].one] \/ tick[d].doubt
      PROVE  enabled'[tick[d].one] \/ tick'[d].doubt
  <2>1. tick[d].one \in Components
    BY <1>1, <1>6 DEF SweepsFit
  <2>2. QED
    BY <1>3, <1>4, <1>5, <1>6, <2>1
<1>7. heart' \in [Components -> Tasks!Marks] /\ cooldown' \in [Components -> Tasks!Marks]
  BY <1>1, <1>2 DEF TasksTyped
<1>8. QED
  BY <1>2, <1>3, <1>4, <1>5, <1>6, <1>7, TicksAge

LEMMA HeartAgesKeeps ==
    ASSUME TasksInv, NEW c \in Components, Tasks!HeartAges(c)
    PROVE  TasksInv'
<1>1. TasksTyped
  BY DEF TasksInv
<1> DEFINE t(d) == IF Tasks!At(d, "beat") THEN [tick[d] EXCEPT !.copy = Tasks!Aged(@, c)] ELSE tick[d]
<1>2. tick' = [d \in Components |-> t(d)] /\ heart' = Tasks!Aged(heart, c)
      /\ UNCHANGED <<enabled, marker, cooldown, seen>>
  BY DEF Tasks!HeartAges
<1>3. ASSUME NEW d \in Components
      PROVE  /\ t(d) \in TickType /\ t(d).at = tick[d].at /\ t(d).left = tick[d].left /\ t(d).one = tick[d].one
             /\ t(d).doubt = tick[d].doubt
  <2>1. tick[d] \in TickType /\ tick[d].copy \in [Components -> Tasks!Marks]
    BY <1>1, TicksTyped DEF TickType
  <2>2. Tasks!Aged(tick[d].copy, c) \in [Components -> Tasks!Marks]
    BY <2>1, AgedTyped
  <2>3. QED
    BY <2>1, <2>2 DEF TickType
<1> HIDE DEF t
<1>4. tick' \in [Components -> TickType] /\ \A d \in Components : tick'[d] = t(d)
  BY <1>2, <1>3
<1>5. heart' \in [Components -> Tasks!Marks] /\ cooldown' \in [Components -> Tasks!Marks]
      /\ enabled' \in [Components -> BOOLEAN]
  BY <1>1, <1>2, AgedTyped DEF TasksTyped
<1>6. QED
  BY <1>2, <1>3, <1>4, <1>5, TicksAge

LEMMA CooldownEndsKeeps ==
    ASSUME TasksInv, NEW c \in Components, Tasks!CooldownEnds(c)
    PROVE  TasksInv'
<1>1. TasksTyped
  BY DEF TasksInv
<1> DEFINE t(d) == [tick[d] EXCEPT !.times = Tasks!Aged(@, c)]
<1>2. tick' = [d \in Components |-> t(d)] /\ cooldown' = Tasks!Aged(cooldown, c)
      /\ UNCHANGED <<enabled, heart, marker, seen>>
  BY DEF Tasks!CooldownEnds
<1>3. ASSUME NEW d \in Components
      PROVE  /\ t(d) \in TickType /\ t(d).at = tick[d].at /\ t(d).left = tick[d].left /\ t(d).one = tick[d].one
             /\ t(d).doubt = tick[d].doubt
  <2>1. tick[d] \in TickType /\ tick[d].times \in [Components -> Tasks!Marks]
    BY <1>1, TicksTyped DEF TickType
  <2>2. Tasks!Aged(tick[d].times, c) \in [Components -> Tasks!Marks]
    BY <2>1, AgedTyped
  <2>3. QED
    BY <2>1, <2>2 DEF TickType
<1> HIDE DEF t
<1>4. tick' \in [Components -> TickType] /\ \A d \in Components : tick'[d] = t(d)
  BY <1>2, <1>3
<1>5. /\ heart' \in [Components -> Tasks!Marks] /\ cooldown' \in [Components -> Tasks!Marks]
      /\ enabled' \in [Components -> BOOLEAN] /\ \A d \in Components : cooldown'[d] = "fresh" => cooldown[d] = "fresh"
  BY <1>1, <1>2, AgedTyped DEF TasksTyped
<1>6. QED
  BY <1>2, <1>3, <1>4, <1>5, TicksAge

LEMMA MarkerAgesKeeps ==
    ASSUME TasksInv, Tasks!MarkerAges
    PROVE  TasksInv'
BY DEF TasksInv, Tasks!MarkerAges, TasksTyped, SweepsFit, SweepsAlone, Tasks!Sweeping, Tasks!Marks

LEMMA TasksSame ==
    ASSUME TasksInv, UNCHANGED taskvars
    PROVE  TasksInv'
BY DEF TasksInv, taskvars, TasksTyped, SweepsFit, SweepsAlone, Tasks!Sweeping

LEMMA TasksKept ==
    ASSUME TasksInv, [HostNext]_hostvars
    PROVE  TasksInv'
<1>1. UNCHANGED taskvars \/ Tasks!Next
  BY DEF HostNext, hostvars
<1>2. CASE Tasks!Next
  <2>1. ASSUME NEW c \in Components,
               Tasks!Trigger(c) \/ Tasks!Tick(c) \/ Tasks!TickKilled(c) \/ Tasks!Switch(c) \/ Tasks!HeartAges(c)
                 \/ Tasks!CooldownEnds(c)
        PROVE  TasksInv'
    BY <2>1, TriggerKeeps, TickKeeps, KilledTickKeeps, SwitchKeeps, HeartAgesKeeps, CooldownEndsKeeps
  <2>2. QED
    BY <1>2, <2>1, MarkerAgesKeeps DEF Tasks!Next
<1>3. QED
  BY <1>1, <1>2, TasksSame

LEMMA TasksHold == TasksInv => TasksSafe
<1> SUFFICES ASSUME TasksInv PROVE Tasks!TypeOK /\ Tasks!DisabledLeftAlone /\ Tasks!CooldownKept
  BY DEF TasksSafe
<1>1. TasksTyped /\ SweepsFit
  BY DEF TasksInv
<1>2. ASSUME NEW c \in Components
      PROVE  /\ tick[c].at \in {"idle", "work", "beat", "gate", "open", "sweep", "run", "note"}
             /\ tick[c].at = "sweep" => tick[c].left # {}
  BY <1>1, TicksTyped DEF TickType, SweepsFit
<1>3. QED
  BY <1>1, <1>2 DEF TasksInv, TasksTyped, Tasks!TypeOK, Tasks!At, Tasks!DisabledLeftAlone, Tasks!CooldownKept

(* Scheduled components (runtime_supervisor.py:29-39, 198-226): no sweep starts a component whose task  *)
(* its query reported disabled, and as long as no two sweeps have run at once none is started within    *)
(* its cooldown: for any number of components, ticks killed, files unreadable and starts that fail.     *)
THEOREM TasksSafeAlways == HostSpec => []TasksSafe
<1>1. HostInit => TasksInv
  BY InitTasks
<1>2. TasksInv /\ [HostNext]_hostvars => TasksInv'
  BY TasksKept
<1>3. TasksInv => TasksSafe
  BY TasksHold
<1>4. QED
  BY <1>1, <1>2, <1>3, PTL DEF HostSpec

-----------------------------------------------------------------------------
(* Session Centers *)

Targets == {Center!Newest(cs) : cs \in SUBSET Commands}

CenterType ==
    [kind : {"none", "center", "other"}, follows : Targets,
     view : {"none", "starting", "correlating", "live", "failed"}, dying : BOOLEAN]
FileType == [pid : Pids \cup {0}, follows : Targets, same : BOOLEAN]
RunType ==
    [at : {"idle", "found", "decided", "clear", "probe", "spawned"}, target : Targets,
     kill : Pids \cup {0}, ended : BOOLEAN]

CenterTyped ==
    /\ command \in [Commands -> {"none", "queued", "claimed", "running", "done"}]
    /\ centers \in [Pids -> CenterType] /\ port \in Pids \cup {0}
    /\ file \in FileType /\ run \in RunType /\ faults \in 0 .. MaxFaults

\* What the file or the run knows of a process holds for as long as that process has not ended.
Known ==
    /\ Center!VerifiedAlive => centers[file.pid].kind = "center"
    /\ run.kill # 0 /\ ~run.ended => centers[run.kill].kind = "center"
    /\ run.at = "spawned" => run.kill # 0 /\ (run.ended => centers[run.kill].kind # "center")

\* Without a fault, the center that the file names has been told to end before the file forgets it.
OldEnds ==
    /\ run.at = "decided" /\ Center!VerifiedAlive => run.kill = file.pid
    /\ faults = MaxFaults /\ run.at \in {"clear", "probe", "spawned"} /\ Center!VerifiedAlive =>
         centers[file.pid].dying

CenterInv ==
    CenterTyped /\ Known /\ OldEnds /\ Center!OnlyOwnKilled /\ Center!NoStray

LEMMA NoTarget == 0 \in Targets
BY DEF Targets, Center!Newest

LEMMA FollowedTyped == ASSUME NEW known \in SUBSET Commands PROVE Center!Followed(known) \in Targets
<1>1. \A s : known \cap Center!With(s) \in SUBSET Commands
  OBVIOUS
<1>2. QED
  BY <1>1 DEF Center!Followed, Targets

LEMMA BlankTyped ==
    /\ Center!Nobody \in CenterType /\ Center!Nobody.kind = "none"
    /\ Center!Nothing \in FileType /\ Center!Nothing.pid = 0
    /\ Center!NoRun \in RunType /\ Center!NoRun.at = "idle" /\ Center!NoRun.kill = 0
BY NoTarget DEF Center!Nobody, Center!Nothing, Center!NoRun, CenterType, FileType, RunType

LEMMA InitCenter == HostInit => CenterInv
<1> SUFFICES ASSUME Center!Init PROVE CenterInv
  BY DEF HostInit
<1>1. CenterTyped
  BY BlankTyped, HostAssumption DEF Center!Init, CenterTyped
<1>2. ~Center!VerifiedAlive /\ run.at = "idle" /\ run.kill = 0
  BY BlankTyped DEF Center!Init, Center!VerifiedAlive
<1>3. Center!NoStray
  BY BlankTyped DEF Center!Init, Center!NoStray, Center!Stray
<1>4. QED
  BY <1>1, <1>2, <1>3 DEF CenterInv, Known, OldEnds, Center!Init, Center!OnlyOwnKilled

\* What may change at a process without anybody noticing.
LEMMA ViewKeeps ==
    ASSUME CenterInv, NEW p \in Pids, NEW x \in CenterType, centers' = [centers EXCEPT ![p] = x],
           x.kind = centers[p].kind, centers[p].dying => x.dying,
           port' \in Pids \cup {0}, UNCHANGED <<command, file, run, faults, victims>>
    PROVE  CenterInv'
<1>1. CenterTyped /\ Known /\ OldEnds /\ Center!OnlyOwnKilled /\ Center!NoStray
  BY DEF CenterInv
<1>2. CenterTyped'
  BY <1>1 DEF CenterTyped
<1>3. \A q \in Pids : centers'[q].kind = centers[q].kind /\ (centers[q].dying => centers'[q].dying)
  BY <1>1 DEF CenterTyped
<1>4. (file.pid # 0 => file.pid \in Pids) /\ (run.kill # 0 => run.kill \in Pids)
  BY <1>1 DEF CenterTyped, FileType, RunType
<1>5. Known' /\ OldEnds'
  BY <1>1, <1>3, <1>4 DEF Known, OldEnds, Center!VerifiedAlive
<1>6. Center!NoStray'
  BY <1>1, <1>3 DEF Center!NoStray, Center!Stray, Center!Tracked
<1>7. QED
  BY <1>1, <1>2, <1>5, <1>6 DEF CenterInv, Center!OnlyOwnKilled

\* A process ends: nobody takes it for the one that was recorded.
LEMMA EndedKeeps ==
    ASSUME CenterInv, NEW p \in Pids, Center!Ended(p), faults' \in 0 .. MaxFaults, faults' <= faults,
           UNCHANGED <<command, victims>>
    PROVE  CenterInv'
<1>1. CenterTyped /\ Known /\ OldEnds /\ Center!OnlyOwnKilled /\ Center!NoStray
  BY DEF CenterInv
<1>2. 0 \notin Pids /\ (faults' = MaxFaults => faults = MaxFaults)
  BY <1>1, HostAssumption DEF CenterTyped
<1>3. /\ centers' = [centers EXCEPT ![p] = Center!Nobody] /\ port' = (IF port = p THEN 0 ELSE port)
      /\ file' = (IF file.pid = p THEN [file EXCEPT !.same = FALSE] ELSE file)
      /\ run' = (IF run.kill = p THEN [run EXCEPT !.ended = TRUE] ELSE run)
  BY DEF Center!Ended
<1>4. /\ centers' \in [Pids -> CenterType] /\ centers'[p].kind = "none"
      /\ \A q \in Pids \ {p} : centers'[q] = centers[q]
  BY <1>1, <1>3, BlankTyped DEF CenterTyped
<1>5. file' \in FileType /\ file'.pid = file.pid /\ file'.same = (file.same /\ file.pid # p)
  BY <1>1, <1>3 DEF CenterTyped, FileType
<1>6. /\ run' \in RunType /\ run'.at = run.at /\ run'.kill = run.kill
      /\ run'.ended = (run.ended \/ run.kill = p)
  BY <1>1, <1>3 DEF CenterTyped, RunType
<1>7. CenterTyped'
  BY <1>1, <1>3, <1>4, <1>5, <1>6 DEF CenterTyped
<1>8. (file.pid # 0 => file.pid \in Pids) /\ (run.kill # 0 => run.kill \in Pids)
  BY <1>1 DEF CenterTyped, FileType, RunType
<1>9. Known'
  BY <1>1, <1>4, <1>5, <1>6, <1>8 DEF Known, Center!VerifiedAlive
<1>10. OldEnds'
  BY <1>1, <1>2, <1>4, <1>5, <1>6, <1>8 DEF OldEnds, Center!VerifiedAlive
<1>11. Center!NoStray'
  BY <1>1, <1>2, <1>4, <1>5, <1>6 DEF Center!NoStray, Center!Stray, Center!Tracked
<1>12. QED
  BY <1>1, <1>7, <1>9, <1>10, <1>11 DEF CenterInv, Center!OnlyOwnKilled

\* A run goes on, or ends, and leaves every process as it is.
LEMMA RunKeeps ==
    ASSUME CenterInv, run' \in RunType, faults' \in 0 .. MaxFaults, faults' <= faults,
           UNCHANGED <<command, centers, port, file, victims>>,
           run'.kill # 0 /\ ~run'.ended => Center!VerifiedAlive /\ run'.kill = file.pid,
           run'.at = "decided" /\ Center!VerifiedAlive => run'.kill = file.pid,
           run'.at \in {"idle", "found", "decided"}, run.at # "spawned" \/ faults' # MaxFaults
    PROVE  CenterInv'
<1>1. CenterTyped /\ Known /\ OldEnds /\ Center!OnlyOwnKilled /\ Center!NoStray
  BY DEF CenterInv
<1>2. faults' = MaxFaults => faults = MaxFaults
  BY <1>1, HostAssumption DEF CenterTyped
<1>3. CenterTyped'
  BY <1>1 DEF CenterTyped
<1>4. Known' /\ OldEnds'
  BY <1>1 DEF Known, OldEnds, Center!VerifiedAlive
<1>5. Center!NoStray'
  BY <1>1, <1>2 DEF Center!NoStray, Center!Stray, Center!Tracked
<1>6. QED
  BY <1>1, <1>3, <1>4, <1>5 DEF CenterInv, Center!OnlyOwnKilled

LEMMA FaultTyped ==
    ASSUME CenterTyped
    PROVE  /\ Center!Fault => faults' \in 0 .. MaxFaults /\ faults' < faults
           /\ faults \in 0 .. MaxFaults /\ faults <= faults
BY HostAssumption DEF CenterTyped, Center!Fault

LEMMA FindKeeps ==
    ASSUME CenterInv, Center!Find
    PROVE  CenterInv'
<1>1. CenterTyped
  BY DEF CenterInv
<1>2. PICK known \in SUBSET Commands : run' = [Center!NoRun EXCEPT !.at = "found", !.target = Center!Followed(known)]
  BY DEF Center!Find
<1>3. run' \in RunType /\ run'.at = "found" /\ run'.kill = 0
  BY <1>2, BlankTyped, FollowedTyped DEF RunType
<1>4. faults' \in 0 .. MaxFaults /\ faults' <= faults
  <2>1. UNCHANGED faults \/ Center!Fault
    BY DEF Center!Find
  <2>2. QED
    BY <1>1, <2>1, FaultTyped, HostAssumption DEF CenterTyped
<1>5. run.at = "idle" /\ UNCHANGED <<command, centers, port, file, victims>>
  BY DEF Center!Find
<1>6. Center!VerifiedAlive => file.pid # 0
  BY DEF Center!VerifiedAlive
<1>7. QED
  BY <1>3, <1>4, <1>5, RunKeeps

LEMMA DecideKeeps ==
    ASSUME CenterInv, Center!Decide
    PROVE  CenterInv'
<1>1. CenterTyped
  BY DEF CenterInv
<1>2. run.at = "found" /\ UNCHANGED <<command, centers, port, file, faults, victims>>
  BY DEF Center!Decide
<1> DEFINE kill == IF Center!VerifiedAlive THEN file.pid ELSE 0
<1>3. run' = Center!NoRun \/ run' = [run EXCEPT !.at = "decided", !.kill = kill]
  BY DEF Center!Decide
<1>4. kill \in Pids \cup {0} /\ run \in RunType
  BY <1>1 DEF CenterTyped, FileType
<1> HIDE DEF kill
<1>5. run' \in RunType /\ ((run'.at = "idle" /\ run'.kill = 0) \/ (run'.at = "decided" /\ run'.kill = kill))
  BY <1>3, <1>4, BlankTyped DEF RunType
<1> USE DEF kill
<1>6. faults' \in 0 .. MaxFaults /\ faults' <= faults
  BY <1>1, <1>2, FaultTyped
<1>7. QED
  BY <1>2, <1>5, <1>6, RunKeeps

LEMMA KillKeeps ==
    ASSUME CenterInv, Center!KillOld
    PROVE  CenterInv'
<1>1. CenterTyped /\ Known /\ OldEnds /\ Center!OnlyOwnKilled /\ Center!NoStray
  BY DEF CenterInv
<1>2. run.at = "decided" /\ UNCHANGED <<command, port, file>> /\ run \in RunType
  BY <1>1 DEF Center!KillOld, CenterTyped
<1>3. /\ run' \in RunType /\ run'.at \in {"clear", "probe"} /\ run'.kill = run.kill /\ run'.ended = run.ended
  BY <1>2 DEF Center!KillOld, RunType
<1>4. (file.pid # 0 => file.pid \in Pids) /\ (run.kill # 0 => run.kill \in Pids) /\ 0 \notin Pids
  BY <1>1, HostAssumption DEF CenterTyped, FileType, RunType
<1>5. \/ run.kill # 0 /\ centers' = [centers EXCEPT ![run.kill].dying = TRUE] /\ faults' = faults
      \/ UNCHANGED centers /\ Center!Fault
      \/ UNCHANGED <<centers, faults>> /\ (run.kill = 0 \/ centers[run.kill].kind = "none")
  BY DEF Center!KillOld
<1>6. /\ centers' \in [Pids -> CenterType]
      /\ \A p \in Pids : centers'[p].kind = centers[p].kind /\ (centers[p].dying => centers'[p].dying)
  <2>1. centers \in [Pids -> CenterType]
    BY <1>1 DEF CenterTyped
  <2>2. CASE run.kill # 0 /\ centers' = [centers EXCEPT ![run.kill].dying = TRUE]
    <3>1. centers[run.kill] \in CenterType
      BY <1>4, <2>1, <2>2
    <3>2. [centers[run.kill] EXCEPT !.dying = TRUE] \in CenterType
          /\ [centers[run.kill] EXCEPT !.dying = TRUE].kind = centers[run.kill].kind
          /\ [centers[run.kill] EXCEPT !.dying = TRUE].dying
      BY <3>1 DEF CenterType
    <3>3. QED
      BY <2>1, <2>2, <3>2
  <2>3. CASE UNCHANGED centers
    BY <2>1, <2>3
  <2>4. QED
    BY <1>5, <2>2, <2>3
<1>7. faults' \in 0 .. MaxFaults /\ (faults' = MaxFaults => faults = MaxFaults /\ ~Center!Fault)
  BY <1>1, <1>5, FaultTyped, HostAssumption DEF CenterTyped
<1>8. victims' = {}
  BY <1>1, <1>4 DEF Center!KillOld, Known, Center!OnlyOwnKilled
<1>9. CenterTyped'
  BY <1>1, <1>2, <1>3, <1>6, <1>7 DEF CenterTyped
<1>10. Known'
  BY <1>1, <1>2, <1>3, <1>4, <1>6 DEF Known, Center!VerifiedAlive
<1>11. OldEnds'
  <2>1. SUFFICES ASSUME faults' = MaxFaults, file.pid # 0, file.same PROVE centers'[file.pid].dying
    BY <1>2, <1>3 DEF OldEnds, Center!VerifiedAlive
  <2>2. run.kill = file.pid /\ centers[file.pid].kind = "center" /\ file.pid \in Pids
    BY <1>1, <1>2, <1>4, <2>1 DEF OldEnds, Known, Center!VerifiedAlive
  <2>3. centers' = [centers EXCEPT ![run.kill].dying = TRUE]
    BY <1>5, <1>7, <2>1, <2>2
  <2>4. centers[run.kill] \in CenterType /\ centers \in [Pids -> CenterType]
    BY <1>1, <2>2 DEF CenterTyped
  <2>5. QED
    BY <2>2, <2>3, <2>4 DEF CenterType
<1>12. Center!NoStray'
  BY <1>1, <1>2, <1>6, <1>7 DEF Center!NoStray, Center!Stray, Center!Tracked
<1>13. QED
  BY <1>8, <1>9, <1>10, <1>11, <1>12 DEF CenterInv, Center!OnlyOwnKilled

LEMMA ClearKeeps ==
    ASSUME CenterInv, Center!Clear
    PROVE  CenterInv'
<1>1. CenterTyped /\ Known /\ OldEnds /\ Center!OnlyOwnKilled /\ Center!NoStray
  BY DEF CenterInv
<1>2. /\ run.at = "clear" /\ file' = Center!Nothing /\ run' = Center!NoRun
      /\ UNCHANGED <<command, centers, port, faults, victims>>
  BY DEF Center!Clear
<1>3. CenterTyped'
  BY <1>1, <1>2, BlankTyped DEF CenterTyped
<1>4. Known' /\ OldEnds'
  BY <1>2, BlankTyped DEF Known, OldEnds, Center!VerifiedAlive
<1>5. Center!NoStray'
  <2>1. SUFFICES ASSUME faults = MaxFaults, NEW p \in Pids, centers[p].kind = "center", ~centers[p].dying PROVE FALSE
    BY <1>2 DEF Center!NoStray, Center!Stray
  <2>2. file.pid = p /\ file.same
    BY <1>1, <1>2, <2>1 DEF Center!NoStray, Center!Stray, Center!Tracked
  <2>3. QED
    BY <1>1, <1>2, <2>1, <2>2, HostAssumption DEF OldEnds, Center!VerifiedAlive
<1>6. QED
  BY <1>1, <1>2, <1>3, <1>4, <1>5 DEF CenterInv, Center!OnlyOwnKilled

LEMMA SpawnKeeps ==
    ASSUME CenterInv, Center!Spawn
    PROVE  CenterInv'
<1>1. CenterTyped /\ Known /\ OldEnds /\ Center!OnlyOwnKilled /\ Center!NoStray
  BY DEF CenterInv
<1>2. run.at = "probe" /\ UNCHANGED <<command, port, file, faults, victims>> /\ run \in RunType
  BY <1>1 DEF Center!Spawn, CenterTyped
<1>3. PICK p \in Pids :
        /\ centers[p].kind = "none"
        /\ centers' = [centers EXCEPT ![p] = [kind |-> "center", follows |-> run.target,
                                              view |-> "starting", dying |-> FALSE]]
        /\ run' = [run EXCEPT !.at = "spawned", !.kill = p, !.ended = FALSE]
  BY DEF Center!Spawn
<1>4. p # 0 /\ (file.pid # 0 => file.pid \in Pids)
  BY <1>1, HostAssumption DEF CenterTyped, FileType
<1>5. run' \in RunType /\ run'.at = "spawned" /\ run'.kill = p /\ ~run'.ended /\ run.target \in Targets
  BY <1>2, <1>3 DEF RunType
<1>6. [kind |-> "center", follows |-> run.target, view |-> "starting", dying |-> FALSE] \in CenterType
  BY <1>5 DEF CenterType
<1>7. /\ centers' \in [Pids -> CenterType] /\ centers'[p].kind = "center"
      /\ \A q \in Pids \ {p} : centers'[q] = centers[q]
  BY <1>1, <1>3, <1>6 DEF CenterTyped
<1>8. CenterTyped'
  BY <1>1, <1>2, <1>5, <1>7 DEF CenterTyped
<1>9. Known'
  BY <1>1, <1>2, <1>3, <1>4, <1>5, <1>7 DEF Known, Center!VerifiedAlive
<1>10. OldEnds'
  BY <1>1, <1>2, <1>3, <1>4, <1>5, <1>7 DEF Known, OldEnds, Center!VerifiedAlive
<1>11. Center!NoStray'
  BY <1>1, <1>2, <1>5, <1>7 DEF Center!NoStray, Center!Stray, Center!Tracked
<1>12. QED
  BY <1>1, <1>2, <1>8, <1>9, <1>10, <1>11 DEF CenterInv, Center!OnlyOwnKilled

LEMMA SaveKeeps ==
    ASSUME CenterInv, Center!Save
    PROVE  CenterInv'
<1>1. CenterTyped /\ Known /\ OldEnds /\ Center!OnlyOwnKilled /\ Center!NoStray
  BY DEF CenterInv
<1>2. /\ run.at = "spawned" /\ run' = Center!NoRun /\ UNCHANGED <<command, centers, port, victims>>
      /\ run \in RunType /\ run.kill \in Pids
  BY <1>1 DEF Center!Save, CenterTyped, Known, RunType
<1>3. \/ file' = [pid |-> run.kill, follows |-> run.target, same |-> ~run.ended] /\ UNCHANGED faults
      \/ Center!Fault /\ file' = Center!Nothing
  BY DEF Center!Save
<1>4. faults' \in 0 .. MaxFaults /\ (faults' = MaxFaults => faults = MaxFaults /\ ~Center!Fault)
  BY <1>1, <1>3, FaultTyped, HostAssumption DEF CenterTyped
<1>5. file' \in FileType /\ (file'.pid = 0 \/ (file'.pid = run.kill /\ file'.same = ~run.ended))
  <2>1. run.kill \in Pids \cup {0} /\ run.target \in Targets /\ run.ended \in BOOLEAN
    BY <1>2 DEF RunType
  <2>2. [pid |-> run.kill, follows |-> run.target, same |-> ~run.ended] \in FileType
    BY <2>1 DEF FileType
  <2>3. QED
    BY <1>3, <2>2, BlankTyped
<1>6. CenterTyped'
  BY <1>1, <1>2, <1>4, <1>5, BlankTyped DEF CenterTyped
<1>7. Known' /\ OldEnds'
  BY <1>1, <1>2, <1>5, BlankTyped DEF Known, OldEnds, Center!VerifiedAlive
<1>8. Center!NoStray'
  <2>1. SUFFICES ASSUME faults' = MaxFaults, NEW p \in Pids, centers[p].kind = "center", ~centers[p].dying,
                        ~(file'.pid = p /\ file'.same)
                 PROVE  FALSE
    BY <1>2 DEF Center!NoStray, Center!Stray, Center!Tracked
  <2>2. p # 0 /\ ~(file.pid = p /\ file.same)
    BY <1>1, <1>2, <1>4, <2>1, HostAssumption DEF OldEnds, Center!VerifiedAlive
  <2>3. run.kill = p
    BY <1>1, <1>4, <2>1, <2>2 DEF Center!NoStray, Center!Stray, Center!Tracked
  <2>4. file'.pid = run.kill /\ file'.same = ~run.ended
    BY <1>3, <1>4, <2>1
  <2>5. QED
    BY <1>1, <1>2, <2>1, <2>3, <2>4 DEF Known
<1>9. QED
  BY <1>1, <1>2, <1>6, <1>7, <1>8 DEF CenterInv, Center!OnlyOwnKilled

LEMMA QuietRunKeeps ==
    ASSUME CenterInv, Center!PortTaken \/ Center!RunKilled
    PROVE  CenterInv'
<1>1. CenterTyped
  BY DEF CenterInv
<1>2. run' = Center!NoRun /\ UNCHANGED <<command, centers, port, file, victims>>
  BY DEF Center!PortTaken, Center!RunKilled
<1>3. Center!Fault \/ (UNCHANGED faults /\ run.at = "probe")
  BY DEF Center!PortTaken, Center!RunKilled
<1>4. faults' \in 0 .. MaxFaults /\ faults' <= faults /\ (run.at = "probe" \/ faults' # MaxFaults)
  BY <1>1, <1>3, FaultTyped, HostAssumption DEF CenterTyped
<1>5. run' \in RunType /\ run'.at = "idle" /\ run'.kill = 0
  BY <1>2, BlankTyped
<1>6. QED
  BY <1>2, <1>4, <1>5, RunKeeps

LEMMA ShownKeeps ==
    ASSUME CenterInv, NEW p \in Pids,
           NEW view \in {"correlating", "live", "failed"}, centers' = [centers EXCEPT ![p].view = view],
           port' \in Pids \cup {0}, UNCHANGED <<command, file, run, faults, victims>>
    PROVE  CenterInv'
<1>1. centers \in [Pids -> CenterType] /\ centers[p] \in CenterType
  BY DEF CenterInv, CenterTyped
<1> DEFINE x == [centers[p] EXCEPT !.view = view]
<1>2. x \in CenterType /\ x.kind = centers[p].kind /\ x.dying = centers[p].dying
  BY <1>1 DEF CenterType
<1>3. centers' = [centers EXCEPT ![p] = x]
  BY <1>1
<1>4. QED
  BY <1>2, <1>3, ViewKeeps

LEMMA OtherStartsKeeps ==
    ASSUME CenterInv, NEW p \in Pids, Center!OtherStarts(p)
    PROVE  CenterInv'
<1>1. CenterTyped /\ Known /\ OldEnds /\ Center!OnlyOwnKilled /\ Center!NoStray
  BY DEF CenterInv
<1>2. /\ centers[p].kind = "none" /\ centers' = [centers EXCEPT ![p] = [Center!Nobody EXCEPT !.kind = "other"]]
      /\ UNCHANGED <<command, port, file, run, faults, victims>>
  BY DEF Center!OtherStarts
<1>3. [Center!Nobody EXCEPT !.kind = "other"] \in CenterType /\ [Center!Nobody EXCEPT !.kind = "other"].kind = "other"
  BY BlankTyped DEF CenterType
<1>4. /\ centers' \in [Pids -> CenterType] /\ centers'[p].kind = "other"
      /\ \A q \in Pids \ {p} : centers'[q] = centers[q]
  BY <1>1, <1>2, <1>3 DEF CenterTyped
<1>5. (file.pid # 0 => file.pid \in Pids) /\ (run.kill # 0 => run.kill \in Pids)
  BY <1>1 DEF CenterTyped, FileType, RunType
<1>6. CenterTyped'
  BY <1>1, <1>2, <1>4 DEF CenterTyped
<1>7. Known' /\ OldEnds'
  BY <1>1, <1>2, <1>4, <1>5 DEF Known, OldEnds, Center!VerifiedAlive
<1>8. Center!NoStray'
  BY <1>1, <1>2, <1>4 DEF Center!NoStray, Center!Stray, Center!Tracked
<1>9. QED
  BY <1>1, <1>2, <1>6, <1>7, <1>8 DEF CenterInv, Center!OnlyOwnKilled

LEMMA ProcessKeeps ==
    ASSUME CenterInv, NEW p \in Pids, Center!CenterStep(p)
    PROVE  CenterInv'
<1>1. CenterTyped /\ port \in Pids \cup {0} /\ faults \in 0 .. MaxFaults /\ faults <= faults
  BY FaultTyped DEF CenterInv, CenterTyped
<1>2. CASE Center!Bind(p)
  <2>1. CASE port = 0
    BY <1>2, <2>1, ShownKeeps DEF Center!Bind
  <2>2. CASE port # 0
    BY <1>1, <1>2, <2>2, EndedKeeps DEF Center!Bind
  <2>3. QED
    BY <2>1, <2>2
<1>3. CASE Center!Resolve(p) \/ Center!WaitEnds(p)
  BY <1>1, <1>3, ShownKeeps DEF Center!Resolve, Center!WaitEnds
<1>4. CASE Center!Dies(p) \/ Center!OtherEnds(p)
  BY <1>1, <1>4, EndedKeeps DEF Center!Dies, Center!OtherEnds
<1>5. CASE Center!Crash(p)
  <2>1. Center!Fault /\ Center!Ended(p) /\ UNCHANGED <<command, victims>>
    BY <1>5 DEF Center!Crash
  <2>2. faults' \in 0 .. MaxFaults /\ faults' <= faults
    BY <1>1, <2>1, FaultTyped, HostAssumption
  <2>3. QED
    BY <2>1, <2>2, EndedKeeps
<1>6. QED
  BY <1>2, <1>3, <1>4, <1>5, OtherStartsKeeps DEF Center!CenterStep

LEMMA CommandKeeps ==
    ASSUME CenterInv, NEW c \in Commands, NEW from, NEW to \in {"queued", "claimed", "running", "done"},
           Center!Moves(c, from, to)
    PROVE  CenterInv'
<1>1. CenterTyped'
  BY DEF CenterInv, CenterTyped, Center!Moves
<1>2. UNCHANGED <<centers, port, file, run, faults, victims>>
  BY DEF Center!Moves
<1>3. QED
  BY <1>1, <1>2 DEF CenterInv, Known, OldEnds, Center!OnlyOwnKilled, Center!NoStray, Center!VerifiedAlive,
     Center!Stray, Center!Tracked

LEMMA CenterSame ==
    ASSUME CenterInv, UNCHANGED centervars
    PROVE  CenterInv'
BY DEF CenterInv, centervars, CenterTyped, Known, OldEnds, Center!OnlyOwnKilled, Center!NoStray, Center!VerifiedAlive,
   Center!Stray, Center!Tracked

LEMMA CenterKept ==
    ASSUME CenterInv, [HostNext]_hostvars
    PROVE  CenterInv'
<1>1. UNCHANGED centervars \/ Center!Next
  BY DEF HostNext, hostvars
<1>2. CASE Center!Next
  <2>1. CASE Center!Supervisor \/ Center!RunKilled
    BY <2>1, FindKeeps, DecideKeeps, KillKeeps, ClearKeeps, QuietRunKeeps, SpawnKeeps, SaveKeeps DEF Center!Supervisor
  <2>2. ASSUME NEW p \in Pids, Center!CenterStep(p) PROVE CenterInv'
    BY <2>2, ProcessKeeps
  <2>3. ASSUME NEW c \in Commands, Center!Queue(c) \/ Center!Claim(c) \/ Center!Start(c) \/ Center!Finish(c)
        PROVE  CenterInv'
    BY <2>3, CommandKeeps DEF Center!Queue, Center!Claim, Center!Start, Center!Finish
  <2>4. QED
    BY <1>2, <2>1, <2>2, <2>3 DEF Center!Next
<1>3. QED
  BY <1>1, <1>2, CenterSame

LEMMA CenterHolds == CenterInv => CenterSafe
<1> SUFFICES ASSUME CenterInv PROVE Center!TypeOK /\ Center!OnlyOwnKilled /\ Center!NoStray
  BY DEF CenterSafe
<1>1. CenterTyped
  BY DEF CenterInv
<1>2. (\A p \in Pids : centers[p].kind \in {"none", "center", "other"}) /\ file.pid \in Pids \cup {0}
  BY <1>1 DEF CenterTyped, CenterType, FileType
<1>3. QED
  BY <1>1, <1>2 DEF CenterInv, CenterTyped, Center!TypeOK

(* Session Centers (session_center_supervisor.py:19-25, 300-411): the supervisor kills no process but a *)
(* Session Center that it has recorded itself, and without a fault every Session Center is one that the *)
(* state file names, one that has been told to end, or one that a run has just spawned: whatever the    *)
(* number of Commands and process ids, and however often pids are used again.                           *)
THEOREM CenterSafeAlways == HostSpec => []CenterSafe
<1>1. HostInit => CenterInv
  BY InitCenter
<1>2. CenterInv /\ [HostNext]_hostvars => CenterInv'
  BY CenterKept
<1>3. CenterInv => CenterSafe
  BY CenterHolds
<1>4. QED
  BY <1>1, <1>2, <1>3, PTL DEF HostSpec

-----------------------------------------------------------------------------
(* The configuration lock, of the specification of its own module *)
\* A launch between its acquire and its release is the owner in the table.
OwnerRecorded == \A l \in Launches : Holds(l) => table[directory[l]] = l

LockInv == TypeOK /\ OwnerRecorded

\* The table keeps the owners it has, and an entry is taken only from a process that is gone.
LEMMA TakenFromTheGone ==
    ASSUME NEW l \in Launches, MayTake(l),
           table[directory[l]] # Free, table[directory[l]] # l
    PROVE  ~Live(table[directory[l]])
BY DEF MayTake, Liveness, Reclaimable

LEMMA InitLockInv == Init => LockInv
BY DEF Init, LockInv, TypeOK, OwnerRecorded, Holds

(* Every step of a launch keeps the invariant: an entry is replaced only     *)
(* when its owner is gone, and removed only by the launch it records.        *)
LEMMA StepLockInv == LockInv /\ [Next]_lockvars => LockInv'
<1> SUFFICES ASSUME LockInv, [Next]_lockvars PROVE LockInv'
  OBVIOUS
<1>1. CASE UNCHANGED lockvars
  BY <1>1 DEF lockvars, LockInv, TypeOK, OwnerRecorded, Holds, Live
<1>2. CASE Next
  <2> PICK l \in Launches :
        \/ Acquire(l) \/ AcquireFails(l) \/ Spawn(l) \/ SpawnFails(l)
        \/ CloseLaunch(l) \/ ChildEnds(l) \/ Release(l) \/ ProcessEnds(l)
    BY <1>2 DEF Next
  <2>1. CASE Acquire(l)
    <3>1. TypeOK'
      BY <2>1 DEF LockInv, TypeOK, Acquire, Go
    <3>2. ASSUME NEW m \in Launches, Holds(m)' PROVE table'[directory'[m]] = m
      <4>1. CASE m = l
        BY <2>1, <4>1 DEF Acquire, LockInv, TypeOK
      <4>2. CASE m # l
        <5>1. Holds(m) /\ table[directory[m]] = m
          BY <2>1, <3>2, <4>2 DEF Acquire, Go, Holds, Live, LockInv, TypeOK, OwnerRecorded
        <5>2. CASE directory[m] = directory[l]
          BY <2>1, <4>2, <5>1, <5>2, FreeIsNoLaunch, TakenFromTheGone DEF Acquire, Holds
        <5>3. CASE directory[m] # directory[l]
          BY <2>1, <5>1, <5>3 DEF Acquire, LockInv, TypeOK
        <5> QED BY <5>2, <5>3
      <4> QED BY <4>1, <4>2
    <3> QED BY <3>1, <3>2 DEF LockInv, OwnerRecorded
  <2>2. CASE AcquireFails(l) \/ Spawn(l) \/ SpawnFails(l) \/ CloseLaunch(l) \/ ChildEnds(l)
    BY <2>2 DEF AcquireFails, Spawn, SpawnFails, CloseLaunch, ChildEnds, Go, Holds, Live,
                LockInv, TypeOK, OwnerRecorded
  <2>3. CASE Release(l)
    <3>1. TypeOK'
      BY <2>3 DEF LockInv, TypeOK, Release, Go
    <3>2. Holds(l) /\ table[directory[l]] = l
      BY <2>3 DEF Release, Go, Holds, LockInv, OwnerRecorded
    <3>3. ASSUME NEW m \in Launches, Holds(m)' PROVE table'[directory'[m]] = m
      <4>1. m # l /\ Holds(m) /\ table[directory[m]] = m
        BY <2>3, <3>3 DEF Release, Go, Holds, Live, LockInv, TypeOK, OwnerRecorded
      <4> QED BY <2>3, <3>2, <4>1 DEF Release, LockInv, TypeOK
    <3> QED BY <3>1, <3>3 DEF LockInv, OwnerRecorded
  <2>4. CASE ProcessEnds(l)
    BY <2>4 DEF ProcessEnds, Holds, Live, LockInv, TypeOK, OwnerRecorded
  <2> QED BY <2>1, <2>2, <2>3, <2>4
<1> QED BY <1>1, <1>2

(* Of all launches of all ADM processes, at most one at a time is between    *)
(* its acquire and its release on a configuration directory, whatever the    *)
(* processes do and whenever they end.                                       *)
THEOREM ConfigLockExclusive == Spec => []Exclusive
<1>1. LockInv => Exclusive
  BY DEF LockInv, OwnerRecorded, Exclusive
<1> QED BY InitLockInv, StepLockInv, <1>1, PTL DEF Spec

(* An entry leaves the table by its own launch's release, or after its       *)
(* process has ended: nobody frees a directory under another launch.         *)
THEOREM ConfigLockEntryKept == Spec => EntryKept
<1> DEFINE Kept == \A d \in Directories :
                     table[d] # Free /\ table'[d] # table[d] /\ Live(table[d])
                       => at[table[d]] = "closed" /\ at'[table[d]] = "done"
<1>1. LockInv /\ [Next]_lockvars => [Kept]_lockvars
  <2> SUFFICES ASSUME LockInv, Next PROVE Kept
    OBVIOUS
  <2> SUFFICES ASSUME NEW d \in Directories,
                      table[d] # Free, table'[d] # table[d], Live(table[d])
               PROVE  at[table[d]] = "closed" /\ at'[table[d]] = "done"
    OBVIOUS
  <2> PICK l \in Launches :
        \/ Acquire(l) \/ AcquireFails(l) \/ Spawn(l) \/ SpawnFails(l)
        \/ CloseLaunch(l) \/ ChildEnds(l) \/ Release(l) \/ ProcessEnds(l)
    BY DEF Next
  <2>1. CASE Acquire(l)
    <3>1. d = directory[l] /\ table[d] # l
      BY <2>1 DEF Acquire, LockInv, TypeOK
    <3> QED BY <2>1, <3>1, TakenFromTheGone DEF Acquire
  <2>2. CASE Release(l)
    <3>1. d = directory[l] /\ table[d] = l
      BY <2>2 DEF Release, Go, Holds, LockInv, TypeOK, OwnerRecorded
    <3> QED BY <2>2, <3>1 DEF Release, Go, LockInv, TypeOK
  <2>3. ASSUME \/ AcquireFails(l) \/ Spawn(l) \/ SpawnFails(l)
               \/ CloseLaunch(l) \/ ChildEnds(l) \/ ProcessEnds(l)
        PROVE FALSE
    BY <2>3 DEF AcquireFails, Spawn, SpawnFails, CloseLaunch, ChildEnds, ProcessEnds
  <2> QED BY <2>1, <2>2, <2>3
<1> QED BY InitLockInv, StepLockInv, <1>1, PTL DEF Spec, EntryKept
=============================================================================

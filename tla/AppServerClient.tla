-------------------------- MODULE AppServerClient ---------------------------
(***************************************************************************)
(* A Codex launch: requests, notifications and approvals over one pipe     *)
(* (manager/codex_launcher.py: _AppServerClient, CodexLauncher).           *)
(*                                                                         *)
(* The caller sends initialize, thread/start and turn/start, each with a   *)
(* timeout, then waits for its turn's turn/completed.  A reader thread     *)
(* hands replies to the waiting request by id, answers approval requests   *)
(* and queues notifications.  The first failure anybody sees is kept, is   *)
(* handed to whoever waits, and closes the client.                         *)
(* The app-server is any process: it answers late or never, ends the turn  *)
(* well or badly, writes nonsense, and exits when it likes.                *)
(***************************************************************************)
EXTENDS Naturals, Sequences, FiniteSets

CONSTANT MaxAsks     \* approval requests and stray messages of the app-server (bound of the model)

VARIABLES
    caller,    \* the step of the launch, the request it waits for, how it ended
    client,    \* registered reply, first failure, queued notifications, closed, reader at work
    server,    \* requests to answer, the turn, the process
    pipe       \* what the app-server has written and the reader has not read

vars == <<caller, client, server, pipe>>

Steps == <<"initialize", "thread", "turn", "wait">>

\* The id of the request of a step.
Id(step) == CHOOSE i \in 1 .. 3 : Steps[i] = step

Governed == caller.governed

Init ==
    /\ \E governed \in BOOLEAN :
         caller = [step |-> "initialize", waits |-> 0, governed |-> governed, ended |-> "no"]
    /\ client = [box |-> <<>>, failure |-> "none", notes |-> <<>>, closed |-> FALSE, reads |-> TRUE]
    /\ server = [asked |-> {}, turn |-> "none", blocked |-> FALSE, process |-> "up",
                 granted |-> {}, extras |-> MaxAsks]
    /\ pipe = <<>>

\* The client is closed: the process is told to stop.
Stopped(s) == IF s.process = "up" THEN [s EXCEPT !.process = "stopping"] ELSE s

-----------------------------------------------------------------------------
(* The first failure is kept, reaches the waiting request and the queue,   *)
(* and closes the client.                                                  *)

Failed(c, waits, kind) ==
    IF c.failure # "none" THEN c
    ELSE [c EXCEPT !.failure = kind, !.closed = TRUE,
                   !.box = IF waits = 0 THEN @ ELSE Append(@, [id |-> 0, ok |-> FALSE]),
                   !.notes = Append(@, [kind |-> "failure", status |-> kind, blocked |-> FALSE])]

Fail(kind) ==
    /\ client' = Failed(client, caller.waits, kind)
    /\ server' = Stopped(server)

Raise(kind) == caller' = [caller EXCEPT !.waits = 0, !.ended = kind]

Working == caller.ended = "no"

\* A request is registered and written; a failed client or a dead process raises at once.
Request ==
    /\ Working /\ caller.waits = 0 /\ caller.step # "wait"
    /\ \/ /\ client.failure # "none" /\ Raise("failure")
          /\ UNCHANGED <<client, server>>
       \/ /\ client.failure = "none" /\ server.process = "gone"
          /\ Raise("process_exit") /\ Fail("process_exit")
       \/ /\ client.failure = "none" /\ server.process # "gone"
          /\ caller' = [caller EXCEPT !.waits = Id(caller.step)]
          /\ server' = [server EXCEPT !.asked = @ \cup {Id(caller.step)}]
          /\ UNCHANGED client
    /\ UNCHANGED pipe

\* The registered reply is taken; a reply that says error, or a failure meanwhile, raises.
TakeReply ==
    /\ Working /\ caller.waits # 0 /\ client.box # <<>>
    /\ IF Head(client.box).ok /\ client.failure = "none"
       THEN caller' = [caller EXCEPT !.waits = 0, !.step = Steps[Id(caller.step) + 1]]
       ELSE Raise("failure")
    /\ client' = [client EXCEPT !.box = <<>>]
    /\ UNCHANGED <<server, pipe>>

\* Nobody answers in time: the registration is dropped, a late answer has no taker.
RequestTimesOut ==
    /\ Working /\ caller.waits # 0 /\ client.box = <<>>
    /\ Raise("timeout")
    /\ UNCHANGED <<client, server, pipe>>

-----------------------------------------------------------------------------

\* The caller waits for the end of its own turn; a failure comes before anything queued.
NextEvent ==
    /\ Working /\ caller.step = "wait"
    /\ \/ /\ client.failure # "none" /\ Raise("failure")
          /\ UNCHANGED client
       \/ /\ client.failure = "none" /\ client.notes # <<>>
          /\ client' = [client EXCEPT !.notes = Tail(@)]
          /\ LET note == Head(client.notes)
             IN IF note.kind = "turn"
                THEN caller' = [caller EXCEPT !.ended =
                                  IF note.status = "completed" /\ Governed /\ note.blocked
                                  THEN "file_change_blocked" ELSE note.status]
                ELSE UNCHANGED caller
    /\ UNCHANGED <<server, pipe>>

TurnTimesOut ==
    /\ Working /\ caller.step = "wait"
    /\ Raise("timeout")
    /\ UNCHANGED <<client, server, pipe>>

\* Whatever happened, the runner (or prepare itself) closes the client.
Close ==
    /\ ~Working /\ ~client.closed
    /\ client' = [client EXCEPT !.closed = TRUE]
    /\ server' = Stopped(server)
    /\ UNCHANGED <<caller, pipe>>

-----------------------------------------------------------------------------
(* The reader thread.                                                      *)

Reads(kind) == client.reads /\ pipe # <<>> /\ Head(pipe).kind = kind /\ pipe' = Tail(pipe)

\* Mutant: a reply is handed to whoever waits.
ReadReplyMutant ==
    /\ Reads("reply")
    /\ IF caller.waits # 0
       THEN /\ client' = [client EXCEPT !.box = Append(@, [id |-> Head(pipe).id, ok |-> Head(pipe).ok])]
            /\ UNCHANGED server
       ELSE /\ client' = [Failed(client, caller.waits, "protocol_error") EXCEPT !.reads = FALSE]
            /\ server' = Stopped(server)
    /\ UNCHANGED caller

ReadReply ==
    /\ Reads("reply")
    /\ IF caller.waits = Head(pipe).id
       THEN /\ client' = [client EXCEPT !.box = Append(@, [id |-> Head(pipe).id, ok |-> Head(pipe).ok])]
            /\ UNCHANGED server
       ELSE /\ client' = [Failed(client, caller.waits, "protocol_error") EXCEPT !.reads = FALSE]
            /\ server' = Stopped(server)
    /\ UNCHANGED caller

\* Approvals are refused, but for file changes of a governed write.
Decision(what) == Governed /\ what = "file"

ReadAsk ==
    /\ Reads("ask")
    /\ IF client.failure = "none" /\ server.process # "gone"
       THEN /\ server' = IF Decision(Head(pipe).what)
                         THEN [server EXCEPT !.granted = @ \cup {Head(pipe).what}]
                         ELSE [server EXCEPT !.blocked = @ \/ Head(pipe).what = "file"]
            /\ UNCHANGED client
       ELSE /\ client' = [Failed(client, caller.waits, "process_exit") EXCEPT !.reads = FALSE]
            /\ UNCHANGED server
    /\ UNCHANGED caller

ReadNote ==
    /\ client.reads /\ pipe # <<>> /\ Head(pipe).kind \in {"turn", "other"}
    /\ pipe' = Tail(pipe)
    /\ client' = [client EXCEPT !.notes = Append(@, [kind |-> Head(pipe).kind,
                                                     status |-> Head(pipe).status,
                                                     blocked |-> Head(pipe).blocked])]
    /\ UNCHANGED <<caller, server>>

ReadNonsense ==
    /\ Reads("nonsense")
    /\ client' = [Failed(client, caller.waits, "protocol_error") EXCEPT !.reads = FALSE]
    /\ server' = Stopped(server)
    /\ UNCHANGED caller

ReadEnd ==
    /\ client.reads /\ pipe = <<>> /\ server.process = "gone"
    /\ client' = [Failed(client, caller.waits, "process_exit") EXCEPT !.reads = FALSE]
    /\ server' = Stopped(server)
    /\ UNCHANGED <<caller, pipe>>

-----------------------------------------------------------------------------
(* The app-server.                                                         *)

Up == server.process = "up"

Write(message) == pipe' = Append(pipe, message)

Note(kind, status, blocked) == [kind |-> kind, status |-> status, blocked |-> blocked]

\* A request is answered, perhaps more than once.
ServerAnswers ==
    /\ Up
    /\ \E i \in server.asked, ok, again \in BOOLEAN :
         /\ again => server.extras > 0
         /\ Write([kind |-> "reply", id |-> i, ok |-> ok])
         /\ server' = [server EXCEPT !.asked = IF again THEN @ ELSE @ \ {i},
                                     !.extras = IF again THEN @ - 1 ELSE @,
                                     !.turn = IF i = 3 /\ ok /\ @ = "none" THEN "running" ELSE @]
    /\ UNCHANGED <<caller, client>>

ServerAsks ==
    /\ Up /\ server.turn = "running" /\ server.extras > 0
    /\ \E what \in {"file", "command"} : Write([kind |-> "ask", what |-> what])
    /\ server' = [server EXCEPT !.extras = @ - 1]
    /\ UNCHANGED <<caller, client>>

\* The turn ends; an edit that was refused, or could not be applied, is reported with it.
ServerEndsTurn ==
    /\ Up /\ server.turn = "running"
    /\ \E status \in {"completed", "failed", "interrupted"}, failed \in BOOLEAN :
         /\ server' = [server EXCEPT !.turn = status, !.blocked = @ \/ failed]
         /\ Write(Note("turn", status, server.blocked \/ failed))
    /\ UNCHANGED <<caller, client>>

\* A notification about something else (another thread's turn too), or a malformed line.
ServerStrays ==
    /\ Up /\ server.extras > 0
    /\ \/ Write(Note("other", "completed", FALSE))
       \/ Write([kind |-> "nonsense"])
    /\ server' = [server EXCEPT !.extras = @ - 1]
    /\ UNCHANGED <<caller, client>>

ServerExits ==
    /\ server.process # "gone"
    /\ server' = [server EXCEPT !.process = "gone"]
    /\ UNCHANGED <<caller, client, pipe>>

-----------------------------------------------------------------------------

Caller == Request \/ TakeReply \/ RequestTimesOut \/ NextEvent \/ TurnTimesOut \/ Close
Reader == ReadReply \/ ReadAsk \/ ReadNote \/ ReadNonsense \/ ReadEnd
Server == ServerAnswers \/ ServerAsks \/ ServerEndsTurn \/ ServerStrays \/ ServerExits

Next == Caller \/ Reader \/ Server

Spec == Init /\ [][Next]_vars

-----------------------------------------------------------------------------

TypeOK ==
    /\ caller.step \in {Steps[i] : i \in 1 .. 4} /\ caller.waits \in 0 .. 3
    /\ caller.ended \in {"no", "failure", "process_exit", "timeout", "completed", "failed",
                         "interrupted", "file_change_blocked"}
    /\ client.failure \in {"none", "protocol_error", "process_exit"}
    /\ server.process \in {"up", "stopping", "gone"}
    /\ client.box \in Seq([id : 0 .. 3, ok : BOOLEAN])

(* A launch is reported completed only if the app-server completed this turn *)
(* (codex_launcher.py:466-500), and a governed write only if every edit of   *)
(* it was made: a turn goes on, and completes, after an edit was refused.    *)
CompletionEarned ==
    caller.ended = "completed" =>
        server.turn = "completed" /\ (Governed => ~server.blocked)

(* The caller waits for a turn only after the app-server started it: no      *)
(* answer, late or of another request, is taken for the one it asked.        *)
AnswerIsOurs ==
    caller.step = "wait" => server.turn # "none"

(* Nothing is approved unattended but file changes of a governed write.      *)
OnlyFileChanges ==
    server.granted # {} => Governed /\ server.granted = {"file"}

(* A call ends whatever the app-server does, and leaves no process behind.   *)
Ends ==
    <>[](~Working /\ client.closed /\ server.process = "gone")
=============================================================================

--------------------------- MODULE MCCommandPoll ----------------------------
(* Instances of CommandPoll for TLC. *)
EXTENDS CommandPoll

Two == <<"p", "q">>

\* One project waits for quota, the other has work of every kind.
MixedTasks == [p |-> <<"t1", "t2", "t3">>, q |-> <<>>]
MixedCommands == [p |-> <<"t3", "t2", "t1">>, q |-> <<"c1", "c2">>]
MixedStatus == [t1 |-> "none", t2 |-> "none", t3 |-> "none", c1 |-> "queued", c2 |-> "attention"]

\* A project with as many Tasks as its window, and no provider for any of them.
EvenTasks == [p |-> <<"t1", "t2">>, q |-> <<>>]
EvenCommands == [p |-> <<"t2", "t1">>, q |-> <<"c1">>]
EvenStatus == [t1 |-> "none", t2 |-> "none", c1 |-> "queued"]

\* Two Commands that need attention, a waiting Task in another project.
LoneTask == [p |-> <<"t1">>, q |-> <<>>]
TwoAttentionCommands == [p |-> <<"t1">>, q |-> <<"c1", "c2">>]
TwoAttentionStatus == [t1 |-> "none", c1 |-> "attention", c2 |-> "attention"]
=============================================================================

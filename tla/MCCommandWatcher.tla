-------------------------- MODULE MCCommandWatcher --------------------------
(* Instances of CommandWatcher: one Command, or a Command and its retry.   *)
EXTENDS CommandWatcher

CONSTANTS c1, c2, w1, k1, k2

MCPrior == [c \in Command \ {First} |-> First]

(* A retry is created and goes no further; module MCHost follows one.        *)
RetryUntaken == \A c \in Command \ {First} : cmd[c].status = "none"

(* Whichever call of its worker failed: a Task's handoff, its root and its   *)
(* stamp tell one verdict (execution_lifecycle.py:791-912), and a provider   *)
(* that works is covered by its worker's claim (command_watcher.py:680-894). *)
FailureContained == OneVerdict /\ ProviderGuarded
=============================================================================

-------------------------- MODULE MCThreadedEngine --------------------------
(* Instances of ThreadedEngine for TLC. *)
EXTENDS ThreadedEngineProperties

CONSTANTS user, ctl, r1, r2

MCClients == {user, ctl}
MCRequests == {r1, r2}

\* One thread adds and aborts requests, one controls the engine: the callers in
\* this repository make Reload, Unload and ExitBackgroundLoop from one thread.
MCMayCall == [c \in MCClients |->
    IF c = user THEN {"add", "abort"} ELSE {"reload", "unload", "reset", "exit"}]

MCMaxCalls == [c \in MCClients |-> IF c = user THEN 2 ELSE 3]

\* The liveness runs: one request, and every method from the controlling thread
\* (a reload and one more call) while the request is added.
OneRequest == {r1}
EveryMethod == [c \in MCClients |->
    IF c = user THEN {"add"} ELSE {"abort", "reload", "unload", "reset", "debug", "exit"}]
OneAndTwoCalls == [c \in MCClients |-> IF c = user THEN 1 ELSE 2]
AddAndExit == [c \in MCClients |-> IF c = user THEN {"add"} ELSE {"reload", "exit"}]

RequestSymmetry == Permutations(MCRequests)

=============================================================================

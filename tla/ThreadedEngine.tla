--------------------------- MODULE ThreadedEngine ---------------------------
(***************************************************************************)
(* The threaded serving engine of cpp/serve/threaded_engine.cc.            *)
(*                                                                         *)
(* Three kinds of threads share one ThreadedEngineImpl object:             *)
(*   - callers, which push instructions and (Reload, Unload) wait for them;*)
(*   - the background loop, which owns background_engine_ and is the only  *)
(*     thread that executes instructions and steps the engine;             *)
(*   - the stream-back loop, which hands the outputs to the user callback. *)
(*                                                                         *)
(* A critical section is one action.  request_stream_callback_mutex_ is    *)
(* explicit, because exit_now_ is stored under the other mutex and may     *)
(* change between the evaluation of the wait predicate and the wait.       *)
(*                                                                         *)
(* The engine behind background_engine_ is reduced to what its callbacks   *)
(* show: the requests it holds and how many more chunks each will stream.  *)
(***************************************************************************)
EXTENDS Naturals, Sequences, FiniteSets

CONSTANTS
    Clients,        \* threads that call into the engine
    Requests,       \* request ids
    NoRequest,      \* the argument of an instruction about no request
    MayCall,        \* MayCall[c]: the methods that client c calls
    MaxCalls,       \* bound: MaxCalls[c] calls of client c
    MaxDelta,       \* bound: chunks a request streams before it finishes
    MaxSpurious,    \* bound: spurious wakeups of condition variables
    CreateMayFail   \* whether Engine::Create may return an error

Blocking == {"reload", "unload"}
Plain == {"add", "abort", "reset", "debug"}
InstructionKind == Blocking \cup Plain
Method == InstructionKind \cup {"exit"}

ASSUME ConstantsAssumption ==
    /\ IsFiniteSet(Requests)
    /\ NoRequest \notin Requests
    /\ MayCall \in [Clients -> SUBSET Method]
    /\ MaxCalls \in [Clients -> Nat]
    /\ MaxDelta \in Nat /\ MaxSpurious \in Nat
    /\ CreateMayFail \in BOOLEAN

Instruction ==
    [kind : {"add", "abort"}, arg : Requests, by : Clients]
    \cup [kind : {"reset", "debug"} \cup Blocking, arg : {NoRequest}, by : Clients]
Output == [req : Requests, kind : {"delta", "finish", "usage"}]

VARIABLES
    \* the callers
    cpc,            \* where each client is inside its call
    ckind,          \* the method each client is calling, or called last
    calls,          \* calls made by each client
    submitted,      \* history: requests handed to AddRequest
    \* the fields of ThreadedEngineImpl
    instruction_queue, pending_ops, engine_waiting, exit_now,
    reload_finished, unload_finished,
    callback_mutex, callback_inputs, pending_callbacks, stream_waiting,
    \* the background loop
    bpc, local_queue, outbox, bg_need_notify,
    \* the engine object: background_engine_ # nullptr, its requests, their
    \* remaining chunks
    loaded, active, remaining,
    \* the stream-back loop
    spc, local_inputs,
    delivered,      \* history: the batches the user callback was given, in order
    spurious        \* spurious wakeups so far

clientVars == <<cpc, ckind, calls, submitted>>
queueVars == <<instruction_queue, pending_ops, engine_waiting>>
flagVars == <<reload_finished, unload_finished>>
callbackVars == <<callback_mutex, callback_inputs, pending_callbacks, stream_waiting>>
bgVars == <<bpc, local_queue, outbox, bg_need_notify>>
engineVars == <<loaded, active, remaining>>
streamVars == <<spc, local_inputs, delivered>>
vars == <<clientVars, queueVars, exit_now, flagVars, callbackVars, bgVars,
          engineVars, streamVars, spurious>>

Waiting == {"wait", "blocked", "woken"}
ClientPC == {"idle", "enqueue", "notify", "exit_notify_bg", "exit_notify_stream"} \cup Waiting
BackgroundPC == {"check", "wait", "blocked", "woken", "process", "unload_flag",
                 "unload_notify", "reload_create", "reload_notify", "done", "failed"}
StreamPC == {"check", "lock", "predicate", "block", "blocked", "woken", "deliver", "done"}

\* Every variable stays in its range (the fields of threaded_engine.cc and the
\* program counters of the three kinds of threads).
TypeOK ==
    /\ cpc \in [Clients -> ClientPC]
    /\ ckind \in [Clients -> Method]
    /\ calls \in [Clients -> Nat]
    /\ submitted \subseteq Requests
    /\ instruction_queue \in Seq(Instruction)
    /\ pending_ops \in Nat
    /\ engine_waiting \in BOOLEAN
    /\ exit_now \in BOOLEAN
    /\ reload_finished \in BOOLEAN /\ unload_finished \in BOOLEAN
    /\ callback_mutex \in {"free", "stream"}
    /\ callback_inputs \in Seq(Seq(Output))
    /\ pending_callbacks \in Nat
    /\ stream_waiting \in BOOLEAN
    /\ bpc \in BackgroundPC
    /\ local_queue \in Seq(Instruction)
    /\ outbox \in Seq(Seq(Output))
    /\ bg_need_notify \in BOOLEAN
    /\ loaded \in BOOLEAN
    /\ active \subseteq Requests
    /\ remaining \in [Requests -> 0 .. MaxDelta]
    /\ spc \in StreamPC
    /\ local_inputs \in Seq(Seq(Output))
    /\ delivered \in Seq(Seq(Output))
    /\ spurious \in 0 .. MaxSpurious

Init ==
    /\ cpc = [c \in Clients |-> "idle"]
    /\ ckind = [c \in Clients |-> "exit"]
    /\ calls = [c \in Clients |-> 0]
    /\ submitted = {}
    /\ instruction_queue = <<>> /\ pending_ops = 0
    /\ engine_waiting = FALSE /\ exit_now = FALSE
    /\ reload_finished = FALSE /\ unload_finished = FALSE
    /\ callback_mutex = "free"
    /\ callback_inputs = <<>> /\ pending_callbacks = 0 /\ stream_waiting = FALSE
    /\ bpc = "check" /\ local_queue = <<>> /\ outbox = <<>> /\ bg_need_notify = FALSE
    /\ loaded = FALSE /\ active = {} /\ remaining = [r \in Requests |-> 0]
    /\ spc = "check" /\ local_inputs = <<>> /\ delivered = <<>>
    /\ spurious = 0

-----------------------------------------------------------------------------
(* Callers.  Every method pushes its instruction under background_loop_mutex_, *)
(* reads engine_waiting_ there, and notifies after the lock is released.       *)

\* Reload and Unload wait for their flag after the notification.
AfterNotify(kind) == IF kind \in Blocking THEN "wait" ELSE "idle"

Enqueue(c, kind, arg) ==
    /\ instruction_queue' =
           Append(instruction_queue, [kind |-> kind, arg |-> arg, by |-> c])
    /\ pending_ops' = pending_ops + 1
    /\ cpc' = [cpc EXCEPT ![c] = IF engine_waiting THEN "notify" ELSE AfterNotify(kind)]
    /\ UNCHANGED engine_waiting

\* Request ids are unique: the frontends draw a fresh one for every request.
AddRequest(c) ==
    /\ \E r \in Requests \ submitted :
           Enqueue(c, "add", r) /\ submitted' = submitted \cup {r}
    /\ UNCHANGED <<exit_now, flagVars>>

AbortRequest(c) ==
    /\ \E r \in Requests : Enqueue(c, "abort", r)
    /\ UNCHANGED <<submitted, exit_now, flagVars>>

\* Reset and DebugCallFuncOnAllAllWorker.
PlainCall(c, kind) ==
    /\ Enqueue(c, kind, NoRequest)
    /\ UNCHANGED <<submitted, exit_now, flagVars>>

\* Mutant: the flag of the previous call is not cleared.
BlockingStartKeepsFlag(c, kind) ==
    /\ cpc' = [cpc EXCEPT ![c] = "enqueue"]
    /\ UNCHANGED <<flagVars, submitted, queueVars, exit_now>>

\* Reload and Unload clear their flag without a lock, before the instruction is
\* pushed.
BlockingStart(c, kind) ==
    /\ reload_finished' = (reload_finished /\ kind # "reload")
    /\ unload_finished' = (unload_finished /\ kind # "unload")
    /\ cpc' = [cpc EXCEPT ![c] = "enqueue"]
    /\ UNCHANGED <<submitted, queueVars, exit_now>>

\* ExitBackgroundLoop: the store under background_loop_mutex_, then a notify_one
\* on each of the two condition variables, with no lock held.
ExitStore(c) ==
    /\ exit_now' = TRUE
    /\ cpc' = [cpc EXCEPT ![c] = "exit_notify_bg"]
    /\ UNCHANGED <<submitted, queueVars, flagVars>>

StartCall(c) ==
    /\ cpc[c] = "idle"
    /\ calls[c] < MaxCalls[c]
    /\ calls' = [calls EXCEPT ![c] = @ + 1]
    /\ \E kind \in MayCall[c] :
           /\ ckind' = [ckind EXCEPT ![c] = kind]
           /\ \/ kind = "add" /\ AddRequest(c)
              \/ kind = "abort" /\ AbortRequest(c)
              \/ kind \in {"reset", "debug"} /\ PlainCall(c, kind)
              \/ kind \in Blocking /\ BlockingStart(c, kind)
              \/ kind = "exit" /\ ExitStore(c)
    /\ UNCHANGED <<callbackVars, bgVars, engineVars, streamVars, spurious>>

BlockingEnqueue(c) ==
    /\ cpc[c] = "enqueue"
    /\ Enqueue(c, ckind[c], NoRequest)
    /\ UNCHANGED <<bpc, spc>>

\* notify_one() on background_loop_cv_ and request_stream_callback_cv_: lost when
\* the one thread that waits there is not blocked.
WakeBackground == bpc' = IF bpc = "blocked" THEN "woken" ELSE bpc
WakeStream == spc' = IF spc = "blocked" THEN "woken" ELSE spc

Notify(c) ==
    /\ cpc[c] = "notify"
    /\ WakeBackground
    /\ cpc' = [cpc EXCEPT ![c] = AfterNotify(ckind[c])]
    /\ UNCHANGED <<queueVars, spc>>

ExitNotifyBackground(c) ==
    /\ cpc[c] = "exit_notify_bg"
    /\ WakeBackground
    /\ cpc' = [cpc EXCEPT ![c] = "exit_notify_stream"]
    /\ UNCHANGED <<queueVars, spc>>

ExitNotifyStream(c) ==
    /\ cpc[c] = "exit_notify_stream"
    /\ WakeStream
    /\ cpc' = [cpc EXCEPT ![c] = "idle"]
    /\ UNCHANGED <<queueVars, bpc>>

Finished(kind) == IF kind = "reload" THEN reload_finished ELSE unload_finished

\* reload_unload_cv_.wait: the predicate and the wait are atomic, since the
\* background loop sets the flags under reload_unload_mutex_.
Await(c) ==
    /\ cpc[c] \in {"wait", "woken"}
    /\ cpc' = [cpc EXCEPT ![c] = IF Finished(ckind[c]) THEN "idle" ELSE "blocked"]
    /\ UNCHANGED <<queueVars, bpc, spc>>

ContinueCall(c) ==
    /\ \/ BlockingEnqueue(c) \/ Notify(c) \/ Await(c)
       \/ ExitNotifyBackground(c) \/ ExitNotifyStream(c)
    /\ UNCHANGED <<ckind, calls, submitted, exit_now, flagVars, callbackVars, local_queue,
                   outbox, bg_need_notify, engineVars, local_inputs, delivered, spurious>>

-----------------------------------------------------------------------------
(* The background loop: RunBackgroundLoop.  Its own steps wait until the      *)
(* callbacks of the previous engine call have returned.                       *)

BgCheck ==
    /\ bpc = "check"
    /\ bpc' = IF exit_now THEN "done" ELSE "wait"
    /\ UNCHANGED <<queueVars, local_queue>>

\* Mutants: the predicate forgets the requests of the engine, or the exit.
BgPredicateNoRequests == pending_ops > 0 \/ exit_now
BgPredicateNoExit == (loaded /\ active # {}) \/ pending_ops > 0

\* The wait predicate; Engine::Empty() is active = {}.
BgPredicate == (loaded /\ active # {}) \/ pending_ops > 0 \/ exit_now

\* Mutant: engine_waiting_ is not set before the wait.
BgBlockSilent ==
    /\ bpc \in {"wait", "woken"}
    /\ ~BgPredicate
    /\ bpc' = "blocked"
    /\ UNCHANGED <<queueVars, local_queue>>

BgBlock ==
    /\ bpc \in {"wait", "woken"}
    /\ ~BgPredicate
    /\ engine_waiting' = TRUE
    /\ bpc' = "blocked"
    /\ UNCHANGED <<instruction_queue, pending_ops, local_queue>>

\* Mutant: the counter is decremented instead of reset.
BgTakeQueueDecrement ==
    /\ bpc \in {"wait", "woken"}
    /\ BgPredicate
    /\ engine_waiting' = FALSE
    /\ local_queue' = instruction_queue
    /\ instruction_queue' = <<>>
    /\ pending_ops' = pending_ops - 1
    /\ bpc' = "process"

BgTakeQueue ==
    /\ bpc \in {"wait", "woken"}
    /\ BgPredicate
    /\ engine_waiting' = FALSE
    /\ local_queue' = instruction_queue
    /\ instruction_queue' = <<>>
    /\ pending_ops' = 0
    /\ bpc' = "process"

AtInstruction(kind) ==
    /\ bpc = "process"
    /\ local_queue # <<>>
    /\ Head(local_queue).kind = kind

\* Mutant: the usage goes out before the chunk with the finish reason.
ErrorBatchSwapped(r) == <<[req |-> r, kind |-> "usage"], [req |-> r, kind |-> "finish"]>>

\* StreamBackError: a chunk with the finish reason and the final usage, in one batch.
ErrorBatch(r) == <<[req |-> r, kind |-> "finish"], [req |-> r, kind |-> "usage"]>>

\* Engine::AddRequest: the request is queued, refused (too long: an error is
\* streamed), or answered at once (a special request: its usage is streamed).
ExecAdd ==
    /\ AtInstruction("add")
    /\ loaded
    /\ local_queue' = Tail(local_queue)
    /\ LET r == Head(local_queue).arg IN
       \/ /\ active' = active \cup {r}
          /\ \E k \in 0 .. MaxDelta : remaining' = [remaining EXCEPT ![r] = k]
          /\ UNCHANGED outbox
       \/ /\ outbox' \in {<<ErrorBatch(r)>>, <<Tail(ErrorBatch(r))>>}
          /\ UNCHANGED <<active, remaining>>
    /\ UNCHANGED <<bpc, loaded>>

\* An abort of an unknown request, or after an unload, is ignored.
ExecAbort ==
    /\ AtInstruction("abort")
    /\ local_queue' = Tail(local_queue)
    /\ LET r == Head(local_queue).arg
           known == loaded /\ r \in active
       IN  /\ active' = IF known THEN active \ {r} ELSE active
           /\ outbox' = IF known THEN <<ErrorBatch(r)>> ELSE <<>>
    /\ UNCHANGED <<bpc, loaded, remaining>>

ExecDebug ==
    /\ AtInstruction("debug")
    /\ loaded
    /\ local_queue' = Tail(local_queue)
    /\ UNCHANGED <<bpc, outbox, engineVars>>

\* CHECK(background_engine_ != nullptr) fails and ends the background loop.
ExecFail ==
    /\ AtInstruction("add") \/ AtInstruction("debug")
    /\ ~loaded
    /\ bpc' = "failed"
    /\ UNCHANGED <<local_queue, outbox, engineVars>>

\* The orders in which a set can be visited.
Orders(S) ==
    {f \in [1 .. Cardinality(S) -> S] : \A i, j \in DOMAIN f : i # j => f[i] # f[j]}

\* Mutant: the requests are dropped and nothing is streamed for them.
AbortAllSilent == active' = {} /\ UNCHANGED outbox

\* Engine::AbortAllRequests: one error batch per request, in the order of an
\* unordered map.
AbortAll ==
    /\ \E order \in Orders(active) :
           outbox' = [i \in DOMAIN order |-> ErrorBatch(order[i])]
    /\ active' = {}

ExecReset ==
    /\ AtInstruction("reset")
    /\ IF loaded THEN AbortAll ELSE UNCHANGED <<outbox, active>>
    /\ local_queue' = Tail(local_queue)
    /\ UNCHANGED <<bpc, loaded, remaining>>

\* EngineUnloadImpl, the first half of a reload as well.
ExecUnload ==
    /\ AtInstruction("unload") \/ AtInstruction("reload")
    /\ IF loaded THEN AbortAll ELSE UNCHANGED <<outbox, active>>
    /\ loaded' = FALSE
    /\ bpc' = "unload_flag"
    /\ UNCHANGED <<local_queue, remaining>>

\* What one Step streams for the requests of order: a chunk of each, the last
\* chunk of a request with nothing left, and then the usage of those, last.
StepBatch(order, last) ==
    [i \in DOMAIN order |->
        [req |-> order[i], kind |-> IF remaining[order[i]] = 0 THEN "finish" ELSE "delta"]]
    \o [i \in DOMAIN last |-> [req |-> last[i], kind |-> "usage"]]

\* Engine::Step, after the instructions: some requests make progress.
BgStep ==
    /\ bpc = "process"
    /\ local_queue = <<>>
    /\ bpc' = "check"
    /\ \/ /\ ~loaded \/ active = {}
          /\ UNCHANGED <<outbox, active, remaining>>
       \/ /\ loaded
          /\ \E chosen \in SUBSET active \ {{}} :
             LET ended == {r \in chosen : remaining[r] = 0} IN
                 /\ \E order \in Orders(chosen) : \E last \in Orders(ended) :
                        outbox' = <<StepBatch(order, last)>>
                 /\ active' = active \ ended
                 /\ remaining' = [r \in Requests |->
                        IF r \in chosen /\ remaining[r] > 0 THEN remaining[r] - 1
                                                            ELSE remaining[r]]
    /\ UNCHANGED <<local_queue, loaded>>

UnloadFlag ==
    /\ bpc = "unload_flag"
    /\ unload_finished' = TRUE
    /\ bpc' = "unload_notify"
    /\ UNCHANGED <<cpc, reload_finished, local_queue, loaded>>

\* Mutant: the notification is forgotten.
WakeNobody == UNCHANGED cpc

\* reload_unload_cv_.notify_one(): wakes one blocked caller, if there is one.
WakeCaller ==
    LET blocked == {c \in Clients : cpc[c] = "blocked"} IN
    \/ blocked = {} /\ UNCHANGED cpc
    \/ \E c \in blocked : cpc' = [cpc EXCEPT ![c] = "woken"]

UnloadNotify ==
    /\ bpc = "unload_notify"
    /\ WakeCaller
    /\ IF Head(local_queue).kind = "reload"
       THEN bpc' = "reload_create" /\ UNCHANGED local_queue
       ELSE bpc' = "process" /\ local_queue' = Tail(local_queue)
    /\ UNCHANGED <<flagVars, loaded>>

\* EngineReloadImpl: Engine::Create, the new engine and its configuration, the flag.
ReloadCreate ==
    /\ bpc = "reload_create"
    /\ loaded' = TRUE
    /\ reload_finished' = TRUE
    /\ bpc' = "reload_notify"
    /\ local_queue' = Tail(local_queue)
    /\ UNCHANGED <<cpc, unload_finished>>

\* CHECK(output_res.IsOk()) fails and ends the background loop.
ReloadFail ==
    /\ bpc = "reload_create"
    /\ CreateMayFail
    /\ bpc' = "failed"
    /\ UNCHANGED <<cpc, flagVars, local_queue, loaded>>

ReloadNotify ==
    /\ bpc = "reload_notify"
    /\ WakeCaller
    /\ bpc' = "process"
    /\ UNCHANGED <<flagVars, local_queue, loaded>>

\* Mutant: the push does not take the mutex.
CallbackPushUnlocked ==
    /\ outbox # <<>> /\ ~bg_need_notify
    /\ callback_inputs' = Append(callback_inputs, Head(outbox))
    /\ pending_callbacks' = pending_callbacks + 1
    /\ outbox' = Tail(outbox)
    /\ bg_need_notify' = stream_waiting
    /\ UNCHANGED spc

\* frequest_stream_callback_wrapper: a batch is pushed under
\* request_stream_callback_mutex_, and the stream-back loop notified afterwards.
CallbackPush ==
    /\ outbox # <<>> /\ ~bg_need_notify
    /\ callback_mutex = "free"
    /\ callback_inputs' = Append(callback_inputs, Head(outbox))
    /\ pending_callbacks' = pending_callbacks + 1
    /\ outbox' = Tail(outbox)
    /\ bg_need_notify' = stream_waiting
    /\ UNCHANGED spc

CallbackNotify ==
    /\ bg_need_notify
    /\ bg_need_notify' = FALSE
    /\ WakeStream
    /\ UNCHANGED <<callback_inputs, pending_callbacks, outbox>>

RunBackgroundLoop ==
    /\ \/ /\ outbox = <<>> /\ ~bg_need_notify
          /\ \/ /\ BgCheck \/ BgBlock \/ BgTakeQueue
                /\ UNCHANGED <<cpc, flagVars, outbox, engineVars>>
             \/ /\ \/ ExecAdd \/ ExecAbort \/ ExecDebug \/ ExecFail \/ ExecReset
                   \/ ExecUnload \/ BgStep
                /\ UNCHANGED <<cpc, queueVars, flagVars>>
             \/ /\ \/ UnloadFlag \/ UnloadNotify
                   \/ ReloadCreate \/ ReloadFail \/ ReloadNotify
                /\ UNCHANGED <<queueVars, outbox, active, remaining>>
          /\ UNCHANGED <<callback_inputs, pending_callbacks, bg_need_notify, spc>>
       \/ /\ CallbackPush \/ CallbackNotify
          /\ UNCHANGED <<cpc, queueVars, flagVars, bpc, local_queue, engineVars>>
    /\ UNCHANGED <<ckind, calls, submitted, exit_now, callback_mutex, stream_waiting,
                   local_inputs, delivered, spurious>>

-----------------------------------------------------------------------------
(* The stream-back loop: RunBackgroundStreamBackLoop. *)

StreamCheck ==
    /\ spc = "check"
    /\ spc' = IF exit_now THEN "done" ELSE "lock"
    /\ UNCHANGED <<callbackVars, local_inputs, delivered>>

\* Takes the mutex, at first or again after a wakeup.
StreamLock ==
    /\ spc \in {"lock", "woken"}
    /\ callback_mutex = "free"
    /\ callback_mutex' = "stream"
    /\ stream_waiting' = TRUE
    /\ spc' = "predicate"
    /\ UNCHANGED <<callback_inputs, pending_callbacks, local_inputs, delivered>>

StreamPredicate == pending_callbacks > 0 \/ exit_now

\* The predicate is false: the loop will block, but still holds the mutex.
StreamDecideToBlock ==
    /\ spc = "predicate"
    /\ ~StreamPredicate
    /\ spc' = "block"
    /\ UNCHANGED <<callbackVars, local_inputs, delivered>>

StreamBlock ==
    /\ spc = "block"
    /\ callback_mutex' = "free"
    /\ spc' = "blocked"
    /\ UNCHANGED <<callback_inputs, pending_callbacks, stream_waiting, local_inputs,
                   delivered>>

\* Mutant: the queue of batches is not cleared.
StreamTakeKeep ==
    /\ spc = "predicate"
    /\ StreamPredicate
    /\ stream_waiting' = FALSE
    /\ local_inputs' = callback_inputs
    /\ pending_callbacks' = 0
    /\ callback_mutex' = "free"
    /\ spc' = "deliver"
    /\ UNCHANGED <<callback_inputs, delivered>>

StreamTake ==
    /\ spc = "predicate"
    /\ StreamPredicate
    /\ stream_waiting' = FALSE
    /\ local_inputs' = callback_inputs
    /\ callback_inputs' = <<>>
    /\ pending_callbacks' = 0
    /\ callback_mutex' = "free"
    /\ spc' = "deliver"
    /\ UNCHANGED delivered

\* One call of the user callback with the outputs of all the batches.
StreamDeliver ==
    /\ spc = "deliver"
    /\ delivered' = delivered \o local_inputs
    /\ local_inputs' = <<>>
    /\ spc' = "check"
    /\ UNCHANGED callbackVars

RunBackgroundStreamBackLoop ==
    /\ \/ StreamCheck \/ StreamLock \/ StreamDecideToBlock \/ StreamBlock
       \/ StreamTake \/ StreamDeliver
    /\ UNCHANGED <<clientVars, queueVars, exit_now, flagVars, bgVars, engineVars, spurious>>

-----------------------------------------------------------------------------
\* std::condition_variable::wait may return without a notification.
SpuriousWakeup ==
    /\ spurious < MaxSpurious
    /\ spurious' = spurious + 1
    /\ \/ bpc = "blocked" /\ bpc' = "woken" /\ UNCHANGED <<cpc, spc>>
       \/ spc = "blocked" /\ spc' = "woken" /\ UNCHANGED <<cpc, bpc>>
       \/ /\ \E c \in Clients : cpc[c] = "blocked" /\ cpc' = [cpc EXCEPT ![c] = "woken"]
          /\ UNCHANGED <<bpc, spc>>
    /\ UNCHANGED <<ckind, calls, submitted, queueVars, exit_now, flagVars, callbackVars,
                   local_queue, outbox, bg_need_notify, engineVars, local_inputs, delivered>>

Next ==
    \/ \E c \in Clients : StartCall(c) \/ ContinueCall(c)
    \/ RunBackgroundLoop
    \/ RunBackgroundStreamBackLoop
    \/ SpuriousWakeup

Spec == Init /\ [][Next]_vars

\* The scheduler runs every thread that can take a step; a client need not start
\* another call, and no spurious wakeup is owed.
Fairness ==
    /\ \A c \in Clients : WF_vars(ContinueCall(c))
    /\ WF_vars(RunBackgroundLoop)
    /\ WF_vars(RunBackgroundStreamBackLoop)

FairSpec == Spec /\ Fairness

-----------------------------------------------------------------------------
(* The wakeup properties; the others are in ThreadedEngineProperties. *)

\* The background loop never sleeps through an instruction or an exit: when it is
\* blocked and there is either, some caller is about to notify it (need_notify is
\* read from engine_waiting_ inside the critical section, the notify comes after).
NoLostBackgroundWakeup ==
    bpc = "blocked" /\ (instruction_queue # <<>> \/ exit_now)
        => \E c \in Clients : cpc[c] \in {"notify", "exit_notify_bg"}

\* The stream-back loop never sleeps through an output: when it is blocked and a
\* batch is queued, the callback wrapper is about to notify it.
NoLostStreamWakeup ==
    spc = "blocked" /\ callback_inputs # <<>> => bg_need_notify

=============================================================================

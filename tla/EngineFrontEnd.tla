--------------------------- MODULE EngineFrontEnd ---------------------------
(***************************************************************************)
(* The Python front end of the engine: AsyncMLCEngine with its event loop  *)
(* and MLCEngine with its output queue (serve/engine.py, engine_base.py),  *)
(* driven by requests that stream or collect their answer and that may be  *)
(* cancelled, aborted or abandoned wherever they are suspended.  The       *)
(* threaded engine behind the FFI is external: it executes instructions in *)
(* order and its outputs come back in order (see EngineService).           *)
(***************************************************************************)
EXTENDS Naturals, Sequences, FiniteSets, SequencesExt

CONSTANTS
    Tasks,      \* the calls of chat.completions.create and completions.create
    Cases       \* [kind, request, calls]: the engine, the request of each task
                \* ([id, n, max_tokens, stream, usage, echo, suffix]) and the
                \* bound on calls of abort(), reset() and terminate()

ASSUME FrontEndAssumption ==
    \A c \in Cases :
        /\ c.kind \in {"async", "sync"} /\ c.calls \in Nat
        /\ \A t \in Tasks : c.request[t].n \in Nat \ {0} /\ c.request[t].max_tokens \in Nat

VARIABLES
    kind,               \* which of the two engines this is, "async" or "sync"
    Request,            \* the request of each task
    pc,                 \* where a task is suspended, or how it ended
    queue,              \* async: its AsyncRequestStream; sync: outputs left of its last batch
    async_streamers,    \* request id -> the task that owns the stream, its held back tokens
    sync_output_queue,  \* batches for MLCEngine
    sync_text_streamers,\* tokens held back by the text streamers of MLCEngine
    finish_reasons,     \* per task and generation: a finish reason is known
    texts,              \* per task and generation: the tokens whose text reached the caller
    terminated,
    todo,               \* external: instructions the threaded engine has not executed
    active,             \* external: request id -> the generations the engine has under way
    posted,             \* external: batches on their way to the callback
    calls,              \* bound: calls of the user that are left
    produced,           \* history: tokens the engine made for each task and generation
    crossed             \* history: tasks whose stream some other call has interfered with

param == <<kind, Request>>
streamVars == <<async_streamers, sync_output_queue, sync_text_streamers>>
taskVars == <<pc, queue, finish_reasons, texts>>
engineVars == <<active, posted, produced>>
vars == <<param, taskVars, streamVars, terminated, todo, engineVars, calls, crossed>>

\* "failed" is an assertion of the front end, "rejected" an error it reports,
\* "closed" a task that was cancelled or abandoned.
Ended == {"done", "failed", "rejected", "closed"}

Ids == {Request[t].id : t \in Tasks}
Gens(t) == 1 .. Request[t].n

Init ==
    /\ \E c \in Cases : kind = c.kind /\ Request = c.request /\ calls = c.calls
    /\ pc = [t \in Tasks |-> "idle"]
    /\ queue = [t \in Tasks |-> <<>>]
    /\ async_streamers = <<>>
    /\ sync_output_queue = <<>>
    /\ sync_text_streamers = <<>>
    /\ finish_reasons = [t \in Tasks |-> [g \in Gens(t) |-> FALSE]]
    /\ texts = [t \in Tasks |-> [g \in Gens(t) |-> <<>>]]
    /\ terminated = FALSE
    /\ todo = <<>>
    /\ active = <<>>
    /\ posted = <<>>
    /\ produced = [t \in Tasks |-> [g \in Gens(t) |-> 0]]
    /\ crossed = {}

-----------------------------------------------------------------------------
(* The engine behind the FFI. *)

Drop(f, i) == [j \in DOMAIN f \ {i} |-> f[j]]
Put(f, i, v) == [j \in DOMAIN f \cup {i} |-> IF j = i THEN v ELSE f[j]]

Add(t) == [op |-> "add", id |-> Request[t].id, task |-> t]
Abort(i) == [op |-> "abort", id |-> i]

Delta(t, gens) == [what |-> "delta", id |-> Request[t].id, gens |-> gens]
Usage(t) == [what |-> "usage", id |-> Request[t].id]

\* How the engine ends a request it aborts or refuses: every generation gets a
\* finish reason, then comes the usage.
Interrupted(t) ==
    <<Delta(t, [g \in Gens(t) |-> [tokens |-> <<>>, finish |-> TRUE]]), Usage(t)>>

\* The engine executes its oldest instruction; it may refuse a request.
EngineExecute ==
    /\ todo # <<>> /\ ~terminated
    /\ todo' = Tail(todo)
    /\ LET do == Head(todo)
       IN  \/ /\ do.op = "add"
              /\ active' = Put(active, do.id, [task |-> do.task, over |-> {}])
              /\ UNCHANGED posted
           \/ /\ do.op = "add"
              /\ posted' = Append(posted, Interrupted(do.task))
              /\ UNCHANGED active
           \/ /\ do.op = "abort" /\ do.id \in DOMAIN active
              /\ posted' = Append(posted, Interrupted(active[do.id].task))
              /\ active' = Drop(active, do.id)
           \/ /\ do.op = "abort" /\ do.id \notin DOMAIN active
              /\ UNCHANGED <<active, posted>>
           \/ /\ do.op = "reset"
              /\ LET order == SetToSeq(DOMAIN active)
                 IN  posted' = posted \o [k \in DOMAIN order |-> Interrupted(active[order[k]].task)]
              /\ active' = <<>>
    /\ UNCHANGED <<param, taskVars, streamVars, terminated, produced, calls, crossed>>

\* Some requests advance by a step; a generation makes a token unless it is over
\* or has reached max_tokens, and last has those that end.  The usage of the requests
\* that are through comes after the deltas of all.
EngineStep ==
    /\ ~terminated
    /\ \E chosen \in SUBSET DOMAIN active \ {{}} :
       \E last \in [chosen -> SUBSET UNION {Gens(active[i].task) \ active[i].over : i \in chosen}] :
           LET owner(i) == active[i].task
               live(i) == Gens(owner(i)) \ active[i].over
               grows(i, g) == g \in live(i) /\ produced[owner(i)][g] < Request[owner(i)].max_tokens
               over(i) == active[i].over \cup last[i]
               gone == {i \in chosen : over(i) = Gens(owner(i))}
               batch(S, item(_)) == LET order == SetToSeq(S)
                                    IN  [k \in DOMAIN order |-> item(order[k])]
               delta(i) == Delta(owner(i), [g \in Gens(owner(i)) |->
                   [tokens |-> IF grows(i, g)
                               THEN <<<<owner(i), g, produced[owner(i)][g] + 1>>>> ELSE <<>>,
                    finish |-> g \in last[i]]])
               usage(i) == Usage(owner(i))
           IN  /\ \A i \in chosen :
                      /\ last[i] \subseteq live(i)
                      /\ \A g \in live(i) : grows(i, g) \/ g \in last[i]
               /\ posted' = Append(posted, batch(chosen, delta) \o batch(gone, usage))
               /\ active' = [i \in DOMAIN active \ gone |->
                      IF i \in chosen THEN [active[i] EXCEPT !.over = over(i)] ELSE active[i]]
               /\ produced' = [t \in Tasks |-> [g \in Gens(t) |->
                      LET i == Request[t].id
                      IN  IF i \in chosen /\ t = owner(i) /\ grows(i, g)
                          THEN produced[t][g] + 1 ELSE produced[t][g]]]
    /\ UNCHANGED <<param, taskVars, streamVars, terminated, todo, calls, crossed>>

-----------------------------------------------------------------------------
(* The callbacks of EngineState. *)

\* Mutant: what was held back comes after the new tokens.
Put1Swapped(held, output, hold) ==
    LET all == output.tokens \o held
    IN  IF output.finish \/ ~hold THEN [text |-> all, held |-> <<>>]
        ELSE IF all = <<>> THEN [text |-> <<>>, held |-> <<>>]
        ELSE [text |-> Front(all), held |-> <<Last(all)>>]

\* Mutant: finish() is not called when the finish reason comes.
Put1NoFinish(held, output, hold) ==
    LET all == held \o output.tokens
    IN  IF output.tokens = <<>> THEN [text |-> <<>>, held |-> held]
        ELSE IF hold THEN [text |-> Front(all), held |-> <<Last(all)>>]
        ELSE [text |-> all, held |-> <<>>]

\* TextStreamer is external: put() may hold the newest token back (an incomplete
\* character), finish() gives up everything held.
Put1(held, output, hold) ==
    LET all == held \o output.tokens
    IN  IF output.finish THEN [text |-> all, held |-> <<>>]
        ELSE IF output.tokens = <<>> THEN [text |-> <<>>, held |-> held]
        ELSE IF hold THEN [text |-> Front(all), held |-> <<Last(all)>>]
        ELSE [text |-> all, held |-> <<>>]

\* zip(stream_outputs, text_streamers): the outputs and what the streamers hold then.
Detokenize(gens, held, hold) ==
    LET both == DOMAIN gens \cap DOMAIN held
    IN  [gens |-> [g \in both |->
                      [text |-> Put1(held[g], gens[g], hold).text, finish |-> gens[g].finish]],
         held |-> [g \in DOMAIN held |->
                      IF g \in both THEN Put1(held[g], gens[g], hold).held ELSE held[g]]]

Output(gens) == [what |-> "delta", gens |-> gens]
UsageChunk == [what |-> "usage"]
Stop == [what |-> "stop"]
Error == [what |-> "error"]

\* Mutant: the usage is pushed but the stream is not finished.
CallbackOutputNoFinish(state, item, hold) ==
    IF item.id \notin DOMAIN state.streamers THEN state
    ELSE LET s == state.streamers[item.id]
         IN  IF item.what = "usage"
             THEN [streamers |-> Drop(state.streamers, item.id),
                   queue |-> [state.queue EXCEPT ![s.task] = Append(@, UsageChunk)]]
             ELSE LET d == Detokenize(item.gens, s.held, hold)
                  IN  [streamers |-> [state.streamers EXCEPT ![item.id].held = d.held],
                       queue |-> [state.queue EXCEPT ![s.task] = Append(@, Output(d.gens))]]

\* One output of a batch, for the streams as they are: requests without a stream
\* are passed over, the usage ends the stream and removes it.
CallbackOutput(state, item, hold) ==
    IF item.id \notin DOMAIN state.streamers THEN state
    ELSE LET s == state.streamers[item.id]
         IN  IF item.what = "usage"
             THEN [streamers |-> Drop(state.streamers, item.id),
                   queue |-> [state.queue EXCEPT ![s.task] = @ \o <<UsageChunk, Stop>>]]
             ELSE LET d == Detokenize(item.gens, s.held, hold)
                  IN  [streamers |-> [state.streamers EXCEPT ![item.id].held = d.held],
                       queue |-> [state.queue EXCEPT ![s.task] = Append(@, Output(d.gens))]]

\* _async_request_stream_callback_impl, when the event loop comes to it.
AsyncCallback ==
    /\ kind = "async" /\ posted # <<>>
    /\ \E hold \in BOOLEAN :
           LET out == FoldLeft(LAMBDA state, item : CallbackOutput(state, item, hold),
                               [streamers |-> async_streamers, queue |-> queue], Head(posted))
           IN  async_streamers' = out.streamers /\ queue' = out.queue
    /\ posted' = Tail(posted)
    /\ UNCHANGED <<param, pc, finish_reasons, texts, sync_output_queue, sync_text_streamers,
                   terminated, todo, active, produced, calls, crossed>>

\* _sync_request_stream_callback, on the stream-back thread.
SyncCallback ==
    /\ kind = "sync" /\ posted # <<>>
    /\ sync_output_queue' = Append(sync_output_queue, Head(posted))
    /\ posted' = Tail(posted)
    /\ UNCHANGED <<param, taskVars, async_streamers, sync_text_streamers, terminated, todo,
                   active, produced, calls, crossed>>

-----------------------------------------------------------------------------
(* The tasks. *)

\* The thread of MLCEngine blocks in get(); the tasks of AsyncMLCEngine share a loop.
Runs(t) == kind = "async" \/ \A u \in Tasks \ {t} : pc[u] # "waiting"

\* Outputs of an earlier request are still to come (under id i, in the async engine).
Outstanding(i) ==
    LET ours(j) == kind = "sync" \/ j = i
    IN  \/ \E k \in DOMAIN todo : todo[k].op = "add" /\ ours(todo[k].id)
        \/ \E j \in DOMAIN active : ours(j)
        \/ \E k \in DOMAIN posted : \E m \in DOMAIN posted[k] : ours(posted[k][m].id)

\* The request fails a validity check before anything is sent to the engine.
Reject(t) ==
    /\ pc[t] = "idle" /\ Runs(t)
    /\ pc' = [pc EXCEPT ![t] = "rejected"]
    /\ UNCHANGED <<param, queue, finish_reasons, texts, streamVars, terminated, todo,
                   engineVars, calls, crossed>>

\* The caller gets the prompt back before the generation starts.
Echo(t) ==
    /\ pc[t] = "idle" /\ Request[t].echo /\ Runs(t)
    /\ pc' = [pc EXCEPT ![t] = "echo"]
    /\ UNCHANGED <<param, queue, finish_reasons, texts, streamVars, terminated, todo,
                   engineVars, calls, crossed>>

\* Mutant: the id is not looked up first.
RegisterAnyway(t) ==
    /\ async_streamers' = Put(async_streamers, Request[t].id,
           [task |-> t, held |-> [g \in Gens(t) |-> <<>>]])
    /\ todo' = Append(todo, Add(t))
    /\ crossed' = IF Outstanding(Request[t].id) THEN crossed \cup {t} ELSE crossed
    /\ UNCHANGED queue

\* The id must not have a stream; a second request with it gets an error to raise.
Register(t) ==
    LET i == Request[t].id
    IN  IF i \in DOMAIN async_streamers
        THEN /\ queue' = [queue EXCEPT ![t] = <<Error>>]
             /\ UNCHANGED <<async_streamers, todo, crossed>>
        ELSE /\ async_streamers' = Put(async_streamers, i,
                    [task |-> t, held |-> [g \in Gens(t) |-> <<>>]])
             /\ todo' = Append(todo, Add(t))
             /\ crossed' = IF Outstanding(i) THEN crossed \cup {t} ELSE crossed
             /\ UNCHANGED queue

\* MLCEngine has one output queue and one list of text streamers for all.
ReplaceQueue(t) ==
    /\ sync_output_queue' = <<>>
    /\ sync_text_streamers' = [g \in Gens(t) |-> <<>>]
    /\ todo' = Append(todo, Add(t))
    /\ LET others == {u \in Tasks : pc[u] = "sending"}
       IN  crossed' = crossed \cup others
               \cup (IF Outstanding(Request[t].id) \/ others # {} THEN {t} ELSE {})

\* _generate up to its first get().
Generate(t) ==
    /\ pc[t] = IF Request[t].echo THEN "echo" ELSE "idle"
    /\ Runs(t)
    /\ pc' = [pc EXCEPT ![t] = IF terminated THEN "rejected" ELSE "waiting"]
    /\ \/ terminated /\ UNCHANGED <<queue, streamVars, todo, crossed>>
       \/ /\ ~terminated /\ kind = "async"
          /\ Register(t)
          /\ UNCHANGED <<sync_output_queue, sync_text_streamers>>
       \/ /\ ~terminated /\ kind = "sync"
          /\ ReplaceQueue(t)
          /\ UNCHANGED <<queue, async_streamers>>
    /\ UNCHANGED <<param, finish_reasons, texts, terminated, engineVars, calls>>

\* _abort of a task (by = {t}) or of the user (by = {}): the stream under the id goes,
\* whoever owns it, and the engine is told.  MLCEngine only tells the engine.
DoAbort(i, by) ==
    /\ todo' = Append(todo, Abort(i))
    /\ IF kind = "async" /\ i \in DOMAIN async_streamers
       THEN /\ async_streamers' = Drop(async_streamers, i)
            /\ crossed' = crossed \cup ({async_streamers[i].task} \ by)
       ELSE UNCHANGED <<async_streamers, crossed>>

\* A task with nothing left to abort comes to its end.
Finish(t, how) ==
    /\ pc' = [pc EXCEPT ![t] = how]
    /\ UNCHANGED <<async_streamers, todo, crossed>>

\* An exception inside _generate: ErrorCleanupScope aborts on the way out.
Cleanup(t, how) ==
    /\ pc' = [pc EXCEPT ![t] = how]
    /\ DoAbort(Request[t].id, {t})

\* _generate is suspended at a yield and nobody will resume it.  A generator is closed
\* at once, an async generator by a task that the event loop runs later.
Abandon(t, now, later) ==
    IF kind = "sync" THEN Cleanup(t, now) ELSE Finish(t, later)

\* _request_stream_callback_impl: the outputs of a batch up to the first usage.
UpToUsage(batch) ==
    LET ends == {k \in DOMAIN batch : batch[k].what = "usage"}
    IN  IF ends = {} THEN batch
        ELSE SubSeq(batch, 1, CHOOSE k \in ends : \A m \in ends : k <= m)

SyncGet(t) ==
    /\ kind = "sync" /\ pc[t] = "waiting" /\ queue[t] = <<>>
    /\ sync_output_queue # <<>>
    /\ \E hold \in BOOLEAN :
           LET out == FoldLeft(
                   LAMBDA state, item :
                       IF item.what = "usage"
                       THEN [state EXCEPT !.queue = @ \o <<UsageChunk, Stop>>]
                       ELSE LET d == Detokenize(item.gens, state.held, hold)
                            IN  [held |-> d.held, queue |-> Append(state.queue, Output(d.gens))],
                   [held |-> sync_text_streamers, queue |-> <<>>],
                   UpToUsage(Head(sync_output_queue)))
           IN  /\ sync_text_streamers' = out.held
               /\ queue' = [queue EXCEPT ![t] = out.queue]
    /\ sync_output_queue' = Tail(sync_output_queue)
    /\ UNCHANGED <<param, pc, finish_reasons, texts, async_streamers, terminated, todo,
                   engineVars, calls, crossed>>

Taken(t, what) ==
    /\ pc[t] = "waiting" /\ queue[t] # <<>> /\ Head(queue[t]).what = what
    /\ queue' = [queue EXCEPT ![t] = Tail(@)]
    /\ UNCHANGED <<param, sync_output_queue, sync_text_streamers, terminated, engineVars, calls>>

\* Mutant: the number of outputs is not checked.
ProcessDeltaUnchecked(t) ==
    /\ Taken(t, "delta")
    /\ LET gens == Head(queue[t]).gens
       IN  /\ finish_reasons' = [finish_reasons EXCEPT ![t] =
                  [g \in DOMAIN gens |-> gens[g].finish]]
           /\ texts' = [texts EXCEPT ![t] = [g \in DOMAIN gens |-> gens[g].text]]
           /\ Finish(t, "sending")

\* Mutant: an empty delta is skipped before its finish reason is looked at.
ProcessDeltaSkips(t) ==
    /\ Taken(t, "delta")
    /\ LET gens == Head(queue[t]).gens
           reason(g) == finish_reasons[t][g] \/ (gens[g].finish /\ gens[g].text # <<>>)
       IN  IF DOMAIN gens # Gens(t)
           THEN Abandon(t, "failed", "failing") /\ UNCHANGED <<finish_reasons, texts>>
           ELSE /\ finish_reasons' = [finish_reasons EXCEPT ![t] = [g \in Gens(t) |-> reason(g)]]
                /\ texts' = [texts EXCEPT ![t] = [g \in Gens(t) |-> @[g] \o gens[g].text]]
                /\ Finish(t, "sending")

\* process_*_stream_output of a normal chunk: a response when some generation has new
\* text or has just got its finish reason.
ProcessDelta(t) ==
    /\ Taken(t, "delta")
    /\ LET gens == Head(queue[t]).gens
           reason(g) == finish_reasons[t][g] \/ gens[g].finish
       IN  IF DOMAIN gens # Gens(t)
           THEN Abandon(t, "failed", "failing") /\ UNCHANGED <<finish_reasons, texts>>
           ELSE /\ finish_reasons' = [finish_reasons EXCEPT ![t] = [g \in Gens(t) |-> reason(g)]]
                /\ texts' = [texts EXCEPT ![t] = [g \in Gens(t) |-> @[g] \o gens[g].text]]
                /\ Finish(t, IF \E g \in Gens(t) : gens[g].text # <<>>
                                                   \/ reason(g) # finish_reasons[t][g]
                             THEN "sending" ELSE "waiting")

\* The usage chunk is a response unless the caller streams without asking for it.
ProcessUsage(t) ==
    /\ Taken(t, "usage")
    /\ Finish(t, IF Request[t].stream /\ ~Request[t].usage THEN "waiting" ELSE "sending")
    /\ UNCHANGED <<finish_reasons, texts>>

\* The stream is exhausted: the suffix, or the response of a request that does not
\* stream, needs the finish reason of every generation.
ProcessStop(t) ==
    /\ Taken(t, "stop")
    /\ Finish(t, IF (Request[t].suffix \/ ~Request[t].stream)
                    /\ \E g \in Gens(t) : ~finish_reasons[t][g]
                 THEN "failed" ELSE "done")
    /\ UNCHANGED <<finish_reasons, texts>>

ProcessError(t) ==
    /\ Taken(t, "error")
    /\ Cleanup(t, "rejected")
    /\ UNCHANGED <<finish_reasons, texts>>

\* The caller took the response and asks for the next.
Sent(t) ==
    /\ pc[t] = "sending" /\ Runs(t)
    /\ pc' = [pc EXCEPT ![t] = "waiting"]
    /\ UNCHANGED <<param, queue, finish_reasons, texts, streamVars, terminated, todo,
                   engineVars, calls, crossed>>

\* Mutant: a cancelled get() does not go through ErrorCleanupScope.
CancelNoCleanup(t) ==
    /\ pc[t] \in {"waiting", "echo", "sending"} /\ Finish(t, "closed")
    /\ UNCHANGED <<param, queue, finish_reasons, texts, sync_output_queue, sync_text_streamers,
                   terminated, engineVars, calls>>

\* The caller is cancelled, disconnected, or drops the generator.
Cancel(t) ==
    /\ \/ pc[t] = "waiting" /\ Cleanup(t, "closed")
       \/ pc[t] = "echo" /\ Runs(t) /\ Finish(t, "closed")
       \/ pc[t] = "sending" /\ Runs(t) /\ Abandon(t, "closed", "closing")
    /\ UNCHANGED <<param, queue, finish_reasons, texts, sync_output_queue, sync_text_streamers,
                   terminated, engineVars, calls>>

\* The event loop closes an abandoned async generator.
Aclose(t) ==
    /\ \/ pc[t] = "closing" /\ Cleanup(t, "closed")
       \/ pc[t] = "failing" /\ Cleanup(t, "failed")
    /\ UNCHANGED <<param, queue, finish_reasons, texts, sync_output_queue, sync_text_streamers,
                   terminated, engineVars, calls>>

-----------------------------------------------------------------------------
(* The other calls of the user. *)

UserCall ==
    /\ calls > 0
    /\ calls' = calls - 1
    /\ UNCHANGED <<param, taskVars, sync_output_queue, sync_text_streamers, engineVars>>

abort(i) == UserCall /\ DoAbort(i, {}) /\ UNCHANGED terminated

reset ==
    /\ UserCall
    /\ todo' = Append(todo, [op |-> "reset"])
    /\ UNCHANGED <<async_streamers, terminated, crossed>>

terminate ==
    /\ UserCall
    /\ terminated' = TRUE
    /\ UNCHANGED <<async_streamers, todo, crossed>>

TaskStep(t) ==
    \/ SyncGet(t) \/ ProcessDelta(t) \/ ProcessUsage(t) \/ ProcessStop(t) \/ ProcessError(t)
    \/ Sent(t) \/ Aclose(t)

Next ==
    \/ EngineExecute \/ EngineStep \/ AsyncCallback \/ SyncCallback
    \/ \E t \in Tasks : Reject(t) \/ Echo(t) \/ Generate(t) \/ Cancel(t) \/ TaskStep(t)
    \/ \E i \in Ids : abort(i)
    \/ reset \/ terminate

\* The background threads run, and so does some task of the event loop that can; a
\* caller takes its responses.  Nobody has to make, to cancel or to abort a call.
Fairness ==
    /\ WF_vars(EngineExecute \/ EngineStep)
    /\ WF_vars(AsyncCallback \/ SyncCallback)
    /\ WF_vars(\E t \in Tasks : TaskStep(t))

Spec == Init /\ [][Next]_vars /\ Fairness

-----------------------------------------------------------------------------
(* Properties. *)

\* The types of the front end's state; a stream is registered under its own id.
TypeOK ==
    /\ \E c \in Cases : kind = c.kind /\ Request = c.request /\ calls \in 0 .. c.calls
    /\ pc \in [Tasks -> {"idle", "echo", "waiting", "sending", "closing", "failing"} \cup Ended]
    /\ DOMAIN async_streamers \subseteq Ids
    /\ \A i \in DOMAIN async_streamers : Request[async_streamers[i].task].id = i
    /\ \A t \in Tasks : /\ DOMAIN texts[t] = Gens(t)
                        /\ finish_reasons[t] \in [Gens(t) -> BOOLEAN]
    /\ \A i \in DOMAIN active : Request[active[i].task].id = i
    /\ crossed \subseteq Tasks /\ terminated \in BOOLEAN

\* What reaches a caller is the text of its own request, every token once and in
\* order, whatever the other requests and the text streamers do in between.
OwnTextInOrder ==
    \A t \in Tasks \ crossed : \A g \in Gens(t) :
        texts[t][g] = [k \in DOMAIN texts[t][g] |-> <<t, g, k>>]

\* A call that returns normally has given its caller everything that the engine
\* made for it, and the finish reason of every generation: nothing stays behind
\* in a text streamer, in a queue or under way.
CompleteWhenDone ==
    \A t \in Tasks \ crossed : pc[t] = "done" =>
        \A g \in Gens(t) : Len(texts[t][g]) = produced[t][g] /\ finish_reasons[t][g]

\* The engine is never given a request under an id that it still serves, even when
\* callers use an id twice: the id's stream goes before an abort is queued or after
\* the engine has let go of the id.
OneRequestPerId ==
    \A k \in DOMAIN todo :
        k = 1 /\ todo[k].op = "add" /\ (kind = "async" \/ todo[k].task \notin crossed)
            => todo[k].id \notin DOMAIN active

\* The assertions on the number of outputs and on the finish reasons hold for every
\* call whose stream nobody else has touched.
AssertionsHold == \A t \in Tasks : pc[t] \in {"failing", "failed"} => t \in crossed

\* A call that is over leaves nothing behind: no stream registered for it, and no
\* request that the engine goes on with, unless its abort is already on the way.
NothingLeftBehind ==
    /\ \A i \in DOMAIN async_streamers : pc[async_streamers[i].task] \notin Ended
    /\ \A i \in DOMAIN active :
           active[i].task \notin crossed /\ pc[active[i].task] \in Ended =>
               \E k \in DOMAIN todo : todo[k].op = "reset" \/ todo[k] = Abort(i)

\* A call that waits for the engine ends, unless the engine is terminated or the
\* call's stream is taken from it (abort() of a user, another call with its id).
EveryCallEnds ==
    \A t \in Tasks :
        pc[t] = "waiting" ~> pc[t] \in Ended \/ terminated \/ t \in crossed

=============================================================================

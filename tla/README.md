# Verification of the MLC LLM serving stack and its news app

TLA+ specifications of the serving engine (`cpp/serve`), of the Python front end and the
model definitions (`python/mlc_llm`) and of the Android application (`android/MLCChat`)
of this repository, the configurations with which TLC checks them on small instances, and
theorems that TLAPS proves for every instance.

## The system and its parts

A model begins as a `config.json` and weights: `gen_config`, `compile` and
`convert_weight` resolve the configuration, build the **model architecture** for a number
of workers and cut the weights for them. At run time a request takes this way: a front
end (the **Python engine**, or the Android app through the Kotlin and JSON engines) calls
the **threaded engine**, whose background thread owns the engine core. The core prefills
and decodes requests with the compiled functions, with a prefix cache over a **radix
tree** of token sequences deciding what is already in the KV cache; **RWKV** models keep a
recurrent state in its place. Outputs go through the threaded engine's stream-back thread
to the front end's callback. On Android, the **model list** downloads models and the
**chat** loads one and asks it for summaries of news.

| Part | Sources | Modules | Status |
|---|---|---|---|
| Threaded engine | `cpp/serve/threaded_engine.cc` | `ThreadedEngine`, `ThreadedEngineService`, `ThreadedEngineProperties`, `EngineService`, `ThreadedEngineProofs` | modelled, partly proved |
| Python engine front end, HTTP handlers as its callers | `python/mlc_llm/serve/engine.py`, `engine_base.py` | `EngineFrontEnd` | partly modelled |
| Model architectures | `python/mlc_llm/model`, `nn` | `ModelParallel`, `ModelBlocks`, `DenseModels`, `VariantModels`, `GPTModels`, `MoEModels`, `OtherModels`, `ModelRegistry` | partly modelled |
| Configuration, compilation, conversion; model runner | `python/mlc_llm/interface`, `support`, `cpp/serve/model.cc` | `ModelCompile`, `PipelineProofs` | partly modelled, partly proved |
| RWKV and recurrent state | `model/rwkv5`, `model/rwkv6`, `nn/rnn_state.py` | `RWKV`, `RWKVProofs`, `RWKVCallProofs`, `FoldFacts` | partly modelled, proved |
| Paged radix tree | `cpp/serve/radix_tree.cc` | `RadixTree`, `SequenceStore` | modelled |
| Model list and downloads | `AppViewModel.kt` (ModelState), `StartView.kt` | `ModelDownload`, `ModelDownloadProofs` | modelled, safety proved |
| Chat and summaries | `AppViewModel.kt` (ChatState), `ChatView.kt`, `NewsView.kt` | `ChatState`, `ChatStateProofs` | modelled, safety proved |

The parts that have no module are under *Not modelled*. `PROJECT.json` lists every part,
the source lines behind each definition and the hazards of the code, each with the
properties that would catch it.

## The threaded engine

`ThreadedEngine.tla` has one variable per field of `ThreadedEngineImpl` and a program
counter for each thread: `cpc` for the callers, `bpc` for `RunBackgroundLoop`, `spc` for
`RunBackgroundStreamBackLoop`. A critical section is one action. What happens between two
of them is not: a caller reads `engine_waiting_` under the mutex and notifies after it,
the background loop takes the whole queue and executes it unlocked, the stream-back loop
evaluates its predicate and then waits. `request_stream_callback_mutex_` is a variable
of its own because `exit_now_` is stored under the other mutex. A `notify_one` removes
one waiter, and spurious wakeups are steps. A `CHECK` that fails (no engine at
`AddRequest`, `Engine::Create` failing) ends the background loop in `failed`.

The engine behind `background_engine_` is external here: the requests it has, in any
order, and the number of chunks each has still to stream.

`EngineService.tla` is what the callers are promised, without threads: instructions take
effect one at a time in the order they were submitted, outputs are delivered once and in
order. The refinement mapping in `ThreadedEngineService.tla` joins the two instruction
queues, and the three places where a batch of outputs can be on its way.

| Run | What it asks | Instance |
|---|---|---|
| `threads_safety` | `TypeOK`; no lost wakeup of either loop; at most one final usage per request and nothing after it; every request in exactly one place; Reload and Unload return only when done; the threads implement `EngineService` | two requests, one thread that adds and aborts (2 calls), one that reloads, unloads, resets and exits (3 calls) |
| `threads_live` | requests are answered, blocking calls return, the loop exits | one request of one or two chunks added by one thread, two calls of any other method from the other, one spurious wakeup |
| `stream_exit` (violated) | `ExitBackgroundLoop` ends the stream-back loop | one request, add, reload, exit |

Three controlling calls are the fewest with which a reload meets the flags that an
earlier unload left; two requests are needed for a batch of several outputs and for
an abort that meets another request's step. For liveness, two calls are a reload and
whatever can then meet the request; with a chunk before the last one, the engine needs a
second step for which no instruction wakes the loop.

`stream_exit` is a finding: the exit can be stored and notified between the
stream-back loop's evaluation of its predicate and its wait. The loop then sleeps for
ever, and `terminate()` hangs in the join.

*Fairness.* Weak fairness on each of the three kinds of thread once it is inside a call
or a loop: the operating system runs a thread that can run. A caller never has to begin
a call. `RequestAnswered` and `BlockingCallReturns` are stated up to an exit and up to a
failed `CHECK`.

*Proved* (`ThreadedEngineProofs.tla`), for any sets of clients and requests, any choice of
methods per client and any bounds, from `ConstantsAssumption` (the set of requests is
finite, `NoRequest` is not one of them, bounds are naturals):

- `TypeCorrect`: `Spec => []TypeOK`. `TypeOK` is not inductive: that a waiting caller is
  in a blocking method needs `CallKind`, and that the background loop has the instruction it
  is executing needs `UnderWay` (while an unload or reload executes, `local_queue` is not
  empty). `TypeInv` is their conjunction with `TypeOK`.
- `BackgroundWakeup`: `Spec => []NoLostBackgroundWakeup`. While the background loop is
  blocked and an instruction or an exit is pending, some thread is between its critical
  section and its notification. `BackgroundWakeupInv` adds that the counter of pending
  operations is the length of the queue, and that `engine_waiting_` is set whenever the loop
  is in its wait, which is what makes the caller's early read of it safe.
- `StreamWakeup`: `Spec => []NoLostStreamWakeup`, the same for a queued batch and the
  stream-back loop. `StreamWakeupInv` adds that the loop holds the callback mutex from its
  predicate to its wait, so that no batch can be queued in between. It speaks of batches and
  not of the exit, for which it is false.
- `ServiceImplemented`: `Spec => ImplementsService`. `HandOver` is what the mapping needs to
  know of the program counters: a loop that is about to overwrite its local copy of a
  queue has emptied it (otherwise joining the queues would lose a batch), and an
  unload or a reload under way is at the head of the queue with the engine gone. Each
  action is then shown to be one step of the service or to change none of its five variables.

## The Python engine front end

`EngineFrontEnd.tla` has `AsyncMLCEngine`, whose tasks share an event loop, and `MLCEngine`,
whose one thread blocks in its output queue; which of them it is, and the requests of the
tasks, is chosen in `Init`. A task is at one of the points where Python code can be
suspended or left: a `get()`, a `yield` to its caller, or closed by the event loop later
(`closing`, `failing`), which is when an abandoned async generator runs its
`ErrorCleanupScope`. A batch that reaches the callback is folded over the registered
streams; a text streamer may hold back the newest token. The engine behind the FFI is
external: instructions in order, batches in order, requests refused or ended in any step.

The variable `crossed` collects the tasks with whose stream some other call has interfered,
and the properties speak of the others. A task is crossed when a user aborts its id, when
another call uses its id while outputs for it are under way, and, in `MLCEngine`, when a
second call begins before the outputs of the first have come: `_generate` replaces the
one output queue and the one list of text streamers, so that after a dropped generator
late outputs reach the next call.

| Run | What it asks | Instance |
|---|---|---|
| `front_end` | `TypeOK`; a caller gets its own text, every token once and in order; a call that returns has given everything; no request under an id that is still served; the assertions of the code hold; what is over leaves no stream and no request behind; calls end | two async calls of one id, one with two generations, with one `abort`, `reset` or `terminate`; two async streams of different ids; two sync calls with echo and suffix |

Two generations make the streams of a request end at different times; two tokens are
enough for one that is held back and released by the next. Two calls are needed for a
clash of ids.

*Fairness.* The background threads run, the event loop runs some task that can run, and a
caller takes its responses. Nobody has to make, cancel or abort a call.

## Model architectures, configuration and conversion

`ModelParallel.tla` abstracts a tensor to the labels of the features that each worker
holds, and to whether the workers hold it whole, cut, as addends, or on worker 0 only. A
matrix product checks that its input is laid out as the weight was cut, and its result is
`wrong` when it is not, `reject` when a shape or an assertion of the code fails.
`ModelBlocks` has the layers that architectures share; `DenseModels`, `VariantModels`,
`GPTModels`, `MoEModels` and `OtherModels` have 36 architectures, each with the resolution
of its configuration (`__post_init__`), the layout that `_set_tp` and the loaders give to
its weights, its forward pass and its KV cache; `ModelRegistry` is `MODELS` and the
exported functions. The reference is the same model on one worker.

`ModelCompile.tla` is the way of one configuration: read, overridden and written by
`gen_config`, read and overridden again by `compile`, checked for pipeline stages, converted
from HuggingFace or AWQ weights, and then served: the functions that `cpp/serve/model.cc`
calls for one sequence, in any order that the state of the sequence allows. Of the other
sequences it only matters whether a call batches one with this sequence.

| Run | What it asks | Instance |
|---|---|---|
| `model_compile` | several workers compute what one does; what is accepted can be built, loaded and run; a layer runs on the pipeline stage that has its weights; a prefill chunk fits the window; a configuration survives being written and read | 36 architectures, four heads with two or four key/value heads, six or eight units, with and without biases, one, two and four workers, two and three stages, windows and chunks below and above each other, and overrides of each |

Four heads on two and four workers separate a cut between heads from one inside a head,
two key/value heads on four workers are fewer heads than workers, and six units do not
divide by four. Each call is a function of the configuration and of a few tensors, so
longer behaviours add nothing.

`NeverWrong` and `ServesWhatItAccepts` leave out `KnownUnsound` and `KnownFailing`, the lists
of configurations for which the code gives wrong results without an error, or accepts
what it later cannot run: with several workers chatglm and phi3_v, qwen3, qwen3_moe and
deepseek_v2 with biases and gpt_neox with parallel residuals; internlm2 with a bias; and
those of `KnownFailing`. The AWQ loaders of mistral and llava fail on every model. eagle
has no pipeline stages, and with more stages than layers, or stages that do not divide the
layers, some layers of llama, nemotron and olmo are not where their weights are, which is
why `StageHoldsItsLayers` speaks of layers that are dealt evenly. `ChunkFitsWindow` leaves
out six architectures that fit the chunk before the window is settled, or not again after
an override. `batch_select_last_hidden_states` is exported and modelled, but no C++ code
calls it.

*Proved* (`PipelineProofs.tla`): `EvenStagesHoldTheirLayers`, that for every number of
layers and of stages that divides it the stage that runs a layer is the one its weights
are sent to. It is a fact of arithmetic about two formulas of the code, one that
divides and one that counts boundaries, and states `StageHoldsItsLayers` for all
configurations.

## RWKV and its recurrent state

`RWKV.tla` abstracts a computed value to the tokens it was computed from. The storage has
for each sequence slot a ring of history slots, and for each of them and each layer three
states; a call reads the slot of the last call and writes the next one, a rollback goes
back by calls. The residual stream carries a scale, because the forward pass halves it
after every `rescale_every`-th layer and the loaders divide weights to match. The
bookkeeping of slots (class `RNNState` of TVM) is external.

| Run | What it asks | Instance |
|---|---|---|
| `rwkv` | after any calls, logits and every state that can be returned to are those of the text | two sequences over two tokens, at most three tokens in chunks of one or two, three layers, rescaling never, always, every second layer, one to three history slots, both versions, and configurations that are rejected |

Three history slots make the ring wrap within three tokens; with one there is nothing to
return to.

*Proved* (`RWKVProofs.tla`, `RWKVCallProofs.tla`) for any vocabulary, sequences, slots,
numbers of layers and history slots, from the assumptions of `RWKV.tla` (a configuration
has at least one layer and one history slot, and the mark of a wrong value is no token):

- `LoaderCountsHalvings`, `LayerKeepsScale`: the exponent of the loaders is the number
  of halvings before the layer, so every residual addition is between equal scales.
- `CallsAreExact`: one call, from the states of any text and on any chunk, returns the
  logits of the longer text and leaves its states. It is an induction over the tokens of
  the chunk inside `create_wkv5_func` and `create_wkv6_func`, and over the layers. What an
  induction step keeps is `Stored` (the layers so far hold the states of the longer text
  in the slot that is written, and all else is as before) and `Stream` (the residual is
  that of the longer text, at the scale of the next layer).
- `LogitsExact` and `RollbacksExact`: `Spec => []LogitsOfText`, `Spec => []RollbackExact`. The
  inductive invariant `IInv` adds that sequences have different slots of the storage, and that
  each of the `available` slots behind the current one holds the states of the text as it
  was that many calls ago (`Exact`); a write never lands on one of them.

`FoldFacts.tla` has the two facts this rests on. The induction principle of the library
has an operator parameter, which the provers cannot instantiate; `SetInduction` states it
for a set of numbers, and follows from the well-foundedness of the natural numbers.
`FoldSteps` is what `FoldLeft` computes, one step for each element; the module has the
folded operator as a constant and is instantiated for each fold.

## The paged radix tree

`RadixTree.tla` keeps the tree in one record: the pages in use with their parent, tokens
and sequences, the map `seq2page`, and the two counts of the page pool. Each operation of
`PagedRadixTreeImpl` is a function from a tree to a tree, because an operation makes
several changes in turn: an extension pops the sequence, matches, splits a page, which may
merge its new child and its parent, fills a leaf, allocates pages, and may merge the page
it began at. The helpers keep the code's names. Circular buffers are sequences, the
linked lists of siblings and of sequence identifiers are sets; no operation depends on
their order. The operations are called with valid arguments, as their `CHECK`s demand.

`SequenceStore.tla` is the promise: a map from identifiers to token sequences on which an
operation changes one entry.

| Run | What it asks | Instance |
|---|---|---|
| `radix_tree` | the tree is well formed; `MatchPrefix` returns the longest common prefix with any sequence, and exactly the sequences that share it, for every argument; the tree implements `SequenceStore` | three sequences of at most three tokens over two tokens, pages of two |
| `radix_tree_reset` (violated) | after `Reset` every page is free or in the tree | two sequences |

With pages of two, three tokens are enough for a page that is full, one that is split and
two that merge. Three sequences are needed for a page that is shared, split and released
in turn. States that differ in page names or pool counts only are identified
(`PageView`).

`radix_tree_reset` is a finding: the pool's `Reset` reserves capacity but does not resize
the list of free indices, so pages in use at a reset are lost.

## The model list

`ModelDownload.tla` follows one model: its record in the app config, its files (absent,
torn or whole), the handlers of `ModelState` on the main thread, one thread per
download, and the clear and delete buttons that stay on the screen while the state
changes. A handler is one action with all that it calls (`switchToIndexing` ends in
the state that the files ask for). The process may die at any step, by the operating
system or by an exception that nothing catches, and start again with what is on disk.

| Run | What it asks | Instance |
|---|---|---|
| `download` | `TypeOK`; `downloadingTasks` is the set of running threads and within its limit; progress is true; a finished model is whole; files go only on a confirmed removal and with no thread about to bring one back; downloads are handled, removals end | four files, three downloads at a time, two deaths |
| `download_stuck` (violated) | a model in Downloading downloads | four files, no death |

Four files with three threads leave one to be chained when a download ends; the second
death interrupts the recovery from the first.

*Fairness.* A download that does not fail ends, and the main thread runs what is
posted to it. Buttons and restarts are never forced.

`download_stuck` is a finding: a pause during the last downloads ends in Paused with
nothing to download, and starting again enters a state that only a restart leaves.

The model also reaches two behaviours about which no run asks. The clear and delete
buttons outlive the states their handlers require, and the `require` then ends the
process. Clearing removes `ndarray-cache.json`, which no task fetches again, so
`FinishedWhole` speaks of the other files.

*Proved* (`ModelDownloadProofs.tla`) for every finite set of files, every limit and every
number of deaths: `DownloadsAreTracked`, `FinishedIsWhole`, `ProgressIsTrue` and the action
property `RemovalsConfirmed`. The inductive invariant `IInv` says which threads there can
be in which state (`ThreadsKnown`: a thread has a task in `downloadingTasks` until its end is
handled), which files can be whole while a task for them remains (`FilesKnown`), that a
dead process has no threads, and that what is downloaded remains to be done;
`ProgressIsTrue` adds that done and remaining tasks add up (`Counts`).

## The chat

`ChatState.tla` has the main thread with its queue of posted continuations (`posted`), the
executor with one thread (`executorService`) and a coroutine for each generation
(`gens`). A press is an action with the guard of its button; requires that fail and
exceptions that leave a handler set `crashed`. Texts are abstracted to who wrote a
message and to the roles of the history, the engine to the model it has loaded. A stream
may end after any number of chunks, as it may when the engine is reset under it.

| Run | What it asks | Instance |
|---|---|---|
| `chat` | `TypeOK`; a chat in Resetting, Reloading or Terminating has the work under way that ends it, and leaves that state; the engine has the model that the chat shows, or none; while nothing was interrupted and nothing failed, an answer goes to its own message and the history alternates | two models, two pieces of news, four presses, three generations, one failure |
| `chat_epilogue` (violated) | the epilogue of an interruption runs after the interruption | one model, three presses |

Four presses are enough for a load, a generation, an interruption and a press that meets
the end of either; two generations for one that outlives its chat. The history variable
`interrupted` remembers whether a reset, reload or termination was asked of a chat
that had a model.

*Fairness.* The executor and the main thread run what they have, and the engine ends the
streams it began, which is `RequestAnswered` of the threaded engine. Nobody has to press.

`chat_epilogue` is a finding: a reset clears the messages while a generation goes on
writing to them, because the executor's task for a generation only launches it.

The model also reaches these ends of the app, about which no run asks: the news list can
be pressed at any time, and `summarizeNews` requires a chat that is ready; a failed chat
can be reset, and `interruptChat` has no case for it. After the model of the chat was
terminated, "start chatting" with the same model loads nothing, which is why
`EngineMatchesName` allows an engine with no model.

*Proved* (`ChatStateProofs.tla`) for any models, news, buttons, presses, generations and
failures:

- `TransitionsUnderWay` and `EngineNamed`. The inductive invariant `IInv` relates the state
  of the chat to the two queues (`Under`: which task or continuation must be queued in
  each state), and the model that is named to the reloads that are queued (`Named`,
  `Matches`: the last reload of the executor is for the model that is shown).
- `TypeCorrect`. That the cache of summaries holds only news needs `NewsNamed`, that a
  generation for news names its piece.
- `AnswersInPlace` and `HistoryIsAnswered`, for chats without interruption and failure. The
  inductive invariant `CalmInv` is that one thing at a time is then under way: the chat is
  idle, or loads its first model, or processes an image, or answers with its newest
  generation, whose message is the last one and whose question is the last of the
  history. Each step leads from one of these situations to another.

## Proved, and only model-checked

Every theorem holds for every value of the constants that satisfies the named
assumptions of its module, and TLC evaluates these assumptions in the runs. An invariant
is proved from an inductive one that TLC checked on the run's instance first. The
following is checked by TLC only:

- liveness (`RequestAnswered`, `BlockingCallReturns`, `BackgroundLoopExits`, `EveryCallEnds`,
  `DownloadEnds`, `RemovalEnds`, `TransitionEnds`), because the prover has neither fairness
  nor ENABLED;
- `UsageOnceAndLast`, `RequestAccounted` and `CallReturnsDone` of the threaded engine: the
  first two need an induction about flattened sequences of batches, the third is false
  for callers that may all call everything at once, which no caller of the code does;
- the properties of the Python front end (`EngineFrontEnd`), whose invariants are checked by TLC only;
- `NeverWrong`, `ServesWhatItAccepts`, `ChunkFitsWindow` and `ReloadsAsWritten`: their content is
  in a long case distinction over the architectures, which TLC evaluates better;
- everything about the radix tree, whose operations are recursive operators; the
  prover cannot use a module that has them.

## Not modelled

- The engine core: request queues, prefill, decode and preemption
  (`engine.cc`, `engine_actions/`), request states and stop conditions, the prefix cache,
  speculative decoding and disaggregated serving. The models have it as an external
  component that takes instructions in order and emits outputs. What is hard to test in
  it, and would come first in a model: who owns an identifier, a request, the prefix cache
  or the id manager, when a request is recycled, preempted or aborted
  (`action_commons.cc:159`, `:404`, `engine.cc:127`, `:722`); the extensions that the prefix
  cache keeps until they are committed, and the order of eviction (`prefix_cache.cc:148`,
  `:228`); the choice of what is preempted, and roll backs (`batch_decode.cc:53`, `:286`).
- The JSON engine and the Kotlin engine, between the stream-back thread and the channel
  that `ChatState` reads; the chat has them as streams that may end anywhere.
- The router. It is a client of HTTP servers, and its hand-over needs the disaggregated
  engine. Reading it showed that a preempted request is answered with `None` and tried
  again with its text repeated, and that a client that leaves keeps the endpoint's count of
  running requests raised (`router.py:307`).
- Of the RWKV models: a prefill of several sequences in one call, which
  `batch_prefill_base.cc:276` does not make for them, `batch_verify`, which returns the logits
  of the last token only, and forks before the end of the parent's text. The `CHECK`s of the
  runtime that end the process are not actions.
- Of the front end: the conversion of requests, prompts and log-probabilities, and
  `SyncMLCEngine`, a loop without threads for debugging.
- Sampler, logit processor, tokenizers, quantization and compiler passes, whose
  correctness is numerical or in external libraries; text streamers, byte-level algorithms;
  metrics, configuration of memory, command line, packaging and benchmarks; news and file
  caches, which are I/O; iOS, which repeats the upstream application, and the web runtime.

## Conventions

Definitions keep the names of the source. Bounds are constants called `Max...`, named
where they are declared. A definition whose comment begins with *Mutant* is a
plausible wrong form of the one that follows it; `PROJECT.json` pairs it with the property
that it must violate, and no specification uses it. `MC...` modules and `.cfg` files are
the instances, `...Proofs` modules hold theorems. Modules that proofs use write recursion as
recursive functions or folds.

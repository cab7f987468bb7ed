---------------------------- MODULE ModelCompile ----------------------------
(***************************************************************************)
(* From a config.json to logits.  gen_config, compile and convert_weight   *)
(* resolve the configuration of an architecture; then the engine's model   *)
(* (cpp/serve/model.cc) calls the compiled functions for one sequence, on  *)
(* config.tp workers.  Of the other sequences it only matters whether a    *)
(* call batches one with this sequence.  What a constructor rejects when   *)
(* the model is built is rejected here by the first call that meets it.    *)
(***************************************************************************)
EXTENDS ModelRegistry

CONSTANT
  Cases              \* [arch, raw, gen, compile]: an architecture, its config.json and
                     \* the overrides given to gen_config and to compile

VARIABLES
  arch, config,
  given,             \* the overrides
  stage,             \* raw, file, chat, reloaded, configured, compiled, converted, serving
                     \* or rejected
  kv,                \* the KV cache that create_paged_kv_cache returned
  embeds, hidden, logits,
  seq,               \* the sequence: absent, empty or cached
  prefilled          \* prefilled_seq_ids_ has the sequence

vars == <<arch, config, given, stage, kv, embeds, hidden, logits, seq, prefilled>>
tensors == <<kv, embeds, hidden, logits, seq, prefilled>>

None == [at |-> "none", feat |-> <<>>]

Init ==
  /\ \E case \in Cases : /\ arch = case.arch /\ config = case.raw
                         /\ given = [gen |-> case.gen, compile |-> case.compile]
  /\ stage = "raw"
  /\ kv = PagedKVCache(0, 0, 0, 0)
  /\ embeds = None /\ hidden = None /\ logits = None
  /\ seq = "absent" /\ prefilled = FALSE

-----------------------------------------------------------------------------
(* Configuration. *)

\* The resolved configuration c, or __post_init__ has raised.
Resolves(c, next) ==
  /\ IF IsConfig(c) THEN config' = c /\ stage' = next
                    ELSE config' = config /\ stage' = "rejected"
  /\ UNCHANGED <<arch, given, tensors>>

\* from_dict: __post_init__ raises, or the configuration moves on to "next".
FromDict(source, next) == Resolves(Config(arch, source), next)

\* Mutant: asdict leaves a field out, which then gets its default.
AsDictPartial(c) == [c EXCEPT !.kwargs = <<>>, !.tp = 1]

\* asdict drops kwargs.
AsDict(c) == [c EXCEPT !.kwargs = <<>>]

StagedArchs == {"llama", "mixtral", "eagle", "nemotron", "olmo"}

\* ConfigOverrideBase.apply: the fields that are given (not 0) and that the
\* configuration has.
Overridden(c, o) ==
  [c EXCEPT !.tp = Given(o.tp, @),
            !.context_window_size = Given(o.context_window_size, @),
            !.prefill_chunk_size = Given(o.prefill_chunk_size, @),
            !.pipeline_parallel_stages =
               IF arch \in StagedArchs THEN Given(o.pipeline_parallel_stages, @) ELSE @]

\* gen_config reads the file, applies its overrides and writes the result.
FromFile == stage = "raw" /\ FromDict(config, "file")
GenConfig == stage = "file" /\ FromDict(Overridden(AsDict(config), given.gen), "chat")

\* compile reads what gen_config wrote, and applies its own overrides.
Reload == stage = "chat" /\ FromDict(AsDict(config), "reloaded")
ApplyOverrides ==
  stage = "reloaded" /\ FromDict(Overridden(AsDict(config), given.compile), "configured")

\* _set_pp has named a stage for every parameter, if there are several.
StagesDefined ==
  config.pipeline_parallel_stages # 1 =>
    /\ arch # "eagle"
    /\ config.pipeline_parallel_stages <= config.num_hidden_layers

\* The model is built and exported, and the stages of its parameters are checked.
Compile ==
  /\ stage = "configured"
  /\ stage' = IF StagesDefined THEN "compiled" ELSE "rejected"
  /\ UNCHANGED <<arch, given, config, tensors>>

\* convert_weight with the loader of the source format; the workers then load what
\* it wrote.  The linear layers of the AWQ quantization have no shard strategy, so
\* their weights do not fit several workers.
Convert(source) ==
  /\ stage = "compiled"
  /\ source = "awq" => arch \in AwqSources
  /\ stage' = IF source = "awq" /\ (config.tp > 1 \/ ~IsConfig(AwqLoader(arch, config)))
              THEN "rejected" ELSE "converted"
  /\ UNCHANGED <<arch, given, config, tensors>>

\* The hidden states that a draft model works on are the target model's.
CreateKVCache ==
  /\ stage = "converted" /\ stage' = "serving"
  /\ kv' = IF "create_paged_kv_cache" \in Functions(arch) THEN KVCache(arch, config) ELSE kv
  /\ hidden' = IF arch \in {"eagle", "medusa"} THEN OnAll(config, Hidden(config)) ELSE None
  /\ UNCHANGED <<arch, given, config, embeds, logits, seq, prefilled>>

-----------------------------------------------------------------------------
(* The sequence in the KV cache. *)

AddNewSequence ==
  /\ stage = "serving" /\ seq = "absent" /\ seq' = "empty"
  /\ UNCHANGED <<arch, given, config, stage, kv, embeds, hidden, logits, prefilled>>

\* Mutant: a forked sequence is not entered into prefilled_seq_ids_.
ForkUnmarked ==
  /\ stage = "serving" /\ seq = "absent" /\ seq' = "cached"
  /\ UNCHANGED <<arch, given, config, stage, kv, embeds, hidden, logits, prefilled>>

\* The sequence is the child; its parent has tokens.
ForkSequence ==
  /\ stage = "serving" /\ seq = "absent" /\ seq' = "cached" /\ prefilled' = TRUE
  /\ UNCHANGED <<arch, given, config, stage, kv, embeds, hidden, logits>>

PopNFromKVCache ==
  /\ stage = "serving" /\ seq = "cached" /\ seq' = "empty"
  /\ UNCHANGED <<arch, given, config, stage, kv, embeds, hidden, logits, prefilled>>

RemoveSequence ==
  /\ stage = "serving" /\ seq # "absent" /\ seq' = "absent" /\ prefilled' = FALSE
  /\ UNCHANGED <<arch, given, config, stage, kv, embeds, hidden, logits>>

-----------------------------------------------------------------------------
(* Calls of the compiled functions. *)

\* What function f returns, or that it cannot be built or run.
Call(f) ==
  Model(arch, config, f, [embeds |-> embeds, hidden |-> hidden, kv |-> kv,
                          cached |-> seq = "cached"])

Raises(r) == r.at = "reject"

\* A call that has returned r: an error, or a result for Use.
Returns(r, Use(_)) ==
  IF Raises(r) THEN stage' = "rejected" /\ UNCHANGED <<arch, given, config, tensors>>
               ELSE Use(r) /\ UNCHANGED <<arch, given, config, stage, kv>>

\* The operations below say when the engine calls function f, and what becomes
\* of its result r.
Embeds(r) ==
  /\ embeds = None
  /\ Returns(r, LAMBDA v : embeds' = v /\ UNCHANGED <<hidden, logits, seq, prefilled>>)
TokenEmbed(f, r) == f = "embed" /\ Embeds(r)
ImageEmbed(f, r) == f = "image_embed" /\ Embeds(r)

\* A call that appends the tokens of "embeds" to the sequence and yields logits,
\* or the hidden states of the last layer.
Logits(r, marks) ==
  Returns(r, LAMBDA v : /\ logits' = v /\ embeds' = None /\ seq' = "cached"
                        /\ prefilled' = marks /\ UNCHANGED hidden)
LastHidden(r) ==
  Returns(r, LAMBDA v : /\ hidden' = v /\ embeds' = None /\ seq' = "cached"
                        /\ UNCHANGED <<logits, prefilled>>)

\* The function for a batch of one sequence, and the one for several.
Batched(alone, single, batch) == IF alone THEN single ELSE batch

\* "others" tells about sequences in the same batch: none, only new ones, or one
\* that was prefilled before.
PrefillFunction(extends, others) ==
  IF extends /\ (prefilled \/ others = "existing")
  THEN Batched(others = "none", "extend", "batch_extend")
  ELSE Batched(others = "none", "prefill", "batch_prefill")

BatchPrefill(f, r) ==
  /\ embeds # None /\ seq # "absent" /\ arch # "eagle"
  /\ LET extends == "extend" \in Functions(arch)
     IN  /\ \E others \in {"none", "new", "existing"} : f = PrefillFunction(extends, others)
         /\ Logits(r, prefilled \/ extends)

BatchDecode(f, r) ==
  /\ \E alone \in BOOLEAN : f = Batched(alone, "decode", "batch_decode")
  /\ embeds # None /\ seq = "cached" /\ Logits(r, prefilled)

BatchVerify(f, r) ==
  f = "batch_verify" /\ embeds # None /\ seq = "cached" /\ Logits(r, prefilled)

\* A draft model takes hidden states, fused with the embeddings before.
HasInput == IF arch = "eagle" THEN hidden # None /\ embeds = None ELSE embeds # None

BatchPrefillToLastHidden(f, r) ==
  /\ \E alone \in BOOLEAN : f = Batched(alone, "prefill_to_last_hidden_states",
                                        "batch_prefill_to_last_hidden_states")
  /\ HasInput /\ seq # "absent" /\ LastHidden(r)
BatchDecodeToLastHidden(f, r) ==
  /\ \E alone \in BOOLEAN : f = Batched(alone, "decode_to_last_hidden_states",
                                        "batch_decode_to_last_hidden_states")
  /\ HasInput /\ seq = "cached" /\ LastHidden(r)
BatchVerifyToLastHidden(f, r) ==
  /\ f = "batch_verify_to_last_hidden_states"
  /\ HasInput /\ seq = "cached" /\ LastHidden(r)

FuseEmbedHidden(f, r) ==
  /\ f = "fuse_embed_hidden_states" /\ embeds # None /\ hidden # None
  /\ Returns(r, LAMBDA v : hidden' = v /\ embeds' = None /\ UNCHANGED <<logits, seq, prefilled>>)

BatchSelectLastHidden(f, r) ==
  /\ f = "batch_select_last_hidden_states" /\ hidden # None
  /\ Returns(r, LAMBDA v : hidden' = v /\ UNCHANGED <<embeds, logits, seq, prefilled>>)

GetLogits(f, r) ==
  /\ f = "get_logits" /\ hidden # None
  /\ Returns(r, LAMBDA v : logits' = v /\ UNCHANGED <<embeds, hidden, seq, prefilled>>)

\* The encoder's only function takes token ids.
Encode(f, r) ==
  /\ f = "prefill" /\ arch = "bert"
  /\ Returns(r, LAMBDA v : logits' = v /\ UNCHANGED <<embeds, hidden, seq, prefilled>>)

Operation(f, r) ==
  \/ TokenEmbed(f, r) \/ ImageEmbed(f, r)
  \/ BatchPrefill(f, r) \/ BatchDecode(f, r) \/ BatchVerify(f, r)
  \/ BatchPrefillToLastHidden(f, r) \/ BatchDecodeToLastHidden(f, r)
  \/ BatchVerifyToLastHidden(f, r)
  \/ FuseEmbedHidden(f, r) \/ BatchSelectLastHidden(f, r) \/ GetLogits(f, r) \/ Encode(f, r)

\* An operation on one of the functions the model has.
Calls == stage = "serving" /\ \E f \in Functions(arch) : Operation(f, Call(f))

Next ==
  \/ FromFile \/ GenConfig \/ Reload \/ ApplyOverrides \/ Compile
  \/ (\E source \in {"huggingface", "awq"} : Convert(source)) \/ CreateKVCache
  \/ AddNewSequence \/ ForkSequence \/ PopNFromKVCache \/ RemoveSequence
  \/ Calls

Spec == Init /\ [][Next]_vars

-----------------------------------------------------------------------------
\* Configurations for which the workers together are known to compute something
\* else than one worker would, without an error.
KnownUnsound(a, c) ==
  \/ a = "internlm2" /\ c.bias
  \/ /\ c.tp > 1
     /\ \/ a \in {"chatglm", "phi3_v"}
        \/ a \in {"qwen3", "qwen3_moe", "deepseek_v2"} /\ c.bias
        \/ a = "gpt_neox" /\ c.parallel

\* However many workers a model runs on, and in whatever order its sequence is
\* prefilled, forked, decoded, rolled back and verified, its embeddings, hidden
\* states and logits are the ones the source model computes on one worker: every
\* weight is cut as the forward pass uses it, every partial sum is reduced, what
\* only worker 0 was given is broadcast, and no cached token is left out of
\* attention.
NeverWrong ==
  ~KnownUnsound(arch, config) => "wrong" \notin {embeds.at, hidden.at, logits.at}

\* The sizes that are cut can be cut evenly.
Even(c) ==
  \A n \in {c.num_attention_heads, c.num_key_value_heads, c.intermediate_size,
            c.moe_intermediate_size, c.shared_intermediate_size} : n % c.tp = 0

\* Configurations that are even and known to fail once the model is built, loaded
\* or run.
KnownFailing(a, c) ==
  \/ a = "deepseek" /\ c.bias
  \/ a = "deepseek_v2" /\ c.num_key_value_heads # c.num_attention_heads
  \/ a \in {"qwen2_moe", "qwen3_moe"} /\ c.num_experts = 0
  \/ /\ c.tp > 1
     /\ \/ a \in {"bert", "cohere", "gemma3", "gptj", "nemotron", "llava"}
        \/ a = "deepseek" /\ c.num_experts # 0
        \/ a \in {"chatglm", "internlm", "starcoder2"} /\ c.bias
        \/ a = "qwen" /\ (c.intermediate_size \div 2) % c.tp # 0

\* A configuration that is accepted, and whose heads and units divide evenly among
\* the workers, can be built, loaded and run: the shapes of the weights, of their
\* parts on the workers, of the activations and of the KV cache agree in every
\* function.
ServesWhatItAccepts ==
  [][stage = "serving" /\ stage' = "rejected" => ~Even(config) \/ KnownFailing(arch, config)]_vars

\* With the layers dealt evenly, the workers of the pipeline stage that runs a
\* layer are those that loaded its weights, and no layer has a stage of its own.
StageHoldsItsLayers ==
  (/\ stage = "compiled"
   /\ config.num_hidden_layers % config.pipeline_parallel_stages = 0) =>
     \A l \in 0..(config.num_hidden_layers - 1) :
       /\ RunningStage(config, l) = HoldingStage(config, l)
       /\ HoldingStage(config, l) < config.pipeline_parallel_stages

\* After every override a prefill chunk fits into the context window (models whose
\* configuration fits the chunk before it settles the window, or only once, or not
\* at all, excepted).
ChunkFitsWindow ==
  stage = "compiled" /\ arch \notin {"gemma2", "gemma3", "cohere", "mistral", "llava", "medusa"} =>
    config.prefill_chunk_size \in 1..config.context_window_size

\* compile reads back the configuration that gen_config has written: resolving a
\* resolved configuration again, without kwargs, changes nothing.
ReloadsAsWritten ==
  [][stage = "chat" /\ stage # stage' => config' = config /\ stage' = "reloaded"]_vars
=============================================================================

-------------------------- MODULE MCModelCompile ---------------------------
(***************************************************************************)
(* Four heads of two elements, two layers; key/value heads, MLP units,     *)
(* biases and windows vary.  Tensor parallelism is an override.            *)
(***************************************************************************)
EXTENDS ModelCompile

Archs ==
  {"llama", "mistral", "qwen2", "baichuan", "internlm", "internlm2", "orion", "qwen", "qwen3",
   "stablelm", "olmo", "gemma", "gemma2", "gemma3", "phi3", "phi3_v", "cohere", "chatglm",
   "nemotron", "gpt2", "gpt_bigcode", "gptj", "gpt_neox", "phi", "phi-msft", "starcoder2",
   "mixtral", "qwen2_moe", "qwen3_moe", "minicpm", "deepseek", "deepseek_v2", "eagle",
   "medusa", "bert", "llava"}

MaxPositions == 6

Base ==
  [tp |-> 1, pipeline_parallel_stages |-> 1, text_tp |-> 1, text_window |-> 0,
   text_chunk |-> 0,
   hidden_size |-> 8, num_attention_heads |-> 4, num_key_value_heads |-> 4, head_dim |-> 2,
   intermediate_size |-> 8, num_hidden_layers |-> 2, vocab_size |-> 2,
   context_window_size |-> 0, prefill_chunk_size |-> 0, sliding_window_size |-> 0,
   position_embedding_base |-> 0, bias |-> FALSE, qkv_bias |-> FALSE, parallel |-> FALSE,
   moe_intermediate_size |-> 8, shared_intermediate_size |-> 8, num_experts |-> 2,
   decoder_sparse_step |-> 1, first_k_dense_replace |-> 1, moe_layer_freq |-> 1,
   n_shared_experts |-> 1, q_lora |-> FALSE,
   kwargs |-> [n \in {"max_position_embeddings", "n_positions"} |-> MaxPositions]]

WithUnits(n) == [Base EXCEPT !.intermediate_size = n, !.moe_intermediate_size = n,
                          !.shared_intermediate_size = n]
Shapes ==
  {[WithUnits(n) EXCEPT !.num_key_value_heads = h, !.bias = b, !.qkv_bias = b] :
     n \in {6, 8}, h \in {2, 4}, b \in BOOLEAN}
Variants ==
  {[Base EXCEPT !.parallel = TRUE, !.q_lora = TRUE, !.qkv_bias = TRUE],
   [Base EXCEPT !.num_experts = 0],
   [Base EXCEPT !.n_shared_experts = 2, !.first_k_dense_replace = 0],
   [Base EXCEPT !.shared_intermediate_size = 6],
   [Base EXCEPT !.num_hidden_layers = 3]}
Windows ==
  {[Base EXCEPT !.context_window_size = w, !.prefill_chunk_size = k] : w \in {0, 5}, k \in {3, 7}}
    \union {[Base EXCEPT !.kwargs = <<>>]}

NoOverride ==
  [tp |-> 0, context_window_size |-> 0, prefill_chunk_size |-> 0, pipeline_parallel_stages |-> 0]
Sharded == {[NoOverride EXCEPT !.tp = n] : n \in {0, 2, 4}}
Staged == {[NoOverride EXCEPT !.pipeline_parallel_stages = n] : n \in {2, 3}}
Resized ==
  {NoOverride, [NoOverride EXCEPT !.context_window_size = 2],
   [NoOverride EXCEPT !.prefill_chunk_size = 9],
   [NoOverride EXCEPT !.context_window_size = 9, !.prefill_chunk_size = 8]}

\* gemma2 and gemma3 have a default for the window of their local layers.
Case(a, raw, gen, compile) ==
  [arch |-> a, gen |-> gen, compile |-> compile,
   raw |-> IF a \in {"gemma2", "gemma3"} THEN [raw EXCEPT !.sliding_window_size = 3] ELSE raw]

AllCases ==
  {Case(a, raw, o, NoOverride) : a \in Archs, raw \in Shapes \union Variants, o \in Sharded}
    \union {Case(a, raw, o, NoOverride) : a \in StagedArchs, raw \in Variants, o \in Staged}
    \union {Case(a, raw, NoOverride, o) : a \in Archs, raw \in Windows, o \in Resized}
    \union {Case("mistral", [Base EXCEPT !.sliding_window_size = w], NoOverride, o) :
              w \in {-1, 3}, o \in Resized}
=============================================================================

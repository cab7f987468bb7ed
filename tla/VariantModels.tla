--------------------------- MODULE VariantModels ---------------------------
(***************************************************************************)
(* The dense decoders of python/mlc_llm/model that depart from the usual   *)
(* layer: norms after the blocks, residuals shared out before the sum over *)
(* the workers, projections that are not fused, parallel blocks.           *)
(***************************************************************************)
EXTENDS ModelBlocks

-----------------------------------------------------------------------------
(* gemma *)

GemmaConfig(raw) ==
  Only(WithWindow(raw, MaxPosition),
       ~raw.bias /\ raw.num_attention_heads % raw.num_key_value_heads = 0)

GemmaLoader(c) == DenseLoader(c)

GemmaMLP(c, x) == DenseMLP(c, DenseShards(c), x)

GemmaAttention(c, kv, x) ==
  Guard(c.num_key_value_heads % c.tp = 0 /\ c.num_key_value_heads >= c.tp,
        DenseAttention(c, DenseShards(c), kv, x, FALSE))

GemmaDecoderLayer(c, kv, x) ==
  PreNormLayer(c, x, LAMBDA y : GemmaAttention(c, kv, y), LAMBDA y : GemmaMLP(c, y))

\* The model around its layers, which gemma2 replaces, and the language model around it.
GemmaStack(c, kv, x, Layer(_, _, _)) ==
  Guard(c.hidden_size % c.num_attention_heads = 0,
        NormedStack(c, Act(x), LAMBDA y, l : Layer(c, kv, y)))

GemmaLM(c, f, in, Model(_, _, _)) ==
  CausalLM(c, f, in, {"embed", "batch_prefill"},
           LAMBDA x : Model(c, in.kv, x), LAMBDA h : LMHead(c, h))

GemmaModel(c, kv, x) == GemmaStack(c, kv, x, GemmaDecoderLayer)

GemmaForCausalLM(c, f, in) == GemmaLM(c, f, in, GemmaModel)

GemmaKVCache(c) == DenseKVCache(c)

GemmaSpec == StandardSpec

-----------------------------------------------------------------------------
(* gemma2: the blocks' outputs are normalised too. *)

\* The window is overridden after the prefill chunk was fitted into it.
Gemma2Config(raw) ==
  LET c == GemmaConfig(raw)
  IN  IF IsConfig(c) THEN [c EXCEPT !.context_window_size = raw.sliding_window_size] ELSE c

Gemma2Loader(c) == DenseLoader(c)

Gemma2Attention(c, kv, x) == GemmaAttention(c, kv, x)

\* The output of a block is reduced and normalised before it is added back.
PostNorm(c, y) == IF c.tp > 1 THEN Norm(AllReduce(c, y)) ELSE Norm(y)

Gemma2DecoderLayer(c, kv, x) ==
  TwoResiduals(x, LAMBDA y, h : Add(PostNorm(c, y), h),
         LAMBDA y : Gemma2Attention(c, kv, y), LAMBDA y : GemmaMLP(c, y))

Gemma2Model(c, kv, x) == GemmaStack(c, kv, x, Gemma2DecoderLayer)

Gemma2ForCausalLM(c, f, in) == GemmaLM(c, f, in, Gemma2Model)

-----------------------------------------------------------------------------
(* gemma3: a text configuration inside the configuration; separate q, k, v. *)

\* The text configuration has a window of its own, at least the cap; the outer
\* fields are taken from it only where they are not given.
Gemma3Config(raw) ==
  LET text == IF raw.sliding_window_size > ChunkCap THEN raw.sliding_window_size ELSE ChunkCap
  IN  Only([raw EXCEPT !.context_window_size = Given(@, text),
                       !.prefill_chunk_size = Given(@, ChunkCap)],
           /\ ~raw.bias /\ raw.sliding_window_size # 0
           /\ raw.num_attention_heads % raw.num_key_value_heads = 0)

Gemma3Loader(c) == DenseLoader(c)

\* The norms of the heads are cut too, although every worker needs them whole.
Gemma3Shards(c) ==
  [i \in 1..5 |-> LET name == <<"q", "k", "v", "q_norm", "k_norm">>[i]
                  IN  Shard(name, name, 0, <<>>)] \o Tail(DenseShards(c))

Gemma3MLP(c, x) == DenseMLP(c, Gemma3Shards(c), x)

Gemma3Attention(c, kv, x) ==
  LET S == Gemma3Shards(c)
      d == c.head_dim
      project(p, rows, h) == Linear(c, x, Matrix(c, S, p, 0, rows, h * d, Hidden(c), c.hidden_size),
                                    NoBias)
      normed(p, y) == Guard(Bias(c, S, p, Units("norm", d), d).rows # <<>>, y)
      q == normed("q_norm", project("q", QueryRows(c), LocalQ(c)))
      k == normed("k_norm", project("k", KeyRows(c), LocalKV(c)))
      v == project("v", ValueRows(c), LocalKV(c))
  IN  Guard(c.num_key_value_heads % c.tp = 0 /\ c.num_key_value_heads >= c.tp,
            OutProj(c, S, Attend(c, kv, Concat(Concat(q, k), v), LocalQ(c), LocalKV(c), d),
                    LocalQ(c), NoBias))

Gemma3DecoderLayer(c, kv, x) ==
  TwoResiduals(x, LAMBDA y, h : Add(PostNorm(c, y), h),
         LAMBDA y : Gemma3Attention(c, kv, y), LAMBDA y : Gemma3MLP(c, y))

Gemma3TextModel(c, kv, x) ==
  Guard(c.hidden_size % c.num_attention_heads = 0,
        NormedStack(c, Act(x), LAMBDA y, l : Gemma3DecoderLayer(c, kv, y)))

Gemma3LanguageModel(c, f, in) ==
  CausalLM(c, f, in, {"embed", "batch_prefill"},
           LAMBDA x : Gemma3TextModel(c, in.kv, x), LAMBDA h : LMHead(c, h))

Gemma3KVCache(c) == DenseKVCache(c)

Gemma3Spec == StandardSpec

-----------------------------------------------------------------------------
(* phi3: the residual is shared out before the sum over the workers. *)

Phi3Config(raw) ==
  EvenGroups(SpansHidden(WithWindow(WithHeads(raw), <<"max_position_embeddings">>)))

Phi3Loader(c) == DenseLoader(c)

Phi3MLP(c, x) == DenseMLP(c, DenseShards(c), x)

Phi3MHA(c, kv, x) ==
  Guard(c.num_attention_heads % c.tp = 0 /\ c.num_key_value_heads % c.tp = 0,
        DenseAttention(c, DenseShards(c), kv, x, FALSE))

Phi3ParallelBlock(c, kv, x) ==
  AddendLayer(c, x, LAMBDA y : Phi3MHA(c, kv, y), LAMBDA y : Phi3MLP(c, y))

Phi3Model(c, kv, x) == NormedStack(c, x, LAMBDA y, l : Phi3ParallelBlock(c, kv, y))

Phi3ForCausalLM(c, f, in) ==
  CausalLM(c, f, in, {"embed", "batch_prefill"},
           LAMBDA x : Phi3Model(c, in.kv, x), LAMBDA h : LMHead(c, h))

Phi3KVCache(c) == DenseKVCache(c)

Phi3Spec == StandardSpec

-----------------------------------------------------------------------------
(* phi3v: phi3 that also embeds images, which worker 0 alone is given. *)

Phi3VConfig(raw) == Phi3Config(raw)

Phi3VLoader(c) == DenseLoader(c)

\* The vision encoder runs on every worker, on the pixels it has.
Phi3ImageEmbedding(c, pixels) == Embedding(c, pixels)

Phi3VForCausalLM(c, f, in) ==
  IF f = "image_embed" THEN Phi3ImageEmbedding(c, FromHost(c, f, {}))
  ELSE Phi3ForCausalLM(c, f, in)

Phi3VKVCache(c) == DenseKVCache(c)

Phi3VSpec == StandardSpec \union {"image_embed"}

-----------------------------------------------------------------------------
(* cohere: attention and MLP read the same normalised input. *)

\* Everything is resolved where the base of the position embedding is: when
\* it is given, nothing is.
CohereConfig(raw) ==
  LET c == WithHeads(raw)
      window == ContextWindow(raw, MaxPosition)
  IN  IF raw.position_embedding_base # 0 THEN raw
      ELSE Only([c EXCEPT !.position_embedding_base = 1, !.context_window_size = window,
                          !.prefill_chunk_size = PrefillChunk(@, window)],
                c.head_dim * c.num_attention_heads = c.hidden_size
                /\ c.num_attention_heads % c.num_key_value_heads = 0)

CohereLoader(c) == DenseLoader(c)

\* gate_proj and up_proj are cut as if each held both halves.
CohereShards(c) ==
  <<Shard("qkv", "_shard_qkv", 0, QKVSegs(c)), Shard("o", "_shard_o", 1, <<>>),
    Shard("gate", "_shard_mlp_gate", 0, <<LocalI(c), LocalI(c)>>),
    Shard("up", "_shard_mlp_up", 0, <<LocalI(c), LocalI(c)>>),
    Shard("down", "_shard_mlp_down", 1, <<>>)>>

CohereMLP(c, x) ==
  LET S == CohereShards(c)
      n == c.intermediate_size
      project(p) == Linear(c, x, Matrix(c, S, p, 0, Units(p, n), LocalI(c), Hidden(c),
                                        c.hidden_size), NoBias)
  IN  Guard(n % c.tp = 0,
            Linear(c, GateUp(Concat(project("gate"), project("up")), "gate", "up"),
                   Matrix(c, S, "down", 0, Hidden(c), c.hidden_size, Units("mid", n), LocalI(c)),
                   NoBias))

CohereAttention(c, kv, x) ==
  Guard(c.num_attention_heads % c.tp = 0 /\ c.num_key_value_heads % c.tp = 0,
        DenseAttention(c, CohereShards(c), kv, x, FALSE))

CohereDecoderLayer(c, kv, x) ==
  LET h == Norm(x)
  IN  AddThenReduce(c, CohereMLP(c, h), AddThenReduce(c, CohereAttention(c, kv, h), x))

CohereModel(c, kv, x) ==
  Guard(c.hidden_size % c.num_attention_heads = 0,
        NormedStack(c, x, LAMBDA y, l : CohereDecoderLayer(c, kv, y)))

CohereForCausalLM(c, f, in) ==
  CausalLM(c, f, in, {"embed", "batch_prefill"},
           LAMBDA x : CohereModel(c, in.kv, x), LAMBDA h : LMHead(c, h))

CohereKVCache(c) == DenseKVCache(c)

CohereSpec == StandardSpec

-----------------------------------------------------------------------------
(* chatglm3: the key/value heads are the groups of multi_query_attention.  *)
(* c.bias is add_bias_linear, c.qkv_bias is add_qkv_bias.                  *)

GLMConfig(raw) ==
  SpansHidden(WithWindow(WithHeads(raw), <<"max_position_embeddings", "seq_length">>))

ChatGLMLoader(c) == DenseLoader(c)

\* gate and up are cut as one segment, the bias of the MLP's output along a
\* dimension it does not have.
GLMShards(c) ==
  <<Shard("qkv", "_shard_qkv_weight", 0, QKVSegs(c)), Shard("o", "_shard_dense_weight", 1, <<>>),
    Shard("up", "_shard_dense_h_to_4h_weight", 0, <<>>),
    Shard("down", "_shard_dense_4h_to_h", 1, <<>>)>>
  \o (IF c.bias \/ c.qkv_bias THEN <<QKVBiasShard(c)>> ELSE <<>>)
  \o IF c.bias THEN <<Shard("o_bias", "_shard_dense_bias", 0, <<>>),
                      Shard("up_bias", "_shard_dense_h_to_4h_bias", 0, <<>>),
                      Shard("down_bias", "_shard_dense_4h_to_h_bias", 1, <<>>)>>
     ELSE <<>>

GLMAttention(c, kv, x) ==
  Guard(c.num_attention_heads % c.tp = 0,
        BiasedAttention(c, GLMShards(c), ChatGLMLoader(c), kv, x, LocalQ(c), LocalKV(c),
                        c.bias \/ c.qkv_bias,
                        IF c.bias THEN HiddenBias(c, GLMShards(c), "o_bias") ELSE NoBias))

GLMMLP(c, x) ==
  LET S == GLMShards(c)
      n == c.intermediate_size
      up == Linear(c, x, Matrix(c, S, "up", 0, GateUpRows(n), 2 * LocalI(c), Hidden(c),
                                c.hidden_size),
                   IF c.bias THEN Bias(c, S, "up_bias", GateUpRows(n), 2 * LocalI(c)) ELSE NoBias)
  IN  Guard(n % c.tp = 0,
            Linear(c, GateUp(up, "gate", "up"),
                   Matrix(c, S, "down", 0, Hidden(c), c.hidden_size, Units("mid", n), LocalI(c)),
                   IF c.bias THEN HiddenBias(c, S, "down_bias") ELSE NoBias))

GLMBlock(c, kv, x) == PreNormLayer(c, x, LAMBDA y : GLMAttention(c, kv, y), LAMBDA y : GLMMLP(c, y))

GLMTransformer(c, kv, x) == NormedStack(c, x, LAMBDA y, l : GLMBlock(c, kv, y))

ChatGLMForCausalLM(c, f, in) ==
  CausalLM(c, f, in, {"embed", "batch_prefill"},
           LAMBDA x : GLMTransformer(c, in.kv, x), LAMBDA h : LMHead(c, h))

ChatGLMKVCache(c) == DenseKVCache(c)

ChatGLMSpec == StandardSpec

-----------------------------------------------------------------------------
(* nemotron: the MLP is built with its full sizes. *)

NemotronConfig(raw) ==
  LET c == WithWindow(HeadDim(raw), <<"max_position_embeddings">>)
  IN  Only(c, c.head_dim * c.num_attention_heads = c.hidden_size)

NemotronLoader(c) == DenseLoader(c)

NemotronShards(c) ==
  <<Shard("qkv", "_shard_qkv", 0, QKVSegs(c)), Shard("o", "_shard_o", 1, <<>>),
    Shard("up", "_shard_mlp_up", 1, <<>>), Shard("down", "_shard_mlp_down", 1, <<>>)>>

NemotronMLP(c, x) ==
  LET S == NemotronShards(c)
      n == c.intermediate_size
  IN  PlainMLP(c, S, x, n, n, IF c.bias THEN UnitBias(c, S, n, n) ELSE NoBias,
               IF c.bias THEN HiddenBias(c, S, "down_bias") ELSE NoBias)

NemotronAttention(c, kv, x) ==
  Guard(c.num_key_value_heads % c.tp = 0 /\ c.num_key_value_heads >= c.tp,
        DenseAttention(c, NemotronShards(c), kv, x, FALSE))

NemotronDecoderLayer(c, kv, x) ==
  PreNormLayer(c, x, LAMBDA y : NemotronAttention(c, kv, y), LAMBDA y : NemotronMLP(c, y))

NemotronModel(c, kv, x) ==
  Guard(c.hidden_size % c.num_attention_heads = 0,
        NormedStack(c, x, LAMBDA y, l : NemotronDecoderLayer(c, kv, y)))

NemotronForCausalLM(c, f, in) ==
  CausalLM(c, f, in, {"embed", "batch_prefill", "batch_select_last_hidden_states"},
           LAMBDA x : NemotronModel(c, in.kv, x), LAMBDA h : LMHead(c, h))

NemotronKVCache(c) == DenseKVCache(c)

NemotronSpec == StandardSpec \union HiddenSpec \union LogitsSpec

=============================================================================

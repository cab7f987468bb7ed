----------------------------- MODULE GPTModels -----------------------------
(***************************************************************************)
(* The decoder-only architectures with plain MLPs and biases, among them   *)
(* the ones that feed attention and MLP from the same normalised input.    *)
(***************************************************************************)
EXTENDS ModelBlocks

\* A plain MLP whose units are cut and whose way back is cut by columns.
FcShards == <<Shard("up", "_shard_c_fc_weight", 0, <<>>),
              Shard("up_bias", "_shard_c_fc_bias", 0, <<>>),
              Shard("down", "_shard_mlp_c_proj", 1, <<>>)>>

QKVShards(c) == <<Shard("qkv", "_shard_qkv_weight", 0, QKVSegs(c)), QKVBiasShard(c)>>

OShard == <<Shard("o", "_shard_attn_c_proj", 1, <<>>)>>

WithoutGroups(raw) == [raw EXCEPT !.num_key_value_heads = raw.num_attention_heads]
FourTimes(raw) == [raw EXCEPT !.intermediate_size = Given(@, 4 * raw.hidden_size)]

\* Attention with biases, the one of the output projection divided or not.
BiasedMHA(c, S, L, kv, x, divide) ==
  LET b == HiddenBias(c, S, "o_bias")
  IN  BiasedAttention(c, S, L, kv, x, LocalQ(c), LocalKV(c), TRUE,
                      IF divide THEN ShardedBias(c, b) ELSE b)

\* A plain MLP with biases, likewise.
BiasedMLP(c, S, x, divide) ==
  LET b == HiddenBias(c, S, "down_bias")
  IN  Guard(c.intermediate_size % c.tp = 0,
            PlainMLP(c, S, x, c.intermediate_size, LocalI(c),
                     UnitBias(c, S, c.intermediate_size, LocalI(c)),
                     IF divide THEN ShardedBias(c, b) ELSE b))

-----------------------------------------------------------------------------
(* gpt2 *)

GPT2Config(raw) ==
  SpansHidden(WithWindow(HeadDim(WithoutGroups(FourTimes(raw))),
                         <<"n_positions", "max_sequence_length">>))

GPT2Loader(c) == DenseLoader(c)

GPT2Shards(c) == QKVShards(c) \o OShard \o FcShards

GPT2Attention(c, kv, x) ==
  Guard(c.num_attention_heads % c.tp = 0, BiasedMHA(c, GPT2Shards(c), GPT2Loader(c), kv, x, TRUE))

GPT2MLP(c, x) == BiasedMLP(c, GPT2Shards(c), x, TRUE)

GPT2Block(c, kv, x) ==
  AddendLayer(c, x, LAMBDA y : GPT2Attention(c, kv, y), LAMBDA y : GPT2MLP(c, y))

\* The embeddings of the positions that the cache reports are added first.
GPT2Model(c, kv, x) ==
  Guard(c.hidden_size % c.num_attention_heads = 0,
        NormedStack(c, Add(x, OnAll(c, Hidden(c))), LAMBDA y, l : GPT2Block(c, kv, y)))

GPT2LMHeadModel(c, f, in) ==
  CausalLM(c, f, in, {"embed", "batch_prefill"},
           LAMBDA x : GPT2Model(c, in.kv, x), LAMBDA h : LMHead(c, h))

GPT2KVCache(c) == PagedKVCache(c.num_hidden_layers, LocalQ(c), LocalQ(c), c.head_dim)

GPT2Spec == StandardSpec

-----------------------------------------------------------------------------
(* gpt_bigcode: one key/value head, one worker. *)

GPTBigCodeConfig(raw) ==
  WithWindow([HeadDim(raw) EXCEPT !.num_key_value_heads = 1], <<"n_positions">>)

GPTBigCodeLoader(c) == DenseLoader(c)

GPTBigCodeShards(c) ==
  <<Shard("qkv", "_shard_c_attn", 0, <<c.num_attention_heads * c.head_dim, c.head_dim, c.head_dim>>),
    Shard("o", "_shard_c_proj", 1, <<>>), Shard("up", "_shard_mlp_c_fc", 0, <<>>),
    Shard("down", "_shard_mlp_c_proj", 1, <<>>)>>

GPTBigCodeMLP(c, x) == BiasedMLP(c, GPTBigCodeShards(c), x, FALSE)

GPTBigCodeAttention(c, kv, x) ==
  Guard(c.tp = 1,
        BiasedAttention(c, GPTBigCodeShards(c), GPTBigCodeLoader(c), kv, x, LocalQ(c), 1, TRUE,
                        HiddenBias(c, GPTBigCodeShards(c), "o_bias")))

GPTBigCodeBlock(c, kv, x) ==
  TwoResiduals(x, Add, LAMBDA y : GPTBigCodeAttention(c, kv, y), LAMBDA y : GPTBigCodeMLP(c, y))

GPTBigCodeModel(c, kv, x) ==
  Guard(c.hidden_size % c.num_attention_heads = 0,
        NormedStack(c, Add(x, OnAll(c, Hidden(c))), LAMBDA y, l : GPTBigCodeBlock(c, kv, y)))

GPTBigCodeForCausalLM(c, f, in) ==
  CausalLM(c, f, in, {"embed", "batch_prefill"},
           LAMBDA x : GPTBigCodeModel(c, in.kv, x), LAMBDA h : LMHead(c, h))

GPTBigCodeKVCache(c) == PagedKVCache(c.num_hidden_layers, LocalQ(c), 1 \div c.tp, c.head_dim)

GPTBigCodeSpec == StandardSpec

-----------------------------------------------------------------------------
(* gpt_j: the projections are built with their full sizes. *)

GPTJConfig(raw) ==
  SpansHidden(WithWindow(HeadDim(WithoutGroups(FourTimes(raw))),
                         <<"max_position_embeddings", "n_positions">>))

GPTJLoader(c) == DenseLoader(c)

GPTJShards(c) ==
  <<Shard("qkv", "_shard_qkv_weight", 0, QKVSegs(c)), Shard("o", "_shard_o", 1, <<>>),
    Shard("up", "_shard_c_fc_weight", 0, <<>>), Shard("down", "_shard_mlp_c_proj", 1, <<>>)>>

GPTJAttention(c, kv, x) ==
  LET S == GPTJShards(c)
      qkv == Linear(c, x, Matrix(c, S, "qkv", 0, GPTJLoader(c).qkv, 3 * c.hidden_size,
                                 Hidden(c), c.hidden_size), NoBias)
  IN  OutProj(c, S, Attend(c, kv, qkv, LocalQ(c), LocalQ(c), c.head_dim),
              c.num_attention_heads, NoBias)

GPTJMLP(c, x) ==
  LET S == GPTJShards(c)
      n == c.intermediate_size
  IN  PlainMLP(c, S, x, n, n, UnitBias(c, S, n, n), HiddenBias(c, S, "down_bias"))

GPTJBlock(c, kv, x) ==
  LET h == Norm(x) IN ReduceThenAdd(c, Add(GPTJAttention(c, kv, h), GPTJMLP(c, h)), x)

GPTJModel(c, kv, x) == NormedStack(c, x, LAMBDA y, l : GPTJBlock(c, kv, y))

GPTJForCausalLM(c, f, in) ==
  CausalLM(c, f, in, {"embed", "batch_prefill"},
           LAMBDA x : GPTJModel(c, in.kv, x), LAMBDA h : LMHead(c, h))

GPTJKVCache(c) == PagedKVCache(c.num_hidden_layers, LocalQ(c), LocalQ(c), c.head_dim)

GPTJSpec == StandardSpec

-----------------------------------------------------------------------------
(* gpt_neox *)

GPTNeoXConfig(raw) == EvenHeads(WithoutGroups(raw))

\* Head after head q, k and v in the source, of the weight and of the bias.
QKVByHead(rows, d) ==
  PickUnits(rows, d, 3, 0, 1) \o PickUnits(rows, d, 3, 1, 2) \o PickUnits(rows, d, 3, 2, 3)
SameRows(rows) == [qkv |-> rows, qkv_bias |-> rows]
GPTNeoXLoader(c) == SameRows(QKVByHead(GroupedRows(c), c.head_dim))

GPTNeoXShards(c) == QKVShards(c) \o OShard \o FcShards

GPTNeoXAttention(c, kv, x) ==
  Guard(c.num_attention_heads % c.tp = 0,
        BiasedMHA(c, GPTNeoXShards(c), GPTNeoXLoader(c), kv, x, TRUE))

GPTNeoXMLP(c, x, divide) == BiasedMLP(c, GPTNeoXShards(c), x, divide)

\* With use_parallel_residual the addends are summed on every worker alone.
GPTNeoXLayer(c, kv, x) ==
  IF c.parallel
  THEN Add(Add(GPTNeoXMLP(c, Norm(x), FALSE), GPTNeoXAttention(c, kv, Norm(x))), x)
  ELSE AddendLayer(c, x, LAMBDA y : GPTNeoXAttention(c, kv, y), LAMBDA y : GPTNeoXMLP(c, y, TRUE))

GPTNeoXModel(c, kv, x) == NormedStack(c, x, LAMBDA y, l : GPTNeoXLayer(c, kv, y))

GPTNeoXForCausalLM(c, f, in) ==
  CausalLM(c, f, in, {"embed", "batch_prefill"},
           LAMBDA x : GPTNeoXModel(c, in.kv, x), LAMBDA h : LMHead(c, h))

GPTNeoXKVCache(c) == PagedKVCache(c.num_hidden_layers, LocalQ(c), LocalQ(c), c.head_dim)

GPTNeoXSpec == StandardSpec

-----------------------------------------------------------------------------
(* phi: attention and MLP read the same normalised input. *)

PhiHeads(c) ==
  Only(c, c.head_dim * c.num_attention_heads = c.hidden_size
          /\ c.num_attention_heads % c.num_key_value_heads = 0)

Phi1Config(raw) == PhiHeads(WithWindow(WithHeads(FourTimes(raw)), MaxPosition))

\* The window falls back to n_positions and the chunk to the whole window.
PhiConfig(raw) ==
  LET window == Given(ContextWindow(raw, MaxPosition), 2 * ChunkCap)
  IN  PhiHeads([WithHeads(FourTimes(raw)) EXCEPT
                  !.context_window_size = window,
                  !.prefill_chunk_size = MinOf(Given(@, window), window)])

PhiLoader(c) == DenseLoader(c)

PhiShards(c) == QKVShards(c) \o OShard \o FcShards

PhiMLP(c, x) == BiasedMLP(c, PhiShards(c), x, TRUE)

PhiMHA(c, kv, x) ==
  Guard(c.num_attention_heads % c.tp = 0 /\ c.num_key_value_heads % c.tp = 0,
        BiasedMHA(c, PhiShards(c), PhiLoader(c), kv, x, TRUE))

PhiParallelBlock(c, kv, x) ==
  LET h == Norm(x) IN AddThenReduce(c, Add(PhiMHA(c, kv, h), PhiMLP(c, h)), x)

PhiModel(c, kv, x) == Stack(c.num_hidden_layers, x, LAMBDA y, l : PhiParallelBlock(c, kv, y))

PhiCausalLMHead(c, h) == LMHead(c, Norm(h))

PhiForCausalLM(c, f, in) ==
  CausalLM(c, f, in, {"embed", "batch_prefill"},
           LAMBDA x : PhiModel(c, in.kv, x), LAMBDA h : PhiCausalLMHead(c, h))

PhiKVCache(c) == DenseKVCache(c)

PhiSpec == StandardSpec

-----------------------------------------------------------------------------
(* starcoder2 *)

Starcoder2Config(raw) == EvenHeads(raw)

Starcoder2Loader(c) == DenseLoader(c)

\* The bias of the MLP's output is cut although every worker holds all of it,
\* the one of the attention's output is added by every worker.
Starcoder2Shards(c) ==
  <<Shard("qkv", "_shard_qkv", 0, QKVSegs(c)), Shard("o", "_shard_o", 1, <<>>),
    Shard("up", "_shard_mlp_c_fc", 0, <<>>), Shard("down", "_shard_mlp_c_proj", 1, <<>>)>>
  \o IF c.bias
     THEN <<Shard("qkv_bias", "_shard_qkv_bias", 0, QKVSegs(c)),
            Shard("up_bias", "_shard_c_fc_bias", 0, <<>>),
            Shard("down_bias", "_shard_mlp_c_proj_bias", 0, <<>>)>>
     ELSE <<>>

Starcoder2Attention(c, kv, x) ==
  LET S == Starcoder2Shards(c)
  IN  Guard(c.num_attention_heads % c.tp = 0 /\ LocalKV(c) # 0,
            BiasedAttention(c, S, Starcoder2Loader(c), kv, x, LocalQ(c), LocalKV(c), c.bias,
                            IF c.bias THEN HiddenBias(c, S, "o_bias") ELSE NoBias))

Starcoder2MLP(c, x) ==
  LET S == Starcoder2Shards(c)
      n == c.intermediate_size
  IN  Guard(n % c.tp = 0,
            PlainMLP(c, S, x, n, LocalI(c), IF c.bias THEN UnitBias(c, S, n, LocalI(c)) ELSE NoBias,
                     IF c.bias THEN HiddenBias(c, S, "down_bias") ELSE NoBias))

Starcoder2DecoderLayer(c, kv, x) ==
  PreNormLayer(c, x, LAMBDA y : Starcoder2Attention(c, kv, y), LAMBDA y : Starcoder2MLP(c, y))

Starcoder2Model(c, kv, x) ==
  Guard(c.hidden_size % c.num_attention_heads = 0,
        NormedStack(c, x, LAMBDA y, l : Starcoder2DecoderLayer(c, kv, y)))

Starcoder2ForCausalLM(c, f, in) ==
  CausalLM(c, f, in, {"embed", "batch_prefill"},
           LAMBDA x : Starcoder2Model(c, in.kv, x), LAMBDA h : LMHead(c, h))

Starcoder2KVCache(c) == DenseKVCache(c)

Starcoder2Spec == StandardSpec

=============================================================================

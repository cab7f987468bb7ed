---------------------------- MODULE DenseModels ----------------------------
(***************************************************************************)
(* The decoder-only architectures of python/mlc_llm/model with RMS norms   *)
(* and gated MLPs.  Of each: the configuration its __post_init__ resolves, *)
(* the rows its loader concatenates, the shard entries of its _set_tp, its *)
(* attention, MLP, layer and model, and the functions it exports.  A       *)
(* constructor's ValueError or assertion is a Guard.                       *)
(***************************************************************************)
EXTENDS ModelBlocks

-----------------------------------------------------------------------------
(* llama *)

LlamaConfig(raw) ==
  LET c == WithWindow(WithHeads(raw), MaxPosition)
  IN  Only(c, /\ raw.pipeline_parallel_stages \in 1..raw.num_hidden_layers
              /\ c.num_attention_heads % c.num_key_value_heads = 0)

LlamaLoader(c) == DenseLoader(c)

\* AWQ weights are transposed, and concatenated along the other axis.
LlamaAwqLoader(c) == DenseLoader(c)

LlamaFFN(c, x) == DenseMLP(c, DenseShards(c), x)

LlamaAttention(c, kv, x) ==
  Guard(c.num_key_value_heads % c.tp = 0 /\ c.num_key_value_heads >= c.tp,
        DenseAttention(c, DenseShards(c), kv, x, FALSE))

LlamaDecoderLayer(c, kv, x) ==
  PreNormLayer(c, x, LAMBDA y : LlamaAttention(c, kv, y), LAMBDA y : LlamaFFN(c, y))

LlamaModel(c, kv, x) ==
  Guard(c.hidden_size % c.num_attention_heads = 0,
        NormedStack(c, x, LAMBDA y, l : LlamaDecoderLayer(c, kv, y)))

LlamaForCausalLM(c, f, in) ==
  CausalLM(c, f, in, {"embed", "batch_prefill", "batch_select_last_hidden_states"},
           LAMBDA x : LlamaModel(c, in.kv, x), LAMBDA h : LMHead(c, h))

LlamaKVCache(c) == DenseKVCache(c)

LlamaSpec == StandardSpec \union HiddenSpec \union LogitsSpec

-----------------------------------------------------------------------------
(* mistral: a sliding window instead of, or besides, the context window.   *)
(* -1 is a window that is off.                                             *)

MistralConfig(raw) ==
  LET sliding == IF raw.sliding_window_size # 0 THEN raw.sliding_window_size
                 ELSE IF "sliding_window" \in DOMAIN raw.kwargs
                 THEN raw.kwargs["sliding_window"] ELSE -1
      window == IF raw.context_window_size = 0 /\ sliding # -1 THEN -1
                ELSE ContextWindow(raw, MaxPosition)
      limits == {sliding, window} \ {-1}
      c == WithHeads(raw)
  IN  IF window = 0 \/ (raw.prefill_chunk_size = 0 /\ limits = {}) THEN NoConfig
      ELSE Only([c EXCEPT !.sliding_window_size = sliding, !.context_window_size = window,
                          !.prefill_chunk_size = Given(@, Least(limits \union {ChunkCap}))],
                c.num_attention_heads % c.num_key_value_heads = 0)

MistralLoader(c) == DenseLoader(c)

\* export_tvm returns three values, of which this loader unpacks two.
MistralAwqLoader(c) == NoConfig

MistralMLP(c, x) == DenseMLP(c, DenseShards(c), x)

MistralAttention(c, kv, x) ==
  Guard(c.num_key_value_heads % c.tp = 0, DenseAttention(c, DenseShards(c), kv, x, FALSE))

MistralDecoderLayer(c, kv, x) ==
  PreNormLayer(c, x, LAMBDA y : MistralAttention(c, kv, y), LAMBDA y : MistralMLP(c, y))

MistralModel(c, kv, x) ==
  Guard(c.hidden_size % c.num_attention_heads = 0,
        NormedStack(c, x, LAMBDA y, l : MistralDecoderLayer(c, kv, y)))

MistralForCasualLM(c, f, in) ==
  CausalLM(c, f, in, {"embed", "batch_prefill"},
           LAMBDA x : MistralModel(c, in.kv, x), LAMBDA h : LMHead(c, h))

MistralKVCache(c) == DenseKVCache(c)

MistralSpec == StandardSpec

-----------------------------------------------------------------------------
(* qwen2: a bias on the fused projection. *)

QWen2Config(raw) == EvenHeads(raw)

QWen2Loader(c) == DenseLoader(c)

QWen2Attention(c, kv, x) ==
  Guard(c.num_key_value_heads % c.tp = 0,
        DenseAttention(c, DenseShards(c) \o <<QKVBiasShard(c)>>, kv, x, TRUE))

QWen2MLP(c, x) == DenseMLP(c, DenseShards(c), x)

QWen2DecoderLayer(c, kv, x) ==
  PreNormLayer(c, x, LAMBDA y : QWen2Attention(c, kv, y), LAMBDA y : QWen2MLP(c, y))

QWen2Model(c, kv, x) == NormedStack(c, x, LAMBDA y, l : QWen2DecoderLayer(c, kv, y))

QWen2LMHeadModel(c, f, in) ==
  CausalLM(c, f, in, {"embed", "batch_prefill"},
           LAMBDA x : QWen2Model(c, in.kv, x), LAMBDA h : LMHead(c, h))

QWen2KVCache(c) == DenseKVCache(c)

QWen2Spec == StandardSpec

-----------------------------------------------------------------------------
(* baichuan: W_pack holds as many key and value as query heads. *)

BaichuanConfig(raw) == EvenHeads([raw EXCEPT !.num_key_value_heads = raw.num_attention_heads])

BaichuanLoader(c) == DenseLoader(c)

BaichuanAttention(c, kv, x) ==
  Guard(c.num_attention_heads % c.tp = 0, DenseAttention(c, DenseShards(c), kv, x, FALSE))

BaichuanMLP(c, x) == DenseMLP(c, DenseShards(c), x)

BaichuanDecoderLayer(c, kv, x) ==
  PreNormLayer(c, x, LAMBDA y : BaichuanAttention(c, kv, y), LAMBDA y : BaichuanMLP(c, y))

BaichuanModel(c, kv, x) ==
  Guard(c.hidden_size % c.num_attention_heads = 0,
        NormedStack(c, x, LAMBDA y, l : BaichuanDecoderLayer(c, kv, y)))

BaichuanForCausalLM(c, f, in) ==
  CausalLM(c, f, in, {"embed", "batch_prefill"},
           LAMBDA x : BaichuanModel(c, in.kv, x), LAMBDA h : LMHead(c, h))

BaichuanKVCache(c) == DenseKVCache(c)

BaichuanSpec == StandardSpec

-----------------------------------------------------------------------------
(* internlm: an optional bias on both attention projections; the bias of   *)
(* the output projection is given a shard entry too.                       *)

InternLMConfig(raw) == EvenHeads([raw EXCEPT !.num_key_value_heads = raw.num_attention_heads])

InternLMLoader(c) == DenseLoader(c)

InternLMShards(c) ==
  DenseShards(c) \o IF c.bias THEN <<QKVBiasShard(c), Shard("o_bias", "_shard_o_bias", 0, <<>>)>>
                    ELSE <<>>

InternLMAttention(c, kv, x) ==
  LET S == InternLMShards(c)
      h == LocalQ(c)
      y == Attend(c, kv, FusedQKV(c, S, InternLMLoader(c), x, h, h, c.bias), h, h, c.head_dim)
  IN  Guard(c.num_attention_heads % c.tp = 0,
            OutProj(c, S, y, h, IF c.bias THEN HiddenBias(c, S, "o_bias") ELSE NoBias))

InternLMMLP(c, x) == DenseMLP(c, InternLMShards(c), x)

InternLMDecoderLayer(c, kv, x) ==
  PreNormLayer(c, x, LAMBDA y : InternLMAttention(c, kv, y), LAMBDA y : InternLMMLP(c, y))

InternLMModel(c, kv, x) == NormedStack(c, x, LAMBDA y, l : InternLMDecoderLayer(c, kv, y))

InternLMForCausalLM(c, f, in) ==
  CausalLM(c, f, in, {"embed", "batch_prefill"},
           LAMBDA x : InternLMModel(c, in.kv, x), LAMBDA h : LMHead(c, h))

InternLMKVCache(c) == DenseKVCache(c)

InternLMSpec == StandardSpec

-----------------------------------------------------------------------------
(* internlm2 *)

InternLM2Config(raw) == EvenHeads(raw)

\* _convert_wqkv_layout for the weight; the bias is loaded as it is.
Ungroup(rows, g, d) ==
  PickUnits(rows, d, g + 2, 0, g) \o PickUnits(rows, d, g + 2, g, g + 1)
    \o PickUnits(rows, d, g + 2, g + 1, g + 2)
InternLM2Loader(c) ==
  [qkv |-> Ungroup(GroupedRows(c), c.num_attention_heads \div c.num_key_value_heads,
                   c.hidden_size \div c.num_attention_heads),
   qkv_bias |-> GroupedRows(c), up |-> GateUpRows(c.intermediate_size)]

InternLM2Shards(c) == DenseShards(c) \o IF c.bias THEN <<QKVBiasShard(c)>> ELSE <<>>

InternLM2Attention(c, kv, x) ==
  LET S == InternLM2Shards(c)
      y == FusedQKV(c, S, InternLM2Loader(c), x, LocalQ(c), LocalKV(c), c.bias)
  IN  Guard(c.num_attention_heads % c.tp = 0,
            OutProj(c, S, Attend(c, kv, y, LocalQ(c), LocalKV(c), c.head_dim), LocalQ(c),
                    IF c.bias THEN HiddenBias(c, S, "o_bias") ELSE NoBias))

InternLM2MLP(c, x) == DenseMLP(c, InternLM2Shards(c), x)

InternLM2DecoderLayer(c, kv, x) ==
  PreNormLayer(c, x, LAMBDA y : InternLM2Attention(c, kv, y), LAMBDA y : InternLM2MLP(c, y))

InternLM2Model(c, kv, x) == NormedStack(c, x, LAMBDA y, l : InternLM2DecoderLayer(c, kv, y))

InternLM2ForCausalLM(c, f, in) ==
  CausalLM(c, f, in, {"embed", "batch_prefill"},
           LAMBDA x : InternLM2Model(c, in.kv, x), LAMBDA h : LMHead(c, h))

InternLM2KVCache(c) == DenseKVCache(c)

InternLM2Spec == StandardSpec

-----------------------------------------------------------------------------
(* orion *)

OrionConfig(raw) ==
  EvenGroups(EvenHeads(WithHeads(raw)))

OrionLoader(c) == DenseLoader(c)

OrionFFN(c, x) == DenseMLP(c, DenseShards(c), x)

OrionAttention(c, kv, x) ==
  Guard(c.num_key_value_heads % c.tp = 0 /\ c.num_key_value_heads >= c.tp,
        DenseAttention(c, DenseShards(c), kv, x, FALSE))

OrionDecoderLayer(c, kv, x) ==
  PreNormLayer(c, x, LAMBDA y : OrionAttention(c, kv, y), LAMBDA y : OrionFFN(c, y))

OrionModel(c, kv, x) ==
  Guard(c.hidden_size % c.num_attention_heads = 0,
        NormedStack(c, x, LAMBDA y, l : OrionDecoderLayer(c, kv, y)))

OrionForCasualLM(c, f, in) ==
  CausalLM(c, f, in, {"embed", "batch_prefill"},
           LAMBDA x : OrionModel(c, in.kv, x), LAMBDA h : LMHead(c, h))

OrionKVCache(c) == DenseKVCache(c)

OrionSpec == StandardSpec

-----------------------------------------------------------------------------
(* qwen: intermediate_size counts both halves, the second one is the gate. *)

QWenConfig(raw) == EvenHeads([raw EXCEPT !.num_key_value_heads = raw.num_attention_heads])

QWenLoader(c) ==
  LET n == c.intermediate_size \div 2
  IN  [DenseLoader(c) EXCEPT !.up = Units("up", n) \o Units("gate", n)]

QWenShards(c) ==
  LET i == LocalI(c) \div 2
  IN  [DenseShards(c) EXCEPT ![3] = Shard("up", "_shard_mlp_gate_up_proj", 0, <<i, i>>)]
        \o <<QKVBiasShard(c)>>

QWenAttention(c, kv, x) ==
  Guard(c.num_attention_heads % c.tp = 0,
        FusedAttention(c, QWenShards(c), QWenLoader(c), kv, x, LocalQ(c), LocalQ(c), TRUE))

QWenMLP(c, x) ==
  LET up == Matrix(c, QWenShards(c), "up", 0, QWenLoader(c).up, LocalI(c),
                   Hidden(c), c.hidden_size)
      down == Matrix(c, QWenShards(c), "down", 0, Hidden(c), c.hidden_size,
                     Units("mid", c.intermediate_size \div 2), LocalI(c) \div 2)
  IN  Guard(c.intermediate_size % c.tp = 0,
            Linear(c, GateUp(Linear(c, x, up, NoBias), "up", "gate"), down, NoBias))

QWenBlock(c, kv, x) ==
  PreNormLayer(c, x, LAMBDA y : QWenAttention(c, kv, y), LAMBDA y : QWenMLP(c, y))

QWenModel(c, kv, x) ==
  Guard(c.hidden_size % c.num_attention_heads = 0,
        NormedStack(c, x, LAMBDA y, l : QWenBlock(c, kv, y)))

QWenLMHeadModel(c, f, in) ==
  CausalLM(c, f, in, {"embed", "batch_prefill"},
           LAMBDA x : QWenModel(c, in.kv, x), LAMBDA h : LMHead(c, h))

QWenKVCache(c) == PagedKVCache(c.num_hidden_layers, LocalQ(c), LocalQ(c), c.head_dim)

QWenSpec == StandardSpec

-----------------------------------------------------------------------------
(* qwen3: norms on the heads; attention_bias on both projections. *)

\* A head_dim left at 0 gives weights without rows, which no checkpoint fits.
Qwen3Config(raw) == Only(WithWindow(raw, MaxPosition), raw.head_dim # 0)

Qwen3Loader(c) == DenseLoader(c)

Qwen3Shards(c) == DenseShards(c) \o IF c.bias THEN <<QKVBiasShard(c)>> ELSE <<>>

Qwen3Attention(c, kv, x) ==
  LET S == Qwen3Shards(c)
      y == FusedQKV(c, S, Qwen3Loader(c), x, LocalQ(c), LocalKV(c), c.bias)
  IN  Guard(c.num_key_value_heads % c.tp = 0,
            OutProj(c, S, Attend(c, kv, y, LocalQ(c), LocalKV(c), c.head_dim), LocalQ(c),
                    IF c.bias THEN HiddenBias(c, S, "o_bias") ELSE NoBias))

Qwen3MLP(c, x) == DenseMLP(c, Qwen3Shards(c), x)

Qwen3DecoderLayer(c, kv, x) ==
  PreNormLayer(c, x, LAMBDA y : Qwen3Attention(c, kv, y), LAMBDA y : Qwen3MLP(c, y))

Qwen3Model(c, kv, x) == NormedStack(c, x, LAMBDA y, l : Qwen3DecoderLayer(c, kv, y))

Qwen3LMHeadModel(c, f, in) ==
  CausalLM(c, f, in, {"embed", "batch_prefill"},
           LAMBDA x : Qwen3Model(c, in.kv, x), LAMBDA h : LMHead(c, h))

Qwen3KVCache(c) == DenseKVCache(c)

Qwen3Spec == StandardSpec

-----------------------------------------------------------------------------
(* stable_lm: layer norms, an optional bias on the fused projection. *)

StableLmConfig(raw) == EvenHeads(raw)

StableLmLoader(c) == DenseLoader(c)

StableLmShards(c) == DenseShards(c) \o IF c.bias THEN <<QKVBiasShard(c)>> ELSE <<>>

StableLmAttention(c, kv, x) ==
  Guard(c.num_key_value_heads % c.tp = 0, DenseAttention(c, StableLmShards(c), kv, x, c.bias))

StableLmMLP(c, x) == DenseMLP(c, StableLmShards(c), x)

StableLmDecoderLayer(c, kv, x) ==
  PreNormLayer(c, x, LAMBDA y : StableLmAttention(c, kv, y), LAMBDA y : StableLmMLP(c, y))

StableLmModel(c, kv, x) ==
  Guard(c.hidden_size % c.num_attention_heads = 0,
        NormedStack(c, x, LAMBDA y, l : StableLmDecoderLayer(c, kv, y)))

StableLmForCausalLM(c, f, in) ==
  CausalLM(c, f, in, {"embed", "batch_prefill"},
           LAMBDA x : StableLmModel(c, in.kv, x), LAMBDA h : LMHead(c, h))

StableLmKVCache(c) == DenseKVCache(c)

StableLmSpec == StandardSpec

-----------------------------------------------------------------------------
(* olmo: norms without weights, otherwise as llama. *)

OLMoConfig(raw) == LlamaConfig(raw)

OLMoLoader(c) == DenseLoader(c)

OLMoAwqLoader(c) == DenseLoader(c)

OLMoFFN(c, x) == DenseMLP(c, DenseShards(c), x)

OLMoAttention(c, kv, x) ==
  Guard(c.num_key_value_heads >= c.tp /\ c.num_key_value_heads % c.tp = 0,
        DenseAttention(c, DenseShards(c), kv, x, FALSE))

OLMoDecoderLayer(c, kv, x) ==
  PreNormLayer(c, x, LAMBDA y : OLMoAttention(c, kv, y), LAMBDA y : OLMoFFN(c, y))

OLMoModel(c, kv, x) ==
  Guard(c.hidden_size % c.num_attention_heads = 0,
        NormedStack(c, x, LAMBDA y, l : OLMoDecoderLayer(c, kv, y)))

OLMoForCausalLM(c, f, in) ==
  CausalLM(c, f, in, {"embed", "batch_prefill", "batch_select_last_hidden_states"},
           LAMBDA x : OLMoModel(c, in.kv, x), LAMBDA h : LMHead(c, h))

OLMoKVCache(c) == DenseKVCache(c)

OLMoSpec == StandardSpec \union HiddenSpec \union LogitsSpec

=============================================================================

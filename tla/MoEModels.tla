----------------------------- MODULE MoEModels -----------------------------
(***************************************************************************)
(* The architectures of python/mlc_llm/model with mixtures of experts.     *)
(* Which experts a token chooses is the business of op/moe_misc.py; here   *)
(* every expert is cut the same way, so that a token's experts together    *)
(* are one gated MLP whose weights carry the expert axis in front.         *)
(***************************************************************************)
EXTENDS DenseModels

\* Shard entries of experts (dims 1 and 2) and of an MLP (dims 0 and 1) with i
\* local units.
ExpertShards(up, down, i) ==
  <<Shard("moe_up", up, 1, <<i, i>>), Shard("moe_down", down, 2, <<>>)>>
GatedShards(p, q, up, down, i) == <<Shard(p, up, 0, <<i, i>>), Shard(q, down, 1, <<>>)>>

AttentionShards(c) ==
  <<Shard("qkv", "_shard_qkv_weight", 0, QKVSegs(c)), Shard("o", "_shard_o", 1, <<>>)>>

\* n units of every expert, i of them local.  gate_up_proj (or e1_e3) stacks the
\* experts' gates and ups, concatenated expert by expert.
Experts(c, S, x, n, i) == GatedUnits(c, S, "moe_up", "moe_down", 1, GateUpRows(n), x, n, i)

LocalMoE(c) == c.moe_intermediate_size \div c.tp

-----------------------------------------------------------------------------
(* mixtral: llama with experts for the MLP. *)

MixtralConfig(raw) == LlamaConfig(raw)

MixtralLoader(c) == DenseLoader(c)

MixtralShards(c) ==
  <<Shard("qkv", "_shard_qkv", 0, QKVSegs(c)), Shard("o", "_shard_o", 1, <<>>)>>
    \o ExpertShards("_shard_mlp_up", "_shard_mlp_down", LocalI(c))

MixtralMoE(c, x) ==
  Guard(c.intermediate_size % c.tp = 0,
        Experts(c, MixtralShards(c), x, c.intermediate_size, LocalI(c)))

MixtralDecoderLayer(c, kv, x) ==
  PreNormLayer(c, x, LAMBDA y : LlamaAttention(c, kv, y), LAMBDA y : MixtralMoE(c, y))

MixtralModel(c, kv, x) ==
  Guard(c.hidden_size % c.num_attention_heads = 0,
        NormedStack(c, x, LAMBDA y, l : MixtralDecoderLayer(c, kv, y)))

MixtralForCasualLM(c, f, in) ==
  CausalLM(c, f, in, {"embed", "batch_prefill", "batch_select_last_hidden_states"},
           LAMBDA x : MixtralModel(c, in.kv, x), LAMBDA h : LMHead(c, h))

-----------------------------------------------------------------------------
(* qwen2_moe: experts and a shared expert in every layer. *)

Qwen2MoeConfig(raw) == QWen2Config(raw)

Qwen2MoeLoader(c) == DenseLoader(c)

\* "intermediate_size or config.intermediate_size".
SharedSize(c) == Given(c.shared_intermediate_size, c.intermediate_size)

Qwen2MoeShards(c) ==
  LET si == SharedSize(c) \div c.tp
  IN  AttentionShards(c) \o <<QKVBiasShard(c)>>
        \o GatedShards("shared_up", "shared_down", "_shard_shared_mlp_up",
                       "_shard_shared_mlp_down", si)
        \o ExpertShards("_shard_moe_mlp_up", "_shard_moe_mlp_down", LocalMoE(c))

\* The check is on config.intermediate_size, whatever size is used.
Qwen2MoeMLP(c, x) ==
  Guard(c.intermediate_size % c.tp = 0,
        GatedUnits(c, Qwen2MoeShards(c), "shared_up", "shared_down", 0,
                   GateUpRows(SharedSize(c)), x, SharedSize(c), SharedSize(c) \div c.tp))

\* The sigmoid of the shared expert's gate scales each worker's addend alike.
Qwen2MoeSparseMoeBlock(c, x) ==
  Guard(c.moe_intermediate_size % c.tp = 0,
        Add(Experts(c, Qwen2MoeShards(c), x, c.moe_intermediate_size, LocalMoE(c)),
            Qwen2MoeMLP(c, x)))

Qwen2MoeDecoderLayer(c, kv, x) ==
  Guard(c.num_experts > 0 /\ c.decoder_sparse_step = 1,
        PreNormLayer(c, x, LAMBDA y : QWen2Attention(c, kv, y),
                     LAMBDA y : Qwen2MoeSparseMoeBlock(c, y)))

Qwen2MoeModel(c, kv, x) == NormedStack(c, x, LAMBDA y, l : Qwen2MoeDecoderLayer(c, kv, y))

Qwen2MoeForCausalLM(c, f, in) ==
  CausalLM(c, f, in, {"embed", "batch_prefill"},
           LAMBDA x : Qwen2MoeModel(c, in.kv, x), LAMBDA h : LMHead(c, h))

Qwen2MoeKVCache(c) == DenseKVCache(c)

Qwen2MoeSpec == StandardSpec

-----------------------------------------------------------------------------
(* qwen3_moe: experts in every layer, no shared one. *)

Qwen3MoeConfig(raw) == Qwen3Config(raw)

Qwen3MoeLoader(c) == DenseLoader(c)

Qwen3MoeShards(c) ==
  AttentionShards(c) \o (IF c.bias THEN <<QKVBiasShard(c)>> ELSE <<>>)
    \o ExpertShards("_shard_moe_mlp_up", "_shard_moe_mlp_down", LocalMoE(c))

Qwen3MoeSparseMoeBlock(c, x) ==
  Guard(c.moe_intermediate_size % c.tp = 0,
        Experts(c, Qwen3MoeShards(c), x, c.moe_intermediate_size, LocalMoE(c)))

Qwen3MoeDecoderLayer(c, kv, x) ==
  Guard(c.num_experts > 0 /\ c.decoder_sparse_step = 1,
        PreNormLayer(c, x, LAMBDA y : Qwen3Attention(c, kv, y),
                     LAMBDA y : Qwen3MoeSparseMoeBlock(c, y)))

Qwen3MoeModel(c, kv, x) == NormedStack(c, x, LAMBDA y, l : Qwen3MoeDecoderLayer(c, kv, y))

Qwen3MoeForCausalLM(c, f, in) ==
  CausalLM(c, f, in, {"embed", "batch_prefill"},
           LAMBDA x : Qwen3MoeModel(c, in.kv, x), LAMBDA h : LMHead(c, h))

Qwen3MoeKVCache(c) == DenseKVCache(c)

Qwen3MoeSpec == StandardSpec

-----------------------------------------------------------------------------
(* minicpm: a dense MLP, or experts if num_experts is not 0. *)

MiniCPMConfig(raw) == EvenHeads(raw)

MiniCPMLoader(c) == DenseLoader(c)

MiniCPMShards(c) ==
  AttentionShards(c)
    \o IF c.num_experts = 0
       THEN GatedShards("up", "down", "_shard_mlp_up", "_shard_mlp_down", LocalI(c))
       ELSE ExpertShards("_shard_mlp_up", "_shard_mlp_down", LocalI(c))

\* The number of groups is computed, so that no local key/value head is an error.
MiniCPMAttention(c, kv, x) ==
  Guard(c.num_attention_heads % c.tp = 0 /\ LocalKV(c) # 0,
        FusedAttention(c, MiniCPMShards(c), MiniCPMLoader(c), kv, x, LocalQ(c), LocalKV(c), FALSE))

MiniCPMMLP(c, x) == DenseMLP(c, MiniCPMShards(c), x)

MiniCPMMoE(c, x) == Experts(c, MiniCPMShards(c), x, c.intermediate_size, LocalI(c))

\* The scaling by the depth applies to every worker's addend.
MiniCPMDecoderLayer(c, kv, x) ==
  PreNormLayer(c, x, LAMBDA y : MiniCPMAttention(c, kv, y),
               LAMBDA y : IF c.num_experts = 0 THEN MiniCPMMLP(c, y) ELSE MiniCPMMoE(c, y))

MiniCPMModel(c, kv, x) ==
  Guard(c.hidden_size % c.num_attention_heads = 0,
        NormedStack(c, x, LAMBDA y, l : MiniCPMDecoderLayer(c, kv, y)))

MiniCPMForCausalLM(c, f, in) ==
  CausalLM(c, f, in, {"embed", "batch_prefill"},
           LAMBDA x : MiniCPMModel(c, in.kv, x), LAMBDA h : LMHead(c, h))

MiniCPMKVCache(c) ==
  PagedKVCache(c.num_hidden_layers, LocalQ(c), LocalKV(c), c.hidden_size \div c.num_attention_heads)

MiniCPMSpec == StandardSpec

-----------------------------------------------------------------------------
(* deepseek: dense layers, then experts; the shared experts are cut twice  *)
(* in the constructor and have no shard entry.                             *)

DeepseekConfig(raw) == EvenHeads(raw)

\* The bias of the fused projection keeps its own name, which no source has.
DeepseekLoader(c) == [DenseLoader(c) EXCEPT !.qkv_bias = <<>>]

IsMoELayer(c, l) ==
  c.num_experts # 0 /\ l >= c.first_k_dense_replace /\ l % c.moe_layer_freq = 0

\* The layers one after the other: a name's first parameter decides for all.
DeepseekShards(c) ==
  AttentionShards(c)
    \o FlattenSeq([i \in 1..c.num_hidden_layers |->
         IF IsMoELayer(c, i - 1)
         THEN ExpertShards("_shard_mlp_up", "_shard_mlp_down", LocalMoE(c))
         ELSE GatedShards("up", "down", "_shard_mlp_up", "_shard_mlp_down", LocalI(c))])

DeepseekAttention(c, kv, x) ==
  Guard(c.num_attention_heads % c.tp = 0 /\ LocalKV(c) # 0,
        BiasedAttention(c, DeepseekShards(c), DeepseekLoader(c), kv, x, LocalQ(c), LocalKV(c),
                        c.bias, IF c.bias THEN HiddenBias(c, DeepseekShards(c), "o_bias")
                                ELSE NoBias))

\* As the MLP of a dense layer, or as the n shared units, of which "size" are
\* asked for.
DeepseekMLP(c, up, down, x, n, size) ==
  Guard(c.intermediate_size % c.tp = 0,
        GatedUnits(c, DeepseekShards(c), up, down, 0, GateUpRows(n), x, n, size \div c.tp))

\* Without shared experts there is no shared_experts to call.
DeepseekMoE(c, x) ==
  Guard(c.n_shared_experts # 0,
        Add(Experts(c, DeepseekShards(c), x, c.moe_intermediate_size, LocalMoE(c)),
            DeepseekMLP(c, "shared_up", "shared_down", x,
                        c.moe_intermediate_size * c.n_shared_experts,
                        LocalMoE(c) * c.n_shared_experts)))

DeepseekDecoderLayer(c, kv, x, l) ==
  PreNormLayer(c, x, LAMBDA y : DeepseekAttention(c, kv, y),
               LAMBDA y : IF IsMoELayer(c, l) THEN DeepseekMoE(c, y)
                          ELSE DeepseekMLP(c, "up", "down", y, c.intermediate_size,
                                           c.intermediate_size))

DeepseekModel(c, kv, x) ==
  Guard(c.hidden_size % c.num_attention_heads = 0,
        NormedStack(c, x, LAMBDA y, l : DeepseekDecoderLayer(c, kv, y, l)))

DeepseekForCausalLM(c, f, in) ==
  CausalLM(c, f, in, {"embed", "batch_prefill"},
           LAMBDA x : DeepseekModel(c, in.kv, x), LAMBDA h : LMHead(c, h))

DeepseekKVCache(c) == DenseKVCache(c)

DeepseekSpec == StandardSpec

-----------------------------------------------------------------------------
(* deepseek_v2: attention over a compressed key/value state (MLA).  Every  *)
(* worker keeps the whole compressed state and its own heads of what       *)
(* expands it: kv_b_proj for the tokens of the call (self attention), w_uk *)
(* and w_uv for those in the cache (cross attention).  head_dim stands for *)
(* qk_nope_head_dim, qk_rope_head_dim and v_head_dim, one element each     *)
(* being enough to tell heads apart.                                       *)

DeepseekV2Config(raw) ==
  LET c == WithWindow(raw, MaxPosition)
  IN  Only(c, c.num_attention_heads % c.num_key_value_heads = 0
                /\ "quantization_config" \notin DOMAIN raw.kwargs)

\* w_uk and w_uv are cut out of kv_b_proj, num_key_value_heads heads of it.
DeepseekV2Loader(c) ==
  [kv_b |-> Block("kv", c.num_attention_heads, 2), w_u |-> Units("kv", c.num_key_value_heads)]

DeepseekV2Shards(c) ==
  LET si == (c.moe_intermediate_size * c.n_shared_experts) \div c.tp
  IN  <<IF c.q_lora THEN Shard("q_b", "_shard_q_b_weight", 0, <<>>)
                    ELSE Shard("q", "_shard_q_weight", 0, <<>>),
        Shard("kv_b", "_shard_kv_b_weight", 0, <<>>),
        Shard("w_uk", "_shard_kv_b_weight_w_uk", 0, <<>>),
        Shard("w_uv", "_shard_kv_b_weight_w_uv", 0, <<>>),
        Shard("o", "_shard_o", 1, <<>>)>>
        \o GatedShards("shared_up", "shared_down", "_shard_shared_experts_gate_up",
                       "_shard_shared_experts_down", si)
        \o ExpertShards("_shard_moe_gate_up", "_shard_moe_mlp_down", LocalMoE(c))
        \o GatedShards("up", "down", "_shard_gate_up", "_shard_down", LocalI(c))

DeepseekV2MLP(c, up, down, x, n) ==
  Guard(n % c.tp = 0,
        GatedUnits(c, DeepseekV2Shards(c), up, down, 0, GateUpRows(n), x, n, n \div c.tp))

\* Every worker's query heads attend with what "heads" expands for them.
Expanded(c, kv, q, heads) ==
  IF heads = <<>> THEN Reject
  ELSE IF Failed(q) THEN q
  ELSE IF \/ kv.num_attention_heads # LocalQ(c) \/ LocalQ(c) = 0
          \/ \E k \in Workers(c) : Len(q.feat[k]) # 2 * Len(heads[k])
  THEN Reject
  ELSE IF \E k \in Workers(c), j \in 1..LocalQ(c) :
             q.feat[k][2 * j][2] # heads[k][j][2]
  THEN Wrong
  ELSE [q EXCEPT !.feat = [k \in Workers(c) |->
                             [j \in DOMAIN heads[k] |-> <<"o", heads[k][j][2], 1>>]]]

\* prefill attends to the tokens of the call only, decode to those in the cache
\* (to which the call's own have been appended), extend to both.
SelfAttn(c, kv, q, kv_b) ==
  IF Failed(kv_b) THEN kv_b
  ELSE Expanded(c, kv, q, [k \in Workers(c) |-> [j \in 1..LocalQ(c) |-> kv_b.feat[k][2 * j]]])
CrossAttn(c, kv, q, uk, uv) == IF uk = uv THEN Expanded(c, kv, q, uk) ELSE Wrong

AttentionOf(mode, cached, self_attn, cross_attn) ==
  CASE mode = "prefill" -> IF cached THEN Wrong ELSE self_attn
    [] mode = "decode" -> cross_attn
    [] mode = "extend" -> Add(self_attn, cross_attn)

\* The projections of the layer: from the hidden state or from a latent one of the
\* same size, the one down to a latent state, and the one out.
LatentProj(c, S, y, p, rows, out, bias) ==
  Linear(c, y, Matrix(c, S, p, 0, rows, out, Hidden(c), c.hidden_size), bias)
Latent(c, S, x, p) ==
  Norm(LatentProj(c, S, x, p, Hidden(c), c.hidden_size,
                  IF c.bias THEN HiddenBias(c, S, "a_bias") ELSE NoBias))
LatentHeads(c, S, y, p, rows) == LatentProj(c, S, y, p, rows, 2 * LocalQ(c), NoBias)
LatentQuery(c, S, x, rows) ==
  IF c.q_lora THEN LatentHeads(c, S, Latent(c, S, x, "q_a"), "q_b", rows)
              ELSE LatentHeads(c, S, x, "q", rows)
OutOfHeads(c, S, y) ==
  Linear(c, y, Matrix(c, S, "o", 0, Hidden(c), c.hidden_size,
                      Units("o", c.num_attention_heads), LocalQ(c)),
         IF c.bias THEN HiddenBias(c, S, "o_bias") ELSE NoBias)

\* Attention given the queries, the expanded latent state, w_uk and w_uv.
LatentAttention(c, S, kv, mode, cached, q, kv_b, uk, uv) ==
  Guard(c.num_attention_heads % c.tp = 0 /\ uk # <<>> /\ uv # <<>>,
        OutOfHeads(c, S, AttentionOf(mode, cached, SelfAttn(c, kv, q, kv_b),
                                     CrossAttn(c, kv, q, uk, uv))))

ShardedLatentAttention(c, S, kv, x, mode, cached) ==
  LatentAttention(c, S, kv, mode, cached,
                  LatentQuery(c, S, x, Block("q", c.num_attention_heads, 2)),
                  LatentHeads(c, S, Latent(c, S, x, "kv_a"), "kv_b", DeepseekV2Loader(c).kv_b),
                  Layout(c, S, "w_uk", 0, DeepseekV2Loader(c).w_u, LocalQ(c)),
                  Layout(c, S, "w_uv", 0, DeepseekV2Loader(c).w_u, LocalQ(c)))

DeepseekV2Attention(c, kv, x, mode, cached) ==
  ShardedLatentAttention(c, DeepseekV2Shards(c), kv, x, mode, cached)

DeepseekV2MoE(c, x) ==
  Guard(c.moe_intermediate_size % c.tp = 0,
        Add(Experts(c, DeepseekV2Shards(c), x, c.moe_intermediate_size, LocalMoE(c)),
            DeepseekV2MLP(c, "shared_up", "shared_down", x,
                          c.moe_intermediate_size * c.n_shared_experts)))

DeepseekV2DecoderLayer(c, kv, x, l, mode, cached) ==
  PreNormLayer(c, x, LAMBDA y : DeepseekV2Attention(c, kv, y, mode, cached),
               LAMBDA y : IF IsMoELayer(c, l) THEN DeepseekV2MoE(c, y)
                          ELSE DeepseekV2MLP(c, "up", "down", y, c.intermediate_size))

DeepseekV2Model(c, kv, x, mode, cached) ==
  NormedStack(c, x, LAMBDA y, l : DeepseekV2DecoderLayer(c, kv, y, l, mode, cached))

DeepseekV2ForCausalLM(c, f, in) ==
  LET mode == CASE f \in {"prefill", "batch_prefill"} -> "prefill"
                [] f \in {"decode", "batch_decode"} -> "decode"
                [] OTHER -> "extend"
  IN  CausalLM(c, f, in, {"embed", "batch_prefill", "batch_extend"},
               LAMBDA x : DeepseekV2Model(c, in.kv, x, mode, in.cached), LAMBDA h : LMHead(c, h))

DeepseekV2KVCache(c) == PagedKVCache(c.num_hidden_layers, LocalQ(c), 1, c.head_dim)

DeepseekV2Spec == StandardSpec \union {"extend", "batch_extend"}

=============================================================================

---------------------------- MODULE ModelBlocks ----------------------------
(***************************************************************************)
(* What the architectures of python/mlc_llm/model have in common: fused    *)
(* attention, gated and plain MLPs, layers, exported functions, and the    *)
(* resolution of a configuration by its __post_init__.                     *)
(***************************************************************************)
EXTENDS ModelParallel, FiniteSets

CONSTANT ChunkCap   \* stands for the 8192 (or 2048) that caps a default prefill chunk

-----------------------------------------------------------------------------
(* Blocks that most architectures share, in terms of the layer's shard     *)
(* entries S and the rows L the loader concatenates.                       *)

Guard(condition, x) == IF condition THEN x ELSE Reject

QueryRows(c) == Block("q", c.num_attention_heads, c.head_dim)
KeyRows(c) == Block("k", c.num_key_value_heads, c.head_dim)
ValueRows(c) == Block("v", c.num_key_value_heads, c.head_dim)
FusedRows(c) == QueryRows(c) \o KeyRows(c) \o ValueRows(c)
GateUpRows(n) == Units("gate", n) \o Units("up", n)

\* The fused projection, its bias, and the output projection of h_q and h_kv
\* heads per worker.
FusedQKV(c, S, L, x, h_q, h_kv, biased) ==
  LET out == (h_q + 2 * h_kv) * c.head_dim
  IN  Linear(c, x, Matrix(c, S, "qkv", 0, L.qkv, out, Hidden(c), c.hidden_size),
             IF biased THEN Bias(c, S, "qkv_bias", L.qkv_bias, out) ELSE NoBias)

OutProj(c, S, x, h_q, b) ==
  Linear(c, x, Matrix(c, S, "o", 0, Hidden(c), c.hidden_size,
                      Block("o", c.num_attention_heads, c.head_dim), h_q * c.head_dim), b)

BiasedAttention(c, S, L, kv, x, h_q, h_kv, biased, b) ==
  OutProj(c, S, Attend(c, kv, FusedQKV(c, S, L, x, h_q, h_kv, biased), h_q, h_kv, c.head_dim),
          h_q, b)
FusedAttention(c, S, L, kv, x, h_q, h_kv, biased) ==
  BiasedAttention(c, S, L, kv, x, h_q, h_kv, biased, NoBias)

\* down(act(x1) * x2) where x1, x2 are the halves of up(x), for n units of which
\* i are local.  The weights of experts have one more axis, the experts', in
\* front (lead = 1); every worker runs its units of the experts a token chose.
GatedUnits(c, S, up, down, lead, rows, x, n, i) ==
  Linear(c, GateUp(Linear(c, x, Matrix(c, S, up, lead, rows, 2 * i, Hidden(c), c.hidden_size),
                          NoBias), "gate", "up"),
         Matrix(c, S, down, lead, Hidden(c), c.hidden_size, Units("mid", n), i), NoBias)

GatedMLP(c, S, L, x, n, i) == GatedUnits(c, S, "up", "down", 0, L.up, x, n, i)

\* A projection of n units, i of them local, an activation and the way back.
PlainMLP(c, S, x, n, i, upBias, downBias) ==
  Linear(c, Activate(Linear(c, x, Matrix(c, S, "up", 0, Units("fc", n), i,
                                         Hidden(c), c.hidden_size), upBias), "fc"),
         Matrix(c, S, "down", 0, Hidden(c), c.hidden_size, Units("mid", n), i), downBias)
UnitBias(c, S, n, i) == Bias(c, S, "up_bias", Units("fc", n), i)

\* The bias of a projection back to the hidden size.
HiddenBias(c, S, p) == Bias(c, S, p, Hidden(c), c.hidden_size)

-----------------------------------------------------------------------------
(* What the functions of a compiled model have in common. *)

\* The engine hands token ids, image pixels and logit positions to worker 0.
FromHost(c, f, broadcasts) ==
  LET x == OnRoot(c, <<>>) IN IF f \in broadcasts THEN Broadcast(c, x) ELSE x

StandardSpec ==
  {"embed", "prefill", "decode", "batch_prefill", "batch_decode", "batch_verify",
   "create_paged_kv_cache"}
HiddenSpec ==
  {"prefill_to_last_hidden_states", "decode_to_last_hidden_states",
   "batch_prefill_to_last_hidden_states", "batch_decode_to_last_hidden_states",
   "batch_verify_to_last_hidden_states"}
LogitsSpec == {"get_logits", "batch_select_last_hidden_states"}

\* The functions of a causal language model: Body is the transformer, Logits
\* its head; "broadcasts" are the functions that broadcast their host input.
CausalLM(c, f, in, broadcasts, Body(_), Logits(_)) ==
  CASE f = "embed" -> Embedding(c, FromHost(c, f, broadcasts))
    [] f \in {"prefill", "extend", "decode", "batch_decode", "batch_verify"} ->
         Logits(Body(in.embeds))
    [] f \in {"batch_prefill", "batch_extend"} -> Logits(Take(Body(in.embeds), FromHost(c, f, broadcasts)))
    [] f \in HiddenSpec -> Body(in.embeds)
    [] f = "get_logits" -> Logits(in.hidden)
    [] f = "batch_select_last_hidden_states" -> Take(in.hidden, FromHost(c, f, broadcasts))

\* A paged KV cache for h_q query and h_kv key/value heads per worker.
PagedKVCache(layers, h_q, h_kv, d) ==
  [num_hidden_layers |-> layers, num_attention_heads |-> h_q, num_key_value_heads |-> h_kv,
   qk_head_dim |-> d, v_head_dim |-> d]

-----------------------------------------------------------------------------
(* What the __post_init__ methods of the configurations have in common.    *)
(* 0 stands for a field that config.json does not give.                    *)

NoConfig == [rejected |-> TRUE]
IsConfig(c) == c # NoConfig

MinOf(a, b) == IF a <= b THEN a ELSE b

\* context_window_size, falling back to the alternative names in kwargs.
ContextWindow(raw, names) ==
  IF raw.context_window_size # 0 THEN raw.context_window_size
  ELSE IF \E i \in DOMAIN names : names[i] \in DOMAIN raw.kwargs
       THEN raw.kwargs[names[SelectInSeq(names, LAMBDA n : n \in DOMAIN raw.kwargs)]]
       ELSE 0

\* Mutant: a chunk that is given is never fitted.
UnfittedChunk(chunk, window) == IF chunk = 0 THEN MinOf(window, ChunkCap) ELSE chunk

\* prefill_chunk_size: the default, and the override of one that is too large.
PrefillChunk(chunk, window) ==
  IF chunk = 0 \/ chunk > window THEN MinOf(window, ChunkCap) ELSE chunk

Given(value, default) == IF value # 0 THEN value ELSE default

-----------------------------------------------------------------------------
(* Pipeline stages: where a boundary lies in the forward pass, and where   *)
(* the weights of a layer are sent.                                        *)

\* Mutant: the layers are dealt to as many boundaries as there are stages.
EveryBoundary(c) ==
  {i * (c.num_hidden_layers \div c.pipeline_parallel_stages) :
     i \in 0..(c.pipeline_parallel_stages - 1)}

\* layer_partition, without the 0 at which no boundary is placed.
LayerPartition(c) ==
  LET layers == (c.num_hidden_layers + c.pipeline_parallel_stages - 1)
                  \div c.pipeline_parallel_stages
  IN  {i * layers : i \in 1..(c.pipeline_parallel_stages - 1)}

\* Every boundary met on the way to layer l moves on to the next stage.
RunningStage(c, l) == Cardinality({b \in LayerPartition(c) : b <= l})

\* _set_pp: the stage whose workers load the weights of layer l.
HoldingStage(c, l) == l \div (c.num_hidden_layers \div c.pipeline_parallel_stages)

-----------------------------------------------------------------------------
(* The parts of a usual dense decoder. *)

MaxPosition == <<"max_position_embeddings", "max_sequence_length">>

HeadDim(raw) ==
  [raw EXCEPT !.head_dim = Given(@, raw.hidden_size \div raw.num_attention_heads)]

\* num_key_value_heads and head_dim filled in as LlamaConfig does.
WithHeads(raw) ==
  [HeadDim(raw) EXCEPT !.num_key_value_heads = Given(@, raw.num_attention_heads)]

\* The context window from the given names, and a prefill chunk within it.
Windowed(raw, window) ==
  IF window = 0 THEN NoConfig
  ELSE [raw EXCEPT !.context_window_size = window,
                   !.prefill_chunk_size = PrefillChunk(@, window)]
WithWindow(raw, names) == Windowed(raw, ContextWindow(raw, names))

Least(set) == CHOOSE m \in set : \A n \in set : m <= n

Only(c, condition) == IF IsConfig(c) /\ condition THEN c ELSE NoConfig

\* The local heads and MLP units of a layer.
LocalQ(c) == c.num_attention_heads \div c.tp
LocalKV(c) == c.num_key_value_heads \div c.tp
LocalI(c) == c.intermediate_size \div c.tp
QKVSegs(c) == <<LocalQ(c) * c.head_dim, LocalKV(c) * c.head_dim, LocalKV(c) * c.head_dim>>

\* q_proj, k_proj, v_proj concatenated, gate_proj, up_proj concatenated.
DenseLoader(c) ==
  [qkv |-> FusedRows(c), qkv_bias |-> FusedRows(c), up |-> GateUpRows(c.intermediate_size)]

\* The entries of a usual _set_tp: fused rows cut by segments, the projections
\* back to the hidden size cut by columns.
DenseShards(c) ==
  <<Shard("qkv", "_shard_qkv", 0, QKVSegs(c)), Shard("o", "_shard_o", 1, <<>>),
    Shard("up", "_shard_mlp_up", 0, <<LocalI(c), LocalI(c)>>),
    Shard("down", "_shard_mlp_down", 1, <<>>)>>
QKVBiasShard(c) == Shard("qkv_bias", "_shard_qkv_bias", 0, QKVSegs(c))

DenseAttention(c, S, kv, x, biased) ==
  FusedAttention(c, S, DenseLoader(c), kv, x, LocalQ(c), LocalKV(c), biased)
DenseMLP(c, S, x) ==
  Guard(c.intermediate_size % c.tp = 0,
        GatedMLP(c, S, DenseLoader(c), x, c.intermediate_size, LocalI(c)))

\* A block on the normalised stream x, joined with x; attention, then the MLP.
Residual(x, Join(_, _), F(_)) == Join(F(Norm(x)), x)
TwoResiduals(x, Join(_, _), Attention(_), MLP(_)) == Residual(Residual(x, Join, Attention), Join, MLP)

\* Both blocks added back after an all-reduce, or as addends before it.
PreNormLayer(c, x, Attention(_), MLP(_)) ==
  TwoResiduals(x, LAMBDA y, h : ReduceThenAdd(c, y, h), Attention, MLP)
AddendLayer(c, x, Attention(_), MLP(_)) ==
  TwoResiduals(x, LAMBDA y, h : AddThenReduce(c, y, h), Attention, MLP)

NormedStack(c, x, Layer(_, _)) == Norm(Stack(c.num_hidden_layers, x, Layer))

\* Mutant: the heads of the whole model.
WholeKVCache(c) ==
  PagedKVCache(c.num_hidden_layers, c.num_attention_heads, c.num_key_value_heads, c.head_dim)

\* The cache for the local heads.
DenseKVCache(c) == PagedKVCache(c.num_hidden_layers, LocalQ(c), LocalKV(c), c.head_dim)

\* head_dim and the heads make up the hidden size.
SpansHidden(c) == Only(c, c.head_dim * c.num_attention_heads = c.hidden_size)
EvenHeads(raw) == SpansHidden(WithWindow(HeadDim(raw), MaxPosition))

\* The query heads fall into groups of one size.
EvenGroups(c) == Only(c, c.num_attention_heads % c.num_key_value_heads = 0)

\* A source that holds, group after group, the query heads of the group, its
\* key head and its value head.
GroupedRows(c) ==
  LET g == c.num_attention_heads \div c.num_key_value_heads
  IN  [i \in 1..((c.num_attention_heads + 2 * c.num_key_value_heads) * c.head_dim) |->
         LET unit == (i - 1) \div c.head_dim
             group == unit \div (g + 2)
             j == unit % (g + 2)
             e == ((i - 1) % c.head_dim) + 1
         IN  CASE j < g -> <<"q", group * g + j + 1, e>>
               [] j = g -> <<"k", group + 1, e>>
               [] OTHER -> <<"v", group + 1, e>>]

\* Of every "period" units of d rows the ones numbered lo .. hi - 1, in order.
RowsAt(rows, at) == [k \in 1..Len(at) |-> rows[at[k]]]
PickUnits(rows, d, period, lo, hi) ==
  RowsAt(rows, SelectSeq([i \in 1..Len(rows) |-> i],
                         LAMBDA i : ((i - 1) \div d) % period \in lo..(hi - 1)))

=============================================================================

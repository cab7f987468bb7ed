---------------------------- MODULE OtherModels ----------------------------
(***************************************************************************)
(* The architectures that are not plain decoders: the draft models eagle   *)
(* and medusa, the encoder bert, and llava, a decoder with a CLIP vision   *)
(* tower in front.                                                         *)
(***************************************************************************)
EXTENDS DenseModels

\* A projection that every worker holds in full, with its bias.
Full(c, x, name, out, bias) ==
  Linear(c, x, [rows |-> Uncut(c, Units(name, out), out),
                cols |-> Uncut(c, Hidden(c), c.hidden_size)],
         IF bias THEN [rows |-> Uncut(c, Units(name, out), out), share |-> 1] ELSE NoBias)

-----------------------------------------------------------------------------
(* eagle: llama layers on the embeddings fused with the hidden states of   *)
(* the target model.                                                       *)

EagleConfig(raw) == LlamaConfig(raw)

EagleLoader(c) == DenseLoader(c)

EagleAwqLoader(c) == DenseLoader(c)

\* The first layer has no input norm; in the others the normalised stream is
\* also the residual.
EagleBlock(c, kv, y) == ReduceThenAdd(c, LlamaAttention(c, kv, y), y)
EagleDecoderLayer(c, kv, x, l) ==
  Residual(EagleBlock(c, kv, IF l # 0 THEN Norm(x) ELSE x),
         LAMBDA y, h : ReduceThenAdd(c, y, h), LAMBDA y : LlamaFFN(c, y))

EagleLayers(c, kv, x) ==
  Guard(c.hidden_size % c.num_attention_heads = 0,
        Stack(c.num_hidden_layers, x, LAMBDA y, l : EagleDecoderLayer(c, kv, y, l)))

\* fc over the concatenation of both inputs.
EagleFuse(c, x, y) ==
  LET both == Hidden(c) \o Hidden(c)
      z == Concat(x, y)
  IN  Linear(c, z, [rows |-> Uncut(c, Hidden(c), c.hidden_size),
                    cols |-> Uncut(c, both, 2 * c.hidden_size)],
             IF c.bias THEN HiddenBias(c, <<>>, "fc_bias") ELSE NoBias)

EagleForCasualLM(c, f, in) ==
  CASE f = "embed" -> Embedding(c, FromHost(c, f, {"embed"}))
    [] f = "fuse_embed_hidden_states" -> EagleFuse(c, in.embeds, in.hidden)
    [] OTHER -> EagleLayers(c, in.kv, in.hidden)

EagleKVCache(c) == DenseKVCache(c)

EagleSpec ==
  {"embed", "fuse_embed_hidden_states", "create_paged_kv_cache"}
    \union (HiddenSpec \ {"batch_verify_to_last_hidden_states"})

-----------------------------------------------------------------------------
(* medusa: heads on the hidden states of the target model; nothing is cut. *)

MedusaConfig(raw) == raw

MedusaLoader(c) == c

ResBlock(c, x) == Add(x, Act(Full(c, x, "h", c.hidden_size, TRUE)))

MedusaModel(c, f, in) ==
  LMHead(c, Stack(c.num_hidden_layers, in.hidden, LAMBDA y, l : ResBlock(c, y)))

MedusaSpec == {"get_logits"}

-----------------------------------------------------------------------------
(* bert: an encoder without shard entries. *)

BertConfig(raw) ==
  LET c == HeadDim([raw EXCEPT !.intermediate_size = Given(@, 4 * raw.hidden_size),
                               !.num_key_value_heads = raw.num_attention_heads])
      window == ContextWindow(raw, MaxPosition)
      chunk == raw.prefill_chunk_size
  IN  IF window = 0 \/ c.head_dim * c.num_attention_heads # c.hidden_size THEN NoConfig
      ELSE [c EXCEPT !.context_window_size = window,
                     !.prefill_chunk_size = IF chunk = 0 \/ chunk > window THEN window ELSE chunk]

BertLoader(c) == DenseLoader(c)

BertSelfAttention(c, x) ==
  Guard(c.num_attention_heads % c.tp = 0,
        Attend(c, DenseKVCache(c), FusedQKV(c, <<>>, BertLoader(c), x, LocalQ(c), LocalQ(c), TRUE),
               LocalQ(c), LocalQ(c), c.head_dim))

BertSelfOutput(c, y, x) ==
  Norm(Add(Linear(c, y, [rows |-> Uncut(c, Hidden(c), c.hidden_size),
                         cols |-> Uncut(c, Block("o", c.num_attention_heads, c.head_dim),
                                        c.hidden_size)], HiddenBias(c, <<>>, "dense_bias")), x))

BertAttention(c, x) == BertSelfOutput(c, BertSelfAttention(c, x), x)

BertIntermediate(c, x) == Act(Full(c, x, "mid", c.intermediate_size, TRUE))

BertOutput(c, y, x) ==
  Norm(Add(Linear(c, y, [rows |-> Uncut(c, Hidden(c), c.hidden_size),
                         cols |-> Uncut(c, Units("mid", c.intermediate_size),
                                        c.intermediate_size)],
                  HiddenBias(c, <<>>, "dense_bias")), x))

BertFeedForward(c, y) == BertOutput(c, BertIntermediate(c, y), y)
BertLayer(c, x) == BertFeedForward(c, BertAttention(c, x))

BertEncoder(c, x) == Stack(c.num_hidden_layers, x, LAMBDA y, l : BertLayer(c, y))

\* Word, position and token type embeddings; only the first depends on ids.
BertEmbeddings(c, ids) == Norm(Embedding(c, ids))

BertModel(c, f, in) == BertEncoder(c, BertEmbeddings(c, FromHost(c, f, {})))

BertSpec == {"prefill"}

-----------------------------------------------------------------------------
(* The CLIP vision tower, with heads and units of its own; its weights are *)
(* never cut.  v is its configuration, seen as a model of one's own.       *)

CLIPVisionConfig(c) ==
  [c EXCEPT !.num_key_value_heads = c.num_attention_heads,
            !.head_dim = c.hidden_size \div c.num_attention_heads]

\* One class embedding and the patches, each with its position.
CLIPVisionEmbeddings(v, pixels) == Embedding(v, pixels)

CLIPMLP(v, x) ==
  Linear(v, Act(Full(v, x, "mid", v.intermediate_size, TRUE)),
         [rows |-> Uncut(v, Hidden(v), v.hidden_size),
          cols |-> Uncut(v, Units("mid", v.intermediate_size), v.intermediate_size)],
         HiddenBias(v, <<>>, "fc2_bias"))

\* Separate projections: every head meets its own key and value.
CLIPAttention(v, x) ==
  LET heads(name) == Linear(v, x, Matrix(v, <<>>, name, 0,
                                         Block(name, v.num_attention_heads, v.head_dim),
                                         v.hidden_size, Hidden(v), v.hidden_size),
                            Bias(v, <<>>, "bias", Block(name, v.num_attention_heads, v.head_dim),
                                 v.hidden_size))
      kv == PagedKVCache(1, v.num_attention_heads, v.num_attention_heads, v.head_dim)
  IN  Guard(v.head_dim * v.num_attention_heads = v.hidden_size,
            OutProj(v, <<>>, Attend(v, kv, Concat(Concat(heads("q"), heads("k")), heads("v")),
                                    v.num_attention_heads, v.num_attention_heads, v.head_dim),
                    v.num_attention_heads, HiddenBias(v, <<>>, "out_bias")))

CLIPEncoderLayer(v, x) ==
  TwoResiduals(x, Add, LAMBDA y : CLIPAttention(v, y), LAMBDA y : CLIPMLP(v, y))

\* The states before each layer and after the last; the last but one is used.
CLIPEncoder(v, x) ==
  Stack(v.num_hidden_layers - 1, x, LAMBDA y, l : CLIPEncoderLayer(v, y))

CLIPVisionModel(v, pixels) == CLIPEncoder(v, Norm(CLIPVisionEmbeddings(v, pixels)))

-----------------------------------------------------------------------------
(* llava: the text model resolves its own configuration, and keeps its own *)
(* number of shards, which an override of the outer one does not reach.    *)

\* What text_config was resolved to is kept in it; windows and chunk that the
\* outer configuration lacks are the text model's, and nothing is fitted again.
AroundText(raw, text) ==
  IF ~IsConfig(text) THEN NoConfig
  ELSE [text EXCEPT !.tp = raw.tp,
                    !.text_window = text.context_window_size,
                    !.text_chunk = text.prefill_chunk_size,
                    !.context_window_size = Given(raw.context_window_size, @),
                    !.prefill_chunk_size = Given(raw.prefill_chunk_size, @)]
LlavaConfig(raw) ==
  AroundText(raw, LlamaConfig([raw EXCEPT !.tp = raw.text_tp,
                                          !.context_window_size = raw.text_window,
                                          !.prefill_chunk_size = raw.text_chunk]))

LlavaLoader(c) == DenseLoader(c)

\* Transposed weights, concatenated along the wrong axis.
LlavaAwqLoader(c) == NoConfig

LlavaMultiModalProjector(c, x) ==
  Full(c, Act(Full(c, x, "h", c.hidden_size, TRUE)), "h", c.hidden_size, TRUE)

\* Worker 0 alone has the pixels.
LlavaImageEmbed(c, f) ==
  LlavaMultiModalProjector(c, CLIPVisionModel(CLIPVisionConfig(c), FromHost(c, f, {})))

\* The text model's weights and collectives follow its own number of shards.
\* With the outer number different from it, the caches do not fit.
LlavaForCasualLM(c, f, in) ==
  IF f = "image_embed" THEN LlavaImageEmbed(c, f)
  ELSE IF f = "embed" \/ c.tp = c.text_tp THEN
       CausalLM(c, f, in, IF c.text_tp > 1 THEN {"embed", "batch_prefill"} ELSE {},
                LAMBDA x : LlamaModel(c, in.kv, x), LAMBDA h : LMHead(c, h))
  ELSE LET h_q == c.num_attention_heads \div c.text_tp
       IN  Guard(in.kv.num_attention_heads = h_q, Wrong)

LlavaKVCache(c) == DenseKVCache(c)

LlavaSpec == StandardSpec \union {"image_embed"}

=============================================================================

------------------------------- MODULE RWKV ---------------------------------
(***************************************************************************)
(* The RWKV models (python/mlc_llm/model/rwkv5, rwkv6), which keep a       *)
(* recurrent state instead of a KV cache, and the state storage they use   *)
(* (python/mlc_llm/nn/rnn_state.py).                                       *)
(*                                                                         *)
(* A computed value is abstracted to the sequence of tokens it was         *)
(* computed from, Wrong when the operands of an operation do not belong    *)
(* together.  The reference is the model run once on the whole text.       *)
(* The runtime's bookkeeping of slots and history (the class RNNState of   *)
(* TVM) is external.                                                       *)
(***************************************************************************)
EXTENDS Integers, Sequences, FiniteSets, SequencesExt

CONSTANTS
  Tokens,        \* the vocabulary
  Seqs,          \* sequence ids the engine may use
  Slots,         \* max_batch_size slots of the storage
  RawConfigs,    \* the configurations considered
  MaxLen,        \* bound on the tokens of a sequence
  MaxChunk       \* prefill_chunk_size

\* ModelImpl::CreateKVCache asks for at least one history slot.
ASSUME HistoryAssumption ==
  \A raw \in RawConfigs : "max_history" \in DOMAIN raw /\ raw.max_history \in Nat \ {0}

\* A model has layers, and the parsed configuration holds how many.
ASSUME LayerAssumption ==
  \A raw \in RawConfigs :
    /\ {"num_hidden_layers", "rescale_every"} \subseteq DOMAIN raw
    /\ raw.num_hidden_layers \in Nat \ {0} /\ raw.rescale_every \in Int

\* The mark of a wrong value is no token.
ASSUME TokenAssumption == "wrong" \notin Tokens

\* The two bounds are numbers.
ASSUME BoundAssumption == MaxLen \in Nat /\ MaxChunk \in Nat

VARIABLES
  config,        \* the parsed configuration, or Rejected
  storage,       \* slot -> history slot -> layer -> the three states
  seq_map,       \* sequence id -> its entry in the runtime, or NoSeq
  text,          \* the tokens each sequence has been given
  logits         \* what the last call returned for each sequence, or NoLogits

vars == <<config, storage, seq_map, text, logits>>

Rejected == [rejected |-> TRUE]
NoSeq == [slot |-> "none"]
NoLogits == <<"none">>
Wrong == <<"wrong">>
StateID == {"ATT_X", "ATT_KV", "FFN_X"}

(***************************************************************************)
(* Configurations                                                          *)
(***************************************************************************)
HeadsOf(raw) ==
  IF raw.num_heads = 0 THEN raw.hidden_size \div raw.head_size ELSE raw.num_heads

RWKV5Config(raw) ==
  IF \/ raw.model_version # "5_2"
     \/ HeadsOf(raw) * raw.head_size # raw.hidden_size
     \/ raw.tensor_parallel_shards # 1
  THEN Rejected ELSE [raw EXCEPT !.num_heads = HeadsOf(raw)]

RWKV6Config(raw) ==
  IF \/ raw.model_version \notin {"6_0", "absent"}
     \/ HeadsOf(raw) * raw.head_size # raw.hidden_size
     \/ raw.tensor_parallel_shards # 1
  THEN Rejected ELSE [raw EXCEPT !.num_heads = HeadsOf(raw), !.model_version = "6_0"]

ParsedConfig(raw) == IF raw.model_type = "rwkv5" THEN RWKV5Config(raw) ELSE RWKV6Config(raw)

LayersOf(c) == 0 .. c.num_hidden_layers - 1
HistorySlots(c) == 0 .. c.max_history - 1

(***************************************************************************)
(* State storage.  A sequence's states are [at, cells]: the history slot   *)
(* it is at, and its slot of the storage.                                  *)
(***************************************************************************)
NextHistory(c, h) == (h + 1) % c.max_history

\* Mutant: the states are written over the ones that were read.
SetInPlace(c, st, l, id, value) == [st EXCEPT !.cells[st.at][l][id] = value]

StateGet(st, l, id) == st.cells[st.at][l][id]

StateSet(c, st, l, id, value) ==
  [st EXCEPT !.cells[NextHistory(c, st.at)][l][id] = value]

CreateRNNState5(c) == [l \in LayersOf(c) |-> [id \in StateID |-> <<>>]]
CreateRNNState6(c) == [l \in LayersOf(c) |-> [id \in StateID |-> <<>>]]
InitValues(c) == IF c.model_type = "rwkv5" THEN CreateRNNState5(c) ELSE CreateRNNState6(c)

(***************************************************************************)
(* Layers.  Own(l, p) is what layer l reads for the last token of p: the   *)
(* token's embedding in layer 0, a value of all of p above it.             *)
(***************************************************************************)
\* A tensor's values along the tokens of a call, as a tuple (evaluated once).
Tuple(f) == SubSeq(f, 1, Len(f))

Own(l, p) == IF l = 0 /\ p # <<>> THEN <<Last(p)>> ELSE p

\* Mutant: the first token of a chunk is mixed with the chunk's own start.
TokenShiftFresh(state, x) == [i \in DOMAIN x |-> IF i = 1 THEN <<>> ELSE x[i - 1]]

TokenShift(state, x) == Tuple([i \in DOMAIN x |-> IF i = 1 THEN state ELSE x[i - 1]])
LastToken(x) == Last(x)

\* One step of the recurrence: the state absorbs a token whose mixed
\* operands are the token's value x and its predecessor's value prev.
Absorb(l, kv, x, prev) ==
  LET p == Append(kv, Last(x))
  IN IF kv # Wrong /\ x = Own(l, p) /\ prev = Own(l, kv) THEN p ELSE Wrong

\* wkv5: r, k and v are all mixed from x and its shifted copy; the decay is a
\* parameter.  States after 0, 1, ... tokens.
Wkv5(l, x, shifted, kv_state) ==
  LET kv[i \in 0 .. Len(x)] ==
        IF i = 0 THEN kv_state ELSE Absorb(l, kv[i - 1], x[i], shifted[i])
  IN [out |-> Tuple([i \in DOMAIN x |-> kv[i]]), kv_state |-> kv[Len(x)]]

\* wkv6: the decay w is computed from the token too, by the mix unbind_to_five
\* takes apart.
UnbindToFive(x, shifted) ==
  LET mix == Tuple([i \in DOMAIN x |-> <<x[i], shifted[i]>>])
  IN [operand \in {"w", "k", "v", "r", "g"} |-> mix]

Wkv6(l, m, kv_state) ==
  LET Agree(i) == \A a, b \in {"w", "k", "v", "r"} : m[a][i] = m[b][i]
      kv[i \in 0 .. Len(m["k"])] ==
        IF i = 0 THEN kv_state
        ELSE IF Agree(i) THEN Absorb(l, kv[i - 1], m["k"][i][1], m["k"][i][2]) ELSE Wrong
  IN [out |-> Tuple([i \in DOMAIN m["k"] |-> kv[i]]), kv_state |-> kv[Len(m["k"])]]

RWKV5_Attention(c, l, x, state) ==
  LET res == Wkv5(l, x, TokenShift(StateGet(state, l, "ATT_X"), x), StateGet(state, l, "ATT_KV"))
      set == StateSet(c, state, l, "ATT_X", LastToken(x))
  IN [out |-> res.out, state |-> StateSet(c, set, l, "ATT_KV", res.kv_state)]

RWKV6_Attention(c, l, x, state) ==
  LET m == UnbindToFive(x, TokenShift(StateGet(state, l, "ATT_X"), x))
      res == Wkv6(l, m, StateGet(state, l, "ATT_KV"))
      set == StateSet(c, state, l, "ATT_X", LastToken(x))
      Gated(o, g) == IF o # Wrong /\ g[1] = Own(l, o) THEN o ELSE Wrong
  IN [out |-> Tuple([i \in DOMAIN x |-> Gated(res.out[i], m["g"][i])]),
      state |-> StateSet(c, set, l, "ATT_KV", res.kv_state)]

\* The channel mix of a token's value with its predecessor's.
ChannelMixed(x, prev) == IF x # Wrong /\ prev = Front(x) THEN x ELSE Wrong

RWKV5_FNN(c, l, x, state) ==
  LET shifted == TokenShift(StateGet(state, l, "FFN_X"), x)
  IN [out |-> Tuple([i \in DOMAIN x |-> ChannelMixed(x[i], shifted[i])]),
      state |-> StateSet(c, state, l, "FFN_X", LastToken(x))]

\* Version 6 writes the same mix as x + (prev - x) * maa.
RWKV6_FNN(c, l, x, state) == RWKV5_FNN(c, l, x, state)

(***************************************************************************)
(* The residual stream carries, beside what it is computed from, how often *)
(* it was halved.  A norm removes the scale; an addition needs equal ones. *)
(***************************************************************************)
Norm(x) == Tuple([i \in DOMAIN x |-> x[i].of])

Add(l, x, y, exp) ==
  Tuple([i \in DOMAIN x |->
    IF x[i].exp = exp /\ x[i].of \in {y[i], Own(l, y[i])}
    THEN [of |-> y[i], exp |-> exp] ELSE [of |-> Wrong, exp |-> exp]])

Halve(x) == Tuple([i \in DOMAIN x |-> [x[i] EXCEPT !.exp = @ + 1]])

\* The loaders divide the two output projections of layer l by 2^exp.
RWKV5Loader(c, l) == IF c.rescale_every > 0 THEN l \div c.rescale_every ELSE 0
RWKV6Loader(c, l) == IF c.rescale_every > 0 THEN l \div c.rescale_every ELSE 0

Rescales(c, l) == c.rescale_every > 0 /\ (l + 1) % c.rescale_every = 0

RWKV5_Layer(c, l, x, state) ==
  LET exp == RWKV5Loader(c, l)
      att == RWKV5_Attention(c, l, Norm(x), state)
      x1 == Add(l, x, att.out, exp)
      ffn == RWKV5_FNN(c, l, Norm(x1), att.state)
      x2 == Add(l, x1, ffn.out, exp)
  IN [x |-> IF Rescales(c, l) THEN Halve(x2) ELSE x2, state |-> ffn.state]

RWKV6_Layer(c, l, x, state) ==
  LET exp == RWKV6Loader(c, l)
      att == RWKV6_Attention(c, l, Norm(x), state)
      x1 == Add(l, x, att.out, exp)
      ffn == RWKV6_FNN(c, l, Norm(x1), att.state)
      x2 == Add(l, x1, ffn.out, exp)
  IN [x |-> IF Rescales(c, l) THEN Halve(x2) ELSE x2, state |-> ffn.state]

RWKV5_Model(c, x, state) ==
  FoldLeft(LAMBDA a, l : RWKV5_Layer(c, l, a.x, a.state), [x |-> x, state |-> state],
           [i \in 1 .. c.num_hidden_layers |-> i - 1])

RWKV6_Model(c, x, state) ==
  FoldLeft(LAMBDA a, l : RWKV6_Layer(c, l, a.x, a.state), [x |-> x, state |-> state],
           [i \in 1 .. c.num_hidden_layers |-> i - 1])

Embed(tokens) == [i \in DOMAIN tokens |-> [of |-> <<tokens[i]>>, exp |-> 0]]

\* prefill, decode and batch_decode of one sequence: the last token's logits
\* and the states.
RWKV5_ForCasualLM(c, tokens, state) ==
  LET res == RWKV5_Model(c, Embed(tokens), state)
  IN [logits |-> LastToken(Norm(res.x)), state |-> res.state]

RWKV6_ForCasualLM(c, tokens, state) ==
  LET res == RWKV6_Model(c, Embed(tokens), state)
  IN [logits |-> LastToken(Norm(res.x)), state |-> res.state]

ForCasualLM(c, tokens, state) ==
  IF c.model_type = "rwkv5" THEN RWKV5_ForCasualLM(c, tokens, state)
  ELSE RWKV6_ForCasualLM(c, tokens, state)

(***************************************************************************)
(* The engine's calls                                                      *)
(***************************************************************************)
Live == {s \in Seqs : seq_map[s] # NoSeq}
FreeSlots == Slots \ {seq_map[s].slot : s \in Live}

AddSequence(s) ==
  /\ config # Rejected
  /\ s \notin Live
  /\ \E slot \in FreeSlots :
       /\ seq_map' = [seq_map EXCEPT ![s] = [slot |-> slot, history |-> 0, available |-> 0]]
       /\ storage' = [storage EXCEPT ![slot][0] = InitValues(config)]
  /\ text' = [text EXCEPT ![s] = <<>>]
  /\ logits' = [logits EXCEPT ![s] = NoLogits]
  /\ UNCHANGED config

\* The child gets a copy of every history slot of the parent.
ForkSequence(parent, child) ==
  /\ parent \in Live
  /\ child \notin Live
  /\ \E slot \in FreeSlots :
       /\ seq_map' = [seq_map EXCEPT ![child] = [seq_map[parent] EXCEPT !.slot = slot]]
       /\ storage' = [storage EXCEPT ![slot] = storage[seq_map[parent].slot]]
  /\ text' = [text EXCEPT ![child] = text[parent]]
  /\ logits' = [logits EXCEPT ![child] = NoLogits]
  /\ UNCHANGED config

RemoveSequence(s) ==
  /\ s \in Live
  /\ seq_map' = [seq_map EXCEPT ![s] = NoSeq]
  /\ text' = [text EXCEPT ![s] = <<>>]
  /\ logits' = [logits EXCEPT ![s] = NoLogits]
  /\ UNCHANGED <<config, storage>>

\* Only single-token calls can be taken back, max_history - 1 of them.
EndForward(c, e, count) ==
  [e EXCEPT !.history = NextHistory(c, @),
            !.available = IF count > 1 THEN 0
                          ELSE IF @ < c.max_history - 1 THEN @ + 1 ELSE @]

PopN(s, n) ==
  /\ s \in Live
  /\ n <= seq_map[s].available
  /\ seq_map' = [seq_map EXCEPT ![s] =
       [slot |-> @.slot, history |-> (@.history - n) % config.max_history,
        available |-> @.available - n]]
  /\ text' = [text EXCEPT ![s] = SubSeq(@, 1, Len(@) - n)]
  /\ logits' = [logits EXCEPT ![s] = NoLogits]
  /\ UNCHANGED <<config, storage>>

\* One call of the model: input[s] are the tokens of each sequence of the batch.
Forward(batch, input) ==
  LET Res(s) == ForCasualLM(config, input[s],
                  [at |-> seq_map[s].history, cells |-> storage[seq_map[s].slot]])
      SeqAt(slot) == {s \in batch : seq_map[s].slot = slot}
  IN /\ \A s \in batch : Len(text[s]) + Len(input[s]) <= MaxLen
     /\ storage' = [slot \in Slots |->
          IF SeqAt(slot) = {} THEN storage[slot]
          ELSE Res(CHOOSE s \in SeqAt(slot) : TRUE).state.cells]
     /\ logits' = [s \in Seqs |-> IF s \in batch THEN Res(s).logits ELSE logits[s]]
     /\ text' = [s \in Seqs |-> IF s \in batch THEN text[s] \o input[s] ELSE text[s]]
     /\ seq_map' = [s \in Seqs |-> IF s \in batch
                                   THEN EndForward(config, seq_map[s], Len(input[s]))
                                   ELSE seq_map[s]]
     /\ UNCHANGED config

BatchPrefill(s) ==
  \E n \in 1 .. MaxChunk : \E chunk \in [1 .. n -> Tokens] :
    s \in Live /\ Forward({s}, [q \in {s} |-> chunk])

BatchDecode(batch) ==
  \E next \in [batch -> Tokens] :
    /\ batch # {} /\ batch \subseteq Live
    /\ \A s \in batch : text[s] # <<>>
    /\ Forward(batch, [s \in batch |-> <<next[s]>>])

Init ==
  /\ \E raw \in RawConfigs : config = ParsedConfig(raw)
  /\ storage = IF config = Rejected THEN <<>>
               ELSE [slot \in Slots |-> [h \in HistorySlots(config) |-> InitValues(config)]]
  /\ seq_map = [s \in Seqs |-> NoSeq]
  /\ text = [s \in Seqs |-> <<>>]
  /\ logits = [s \in Seqs |-> NoLogits]

Next ==
  \/ \E s \in Seqs : AddSequence(s) \/ RemoveSequence(s) \/ BatchPrefill(s)
  \/ \E s, t \in Seqs : ForkSequence(s, t)
  \/ \E s \in Seqs, n \in 1 .. MaxLen : PopN(s, n)
  \/ \E batch \in SUBSET Seqs : BatchDecode(batch)

Spec == Init /\ [][Next]_vars

(***************************************************************************)
(* Properties                                                              *)
(***************************************************************************)
\* What the three states of every layer are for the text p.
StatesOf(c, p) ==
  [l \in LayersOf(c) |-> [id \in StateID |-> IF id = "ATT_X" THEN Own(l, p) ELSE p]]

\* What one call of the model should do from the states of the text p: the
\* logits and the states of p and the call's tokens, in the next history slot.
CallExact(c, p, tokens, at, cells) ==
  LET res == ForCasualLM(c, tokens, [at |-> at, cells |-> cells])
  IN  /\ res.logits = p \o tokens
      /\ res.state.cells = [cells EXCEPT ![NextHistory(c, at)] = StatesOf(c, p \o tokens)]

\* The logits prefill, decode and batch_decode return are those of the
\* sequence's whole text, however it was cut into chunks, batched with other
\* sequences, forked or rolled back, and with every residual addition at
\* matching scales.
LogitsOfText ==
  \A s \in Live : logits[s] # NoLogits => logits[s] = text[s]

\* Every history slot PopN may still return to holds the states of the text
\* without its last tokens, in every layer: rolling back never finds a state
\* that a later call, or the slot's former sequence, wrote.
RollbackExact ==
  \A s \in Live : \A n \in 0 .. seq_map[s].available :
    storage[seq_map[s].slot][(seq_map[s].history - n) % config.max_history]
      = StatesOf(config, SubSeq(text[s], 1, Len(text[s]) - n))

=============================================================================

--------------------------- MODULE ModelParallel ---------------------------
(***************************************************************************)
(* Tensor-parallel execution of one model on a mesh of workers: what       *)
(* support/tensor_parallel.py does to a weight, and what the tensor        *)
(* operators of a model's forward pass do to a distributed activation.     *)
(*                                                                         *)
(* A tensor is abstracted to its feature axis.  feat[k] is the sequence of *)
(* the features that worker k holds, each named by a label: <<"q", h, i>>  *)
(* is element i of query head h, <<"gate", i, 1>> the i-th gate unit, and  *)
(* so on.  "at" tells what the workers hold together:                      *)
(*   all     every worker holds the whole tensor                           *)
(*   cut     every worker holds its features of the tensor                 *)
(*   part    every worker holds an addend, their sum is the tensor         *)
(*   root    only worker 0 holds the tensor                                *)
(*   wrong   some value differs from what one worker alone would compute   *)
(*   reject  a shape check or assertion failed; nothing is computed        *)
(* The reference is the same model on one worker.                          *)
(***************************************************************************)
EXTENDS Integers, Sequences, SequencesExt

Reject == [at |-> "reject", feat |-> <<>>]
Wrong == [at |-> "wrong", feat |-> <<>>]
Failed(x) == x.at \in {"reject", "wrong"}

Workers(c) == 1..c.tp

\* The features <<name, 1, 1>>, ..., <<name, n, d>> of n units of d elements.
Block(name, n, d) ==
  [i \in 1..(n * d) |-> <<name, ((i - 1) \div d) + 1, ((i - 1) % d) + 1>>]
Units(name, n) == Block(name, n, 1)
Hidden(c) == Units("h", c.hidden_size)

SumSeq(s) == FoldLeft(LAMBDA a, b : a + b, 0, s)

-----------------------------------------------------------------------------
(* Weights.  A layout says which rows (or columns) of the full matrix each *)
(* worker holds; <<>> stands for a weight that does not fit.               *)

\* A parameter without a strategy: every worker loads all of it.
Uncut(c, features, local) ==
  IF Len(features) = local THEN [k \in Workers(c) |-> features] ELSE <<>>

\* Mutant: the segments of a fused weight are not told apart.
FlatShardSingleDim(c, features, local, segs) ==
  IF local * c.tp # Len(features) THEN <<>>
  ELSE [k \in Workers(c) |-> SubSeq(features, (k - 1) * local + 1, k * local)]

\* The k-th piece of n features after the first "offset" ones.
Piece(features, offset, k, n) == SubSeq(features, offset + (k - 1) * n + 1, offset + k * n)

\* The weight of full length shards * local along the dimension, segment by
\* segment cut evenly: worker k gets the k-th part of every segment.
ShardSingleDim(c, features, local, segs) ==
  IF SumSeq(segs) # local \/ local * c.tp # Len(features) THEN <<>>
  ELSE [k \in Workers(c) |->
          FoldLeft(LAMBDA part, s :
                     part \o Piece(features, c.tp * SumSeq(SubSeq(segs, 1, s - 1)), k, segs[s]),
                   <<>>, [s \in 1..Len(segs) |-> s])]

\* One entry of a layer's _set_tp: parameter, name of the shard function, dim
\* and segments (<<>> where none are given).
Shard(param, name, dim, segs) ==
  [param |-> param, name |-> name, dim |-> dim, segs |-> segs]

HasShard(S, p) == \E i \in DOMAIN S : S[i].param = p

\* The shard function is generated once per name, from the first parameter
\* that carries the name.
ShardFunction(S, p) ==
  S[SelectInSeq(S, LAMBDA s : s.name = S[SelectInSeq(S, LAMBDA t : t.param = p)].name)]

\* An axis under shard function s: cut if it is the dimension of s.
CutAxis(c, s, axis, features, local) ==
  IF s.dim # axis THEN Uncut(c, features, local)
  ELSE ShardSingleDim(c, features, local, IF s.segs = <<>> THEN <<local>> ELSE s.segs)

\* How the axis "axis" of parameter p, of full length Len(features) and of
\* length local in the constructor, lies on the workers.
Layout(c, S, p, axis, features, local) ==
  IF c.tp > 1 /\ HasShard(S, p) THEN CutAxis(c, ShardFunction(S, p), axis, features, local)
  ELSE Uncut(c, features, local)

NoBias == [rows |-> <<>>, share |-> 0]

\* A weight whose leading axes (the experts) come before its rows.
Matrix(c, S, p, lead, rows, out, cols, in) ==
  [rows |-> Layout(c, S, p, lead, rows, out),
   cols |-> Layout(c, S, p, lead + 1, cols, in)]

\* A bias; a strategy whose dim a vector does not have is an index error.
Bias(c, S, p, rows, out) ==
  [rows |-> IF c.tp > 1 /\ HasShard(S, p) /\ ShardFunction(S, p).dim # 0
            THEN <<>> ELSE Layout(c, S, p, 0, rows, out),
   share |-> 1]

\* shard_bias: inside the scope the bias is divided by the number of shards.
ShardedBias(c, b) == [b EXCEPT !.share = c.tp]

-----------------------------------------------------------------------------
(* Operators of a forward pass. *)

Same(f) == \A j, k \in DOMAIN f : f[j] = f[k]
OnAll(c, features) == [at |-> "all", feat |-> [k \in Workers(c) |-> features]]
OnRoot(c, features) == [OnAll(c, features) EXCEPT !.at = IF c.tp = 1 THEN "all" ELSE "root"]

\* y + bias, given the distribution of y.
AddBias(c, y, b) ==
  IF b = NoBias THEN y
  ELSE IF \E k \in Workers(c) : Len(b.rows[k]) # Len(y.feat[k]) THEN Reject
  ELSE IF b.rows = y.feat /\ (b.share = IF y.at = "part" THEN c.tp ELSE 1) THEN y ELSE Wrong

\* The weight and its bias could be loaded and cut.
Loaded(w, b) == w.rows # <<>> /\ w.cols # <<>> /\ (b = NoBias \/ b.rows # <<>>)

\* nn.Linear: every worker multiplies what it holds by its rows and columns.
\* Weights are cut before anything is computed: a reject outlasts a wrong value.
Linear(c, x, w, b) ==
  IF x.at = "reject" \/ ~Loaded(w, b) THEN Reject
  ELSE IF x.at = "wrong" THEN x
  ELSE IF \E k \in Workers(c) : Len(x.feat[k]) # Len(w.cols[k]) THEN Reject
  ELSE IF x.feat # w.cols \/ (x.at = "root" /\ ~Same(w.rows)) THEN Wrong
  ELSE AddBias(c, [at |-> CASE x.at = "root" -> "root"
                            [] x.at = "part" \/ ~Same(w.cols) -> "part"
                            [] x.at # "part" /\ Same(w.cols) /\ ~Same(w.rows) -> "cut"
                            [] OTHER -> "all",
                   feat |-> w.rows], b)

\* op.ccl_allreduce(x, "sum").
AllReduce(c, x) ==
  IF Failed(x) \/ c.tp = 1 THEN x
  ELSE IF x.at = "part" /\ Same(x.feat) THEN [x EXCEPT !.at = "all"] ELSE Wrong

\* op.ccl_broadcast_from_worker0(x).
Broadcast(c, x) == IF x.at = "root" THEN [x EXCEPT !.at = "all"] ELSE x

\* x + y.
Add(x, y) ==
  IF "reject" \in {x.at, y.at} THEN Reject
  ELSE IF x.at = y.at /\ x.feat = y.feat THEN x ELSE Wrong

\* The features of x followed by those of y, on every worker.
Concat(x, y) ==
  IF "reject" \in {x.at, y.at} THEN Reject
  ELSE IF x.at = y.at /\ x.at # "wrong"
       THEN [x EXCEPT !.feat = [k \in DOMAIN @ |-> @[k] \o y.feat[k]]] ELSE Wrong

\* x / tensor_parallel_shards: an addend of x on every worker.
Share(c, x) == IF x.at = "all" /\ c.tp > 1 THEN [x EXCEPT !.at = "part"] ELSE x

\* A normalisation over the features: they must all be there.
Norm(x) == IF x.at \in {"part", "cut"} THEN Wrong ELSE x

\* A pointwise activation.
Act(x) == IF x.at = "part" THEN Wrong ELSE x

\* The features of x on each worker replaced by F(features); "all" where the
\* workers still hold the same.
OnEach(x, F(_)) ==
  LET feat == [k \in DOMAIN x.feat |-> F(x.feat[k])]
  IN  IF \E k \in DOMAIN feat : feat[k] = <<>> THEN Wrong ELSE [x EXCEPT !.feat = feat]

\* The two halves of x multiplied element by element, the first one activated:
\* right if unit i of the first name meets unit i of the second.
GateUp(x, first, second) ==
  IF Failed(x) THEN x
  ELSE IF x.at = "part" THEN Wrong
  ELSE IF \E k \in DOMAIN x.feat : Len(x.feat[k]) % 2 # 0 THEN Reject
  ELSE OnEach(x, LAMBDA f :
         LET n == Len(f) \div 2
         IN  IF \A i \in 1..n : /\ f[i][1] = first /\ f[n + i][1] = second
                                /\ f[i][2] = f[n + i][2]
             THEN [i \in 1..n |-> <<"mid", f[i][2], 1>>] ELSE <<>>)

\* Activated units of an MLP without a gate.
Activate(x, name) ==
  IF Failed(x) THEN x
  ELSE IF x.at = "part" THEN Wrong
  ELSE OnEach(x, LAMBDA f : IF \A i \in DOMAIN f : f[i][1] = name
                            THEN [i \in DOMAIN f |-> <<"mid", f[i][2], 1>>] ELSE <<>>)

\* The heads numbered h(1), ..., h(n) of one kind, d elements each, from
\* position "from" of f on.
HeadAt(f, from, j, d) == f[from + (j - 1) * d + 1][2]
HeadsAt(f, name, from, n, d) ==
  \A j \in 1..n, i \in 1..d : f[from + (j - 1) * d + i] = <<name, HeadAt(f, from, j, d), i>>

\* PagedKVCache.attention_with_fused_qkv on a worker: q, k and v heads lie one
\* after the other, and query head j attends with key/value head
\* j \div (heads per group).  kv is the cache the model created.
Attend(c, kv, x, h_q, h_kv, d) ==
  IF Failed(x) THEN x
  ELSE IF x.at = "part" THEN Wrong
  ELSE IF \/ \E k \in DOMAIN x.feat : Len(x.feat[k]) # (h_q + 2 * h_kv) * d
          \/ h_kv = 0 \/ h_q = 0
          \/ kv.num_attention_heads # h_q \/ kv.num_key_value_heads # h_kv
          \/ kv.qk_head_dim # d \/ kv.v_head_dim # d
  THEN Reject
  ELSE OnEach(x, LAMBDA f :
         IF /\ HeadsAt(f, "q", 0, h_q, d)
            /\ HeadsAt(f, "k", h_q * d, h_kv, d)
            /\ HeadsAt(f, "v", (h_q + h_kv) * d, h_kv, d)
            /\ \A j \in 1..h_q :
                 LET local  == ((j - 1) \div (h_q \div h_kv)) + 1
                     global == ((HeadAt(f, 0, j, d) - 1)
                                  \div (c.num_attention_heads \div c.num_key_value_heads)) + 1
                 IN  /\ local <= h_kv
                     /\ HeadAt(f, h_q * d, local, d) = global
                     /\ HeadAt(f, (h_q + h_kv) * d, local, d) = global
         THEN [i \in 1..(h_q * d) |-> <<"o", f[i][2], f[i][3]>>] ELSE <<>>)

\* Layers 0 .. n - 1 applied one after the other.
Stack(n, x, Layer(_, _)) == FoldLeft(Layer, x, [i \in 1..n |-> i - 1])

\* op.take(x, positions): rows of x, on the workers that have the positions.
Take(x, positions) ==
  IF Failed(x) THEN x ELSE IF positions.at = "root" THEN [x EXCEPT !.at = "root"] ELSE x

\* An embedding table that every worker holds.
Embedding(c, ids) ==
  IF ids.at = "root" THEN OnRoot(c, Hidden(c)) ELSE OnAll(c, Hidden(c))

\* The table transposed, or lm_head: logits from hidden states.
LMHead(c, x) ==
  Linear(c, x, [rows |-> Uncut(c, Units("vocab", c.vocab_size), c.vocab_size),
                cols |-> Uncut(c, Hidden(c), c.hidden_size)], NoBias)

-----------------------------------------------------------------------------
(* Ways to add a block's output to the residual stream. *)

\* ccl_allreduce(out, "sum") + residual.
ReduceThenAdd(c, out, residual) ==
  IF c.tp > 1 THEN Add(AllReduce(c, out), residual) ELSE Add(out, residual)

\* ccl_allreduce(out + residual / tensor_parallel_shards, "sum").
AddThenReduce(c, out, residual) ==
  IF c.tp > 1 THEN AllReduce(c, Add(out, Share(c, residual))) ELSE Add(out, residual)

=============================================================================

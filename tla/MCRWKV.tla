------------------------------ MODULE MCRWKV --------------------------------
(***************************************************************************)
(* RWKV on two sequences: both versions, storages of one to three history  *)
(* slots, residuals that are rescaled after no, every or every second      *)
(* layer, and the configurations the constructors reject.                  *)
(***************************************************************************)
EXTENDS RWKV, TLC

MCSymmetry == Permutations(Tokens) \union Permutations(Seqs) \union Permutations(Slots)

Base ==
  [model_type |-> "rwkv5", model_version |-> "5_2", hidden_size |-> 4, head_size |-> 2,
   num_heads |-> 0, tensor_parallel_shards |-> 1, num_hidden_layers |-> 3,
   rescale_every |-> 2, max_history |-> 3]

Six == [Base EXCEPT !.model_type = "rwkv6", !.model_version = "absent"]

MCRawConfigs ==
  { Base, [Base EXCEPT !.rescale_every = 1, !.max_history = 1],
    [Six EXCEPT !.max_history = 2], [Six EXCEPT !.rescale_every = 0, !.max_history = 1],
    [Base EXCEPT !.model_version = "5_0"], [Base EXCEPT !.tensor_parallel_shards = 2],
    [Six EXCEPT !.head_size = 3], [Six EXCEPT !.tensor_parallel_shards = 2] }

=============================================================================

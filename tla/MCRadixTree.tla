------------------------------ MODULE MCRadixTree ------------------------------
(* Instances of RadixTree for TLC.                                           *)
EXTENDS RadixTree

\* Sequence identifiers are alike, and so are tokens.
Symmetry == Permutations(SeqIds) \cup Permutations(Tokens)

\* Two states are alike when they differ in the names of the pages, which the paths from
\* the root tell apart, and in the counts of the pool, on which nothing else depends.
PageView == {<<Path(tree, p), Length(tree, p), tree.pages[p].seqs,
               {s \in DOMAIN tree.seq2page : tree.seq2page[s] = p}>> : p \in DOMAIN tree.pages}
================================================================================

----------------------------- MODULE SequenceStore -----------------------------
(***************************************************************************)
(* What a paged radix tree promises: a map from sequence identifiers to    *)
(* token sequences.  The operations are those of PagedRadixTreeObj in      *)
(* cpp/serve/radix_tree.h.                                                 *)
(***************************************************************************)
EXTENDS Naturals, Sequences

CONSTANTS SeqIds, Tokens

VARIABLE seqs      \* the token sequence of each identifier in the store

Has(s) == s \in DOMAIN seqs

Put(s, tokens) == seqs' = [t \in DOMAIN seqs \cup {s} |-> IF t = s THEN tokens ELSE seqs[t]]

Init == seqs = <<>>

Add(s) == ~Has(s) /\ Put(s, <<>>)

Fork(s, parent) ==
    /\ ~Has(s) /\ Has(parent)
    /\ \E n \in 1..Len(seqs[parent]) : Put(s, SubSeq(seqs[parent], 1, n))

Extend(s) ==
    /\ Has(s) /\ Has(s)'
    /\ LET n == Len(seqs[s]) IN
          /\ Len(seqs'[s]) >= n
          /\ SubSeq(seqs'[s], 1, n) = seqs[s]
          /\ \A i \in (n + 1)..Len(seqs'[s]) : seqs'[s][i] \in Tokens
    /\ Put(s, seqs'[s])

RollBack(s) ==
    /\ Has(s)
    /\ \E n \in 0..(Len(seqs[s]) - 1) : Put(s, SubSeq(seqs[s], 1, n))

Remove(s) ==
    /\ Has(s)
    /\ seqs' = [t \in DOMAIN seqs \ {s} |-> seqs[t]]

Reset == seqs' = <<>>

Next ==
    \/ \E s \in SeqIds : Add(s) \/ Extend(s) \/ RollBack(s) \/ Remove(s)
    \/ \E s, parent \in SeqIds : Fork(s, parent)
    \/ Reset

Spec == Init /\ [][Next]_seqs
================================================================================

----------------------------- MODULE FoldFacts ------------------------------
(***************************************************************************)
(* Induction over the natural numbers, and what FoldLeft computes, for the *)
(* proofs about the loops of the code that the models write as folds: the  *)
(* layers of a model, the outputs of a batch, the pieces of a tensor.      *)
(*                                                                         *)
(* The body of the loop is the constant Op: Op(ctx, a, x) is the value     *)
(* after x from the value a before it, ctx being what the loop does not    *)
(* change.  A proof instantiates this module with its own body.            *)
(***************************************************************************)
EXTENDS Integers, Sequences, FiniteSetsExt, Folds, WellFoundedInduction, TLAPS

CONSTANT Op(_, _, _)

Less == {ss \in Nat \X Nat : ss[1] < ss[2]}

\* No sequence of natural numbers descends for ever.
LEMMA LessWellFounded == IsWellFoundedOn(Less, Nat)
  BY NatLessThanWellFounded, Zenon DEF OpToRel, Less

\* A set of natural numbers that is not empty has a least element.
LEMMA LeastElement ==
  ASSUME NEW T \in SUBSET Nat, T # {}
  PROVE  \E x \in T : \A y \in T : x <= y
<1>1. \E x \in T : \A y \in T : ~(<<y, x>> \in Less)
  BY LessWellFounded, WFMin, Zenon
<1>2. PICK x \in T : \A y \in T : ~(<<y, x>> \in Less)
  BY <1>1
<1>3. ASSUME NEW y \in T PROVE x <= y
  <2>1. x \in Nat /\ y \in Nat
    OBVIOUS
  <2>2. y < x => <<y, x>> \in Less
    BY <2>1 DEF Less
  <2> QED BY <1>2, <2>1, <2>2
<1> QED BY <1>3

\* A set of natural numbers that has 0 and every successor of its elements has
\* them all: induction, with the set in place of a predicate.
THEOREM SetInduction ==
  ASSUME NEW T \in SUBSET Nat, 0 \in T, \A n \in T : n + 1 \in T
  PROVE  T = Nat
<1> SUFFICES ASSUME Nat \ T # {} PROVE FALSE
  OBVIOUS
<1>1. PICK x \in Nat \ T : \A y \in Nat \ T : x <= y
  BY LeastElement
<1>2. x # 0 /\ x \in Nat
  OBVIOUS
<1>3. x - 1 \in Nat /\ ~(x <= x - 1) /\ (x - 1) + 1 = x
  BY <1>2
<1>4. x - 1 \in T
  BY <1>1, <1>3
<1> QED BY <1>1, <1>3, <1>4

-----------------------------------------------------------------------------
\* FoldLeft(LAMBDA a, x : Op(ctx, a, x), base, seq), as SequencesExt defines it.
Fold(ctx, base, seq) ==
  MapThenFoldSet(LAMBDA x, a : Op(ctx, a, x), base, LAMBDA i : seq[i], LAMBDA S : Max(S),
                 DOMAIN seq)

\* The function over sets of positions that the definition of FoldLeft chooses.
Folding(ctx, base, seq, n, it) ==
  it = [s \in SUBSET (1 .. n) |->
          IF s = {} THEN base
          ELSE LET x == Max(s) IN Op(ctx, it[s \ {x}], seq[x])]

\* f[k] is the value of the fold after the first k elements of seq.
Steps(ctx, base, seq, n, f) ==
  /\ f = [k \in 0 .. n |-> f[k]]
  /\ f[0] = base
  /\ \A k \in 1 .. n : f[k] = Op(ctx, f[k - 1], seq[k])
  /\ Fold(ctx, base, seq) = f[n]

\* The last of the positions 1 .. n + 1 is the largest one of a set that has it.
LEMMA LastIsMax ==
  ASSUME NEW n \in Nat, NEW s \in SUBSET (1 .. n + 1), n + 1 \in s
  PROVE  Max(s) = n + 1
<1>1. \A y \in s : n + 1 >= y
  OBVIOUS
<1>2. \A x \in s : (\A y \in s : x >= y) => x = n + 1
  BY <1>1
<1>3. Max(s) = CHOOSE x \in s : \A y \in s : x >= y
  BY DEF Max
<1> QED BY <1>1, <1>2, <1>3

\* The function that FoldLeft chooses exists, for every number of positions.
LEMMA FoldingExists ==
  ASSUME NEW ctx, NEW base, NEW seq, NEW n \in Nat
  PROVE  \E it : Folding(ctx, base, seq, n, it)
<1> DEFINE T == {k \in Nat : \E it : Folding(ctx, base, seq, k, it)}
<1>1. 0 \in T
  <2>1. \A s \in SUBSET (1 .. 0) : s = {}
    OBVIOUS
  <2>2. Folding(ctx, base, seq, 0, [s \in SUBSET (1 .. 0) |-> base])
    BY <2>1 DEF Folding
  <2> QED BY <2>2
<1>2. ASSUME NEW k \in T PROVE k + 1 \in T
  <2>1. PICK f : Folding(ctx, base, seq, k, f)
    OBVIOUS
  <2> DEFINE g == [s \in SUBSET (1 .. k + 1) |->
                     IF k + 1 \in s THEN Op(ctx, f[s \ {k + 1}], seq[k + 1]) ELSE f[s]]
  <2>2. ASSUME NEW s \in SUBSET (1 .. k + 1)
        PROVE  g[s] = IF s = {} THEN base ELSE Op(ctx, g[s \ {Max(s)}], seq[Max(s)])
    <3>1. CASE k + 1 \in s
      <4>1. Max(s) = k + 1
        BY <3>1, LastIsMax
      <4>2. g[s \ {k + 1}] = f[s \ {k + 1}]
        OBVIOUS
      <4> QED BY <3>1, <4>1, <4>2
    <3>2. CASE k + 1 \notin s
      <4>1. s \in SUBSET (1 .. k)
        BY <3>2
      <4>2. f[s] = IF s = {} THEN base ELSE Op(ctx, f[s \ {Max(s)}], seq[Max(s)])
        BY <2>1, <4>1 DEF Folding
      <4>3. g[s] = f[s] /\ g[s \ {Max(s)}] = f[s \ {Max(s)}]
        BY <3>2
      <4> QED BY <4>2, <4>3
    <3> QED BY <3>1, <3>2
  <2>3. g = [s \in SUBSET (1 .. k + 1) |-> g[s]]
    OBVIOUS
  <2> HIDE DEF g
  <2>4. Folding(ctx, base, seq, k + 1, g)
    BY <2>2, <2>3 DEF Folding
  <2> QED BY <2>4
<1>3. T = Nat
  BY <1>1, <1>2, SetInduction
<1> QED BY <1>3

\* A fold goes over its sequence from the first element to the last.
THEOREM FoldSteps ==
  ASSUME NEW ctx, NEW base, NEW seq, NEW n \in Nat, DOMAIN seq = 1 .. n
  PROVE  \E f : Steps(ctx, base, seq, n, f)
<1>1. PICK it : it = CHOOSE g : Folding(ctx, base, seq, n, g)
  OBVIOUS
<1>2. Folding(ctx, base, seq, n, it)
  BY <1>1, FoldingExists, Zenon
<1>3. Fold(ctx, base, seq) = it[1 .. n]
  BY <1>1, Zenon DEF Fold, MapThenFoldSet, Folding
<1> DEFINE f == [k \in 0 .. n |-> it[1 .. k]]
<1>4. f[0] = base
  BY <1>2 DEF Folding
<1>5. ASSUME NEW k \in 1 .. n PROVE f[k] = Op(ctx, f[k - 1], seq[k])
  <2>1. PICK j \in Nat : j + 1 = k
    OBVIOUS
  <2>2. Max(1 .. j + 1) = j + 1
    BY LastIsMax
  <2>3. 1 .. k \in SUBSET (1 .. n) /\ k \in 1 .. k /\ (1 .. k) \ {k} = 1 .. k - 1
    OBVIOUS
  <2>4. it[1 .. k] = Op(ctx, it[1 .. k - 1], seq[k])
    BY <1>2, <2>1, <2>2, <2>3 DEF Folding
  <2> QED BY <2>4
<1>6. f = [k \in 0 .. n |-> f[k]] /\ f[n] = it[1 .. n]
  OBVIOUS
<1> HIDE DEF f
<1>7. Steps(ctx, base, seq, n, f)
  BY <1>3, <1>4, <1>5, <1>6 DEF Steps
<1> QED BY <1>7

=============================================================================

--------------------------- MODULE PipelineProofs ---------------------------
(***************************************************************************)
(* Pipeline stages for every number of layers and of stages: where the     *)
(* boundaries of the forward pass lie, and where weights are sent.         *)
(***************************************************************************)
EXTENDS ModelCompile, FiniteSetTheorems, TLAPS

\* The quotient of a multiple and a remainder.
LEMMA Quotient ==
  ASSUME NEW p \in Nat \ {0}, NEW q \in Nat, NEW r \in 0 .. p - 1
  PROVE  (p * q + r) \div p = q
  BY SMT

\* A product is monotonic.
LEMMA Monotonic ==
  ASSUME NEW q \in Nat \ {0}, NEW i \in Nat, NEW j \in Nat
  PROVE  i <= j <=> i * q <= j * q
<1>1. ASSUME i <= j PROVE i * q <= j * q
  <2>1. PICK d \in Nat : j = i + d
    BY <1>1
  <2>2. j * q = i * q + d * q /\ d * q \in Nat
    BY <2>1, SMT
  <2> QED BY <2>2, SMT
<1>2. ASSUME i > j PROVE i * q > j * q
  <2>1. PICK d \in Nat \ {0} : i = j + d
    BY <1>2
  <2>2. i * q = j * q + d * q /\ d * q \in Nat \ {0}
    BY <2>1, SMT
  <2> QED BY <2>2, SMT
<1> QED BY <1>1, <1>2, SMT

\* The boundaries i * q, for i up to n, that lie at or below x.
Multiples(q, n, x) == {b \in {i * q : i \in 1 .. n} : b <= x}

\* They are as many as q goes into x.
LEMMA MultiplesUpTo ==
  ASSUME NEW q \in Nat \ {0}, NEW n \in Nat, NEW x \in Nat, x \div q <= n
  PROVE  Cardinality(Multiples(q, n, x)) = x \div q
<1>0. PICK m \in Nat, s \in 0 .. q - 1 : m = x \div q /\ x = q * m + s
  <2>1. x \div q \in Nat /\ x % q \in 0 .. q - 1 /\ x = q * (x \div q) + (x % q)
    BY SMT
  <2> QED BY <2>1, Zenon
<1> DEFINE S == {b \in {i * q : i \in 1 .. n} : b <= q * m + s}
           f == [i \in 1 .. m |-> i * q]
<1>1. ASSUME NEW i \in 1 .. n PROVE i * q <= q * m + s <=> i <= m
  <2>1. ASSUME i <= m PROVE i * q <= q * m + s
    <3>1. i * q <= m * q
      BY <2>1, Monotonic
    <3> QED BY <3>1, SMT
  <2>2. ASSUME m + 1 <= i PROVE i * q > q * m + s
    <3>1. (m + 1) * q <= i * q
      BY <2>2, Monotonic
    <3>2. (m + 1) * q = q * m + q
      BY SMT
    <3>3. PICK u \in Nat, v \in Nat : u = q * m /\ v = i * q
      BY SMT
    <3> QED BY <3>1, <3>2, <3>3
  <2> QED BY <2>1, <2>2
<1>2. S = {i * q : i \in 1 .. m}
  <2>1. ASSUME NEW b \in S PROVE b \in {i * q : i \in 1 .. m}
    <3>1. PICK i \in 1 .. n : b = i * q
      OBVIOUS
    <3>2. i \in 1 .. m
      BY <1>1, <3>1
    <3> QED BY <3>1, <3>2
  <2>2. ASSUME NEW i \in 1 .. m PROVE i * q \in S
    <3>1. i \in 1 .. n
      BY <1>0
    <3> QED BY <1>1, <3>1
  <2> QED BY <2>1, <2>2
<1> HIDE DEF S
<1>3. f \in Bijection(1 .. m, S)
  <2>1. \A i, j \in 1 .. m : i * q = j * q => i = j
    <3> SUFFICES ASSUME NEW i \in 1 .. m, NEW j \in 1 .. m, i * q = j * q PROVE i = j
      OBVIOUS
    <3>1. i * q \in Nat /\ j * q \in Nat
      BY SMT
    <3>2. i <= j
      BY <3>1, Monotonic
    <3>3. j <= i
      BY <3>1, Monotonic
    <3> QED BY <3>2, <3>3
  <2>2. f \in [1 .. m -> S] /\ \A b \in S : \E i \in 1 .. m : f[i] = b
    BY <1>2
  <2>3. \A i, j \in 1 .. m : f[i] = f[j] => i = j
    BY <2>1
  <2> HIDE DEF f
  <2> QED BY <2>2, <2>3 DEF Bijection, Injection, Surjection, IsInjective
<1>4. IsFiniteSet(1 .. m) /\ Cardinality(1 .. m) = m
  BY FS_Interval
<1>5. ExistsBijection(1 .. m, S)
  BY <1>3 DEF ExistsBijection
<1>6. Cardinality(S) = m
  BY <1>4, <1>5, FS_Bijection
<1> QED BY <1>0, <1>6 DEF Multiples, S

\* For every number of layers that the stages divide, the stage whose forward
\* pass runs a layer (the boundaries of LlamaModel's layer_partition) is the
\* one _set_pp sends its weights to, and there is such a stage.
THEOREM EvenStagesHoldTheirLayers ==
  ASSUME config.num_hidden_layers \in Nat, config.pipeline_parallel_stages \in Nat \ {0}
  PROVE  StageHoldsItsLayers
<1> SUFFICES ASSUME config.num_hidden_layers % config.pipeline_parallel_stages = 0,
                    NEW l \in 0 .. (config.num_hidden_layers - 1)
             PROVE  /\ RunningStage(config, l) = HoldingStage(config, l)
                    /\ HoldingStage(config, l) < config.pipeline_parallel_stages
  BY DEF StageHoldsItsLayers
<1>1. PICK n \in Nat, p \in Nat \ {0} :
        n = config.num_hidden_layers /\ p = config.pipeline_parallel_stages
  OBVIOUS
<1>2. PICK q \in Nat : q = n \div p /\ n = p * q
  <2>1. n % p = 0
    BY <1>1
  <2> QED BY <2>1, SMT
<1>3. q \in Nat \ {0} /\ l \in 0 .. n - 1
  BY <1>1, <1>2, SMT
<1>4. (n + p - 1) \div p = q
  <2>1. p - 1 \in 0 .. p - 1 /\ n + p - 1 = p * q + (p - 1)
    BY <1>2
  <2> QED BY <2>1, Quotient
<1>5. PICK m \in Nat, s \in 0 .. q - 1 : m = l \div q /\ l = q * m + s
  <2>1. l \in Nat
    BY <1>3
  <2>2. l \div q \in Nat /\ l % q \in 0 .. q - 1 /\ l = q * (l \div q) + (l % q)
    BY <1>3, <2>1, SMT
  <2> QED BY <2>2, Zenon
<1>6. m <= p - 1
  <2>1. ASSUME p <= m PROVE FALSE
    <3>1. p * q <= m * q
      BY <1>3, <2>1, Monotonic
    <3>2. PICK u \in Nat : u = m * q /\ u = q * m
      BY SMT
    <3> QED BY <1>2, <1>3, <1>5, <3>1, <3>2
  <2> QED BY <2>1
<1>7. RunningStage(config, l) = m
  <2>1. LayerPartition(config) = {i * q : i \in 1 .. p - 1}
    BY <1>1, <1>4 DEF LayerPartition
  <2>2. PICK k \in Nat : k = p - 1 /\ l \div q <= k /\ l \in Nat
    BY <1>3, <1>5, <1>6
  <2>3. RunningStage(config, l) = Cardinality(Multiples(q, k, l))
    BY <2>1, <2>2 DEF RunningStage, Multiples
  <2>4. Cardinality(Multiples(q, k, l)) = l \div q
    BY <1>3, <2>2, MultiplesUpTo
  <2> QED BY <1>5, <2>3, <2>4
<1>8. HoldingStage(config, l) = m
  BY <1>1, <1>2, <1>5 DEF HoldingStage
<1> QED BY <1>1, <1>6, <1>7, <1>8

=============================================================================

---------------------------- MODULE RWKVProofs ------------------------------
(***************************************************************************)
(* Proofs about the RWKV models and their recurrent state:                 *)
(*  - the scales of the residual stream, for every number of layers and    *)
(*    every rescale_every;                                                 *)
(*  - the ring of history slots, for every number of slots, sequences and  *)
(*    tokens, given that one call of the model computes what its text      *)
(*    determines (CallsExact, which RWKVCallProofs proves).                *)
(***************************************************************************)
EXTENDS RWKV, SequenceTheorems, TLAPS

\* The remainder and the quotient of a successor.
LEMMA DivSucc ==
  ASSUME NEW l \in Nat, NEW r \in Nat \ {0}
  PROVE  (l + 1) \div r = (l \div r) + (IF (l + 1) % r = 0 THEN 1 ELSE 0)
<1> DEFINE q == l \div r
           m == l % r
<1>1. q \in Nat /\ m \in 0 .. r - 1 /\ l = r * q + m
  BY SMT
<1>2. CASE m + 1 = r
  <2>1. l + 1 = r * (q + 1)
    BY <1>1, <1>2, SMT
  <2> QED BY <2>1, <1>1, SMT
<1>3. CASE m + 1 < r
  <2>1. l + 1 = r * q + (m + 1)
    BY <1>1, SMT
  <2> QED BY <2>1, <1>1, <1>3, SMT
<1> QED BY <1>1, <1>2, <1>3, SMT

\* The loaders of rwkv5 and rwkv6 divide the output projections of a layer by 2
\* to the number of halvings the forward pass makes before that layer: none
\* before layer 0, and one more after every layer that halves the residual.
THEOREM LoaderCountsHalvings ==
  ASSUME NEW c, c.rescale_every \in Int
  PROVE  /\ RWKV5Loader(c, 0) = 0
         /\ \A l \in Nat : RWKV5Loader(c, l + 1)
                             = RWKV5Loader(c, l) + (IF Rescales(c, l) THEN 1 ELSE 0)
         /\ \A l \in Nat : RWKV6Loader(c, l) = RWKV5Loader(c, l)
<1>1. RWKV5Loader(c, 0) = 0
  BY SMT DEF RWKV5Loader
<1>2. ASSUME NEW l \in Nat
      PROVE  RWKV5Loader(c, l + 1) = RWKV5Loader(c, l) + (IF Rescales(c, l) THEN 1 ELSE 0)
  <2>1. CASE c.rescale_every <= 0
    BY <2>1 DEF RWKV5Loader, Rescales
  <2>2. CASE c.rescale_every > 0
    BY <2>2, DivSucc DEF RWKV5Loader, Rescales
  <2> QED BY <2>1, <2>2
<1>3. ASSUME NEW l \in Nat PROVE RWKV6Loader(c, l) = RWKV5Loader(c, l)
  BY DEF RWKV5Loader, RWKV6Loader
<1> QED BY <1>1, <1>2, <1>3

\* The values of a call as a tuple are the values.
LEMMA TupleValues ==
  ASSUME NEW n \in Nat, NEW f, f = [i \in 1 .. n |-> f[i]]
  PROVE  DOMAIN Tuple(f) = 1 .. n /\ \A i \in 1 .. n : Tuple(f)[i] = f[i]
  BY SMT DEF Tuple

\* An addition leaves a stream of the same tokens at the scale of its layer.
LEMMA AddScale ==
  ASSUME NEW n \in Nat, NEW l, NEW x, NEW y, NEW exp, DOMAIN x = 1 .. n
  PROVE  LET z == Add(l, x, y, exp)
         IN  DOMAIN z = 1 .. n /\ \A i \in 1 .. n : z[i] = [of |-> z[i].of, exp |-> exp]
<1> DEFINE f == [i \in DOMAIN x |->
                  IF x[i].exp = exp /\ x[i].of \in {y[i], Own(l, y[i])}
                  THEN [of |-> y[i], exp |-> exp] ELSE [of |-> Wrong, exp |-> exp]]
<1>1. DOMAIN f = 1 .. n /\ \A i \in 1 .. n : f[i] = [of |-> f[i].of, exp |-> exp]
  OBVIOUS
<1>2. f = [i \in 1 .. n |-> f[i]]
  OBVIOUS
<1> HIDE DEF f
<1>3. DOMAIN Tuple(f) = 1 .. n /\ \A i \in 1 .. n : Tuple(f)[i] = f[i]
  BY <1>2, TupleValues
<1>4. Add(l, x, y, exp) = Tuple(f)
  BY DEF Add, f
<1> QED BY <1>1, <1>3, <1>4

\* Halving adds one to the scale of every token.
LEMMA HalveScale ==
  ASSUME NEW n \in Nat, NEW x, NEW e \in Nat, DOMAIN x = 1 .. n,
         \A i \in 1 .. n : x[i] = [of |-> x[i].of, exp |-> e]
  PROVE  LET z == Halve(x)
         IN  DOMAIN z = 1 .. n /\ \A i \in 1 .. n : z[i] = [of |-> z[i].of, exp |-> e + 1]
<1> DEFINE f == [i \in DOMAIN x |-> [x[i] EXCEPT !.exp = @ + 1]]
<1>1. DOMAIN f = 1 .. n /\ \A i \in 1 .. n : f[i] = [of |-> f[i].of, exp |-> e + 1]
  OBVIOUS
<1>2. f = [i \in 1 .. n |-> f[i]]
  OBVIOUS
<1> HIDE DEF f
<1>3. DOMAIN Tuple(f) = 1 .. n /\ \A i \in 1 .. n : Tuple(f)[i] = f[i]
  BY <1>2, TupleValues
<1>4. Halve(x) = Tuple(f)
  BY DEF Halve, f
<1> QED BY <1>1, <1>3, <1>4

\* A stream of n tokens that were all halved e times.
Scaled(x, n, e) == DOMAIN x = 1 .. n /\ \A i \in 1 .. n : x[i] = [of |-> x[i].of, exp |-> e]

\* A residual stream that enters a layer of RWKV at the scale of the layer's
\* output projections meets both additions at that scale, and enters the next
\* layer at the scale of that layer's projections, whatever it holds.
THEOREM LayerKeepsScale ==
  ASSUME NEW c, c.rescale_every \in Int, NEW l \in Nat, NEW n \in Nat, NEW x, NEW state,
         Scaled(x, n, RWKV5Loader(c, l))
  PROVE  /\ Scaled(RWKV5_Layer(c, l, x, state).x, n, RWKV5Loader(c, l + 1))
         /\ Scaled(RWKV6_Layer(c, l, x, state).x, n, RWKV5Loader(c, l + 1))
<1> DEFINE exp == RWKV5Loader(c, l)
<1>1. exp \in Nat /\ RWKV6Loader(c, l) = exp
  BY SMT DEF RWKV5Loader, RWKV6Loader
<1>2. ASSUME NEW y, NEW z
      PROVE  LET x2 == Add(l, Add(l, x, y, exp), z, exp)
             IN  Scaled(IF Rescales(c, l) THEN Halve(x2) ELSE x2, n, RWKV5Loader(c, l + 1))
  <2> DEFINE x1 == Add(l, x, y, exp)
             x2 == Add(l, x1, z, exp)
  <2>1. DOMAIN x1 = 1 .. n
    BY AddScale DEF Scaled
  <2> HIDE DEF x1, exp
  <2>2. Scaled(x2, n, exp)
    BY <2>1, AddScale DEF Scaled
  <2> HIDE DEF x2
  <2>3. Scaled(Halve(x2), n, exp + 1)
    BY <1>1, <2>2, HalveScale DEF Scaled
  <2>4. RWKV5Loader(c, l + 1) = exp + (IF Rescales(c, l) THEN 1 ELSE 0)
    BY LoaderCountsHalvings DEF exp
  <2>5. Scaled(IF Rescales(c, l) THEN Halve(x2) ELSE x2, n, RWKV5Loader(c, l + 1))
    BY <1>1, <2>2, <2>3, <2>4
  <2> QED BY <2>5 DEF x2, x1
<1> HIDE DEF exp
<1>3. Scaled(RWKV5_Layer(c, l, x, state).x, n, RWKV5Loader(c, l + 1))
  BY <1>2 DEF RWKV5_Layer, exp
<1>4. Scaled(RWKV6_Layer(c, l, x, state).x, n, RWKV5Loader(c, l + 1))
  BY <1>1, <1>2 DEF RWKV6_Layer, exp
<1> QED BY <1>3, <1>4

-----------------------------------------------------------------------------
(***************************************************************************)
(* The history of the storage.  CallsExact says that one call of the model *)
(* on states of p computes the logits and the states of p and the call's   *)
(* tokens, and writes nothing but the next history slot.  The theorem      *)
(* below takes it from there to every sequence of calls.                   *)
(***************************************************************************)
\* The parts of the storage that belong to a slot.
Cells(c) == [HistorySlots(c) -> [LayersOf(c) -> [StateID -> Seq(Tokens)]]]

CallsExact ==
  \A raw \in RawConfigs : \A p \in Seq(Tokens), tokens \in Seq(Tokens) \ {<<>>} : \A at, cells :
    LET c == ParsedConfig(raw)
    IN  (/\ c # Rejected
         /\ at \in HistorySlots(c) /\ cells \in Cells(c)
         /\ cells[at] = StatesOf(c, p)) => CallExact(c, p, tokens, at, cells)

\* What the history slots hold, one layer's states after the other.
Rows(c) == [LayersOf(c) -> [StateID -> Seq(Tokens)]]

\* The states of a text fit the storage.
LEMMA StatesFit ==
  ASSUME NEW c, NEW q \in Seq(Tokens)
  PROVE  StatesOf(c, q) \in Rows(c)
<1>1. ASSUME NEW l PROVE Own(l, q) \in Seq(Tokens)
  <2>1. CASE l = 0 /\ q # <<>>
    <3>1. Last(q) \in Tokens
      BY <2>1, EmptySeq, ElementOfSeq, LenProperties DEF Last
    <3>2. <<Last(q)>> \in Seq(Tokens)
      BY <3>1
    <3> QED BY <2>1, <3>2 DEF Own
  <2> QED BY <2>1 DEF Own
<1> QED BY <1>1 DEF StatesOf, Rows

\* So do the states create_rnn_state starts with.
LEMMA InitFits == ASSUME NEW c PROVE InitValues(c) \in Rows(c)
  BY DEF InitValues, CreateRNNState5, CreateRNNState6, Rows

\* Setting the states of one history slot leaves a storage of the same shape.
LEMMA CellsSet ==
  ASSUME NEW c, NEW cells \in Cells(c), NEW h, NEW row \in Rows(c)
  PROVE  /\ [cells EXCEPT ![h] = row] \in Cells(c)
         /\ DOMAIN cells = HistorySlots(c)
  BY DEF Cells, Rows

\* Positions in a ring of h history slots.
LEMMA Ring ==
  ASSUME NEW h \in Nat \ {0}, NEW at \in 0 .. h - 1, NEW n \in 0 .. h - 1
  PROVE  /\ (at + 1) % h = IF at + 1 = h THEN 0 ELSE at + 1
         /\ (at - n) % h = IF n <= at THEN at - n ELSE at - n + h
<1>1. (at + 1) % h = IF at + 1 = h THEN 0 ELSE at + 1
  BY SMT
<1>2. CASE n <= at
  BY <1>1, <1>2, SMT
<1>3. CASE n > at
  <2>1. PICK a \in Int : a = at - n
    OBVIOUS
  <2>2. a \div h = -1
    BY <1>3, <2>1, SMT
  <2>3. a % h = a + h
    BY <1>3, <2>1, <2>2, SMT
  <2> QED BY <1>1, <1>3, <2>1, <2>3, SMT
<1> QED BY <1>1, <1>2, <1>3

Entries(c) == [slot : Slots, history : HistorySlots(c), available : 0 .. c.max_history - 1]

\* The slots an entry e may return to hold the states of its text t, cells being
\* the entry's part of the storage.
Exact(c, e, t, cells) ==
  /\ e.available <= Len(t)
  /\ \A n \in 0 .. e.available :
       cells[(e.history - n) % c.max_history] = StatesOf(c, SubSeq(t, 1, Len(t) - n))

\* A prefix of a text is a text.
LEMMA Prefix ==
  ASSUME NEW t \in Seq(Tokens), NEW k \in 0 .. Len(t)
  PROVE  SubSeq(t, 1, k) \in Seq(Tokens) /\ Len(SubSeq(t, 1, k)) = k
  BY SubSeqProperties

\* A prefix of a prefix is a prefix.
LEMMA PrefixOfPrefix ==
  ASSUME NEW t \in Seq(Tokens), NEW k \in 0 .. Len(t), NEW j \in 0 .. k
  PROVE  SubSeq(SubSeq(t, 1, k), 1, j) = SubSeq(t, 1, j)
<1>1. CASE j = 0
  BY <1>1, SubSeqEmpty
<1>2. CASE j # 0
  BY <1>2, SubSeqOfSubSeq
<1> QED BY <1>1, <1>2

\* A prefix of a text is a prefix of the text that has grown.
LEMMA PrefixOfGrown ==
  ASSUME NEW t \in Seq(Tokens), NEW u \in Seq(Tokens), NEW k \in 0 .. Len(t)
  PROVE  SubSeq(t \o u, 1, k) = SubSeq(t, 1, k)
<1>1. CASE k = 0
  BY <1>1, SubSeqEmpty
<1>2. CASE k # 0
  BY <1>2, SubSeqOfConcat1
<1> QED BY <1>1, <1>2

\* A new sequence has the initial states of its model.
LEMMA NewExact ==
  ASSUME NEW c, c.max_history \in Nat \ {0}, NEW slot, NEW cells, cells[0] = InitValues(c)
  PROVE  Exact(c, [slot |-> slot, history |-> 0, available |-> 0], <<>>, cells)
<1> DEFINE e == [slot |-> slot, history |-> 0, available |-> 0]
<1>1. InitValues(c) = StatesOf(c, <<>>)
  BY DEF InitValues, CreateRNNState5, CreateRNNState6, StatesOf, Own
<1>2. (0 - 0) % c.max_history = 0
  BY Ring
<1>3. SubSeq(<<>>, 1, 0 - 0) = <<>> /\ Len(<<>>) = 0
  BY SubSeqEmpty
<1>4. e.available = 0 /\ e.history = 0
  OBVIOUS
<1> HIDE DEF e
<1>5. ASSUME NEW n \in 0 .. e.available
      PROVE  cells[(e.history - n) % c.max_history] = StatesOf(c, SubSeq(<<>>, 1, Len(<<>>) - n))
  <2>1. n = 0
    BY <1>4
  <2> QED BY <1>1, <1>2, <1>3, <1>4, <2>1
<1> QED BY <1>3, <1>4, <1>5 DEF Exact, e

\* Rolling back n calls finds what the slots before them hold.
LEMMA PopExact ==
  ASSUME NEW c, c.max_history \in Nat \ {0}, NEW e \in Entries(c), NEW t \in Seq(Tokens),
         NEW cells, Exact(c, e, t, cells), NEW n \in 0 .. e.available,
         NEW f, f.history = (e.history - n) % c.max_history, f.available = e.available - n
  PROVE  /\ f.history \in 0 .. c.max_history - 1
         /\ SubSeq(t, 1, Len(t) - n) \in Seq(Tokens)
         /\ Exact(c, f, SubSeq(t, 1, Len(t) - n), cells)
<1>1. PICK h \in Nat \ {0}, at \in Nat, a \in Nat, k \in Nat :
        /\ h = c.max_history /\ at = e.history /\ a = e.available /\ k = Len(t)
        /\ at \in 0 .. h - 1 /\ a \in 0 .. h - 1
  BY DEF Entries, HistorySlots
<1>2. n \in 0 .. a /\ a <= k /\ f.available = a - n /\ f.history = (at - n) % h
  BY <1>1 DEF Exact
<1>3. PICK u \in Seq(Tokens) : u = SubSeq(t, 1, k - n) /\ Len(u) = k - n
  <2>1. k - n \in 0 .. k
    BY <1>2
  <2>2. k - n \in 0 .. Len(t)
    BY <1>1, <2>1
  <2>3. SubSeq(t, 1, k - n) \in Seq(Tokens) /\ Len(SubSeq(t, 1, k - n)) = k - n
    BY <2>2, Prefix
  <2> QED BY <2>3
<1>4. f.history \in 0 .. h - 1
  <2>1. at \in 0 .. h - 1 /\ n \in 0 .. h - 1
    BY <1>1, <1>2
  <2>2. (at - n) % h = IF n <= at THEN at - n ELSE at - n + h
    BY <2>1, Ring
  <2> QED BY <1>2, <2>1, <2>2
<1>5. ASSUME NEW m \in 0 .. (a - n)
      PROVE  cells[(f.history - m) % h] = StatesOf(c, SubSeq(u, 1, (k - n) - m))
  <2>1. PICK mn \in Nat : mn = m + n /\ mn \in 0 .. a /\ mn \in 0 .. h - 1
    <3>1. m \in Nat /\ n \in Nat /\ a \in Nat /\ h \in Nat /\ m <= a - n /\ a <= h - 1
      BY <1>1, <1>2
    <3>2. m + n \in Nat /\ m + n \in 0 .. a /\ m + n \in 0 .. h - 1
      BY <3>1
    <3> QED BY <3>2
  <2>2. (f.history - m) % h = (at - mn) % h
    <3>1. at \in 0 .. h - 1 /\ m \in Nat /\ n \in Nat
      BY <1>1, <1>2
    <3>2. PICK fh \in Int : fh = f.history /\ fh = (at - n) % h
      BY <1>2, <1>4
    <3>3. n \in 0 .. h - 1 /\ m \in 0 .. h - 1 /\ fh \in 0 .. h - 1
      BY SMTT(30), <1>1, <1>2, <1>4, <3>2
    <3>4. fh = IF n <= at THEN at - n ELSE at - n + h
      BY <3>1, <3>2, <3>3, Ring
    <3>5. (fh - m) % h = IF m <= fh THEN fh - m ELSE fh - m + h
      BY <3>3, Ring
    <3>6. (at - mn) % h = IF mn <= at THEN at - mn ELSE at - mn + h
      BY <2>1, <3>1, Ring
    <3>7. (fh - m) % h = (at - mn) % h
      BY <2>1, <3>1, <3>3, <3>4, <3>5, <3>6
    <3> QED BY <3>2, <3>7
  <2>3. SubSeq(u, 1, (k - n) - m) = SubSeq(t, 1, k - mn)
    <3>1. k - n \in 0 .. k /\ (k - n) - m \in 0 .. (k - n) /\ (k - n) - m = k - mn
      BY <1>2, <2>1
    <3>2. k - n \in 0 .. Len(t)
      BY <1>1, <3>1
    <3> QED BY <1>3, <3>1, <3>2, PrefixOfPrefix
  <2>4. cells[(at - mn) % h] = StatesOf(c, SubSeq(t, 1, k - mn))
    BY <1>1, <2>1 DEF Exact
  <2> QED BY <2>2, <2>3, <2>4
<1>6. Exact(c, f, u, cells)
  BY <1>1, <1>2, <1>3, <1>5 DEF Exact
<1> QED BY <1>1, <1>3, <1>4, <1>6

\* A call that writes the states of the grown text into the next slot keeps the
\* slots before it right: those that a single token leaves available.
LEMMA CallKeepsExact ==
  ASSUME NEW c, c.max_history \in Nat \ {0}, NEW e \in Entries(c), NEW t \in Seq(Tokens),
         NEW cells, DOMAIN cells = HistorySlots(c), Exact(c, e, t, cells),
         NEW tokens \in Seq(Tokens) \ {<<>>}, NEW nx, nx = NextHistory(c, e.history)
  PROVE  /\ EndForward(c, e, Len(tokens)) \in Entries(c)
         /\ EndForward(c, e, Len(tokens)).slot = e.slot
         /\ Exact(c, EndForward(c, e, Len(tokens)), t \o tokens,
                  [cells EXCEPT ![nx] = StatesOf(c, t \o tokens)])
<1>1. PICK h \in Nat \ {0}, at \in Nat, a \in Nat, k \in Nat, j \in Nat :
        /\ h = c.max_history /\ at = e.history /\ a = e.available /\ k = Len(t)
        /\ at \in 0 .. h - 1 /\ a \in 0 .. h - 1 /\ j = Len(tokens)
  BY DEF Entries, HistorySlots
<1>2. j >= 1
  BY <1>1, EmptySeq
<1>3. PICK f : f = EndForward(c, e, Len(tokens))
  OBVIOUS
<1>4. /\ f = [slot |-> e.slot, history |-> nx,
              available |-> IF j > 1 THEN 0 ELSE IF a < h - 1 THEN a + 1 ELSE a]
      /\ e.slot \in Slots
  BY <1>1, <1>3 DEF EndForward, Entries
<1>5. nx = (IF at + 1 = h THEN 0 ELSE at + 1) /\ nx \in 0 .. h - 1
  <2>1. nx = (at + 1) % h
    BY <1>1 DEF NextHistory
  <2>2. at \in 0 .. h - 1 /\ 0 \in 0 .. h - 1
    BY <1>1
  <2>3. nx = IF at + 1 = h THEN 0 ELSE at + 1
    BY <2>1, <2>2, Ring
  <2> QED BY <2>2, <2>3
<1>6. PICK b \in 0 .. h - 1 : b = f.available /\ (j > 1 => b = 0) /\ b <= a + 1
  <2>1. f.available = IF j > 1 THEN 0 ELSE IF a < h - 1 THEN a + 1 ELSE a
    BY <1>4
  <2>2. a \in 0 .. h - 1
    BY <1>1
  <2> QED BY <2>1, <2>2
<1>7. f \in Entries(c)
  BY <1>1, <1>4, <1>5, <1>6 DEF Entries, HistorySlots
<1> DEFINE new == [cells EXCEPT ![nx] = StatesOf(c, t \o tokens)]
<1>8. /\ new[nx] = StatesOf(c, t \o tokens)
      /\ \A i \in 0 .. h - 1 : i # nx => new[i] = cells[i]
  BY <1>1, <1>5 DEF HistorySlots
<1> HIDE DEF new
<1>9. PICK tt \in Seq(Tokens) : tt = t \o tokens /\ Len(tt) = k + j
  BY <1>1, ConcatProperties
<1>10. ASSUME NEW n \in 0 .. b
       PROVE  new[(nx - n) % h] = StatesOf(c, SubSeq(tt, 1, (k + j) - n))
  <2>1. n \in 0 .. h - 1 /\ at \in 0 .. h - 1 /\ nx \in 0 .. h - 1
    BY <1>1, <1>5, <1>6
  <2>2. (nx - n) % h = IF n <= nx THEN nx - n ELSE nx - n + h
    BY <2>1, Ring
  <2>3. CASE n = 0
    <3>1. (nx - n) % h = nx /\ (k + j) - n = Len(tt)
      BY <1>9, <2>1, <2>2, <2>3
    <3>2. SubSeq(tt, 1, Len(tt)) = tt
      BY SubSeqFull
    <3> QED BY <1>8, <1>9, <3>1, <3>2
  <2>4. CASE n # 0
    <3>1. PICK p \in 0 .. h - 1 : p = n - 1 /\ j = 1 /\ p \in 0 .. a
      BY <1>2, <1>6, <2>1, <2>4
    <3>2. (at - p) % h = IF p <= at THEN at - p ELSE at - p + h
      BY <2>1, Ring
    <3> DEFINE i == IF p <= at THEN at - p ELSE at - p + h
    <3>7. i \in Int /\ i = IF p <= at THEN at - p ELSE at - p + h
      OBVIOUS
    <3> HIDE DEF i
    <3>8. i \in 0 .. h - 1 /\ i # nx
      BY <1>5, <2>1, <2>4, <3>1, <3>7
    <3>9. i = IF n <= nx THEN nx - n ELSE nx - n + h
      BY <1>5, <2>1, <2>4, <3>1, <3>7
    <3>3. i \in 0 .. h - 1 /\ i = (at - p) % h /\ i # nx /\ (nx - n) % h = i
      BY <2>2, <3>2, <3>7, <3>8, <3>9
    <3>4. new[i] = cells[i]
      BY <1>8, <3>3
    <3>5. cells[i] = StatesOf(c, SubSeq(t, 1, k - p))
      BY <1>1, <3>1, <3>3 DEF Exact
    <3>6. SubSeq(tt, 1, (k + j) - n) = SubSeq(t, 1, k - p)
      <4>1. a <= k
        BY <1>1 DEF Exact
      <4>2. (k + j) - n = k - p /\ k - p \in 0 .. k
        BY <3>1, <4>1
      <4>3. k - p \in 0 .. Len(t)
        BY <1>1, <4>2
      <4> QED BY <1>9, <4>2, <4>3, PrefixOfGrown
    <3> QED BY <3>3, <3>4, <3>5, <3>6
  <2> QED BY <2>3, <2>4
<1>11. Exact(c, f, tt, new)
  <2>1. b <= k + j
    BY <1>1, <1>2, <1>6 DEF Exact
  <2>2. f.history = nx /\ f.available = b
    BY <1>4, <1>6
  <2> QED BY <1>1, <1>9, <1>10, <2>1, <2>2 DEF Exact
<1> QED BY <1>3, <1>4, <1>7, <1>9, <1>11 DEF new

-----------------------------------------------------------------------------
\* The inductive invariant: sequences have slots of their own, and what they may
\* return to is right.
SlotsExact ==
  /\ config.max_history \in Nat \ {0}
  /\ storage = [m \in Slots |-> storage[m]]
  /\ \A m \in Slots : storage[m] \in Cells(config)
  /\ seq_map \in [Seqs -> Entries(config) \union {NoSeq}]
  /\ text \in [Seqs -> Seq(Tokens)]
  /\ logits = [s \in Seqs |-> logits[s]]
  /\ \A s, t \in Live : s # t => seq_map[s].slot # seq_map[t].slot
  /\ \A s \in Live : Exact(config, seq_map[s], text[s], storage[seq_map[s].slot])
  /\ \A s \in Live : logits[s] # NoLogits => logits[s] = text[s]

IInv ==
  /\ \E raw \in RawConfigs : config = ParsedConfig(raw)
  /\ IF config = Rejected THEN Live = {} ELSE SlotsExact

\* A free sequence id has no entry in the runtime.
LEMMA NoSeqIsNoEntry == ASSUME NEW c PROVE NoSeq \notin Entries(c)
  BY DEF NoSeq, Entries

\* An entry of a live sequence.
LEMMA LiveEntry ==
  ASSUME SlotsExact, NEW s \in Live
  PROVE  s \in Seqs /\ seq_map[s] \in Entries(config) /\ seq_map[s].slot \in Slots
  BY DEF SlotsExact, Live, Entries

\* The storage as create_rnn_state fills it, with no sequence yet.
LEMMA InitIInv == Init => IInv
<1> SUFFICES ASSUME Init PROVE IInv
  OBVIOUS
<1>1. Live = {}
  BY DEF Init, Live
<1>2. ASSUME config # Rejected PROVE SlotsExact
  <2>1. PICK raw \in RawConfigs : config = ParsedConfig(raw)
    BY DEF Init
  <2>2. config.max_history = raw.max_history
    BY <1>2, <2>1, HistoryAssumption DEF ParsedConfig, RWKV5Config, RWKV6Config
  <2>3. config.max_history \in Nat \ {0}
    BY <2>2, HistoryAssumption
  <2>4. /\ storage = [m \in Slots |-> storage[m]]
        /\ \A m \in Slots : storage[m] \in Cells(config)
    <3>1. storage = [m \in Slots |-> [h \in HistorySlots(config) |-> InitValues(config)]]
      BY <1>2 DEF Init
    <3>2. [h \in HistorySlots(config) |-> InitValues(config)] \in Cells(config)
      BY InitFits DEF Cells, Rows
    <3> QED BY <3>1, <3>2
  <2>5. seq_map \in [Seqs -> Entries(config) \union {NoSeq}]
    BY DEF Init
  <2>6. text \in [Seqs -> Seq(Tokens)] /\ logits = [s \in Seqs |-> logits[s]]
    BY DEF Init
  <2> QED BY <1>1, <2>3, <2>4, <2>5, <2>6 DEF SlotsExact
<1> QED BY <1>1, <1>2 DEF IInv, Init

\* ModelImpl::AddNewSequence gives the sequence a free slot with the initial
\* states in it.
LEMMA AddStep ==
  ASSUME SlotsExact, config # Rejected, NEW s \in Seqs, AddSequence(s)
  PROVE  SlotsExact'
<1>1. PICK slot \in FreeSlots :
        /\ seq_map' = [seq_map EXCEPT ![s] = [slot |-> slot, history |-> 0, available |-> 0]]
        /\ storage' = [storage EXCEPT ![slot][0] = InitValues(config)]
        /\ text' = [text EXCEPT ![s] = <<>>]
        /\ logits' = [logits EXCEPT ![s] = NoLogits]
        /\ config' = config
  BY DEF AddSequence
<1> DEFINE e == [slot |-> slot, history |-> 0, available |-> 0]
<1>2. slot \in Slots /\ \A t \in Live : seq_map[t].slot # slot
  BY DEF FreeSlots
<1>3. e \in Entries(config) /\ e # NoSeq /\ e.slot = slot /\ 0 \in HistorySlots(config)
  <2>1. config.max_history \in Nat \ {0}
    BY DEF SlotsExact
  <2>2. 0 \in HistorySlots(config) /\ 0 \in 0 .. config.max_history - 1
    BY <2>1 DEF HistorySlots
  <2>3. e \in Entries(config)
    BY <1>2, <2>2 DEF Entries
  <2> QED BY <2>2, <2>3, NoSeqIsNoEntry
<1> HIDE DEF e
<1>4. /\ seq_map'[s] = e /\ \A t \in Seqs : t # s => seq_map'[t] = seq_map[t]
      /\ text'[s] = <<>> /\ \A t \in Seqs : t # s => text'[t] = text[t]
      /\ logits'[s] = NoLogits /\ \A t \in Seqs : t # s => logits'[t] = logits[t]
  BY <1>1 DEF SlotsExact, e
<1>5. Live' = Live \union {s}
  BY <1>3, <1>4 DEF Live
<1>6. /\ storage' = [m \in Slots |-> storage'[m]]
      /\ \A m \in Slots : m # slot => storage'[m] = storage[m]
      /\ storage'[slot] = [storage[slot] EXCEPT ![0] = InitValues(config)]
  BY <1>1, <1>2 DEF SlotsExact
<1>7. \A m \in Slots : storage'[m] \in Cells(config')
  <2>1. storage[slot] \in Cells(config)
    BY <1>2 DEF SlotsExact
  <2>2. storage'[slot] \in Cells(config)
    <3>1. PICK row \in Rows(config) : row = InitValues(config)
      BY InitFits
    <3>2. PICK cs \in Cells(config) : cs = storage[slot]
      BY <2>1
    <3>3. [cs EXCEPT ![0] = row] \in Cells(config)
      BY CellsSet
    <3> QED BY <1>6, <3>1, <3>2, <3>3
  <2> QED BY <1>1, <1>2, <1>6, <2>2 DEF SlotsExact
<1>8. /\ seq_map' \in [Seqs -> Entries(config') \union {NoSeq}]
      /\ text' \in [Seqs -> Seq(Tokens)] /\ logits' = [t \in Seqs |-> logits'[t]]
  <2>1. seq_map' = [seq_map EXCEPT ![s] = e]
    BY <1>1 DEF e
  <2>2. seq_map' \in [Seqs -> Entries(config) \union {NoSeq}]
    BY <1>3, <2>1 DEF SlotsExact
  <2>3. <<>> \in Seq(Tokens) /\ text \in [Seqs -> Seq(Tokens)]
    BY DEF SlotsExact
  <2>4. text' \in [Seqs -> Seq(Tokens)]
    BY <1>1, <2>3
  <2>5. logits' = [t \in Seqs |-> logits'[t]]
    BY <1>1 DEF SlotsExact
  <2> QED BY <1>1, <2>2, <2>4, <2>5
<1>9. Exact(config, e, <<>>, storage'[slot])
  <2>0. storage[slot] \in Cells(config)
    BY <1>2 DEF SlotsExact
  <2>1. storage'[slot][0] = InitValues(config)
    BY <1>3, <1>6, <2>0 DEF Cells
  <2> QED BY <2>1, NewExact DEF SlotsExact, e
<1>10. \A t \in Live' : Exact(config', seq_map'[t], text'[t], storage'[seq_map'[t].slot])
  <2> SUFFICES ASSUME NEW t \in Live' 
               PROVE  Exact(config', seq_map'[t], text'[t], storage'[seq_map'[t].slot])
    OBVIOUS
  <2>1. CASE t = s
    BY <1>1, <1>3, <1>4, <1>9, <2>1
  <2>2. CASE t # s
    <3>1. t \in Live /\ seq_map[t].slot # slot /\ t \in Seqs /\ seq_map[t].slot \in Slots
      BY <1>2, <1>5, <2>2, LiveEntry
    <3> QED BY <1>1, <1>4, <1>6, <2>2, <3>1 DEF SlotsExact
  <2> QED BY <2>1, <2>2
<1>11. \A t, u \in Live' : t # u => seq_map'[t].slot # seq_map'[u].slot
  BY <1>2, <1>3, <1>4, <1>5, LiveEntry DEF SlotsExact
<1>12. \A t \in Live' : logits'[t] # NoLogits => logits'[t] = text'[t]
  BY <1>4, <1>5, LiveEntry DEF SlotsExact
<1> QED BY <1>1, <1>6, <1>7, <1>8, <1>10, <1>11, <1>12 DEF SlotsExact

\* ModelImpl::ForkSequence gives the child a copy of the parent's slot.
LEMMA ForkStep ==
  ASSUME SlotsExact, config # Rejected, NEW p \in Seqs, NEW s \in Seqs, ForkSequence(p, s)
  PROVE  SlotsExact'
<1>1. PICK slot \in FreeSlots :
        /\ seq_map' = [seq_map EXCEPT ![s] = [seq_map[p] EXCEPT !.slot = slot]]
        /\ storage' = [storage EXCEPT ![slot] = storage[seq_map[p].slot]]
        /\ text' = [text EXCEPT ![s] = text[p]]
        /\ logits' = [logits EXCEPT ![s] = NoLogits]
        /\ config' = config
  BY DEF ForkSequence
<1> DEFINE e == [seq_map[p] EXCEPT !.slot = slot]
<1>2. /\ slot \in Slots /\ \A t \in Live : seq_map[t].slot # slot
      /\ p \in Live /\ s \notin Live /\ p # s
      /\ seq_map[p] \in Entries(config) /\ seq_map[p].slot \in Slots
  BY LiveEntry DEF FreeSlots, ForkSequence
<1>3. /\ e \in Entries(config) /\ e # NoSeq /\ e.slot = slot
      /\ e.history = seq_map[p].history /\ e.available = seq_map[p].available
  BY <1>2, NoSeqIsNoEntry DEF Entries
<1>e. seq_map' = [seq_map EXCEPT ![s] = e]
  BY <1>1
<1> HIDE DEF e
<1>4. /\ seq_map'[s] = e /\ \A t \in Seqs : t # s => seq_map'[t] = seq_map[t]
      /\ text'[s] = text[p] /\ \A t \in Seqs : t # s => text'[t] = text[t]
      /\ logits'[s] = NoLogits /\ \A t \in Seqs : t # s => logits'[t] = logits[t]
  BY <1>1, <1>e DEF SlotsExact
<1>5. Live' = Live \union {s}
  BY <1>3, <1>4 DEF Live
<1>6. /\ storage' = [m \in Slots |-> storage'[m]]
      /\ \A m \in Slots : m # slot => storage'[m] = storage[m]
      /\ storage'[slot] = storage[seq_map[p].slot]
  BY <1>1, <1>2 DEF SlotsExact
<1>7. \A m \in Slots : storage'[m] \in Cells(config')
  BY <1>1, <1>2, <1>6 DEF SlotsExact
<1>8. /\ seq_map' \in [Seqs -> Entries(config') \union {NoSeq}]
      /\ text' \in [Seqs -> Seq(Tokens)] /\ logits' = [t \in Seqs |-> logits'[t]]
  <2>1. seq_map' \in [Seqs -> Entries(config) \union {NoSeq}]
    BY <1>3, <1>e DEF SlotsExact
  <2>2. text' \in [Seqs -> Seq(Tokens)]
    BY <1>1 DEF SlotsExact
  <2>3. logits' = [t \in Seqs |-> logits'[t]]
    BY <1>1 DEF SlotsExact
  <2> QED BY <1>1, <2>1, <2>2, <2>3
<1>9. Exact(config, e, text[p], storage'[slot])
  BY <1>2, <1>3, <1>6 DEF SlotsExact, Exact
<1>10. \A t \in Live' : Exact(config', seq_map'[t], text'[t], storage'[seq_map'[t].slot])
  <2> SUFFICES ASSUME NEW t \in Live'
               PROVE  Exact(config', seq_map'[t], text'[t], storage'[seq_map'[t].slot])
    OBVIOUS
  <2>1. CASE t = s
    BY <1>1, <1>3, <1>4, <1>9, <2>1
  <2>2. CASE t # s
    <3>1. t \in Live /\ seq_map[t].slot # slot /\ t \in Seqs /\ seq_map[t].slot \in Slots
      BY <1>2, <1>5, <2>2, LiveEntry
    <3> QED BY <1>1, <1>4, <1>6, <2>2, <3>1 DEF SlotsExact
  <2> QED BY <2>1, <2>2
<1>11. \A t, u \in Live' : t # u => seq_map'[t].slot # seq_map'[u].slot
  BY <1>2, <1>3, <1>4, <1>5, LiveEntry DEF SlotsExact
<1>12. \A t \in Live' : logits'[t] # NoLogits => logits'[t] = text'[t]
  BY <1>4, <1>5, LiveEntry DEF SlotsExact
<1> QED BY <1>1, <1>6, <1>7, <1>8, <1>10, <1>11, <1>12 DEF SlotsExact

\* ModelImpl::RemoveSequence frees a slot and leaves the others alone.
LEMMA RemoveStep ==
  ASSUME SlotsExact, config # Rejected, NEW s \in Seqs, RemoveSequence(s)
  PROVE  SlotsExact'
<1>1. /\ seq_map' = [seq_map EXCEPT ![s] = NoSeq]
      /\ text' = [text EXCEPT ![s] = <<>>]
      /\ logits' = [logits EXCEPT ![s] = NoLogits]
      /\ config' = config /\ storage' = storage
  BY DEF RemoveSequence
<1>2. /\ seq_map' \in [Seqs -> Entries(config') \union {NoSeq}]
      /\ text' \in [Seqs -> Seq(Tokens)] /\ logits' = [t \in Seqs |-> logits'[t]]
  <2>1. seq_map' \in [Seqs -> Entries(config) \union {NoSeq}]
    BY <1>1 DEF SlotsExact
  <2>2. <<>> \in Seq(Tokens) /\ text \in [Seqs -> Seq(Tokens)]
    BY DEF SlotsExact
  <2>3. text' \in [Seqs -> Seq(Tokens)]
    BY <1>1, <2>2
  <2>4. logits' = [t \in Seqs |-> logits'[t]]
    BY <1>1 DEF SlotsExact
  <2> QED BY <1>1, <2>1, <2>3, <2>4
<1>3. \A t \in Live' : /\ t \in Live /\ seq_map'[t] = seq_map[t]
                       /\ text'[t] = text[t] /\ logits'[t] = logits[t]
  BY <1>1 DEF Live, SlotsExact
<1>4. /\ config'.max_history \in Nat \ {0} /\ storage' = [m \in Slots |-> storage'[m]]
      /\ \A m \in Slots : storage'[m] \in Cells(config')
  BY <1>1 DEF SlotsExact
<1>5. /\ \A t, v \in Live' : t # v => seq_map'[t].slot # seq_map'[v].slot
      /\ \A t \in Live' : logits'[t] # NoLogits => logits'[t] = text'[t]
  <2>1. /\ \A t, v \in Live : t # v => seq_map[t].slot # seq_map[v].slot
        /\ \A t \in Live : logits[t] # NoLogits => logits[t] = text[t]
    BY DEF SlotsExact
  <2> QED BY <1>3, <2>1
<1>6. \A t \in Live' : Exact(config', seq_map'[t], text'[t], storage'[seq_map'[t].slot])
  BY <1>1, <1>3 DEF SlotsExact
<1> QED BY <1>2, <1>4, <1>5, <1>6 DEF SlotsExact

\* ModelImpl::PopNFromKVCache moves back in the ring.
LEMMA PopStep ==
  ASSUME SlotsExact, config # Rejected, NEW s \in Seqs, NEW n \in 1 .. MaxLen, PopN(s, n)
  PROVE  SlotsExact'
<1> DEFINE e == seq_map[s]
           f == [slot |-> e.slot, history |-> (e.history - n) % config.max_history,
                 available |-> e.available - n]
           u == SubSeq(text[s], 1, Len(text[s]) - n)
<1>1. /\ s \in Live /\ e \in Entries(config) /\ e.slot \in Slots
      /\ text[s] \in Seq(Tokens) /\ config.max_history \in Nat \ {0}
      /\ Exact(config, e, text[s], storage[e.slot])
  BY LiveEntry DEF PopN, SlotsExact
<1>2. n \in 0 .. e.available
  BY <1>1, BoundAssumption DEF PopN, Entries
<1>3. /\ f.slot = e.slot /\ f.history = (e.history - n) % config.max_history
      /\ f.available = e.available - n
      /\ f = [slot |-> f.slot, history |-> f.history, available |-> f.available]
  OBVIOUS
<1>4. seq_map' = [seq_map EXCEPT ![s] = f]
  BY DEF PopN, SlotsExact
<1>5. text' = [text EXCEPT ![s] = u] /\ logits' = [logits EXCEPT ![s] = NoLogits]
      /\ config' = config /\ storage' = storage
  BY DEF PopN
<1> HIDE DEF e, f, u
<1>6. /\ f.history \in 0 .. config.max_history - 1 /\ u \in Seq(Tokens)
      /\ Exact(config, f, u, storage[e.slot])
  BY <1>1, <1>2, <1>3, PopExact DEF u
<1>7. f \in Entries(config) /\ f # NoSeq
  <2>1. f.available \in 0 .. config.max_history - 1
    BY <1>1, <1>2, <1>3 DEF Entries
  <2>2. f \in Entries(config)
    BY <1>1, <1>3, <1>6, <2>1 DEF Entries, HistorySlots
  <2> QED BY <2>2, NoSeqIsNoEntry
<1>8. /\ seq_map' \in [Seqs -> Entries(config') \union {NoSeq}]
      /\ text' \in [Seqs -> Seq(Tokens)] /\ logits' = [t \in Seqs |-> logits'[t]]
  <2>1. seq_map' \in [Seqs -> Entries(config) \union {NoSeq}]
    BY <1>4, <1>7 DEF SlotsExact
  <2>2. text' \in [Seqs -> Seq(Tokens)]
    BY <1>5, <1>6 DEF SlotsExact
  <2>3. logits' = [t \in Seqs |-> logits'[t]]
    BY <1>5 DEF SlotsExact
  <2> QED BY <1>5, <2>1, <2>2, <2>3
<1>9. /\ seq_map'[s] = f /\ text'[s] = u /\ logits'[s] = NoLogits
      /\ \A t \in Seqs : t # s => /\ seq_map'[t] = seq_map[t] /\ text'[t] = text[t]
                                  /\ logits'[t] = logits[t]
  BY <1>4, <1>5 DEF SlotsExact
<1>10. Live' = Live
  BY <1>1, <1>7, <1>9 DEF Live
<1>11. \A t \in Live' : Exact(config', seq_map'[t], text'[t], storage'[seq_map'[t].slot])
  <2> SUFFICES ASSUME NEW t \in Live'
               PROVE  Exact(config', seq_map'[t], text'[t], storage'[seq_map'[t].slot])
    OBVIOUS
  <2>1. CASE t = s
    BY <1>3, <1>5, <1>6, <1>9, <2>1
  <2>2. CASE t # s
    BY <1>5, <1>9, <1>10, <2>2, LiveEntry DEF SlotsExact
  <2> QED BY <2>1, <2>2
<1>12. \A t \in Live' : seq_map'[t].slot = seq_map[t].slot
  BY <1>3, <1>9, <1>10, LiveEntry DEF e
<1>13. \A t \in Live' : logits'[t] # NoLogits => logits'[t] = text'[t]
  BY <1>9, <1>10, LiveEntry DEF SlotsExact
<1>14. \A t, v \in Live' : t # v => seq_map'[t].slot # seq_map'[v].slot
  BY <1>10, <1>12 DEF SlotsExact
<1>15. /\ config'.max_history \in Nat \ {0} /\ storage' = [m \in Slots |-> storage'[m]]
       /\ \A m \in Slots : storage'[m] \in Cells(config')
  BY <1>5 DEF SlotsExact
<1> QED BY <1>8, <1>11, <1>13, <1>14, <1>15 DEF SlotsExact

\* The history slot an entry is at holds the states of its whole text.
LEMMA ExactNow ==
  ASSUME NEW c, c.max_history \in Nat \ {0}, NEW e \in Entries(c), NEW t \in Seq(Tokens),
         NEW cells, Exact(c, e, t, cells)
  PROVE  e.history \in HistorySlots(c) /\ cells[e.history] = StatesOf(c, t)
<1>1. PICK h \in Nat \ {0}, at \in Nat, a \in Nat :
        /\ h = c.max_history /\ at = e.history /\ a = e.available /\ at \in 0 .. h - 1
        /\ HistorySlots(c) = 0 .. h - 1
  BY DEF Entries, HistorySlots
<1>2. (at - 0) % h = at
  <2>1. 0 \in 0 .. h - 1 /\ at \in 0 .. h - 1
    BY <1>1
  <2>2. (at - 0) % h = IF 0 <= at THEN at - 0 ELSE at - 0 + h
    BY <2>1, Ring
  <2> QED BY <2>2
<1>3. 0 \in 0 .. e.available
  BY <1>1
<1>4. cells[(at - 0) % h] = StatesOf(c, SubSeq(t, 1, Len(t) - 0))
  BY <1>1, <1>3 DEF Exact
<1>5. Len(t) - 0 = Len(t) /\ SubSeq(t, 1, Len(t)) = t
  BY SubSeqFull
<1> QED BY <1>1, <1>2, <1>4, <1>5

\* A call of the model on a batch writes the next history slot of each of its
\* sequences, and of no other.
LEMMA ForwardStep ==
  ASSUME CallsExact, SlotsExact, config # Rejected,
         \E raw \in RawConfigs : config = ParsedConfig(raw),
         NEW batch \in SUBSET Live, NEW input,
         \A s \in batch : input[s] \in Seq(Tokens) \ {<<>>}, Forward(batch, input)
  PROVE  SlotsExact'
<1> DEFINE cells(s) == storage[seq_map[s].slot]
           Res(s) == ForCasualLM(config, input[s], [at |-> seq_map[s].history, cells |-> cells(s)])
           SeqAt(slot) == {s \in batch : seq_map[s].slot = slot}
           grown(s) == text[s] \o input[s]
           nx(s) == NextHistory(config, seq_map[s].history)
           f(s) == EndForward(config, seq_map[s], Len(input[s]))
<1>1. /\ storage' = [slot \in Slots |-> IF SeqAt(slot) = {} THEN storage[slot]
                                        ELSE Res(CHOOSE s \in SeqAt(slot) : TRUE).state.cells]
      /\ logits' = [s \in Seqs |-> IF s \in batch THEN Res(s).logits ELSE logits[s]]
      /\ text' = [s \in Seqs |-> IF s \in batch THEN grown(s) ELSE text[s]]
      /\ seq_map' = [s \in Seqs |-> IF s \in batch THEN f(s) ELSE seq_map[s]]
      /\ config' = config
  BY DEF Forward
<1>2. ASSUME NEW s \in batch
      PROVE  /\ s \in Seqs /\ s \in Live /\ seq_map[s] \in Entries(config)
             /\ seq_map[s].slot \in Slots /\ text[s] \in Seq(Tokens)
             /\ config.max_history \in Nat \ {0} /\ cells(s) \in Cells(config)
             /\ Exact(config, seq_map[s], text[s], cells(s))
             /\ input[s] \in Seq(Tokens) \ {<<>>}
  BY LiveEntry DEF SlotsExact
<1>3. ASSUME NEW s \in batch
      PROVE  /\ Res(s).logits = grown(s)
             /\ Res(s).state.cells = [cells(s) EXCEPT ![nx(s)] = StatesOf(config, grown(s))]
  <2>1. /\ seq_map[s].history \in HistorySlots(config)
        /\ cells(s)[seq_map[s].history] = StatesOf(config, text[s])
    BY <1>2, ExactNow
  <2>2. CallExact(config, text[s], input[s], seq_map[s].history, cells(s))
    BY <1>2, <2>1, Zenon DEF CallsExact
  <2> QED BY <2>2 DEF CallExact
<1>4. ASSUME NEW s \in batch
      PROVE  /\ f(s) \in Entries(config) /\ f(s).slot = seq_map[s].slot
             /\ Exact(config, f(s), grown(s), Res(s).state.cells)
             /\ Res(s).state.cells \in Cells(config)
  <2>1. /\ f(s) \in Entries(config) /\ f(s).slot = seq_map[s].slot
        /\ Exact(config, f(s), grown(s), [cells(s) EXCEPT ![nx(s)] = StatesOf(config, grown(s))])
    <3>1. PICK e \in Entries(config), t \in Seq(Tokens), tokens \in Seq(Tokens) \ {<<>>} :
            e = seq_map[s] /\ t = text[s] /\ tokens = input[s]
      BY <1>2
    <3>2. Exact(config, e, t, cells(s)) /\ DOMAIN cells(s) = HistorySlots(config)
          /\ config.max_history \in Nat \ {0}
      BY <1>2, <3>1 DEF Cells
    <3>3. nx(s) = NextHistory(config, e.history)
      BY <3>1
    <3> HIDE DEF nx, cells
    <3>4. /\ EndForward(config, e, Len(tokens)) \in Entries(config)
          /\ EndForward(config, e, Len(tokens)).slot = e.slot
          /\ Exact(config, EndForward(config, e, Len(tokens)), t \o tokens,
                   [cells(s) EXCEPT ![nx(s)] = StatesOf(config, t \o tokens)])
      BY <3>2, <3>3, CallKeepsExact
    <3> QED BY <3>1, <3>4
  <2>2. Res(s).state.cells = [cells(s) EXCEPT ![nx(s)] = StatesOf(config, grown(s))]
    BY <1>3
  <2> HIDE DEF Res, f
  <2>3. Res(s).state.cells \in Cells(config)
    <3>1. grown(s) \in Seq(Tokens)
      BY <1>2, ConcatProperties
    <3>2. StatesOf(config, grown(s)) \in Rows(config)
      BY <3>1, StatesFit
    <3>3. PICK row \in Rows(config) : row = StatesOf(config, grown(s))
      BY <3>2
    <3>4. PICK cs \in Cells(config) : cs = cells(s)
      BY <1>2
    <3>5. [cs EXCEPT ![nx(s)] = row] \in Cells(config)
      <4> HIDE DEF nx
      <4> QED BY CellsSet
    <3> QED BY <2>2, <3>3, <3>4, <3>5
  <2> QED BY <1>2, <2>1, <2>2, <2>3
<1> HIDE DEF Res, f
<1>5. ASSUME NEW s \in batch PROVE storage'[seq_map[s].slot] = Res(s).state.cells
  <2>1. SeqAt(seq_map[s].slot) = {s}
    BY <1>2 DEF SlotsExact
  <2>2. (CHOOSE q \in SeqAt(seq_map[s].slot) : TRUE) = s
    BY <2>1
  <2> QED BY <1>1, <1>2, <2>1, <2>2
<1>6. ASSUME NEW t \in Live, t \notin batch PROVE storage'[seq_map[t].slot] = storage[seq_map[t].slot]
  <2>1. SeqAt(seq_map[t].slot) = {} /\ seq_map[t].slot \in Slots
    BY <1>6, LiveEntry DEF SlotsExact
  <2> QED BY <1>1, <2>1
<1>7. ASSUME NEW m \in Slots PROVE storage'[m] \in Cells(config')
  <2>1. CASE SeqAt(m) = {}
    BY <1>1, <2>1 DEF SlotsExact
  <2>2. CASE SeqAt(m) # {}
    <3>1. PICK s \in batch : seq_map[s].slot = m
      BY <2>2
    <3> QED BY <1>1, <1>4, <1>5, <3>1
  <2> QED BY <2>1, <2>2
<1>8. /\ \A s \in batch : seq_map'[s] = f(s) /\ text'[s] = grown(s) /\ logits'[s] = grown(s)
      /\ \A t \in Seqs \ batch : /\ seq_map'[t] = seq_map[t] /\ text'[t] = text[t]
                                 /\ logits'[t] = logits[t]
  BY <1>1, <1>2, <1>3
<1>9. /\ seq_map' \in [Seqs -> Entries(config') \union {NoSeq}]
      /\ text' \in [Seqs -> Seq(Tokens)]
      /\ logits' = [t \in Seqs |-> logits'[t]] /\ storage' = [m \in Slots |-> storage'[m]]
  <2>1. seq_map' \in [Seqs -> Entries(config) \union {NoSeq}]
    BY <1>1, <1>4 DEF SlotsExact
  <2>2. \A s \in batch : grown(s) \in Seq(Tokens)
    BY <1>2, ConcatProperties
  <2>3. text' \in [Seqs -> Seq(Tokens)]
    BY <1>1, <2>2 DEF SlotsExact
  <2>4. logits' = [t \in Seqs |-> logits'[t]] /\ storage' = [m \in Slots |-> storage'[m]]
    BY <1>1
  <2> QED BY <1>1, <2>1, <2>3, <2>4
<1>10. Live' = Live
  <2>1. ASSUME NEW s \in batch PROVE seq_map[s] # NoSeq /\ seq_map'[s] # NoSeq
    <3>1. seq_map[s] \in Entries(config) /\ f(s) \in Entries(config) /\ seq_map'[s] = f(s)
      BY <1>2, <1>4, <1>8
    <3> QED BY <3>1, NoSeqIsNoEntry
  <2>2. \A s \in Seqs : seq_map'[s] # NoSeq <=> seq_map[s] # NoSeq
    BY <1>8, <2>1
  <2> QED BY <2>2 DEF Live
<1>11. \A t \in Live' : Exact(config', seq_map'[t], text'[t], storage'[seq_map'[t].slot])
  <2> SUFFICES ASSUME NEW t \in Live
               PROVE  Exact(config, seq_map'[t], text'[t], storage'[seq_map'[t].slot])
    BY <1>1, <1>10
  <2>1. CASE t \in batch
    <3>1. seq_map'[t] = f(t) /\ text'[t] = grown(t) /\ f(t).slot = seq_map[t].slot
      BY <1>4, <1>8, <2>1
    <3>2. storage'[seq_map'[t].slot] = Res(t).state.cells
      BY <1>5, <2>1, <3>1
    <3> QED BY <1>4, <2>1, <3>1, <3>2
  <2>2. CASE t \notin batch
    <3>1. t \in Seqs
      BY LiveEntry
    <3>2. seq_map'[t] = seq_map[t] /\ text'[t] = text[t]
      BY <1>8, <2>2, <3>1
    <3>3. storage'[seq_map'[t].slot] = storage[seq_map[t].slot]
      BY <1>6, <2>2, <3>2
    <3>4. Exact(config, seq_map[t], text[t], storage[seq_map[t].slot])
      BY DEF SlotsExact
    <3> QED BY <3>2, <3>3, <3>4
  <2> QED BY <2>1, <2>2
<1>12. \A t \in Live' : seq_map'[t].slot = seq_map[t].slot
  BY <1>4, <1>8, <1>10, LiveEntry
<1>13. /\ \A t, v \in Live' : t # v => seq_map'[t].slot # seq_map'[v].slot
       /\ \A t \in Live' : logits'[t] # NoLogits => logits'[t] = text'[t]
       /\ config'.max_history \in Nat \ {0}
  <2>1. \A t, v \in Live : t # v => seq_map'[t].slot # seq_map'[v].slot
    BY <1>10, <1>12 DEF SlotsExact
  <2>2. \A t \in Live : logits'[t] # NoLogits => logits'[t] = text'[t]
    BY <1>8, LiveEntry DEF SlotsExact
  <2>3. config.max_history \in Nat \ {0}
    BY DEF SlotsExact
  <2> QED BY <1>1, <1>10, <2>1, <2>2, <2>3
<1> QED BY <1>7, <1>9, <1>11, <1>13 DEF SlotsExact

\* batch_prefill and prefill: one sequence, a chunk of tokens.
LEMMA PrefillStep ==
  ASSUME CallsExact, SlotsExact, config # Rejected,
         \E raw \in RawConfigs : config = ParsedConfig(raw), NEW s \in Seqs, BatchPrefill(s)
  PROVE  SlotsExact'
<1>0. PICK n \in 1 .. MaxChunk : \E chunk \in [1 .. n -> Tokens] :
        s \in Live /\ Forward({s}, [q \in {s} |-> chunk])
  BY DEF BatchPrefill
<1>1. PICK chunk \in [1 .. n -> Tokens] : s \in Live /\ Forward({s}, [q \in {s} |-> chunk])
  BY <1>0
<1>2. chunk \in Seq(Tokens) \ {<<>>}
  <2>1. n \in Nat /\ n >= 1
    BY BoundAssumption
  <2>2. chunk \in Seq(Tokens) /\ Len(chunk) = n
    BY <2>1
  <2> QED BY <2>1, <2>2
<1>3. \A t \in {s} : [q \in {s} |-> chunk][t] \in Seq(Tokens) \ {<<>>}
  BY <1>2
<1>4. {s} \in SUBSET Live
  BY <1>1
<1> QED BY <1>1, <1>3, <1>4, ForwardStep

\* batch_decode and decode: one token for each sequence of the batch.
LEMMA DecodeStep ==
  ASSUME CallsExact, SlotsExact, config # Rejected,
         \E raw \in RawConfigs : config = ParsedConfig(raw), NEW batch \in SUBSET Seqs,
         BatchDecode(batch)
  PROVE  SlotsExact'
<1>1. PICK next \in [batch -> Tokens] :
        batch \subseteq Live /\ Forward(batch, [s \in batch |-> <<next[s]>>])
  BY DEF BatchDecode
<1>2. \A t \in batch : [s \in batch |-> <<next[s]>>][t] \in Seq(Tokens) \ {<<>>}
  <2> SUFFICES ASSUME NEW t \in batch PROVE <<next[t]>> \in Seq(Tokens) \ {<<>>}
    OBVIOUS
  <2>1. next[t] \in Tokens
    OBVIOUS
  <2> QED BY <2>1
<1> QED BY <1>1, <1>2, ForwardStep

\* Every step keeps the invariant; a rejected configuration compiles no model
\* and so has no sequence.
LEMMA NextIInv == ASSUME CallsExact, IInv, [Next]_vars PROVE IInv'
<1>1. CASE UNCHANGED vars
  BY <1>1 DEF IInv, vars, SlotsExact, Live
<1>2. CASE Next
  <2>1. config' = config /\ \E raw \in RawConfigs : config = ParsedConfig(raw)
    BY <1>2 DEF IInv, Next, AddSequence, RemoveSequence, BatchPrefill, ForkSequence, PopN,
                BatchDecode, Forward
  <2>2. config # Rejected /\ SlotsExact
    <3> SUFFICES ASSUME config = Rejected, Live = {} PROVE FALSE
      BY DEF IInv
    <3> QED BY <1>2 DEF Next, AddSequence, RemoveSequence, BatchPrefill, ForkSequence, PopN,
                        BatchDecode
  <2>3. SlotsExact'
    <3>1. ASSUME NEW s \in Seqs, AddSequence(s) PROVE SlotsExact'
      BY <2>2, <3>1, AddStep
    <3>2. ASSUME NEW s \in Seqs, RemoveSequence(s) PROVE SlotsExact'
      BY <2>2, <3>2, RemoveStep
    <3>3. ASSUME NEW s \in Seqs, BatchPrefill(s) PROVE SlotsExact'
      BY <2>1, <2>2, <3>3, PrefillStep
    <3>4. ASSUME NEW s \in Seqs, NEW t \in Seqs, ForkSequence(s, t) PROVE SlotsExact'
      BY <2>2, <3>4, ForkStep
    <3>5. ASSUME NEW s \in Seqs, NEW n \in 1 .. MaxLen, PopN(s, n) PROVE SlotsExact'
      BY <2>2, <3>5, PopStep
    <3>6. ASSUME NEW batch \in SUBSET Seqs, BatchDecode(batch) PROVE SlotsExact'
      BY <2>1, <2>2, <3>6, DecodeStep
    <3> QED BY <1>2, <3>1, <3>2, <3>3, <3>4, <3>5, <3>6 DEF Next
  <2> QED BY <2>1, <2>2, <2>3 DEF IInv
<1> QED BY <1>1, <1>2

\* The invariant gives both properties.
LEMMA IInvImplies == IInv => LogitsOfText /\ RollbackExact
<1> SUFFICES ASSUME IInv, NEW s \in Live
             PROVE  /\ logits[s] # NoLogits => logits[s] = text[s]
                    /\ \A n \in 0 .. seq_map[s].available :
                         storage[seq_map[s].slot][(seq_map[s].history - n) % config.max_history]
                           = StatesOf(config, SubSeq(text[s], 1, Len(text[s]) - n))
  BY DEF LogitsOfText, RollbackExact
<1>1. SlotsExact
  BY DEF IInv
<1> QED BY <1>1 DEF SlotsExact, Exact

=============================================================================

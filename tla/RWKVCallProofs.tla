-------------------------- MODULE RWKVCallProofs ----------------------------
(***************************************************************************)
(* What one call of an RWKV model computes, for every number of layers and *)
(* tokens, and with it the history of the states without any hypothesis.   *)
(*                                                                         *)
(* The loop over the layers is a fold, and its result is found by          *)
(* induction over the layers; within a layer the recurrence is found by    *)
(* induction over the tokens of the call.                                  *)
(***************************************************************************)
EXTENDS RWKVProofs

\* The values of a call as a tuple are the values.
LEMMA TupleIs ==
  ASSUME NEW n \in Nat, NEW f, f = [i \in 1 .. n |-> f[i]]
  PROVE  Tuple(f) = f /\ DOMAIN f = 1 .. n /\ Len(f) = n
<1>1. DOMAIN f = 1 .. n /\ Len(f) = n
  BY SMT
<1>2. SubSeq(f, 1, n) = [i \in 1 .. n |-> f[i]]
  BY <1>1, SMT
<1> QED BY <1>1, <1>2 DEF Tuple

\* grown[i] is the text p with the first i tokens of a call.
Grown(grown, p, tokens) ==
  /\ grown[0] = p /\ grown[Len(tokens)] = p \o tokens
  /\ \A i \in 0 .. Len(tokens) : grown[i] \in Seq(Tokens) /\ grown[i] # Wrong
  /\ \A i \in 1 .. Len(tokens) :
       /\ grown[i] # <<>> /\ grown[i] = Append(grown[i - 1], tokens[i])
       /\ Last(grown[i]) = tokens[i] /\ Front(grown[i]) = grown[i - 1]

\* The texts a call goes through, one token after the other.
LEMMA GrownText ==
  ASSUME NEW p \in Seq(Tokens), NEW tokens \in Seq(Tokens)
  PROVE  \E grown : Grown(grown, p, tokens)
<1> DEFINE n == Len(tokens)
           g == [i \in 0 .. n |-> p \o SubSeq(tokens, 1, i)]
<1>0. n \in Nat
  BY LenProperties
<1>1. g[0] = p
  <2>1. SubSeq(tokens, 1, 0) = <<>>
    BY SubSeqEmpty
  <2>2. p \o <<>> = p
    BY ConcatEmptySeq
  <2> QED BY <1>0, <2>1, <2>2
<1>2. g[n] = p \o tokens
  <2>1. SubSeq(tokens, 1, n) = tokens
    BY SubSeqFull
  <2> QED BY <1>0, <2>1
<1>3. ASSUME NEW i \in 0 .. n PROVE g[i] \in Seq(Tokens) /\ g[i] # Wrong
  <2>1. SubSeq(tokens, 1, i) \in Seq(Tokens)
    BY <1>0, SubSeqProperties
  <2>2. g[i] \in Seq(Tokens)
    BY <2>1, ConcatProperties
  <2>3. Wrong \notin Seq(Tokens)
    <3> SUFFICES ASSUME Wrong \in Seq(Tokens) PROVE FALSE
      OBVIOUS
    <3>1. Wrong[1] = "wrong" /\ 1 \in 1 .. Len(Wrong)
      BY DEF Wrong
    <3>2. Wrong[1] \in Tokens
      BY <3>1, ElementOfSeq
    <3> QED BY <3>1, <3>2, TokenAssumption
  <2> QED BY Zenon, <2>2, <2>3
<1>4. ASSUME NEW i \in 1 .. n
      PROVE  /\ g[i] # <<>> /\ g[i] = Append(g[i - 1], tokens[i])
             /\ Last(g[i]) = tokens[i] /\ Front(g[i]) = g[i - 1]
  <2>1. i - 1 \in 0 .. n /\ i \in 0 .. n
    BY <1>0
  <2>2. PICK a \in Seq(Tokens) : a = g[i - 1]
    BY Zenon, <1>3, <2>1
  <2>3. tokens[i] \in Tokens
    BY <1>0, ElementOfSeq
  <2>4. SubSeq(tokens, 1, i) = Append(SubSeq(tokens, 1, i - 1), tokens[i])
    BY <1>0, SMT
  <2>5. SubSeq(tokens, 1, i - 1) \in Seq(Tokens)
    BY <1>0, <2>1, SubSeqProperties
  <2>6. PICK u \in Seq(Tokens) : u = SubSeq(tokens, 1, i - 1)
    BY Zenon, <2>5
  <2>7. p \o Append(u, tokens[i]) = Append(p \o u, tokens[i])
    BY <2>3, SMT
  <2>8. g[i] = Append(a, tokens[i])
    BY <2>1, <2>2, <2>4, <2>6, <2>7
  <2>9. Append(a, tokens[i]) # <<>> /\ Last(Append(a, tokens[i])) = tokens[i]
    BY <2>3, AppendProperties DEF Last
  <2>10. Front(Append(a, tokens[i])) = a
    <3>1. PICK b \in Seq(Tokens) : b = Append(a, tokens[i]) /\ Len(b) = Len(a) + 1
      BY Zenon, <2>3, AppendProperties
    <3>2. SubSeq(b, 1, Len(a)) = a
      BY <2>3, <3>1, SMT
    <3>3. Front(b) = SubSeq(b, 1, Len(a))
      BY <3>1, LenProperties DEF Front
    <3> QED BY <3>1, <3>2, <3>3
  <2> QED BY Zenon, <2>2, <2>8, <2>9, <2>10
<1> HIDE DEF g
<1> QED BY Zenon, <1>1, <1>2, <1>3, <1>4 DEF Grown

\* One token later: the recurrence absorbs the next token of the text.
LEMMA AbsorbNext ==
  ASSUME NEW p, NEW tokens, NEW grown, Grown(grown, p, tokens), NEW l \in Nat,
         NEW i \in 1 .. Len(tokens), Len(tokens) \in Nat
  PROVE  Absorb(l, grown[i - 1], Own(l, grown[i]), Own(l, grown[i - 1])) = grown[i]
<1>1. /\ grown[i - 1] # Wrong /\ grown[i] # <<>> /\ grown[i] = Append(grown[i - 1], tokens[i])
      /\ Last(grown[i]) = tokens[i]
  <2>1. i - 1 \in 0 .. Len(tokens)
    OBVIOUS
  <2> QED BY <2>1 DEF Grown
<1>2. Last(Own(l, grown[i])) = tokens[i]
  <2>1. CASE l = 0
    <3>1. Own(l, grown[i]) = <<tokens[i]>>
      BY <1>1, <2>1 DEF Own
    <3> QED BY <3>1 DEF Last
  <2>2. CASE l # 0
    BY <1>1, <2>2 DEF Own
  <2> QED BY <2>1, <2>2
<1> QED BY <1>1, <1>2, Zenon DEF Absorb

\* What the tensors of a layer hold for each token of a call.
Owns(l, grown, n) == [i \in 1 .. n |-> Own(l, grown[i])]
Before(l, grown, n) == [i \in 1 .. n |-> Own(l, grown[i - 1])]
Texts(grown, n) == [i \in 1 .. n |-> grown[i]]

\* new is old with another value v of one state of layer l, in history slot nx.
Wrote(c, old, new, nx, l, id, v) ==
  /\ new \in Cells(c)
  /\ \A h \in HistorySlots(c), k \in LayersOf(c), i \in StateID :
       new[h][k][i] = IF h = nx /\ k = l /\ i = id THEN v ELSE old[h][k][i]

\* A layer's set function writes one state, in the next slot.
LEMMA SetOne ==
  ASSUME NEW c, NEW cells \in Cells(c), NEW at, NEW nx \in HistorySlots(c), nx = NextHistory(c, at),
         NEW l \in LayersOf(c), NEW id \in StateID, NEW v \in Seq(Tokens), NEW st,
         st = [at |-> at, cells |-> cells]
  PROVE  \E new : /\ Wrote(c, cells, new, nx, l, id, v)
                  /\ StateSet(c, st, l, id, v) = [at |-> at, cells |-> new]
<1> DEFINE new == [cells EXCEPT ![nx][l][id] = v]
<1>1. StateSet(c, st, l, id, v) = [at |-> at, cells |-> new]
  BY DEF StateSet
<1>2. new \in Cells(c)
  BY DEF Cells
<1>3. \A h \in HistorySlots(c), k \in LayersOf(c), i \in StateID :
        new[h][k][i] = IF h = nx /\ k = l /\ i = id THEN v ELSE cells[h][k][i]
  BY DEF Cells
<1> QED BY Zenon, <1>1, <1>2, <1>3 DEF Wrote

\* The three writes of a layer.
LEMMA SetAll ==
  ASSUME NEW c, NEW cells \in Cells(c), NEW at, NEW nx \in HistorySlots(c), nx = NextHistory(c, at),
         NEW l \in LayersOf(c), NEW x \in Seq(Tokens), NEW kv \in Seq(Tokens), NEW y \in Seq(Tokens)
  PROVE  LET s1 == StateSet(c, [at |-> at, cells |-> cells], l, "ATT_X", x)
             s2 == StateSet(c, s1, l, "ATT_KV", kv)
             s3 == StateSet(c, s2, l, "FFN_X", y)
         IN  /\ at \in HistorySlots(c) => StateGet(s2, l, "FFN_X") = cells[at][l]["FFN_X"]
             /\ s3 = [at |-> at, cells |-> [cells EXCEPT ![nx][l] =
                       [id \in StateID |-> IF id = "ATT_X" THEN x
                                           ELSE IF id = "ATT_KV" THEN kv ELSE y]]]
<1> DEFINE s1 == StateSet(c, [at |-> at, cells |-> cells], l, "ATT_X", x)
           s2 == StateSet(c, s1, l, "ATT_KV", kv)
           s3 == StateSet(c, s2, l, "FFN_X", y)
           vals == [id \in StateID |-> IF id = "ATT_X" THEN x ELSE IF id = "ATT_KV" THEN kv ELSE y]
           all == [cells EXCEPT ![nx][l] = vals]
<1>0. "ATT_X" \in StateID /\ "ATT_KV" \in StateID /\ "FFN_X" \in StateID
  BY DEF StateID
<1>1. PICK c1 : Wrote(c, cells, c1, nx, l, "ATT_X", x) /\ s1 = [at |-> at, cells |-> c1]
  BY <1>0, SetOne, SMT
<1> HIDE DEF s1
<1>2. PICK c2 : Wrote(c, c1, c2, nx, l, "ATT_KV", kv) /\ s2 = [at |-> at, cells |-> c2]
  <2>1. c1 \in Cells(c)
    BY <1>1 DEF Wrote
  <2>2. s2 = StateSet(c, [at |-> at, cells |-> c1], l, "ATT_KV", kv)
    BY <1>1
  <2>3. \E new : /\ Wrote(c, c1, new, nx, l, "ATT_KV", kv)
                 /\ StateSet(c, [at |-> at, cells |-> c1], l, "ATT_KV", kv)
                      = [at |-> at, cells |-> new]
    BY <1>0, <2>1, SetOne, SMT
  <2> QED BY <2>2, <2>3
<1> HIDE DEF s2
<1>3. PICK c3 : Wrote(c, c2, c3, nx, l, "FFN_X", y) /\ s3 = [at |-> at, cells |-> c3]
  <2>1. c2 \in Cells(c)
    BY <1>2 DEF Wrote
  <2>2. s3 = StateSet(c, [at |-> at, cells |-> c2], l, "FFN_X", y)
    BY <1>2
  <2>3. \E new : /\ Wrote(c, c2, new, nx, l, "FFN_X", y)
                 /\ StateSet(c, [at |-> at, cells |-> c2], l, "FFN_X", y)
                      = [at |-> at, cells |-> new]
    BY <1>0, <2>1, SetOne, SMT
  <2> QED BY <2>2, <2>3
<1> HIDE DEF s3
<1>4. at \in HistorySlots(c) => StateGet(s2, l, "FFN_X") = cells[at][l]["FFN_X"]
  <2>1. at \in HistorySlots(c) => c2[at][l]["FFN_X"] = cells[at][l]["FFN_X"]
    BY <1>0, <1>1, <1>2 DEF Wrote
  <2>2. StateGet(s2, l, "FFN_X") = c2[at][l]["FFN_X"]
    BY <1>2 DEF StateGet
  <2> QED BY <2>1, <2>2
<1>5. all \in Cells(c)
  <2>1. vals \in [StateID -> Seq(Tokens)]
    OBVIOUS
  <2> HIDE DEF vals
  <2> QED BY <2>1 DEF Cells
<1>6. ASSUME NEW h \in HistorySlots(c), NEW k \in LayersOf(c), NEW i \in StateID
      PROVE  c3[h][k][i] = all[h][k][i]
  <2>1. all[h][k][i] = IF h = nx /\ k = l THEN vals[i] ELSE cells[h][k][i]
    <3> HIDE DEF vals
    <3> QED BY DEF Cells
  <2>2. c3[h][k][i] = IF h = nx /\ k = l THEN vals[i] ELSE cells[h][k][i]
    BY <1>0, <1>1, <1>2, <1>3 DEF Wrote, StateID
  <2> QED BY <2>1, <2>2
<1> HIDE DEF all
<1>7. c3 = all
  <2>1. ASSUME NEW h \in HistorySlots(c) PROVE c3[h] = all[h]
    <3>1. c3[h] \in [LayersOf(c) -> [StateID -> Seq(Tokens)]] /\ all[h] \in [LayersOf(c) -> [StateID -> Seq(Tokens)]]
      BY <1>3, <1>5 DEF Cells, Wrote
    <3>2. ASSUME NEW k \in LayersOf(c) PROVE c3[h][k] = all[h][k]
      <4>1. c3[h][k] \in [StateID -> Seq(Tokens)] /\ all[h][k] \in [StateID -> Seq(Tokens)]
        BY <3>1
      <4> QED BY <1>6, <4>1
    <3> QED BY <3>1, <3>2
  <2> QED BY <1>3, <1>5, <2>1 DEF Cells, Wrote
<1> QED BY <1>3, <1>4, <1>7 DEF s1, s2, s3, all

Mid(grown, n, exp) == [i \in 1 .. n |-> [of |-> grown[i], exp |-> exp]]
Stream(c, l, grown, n) == [i \in 1 .. n |-> [of |-> Own(l, grown[i]), exp |-> RWKV5Loader(c, l)]]

\* The facts about tuples that a layer needs.
LEMMA Streams ==
  ASSUME NEW n \in Nat \ {0}, NEW grown, NEW l \in Nat, NEW c
  PROVE  /\ Norm(Stream(c, l, grown, n)) = Owns(l, grown, n)
         /\ Norm(Mid(grown, n, RWKV5Loader(c, l))) = Texts(grown, n)
         /\ TokenShift(Own(l, grown[0]), Owns(l, grown, n)) = Before(l, grown, n)
         /\ LastToken(Owns(l, grown, n)) = Own(l, grown[n])
         /\ LastToken(Texts(grown, n)) = grown[n]
         /\ Add(l, Stream(c, l, grown, n), Texts(grown, n), RWKV5Loader(c, l)) = Mid(grown, n, RWKV5Loader(c, l))
         /\ Add(l, Mid(grown, n, RWKV5Loader(c, l)), Texts(grown, n), RWKV5Loader(c, l)) = Mid(grown, n, RWKV5Loader(c, l))
<1> DEFINE exp == RWKV5Loader(c, l)
<1>0. ASSUME NEW f, f = [i \in 1 .. n |-> f[i]] PROVE Tuple(f) = f
  BY <1>0, TupleIs
<1>1. Norm(Stream(c, l, grown, n)) = Owns(l, grown, n)
  <2>1. [i \in DOMAIN Stream(c, l, grown, n) |-> Stream(c, l, grown, n)[i].of] = Owns(l, grown, n)
    BY DEF Stream, Owns
  <2>2. Tuple(Owns(l, grown, n)) = Owns(l, grown, n)
    BY <1>0 DEF Owns
  <2> QED BY <2>1, <2>2 DEF Norm
<1>2. Norm(Mid(grown, n, exp)) = Texts(grown, n)
  <2>1. [i \in DOMAIN Mid(grown, n, exp) |-> Mid(grown, n, exp)[i].of] = Texts(grown, n)
    BY DEF Mid, Texts
  <2>2. Tuple(Texts(grown, n)) = Texts(grown, n)
    BY <1>0 DEF Texts
  <2> QED BY <2>1, <2>2 DEF Norm
<1>3. TokenShift(Own(l, grown[0]), Owns(l, grown, n)) = Before(l, grown, n)
  <2>1. [i \in DOMAIN Owns(l, grown, n) |->
           IF i = 1 THEN Own(l, grown[0]) ELSE Owns(l, grown, n)[i - 1]] = Before(l, grown, n)
    <3>1. ASSUME NEW i \in 1 .. n, i # 1 PROVE Owns(l, grown, n)[i - 1] = Own(l, grown[i - 1])
      BY <3>1 DEF Owns
    <3>2. DOMAIN Owns(l, grown, n) = 1 .. n
      BY DEF Owns
    <3> QED BY <3>1, <3>2 DEF Before
  <2>2. Tuple(Before(l, grown, n)) = Before(l, grown, n)
    BY <1>0 DEF Before
  <2> QED BY <2>1, <2>2 DEF TokenShift
<1>4. LastToken(Owns(l, grown, n)) = Own(l, grown[n])
  BY DEF LastToken, Last, Owns
<1>5. LastToken(Texts(grown, n)) = grown[n]
  BY DEF LastToken, Last, Texts
<1>6. Tuple(Mid(grown, n, exp)) = Mid(grown, n, exp)
  BY <1>0 DEF Mid
<1>7. Add(l, Stream(c, l, grown, n), Texts(grown, n), exp) = Mid(grown, n, exp)
  <2> DEFINE x == Stream(c, l, grown, n)
             y == Texts(grown, n)
  <2>1. [i \in DOMAIN x |->
           IF x[i].exp = exp /\ x[i].of \in {y[i], Own(l, y[i])}
           THEN [of |-> y[i], exp |-> exp] ELSE [of |-> Wrong, exp |-> exp]] = Mid(grown, n, exp)
    <3>1. DOMAIN x = 1 .. n
      BY DEF Stream
    <3>2. ASSUME NEW i \in 1 .. n
          PROVE  x[i].exp = exp /\ x[i].of = Own(l, y[i]) /\ y[i] = grown[i]
      BY DEF Stream, Texts
    <3> HIDE DEF x, y
    <3> QED BY <3>1, <3>2 DEF Mid
  <2> QED BY <1>6, <2>1 DEF Add
<1>8. Add(l, Mid(grown, n, exp), Texts(grown, n), exp) = Mid(grown, n, exp)
  <2> DEFINE x == Mid(grown, n, exp)
             y == Texts(grown, n)
  <2>1. [i \in DOMAIN x |->
           IF x[i].exp = exp /\ x[i].of \in {y[i], Own(l, y[i])}
           THEN [of |-> y[i], exp |-> exp] ELSE [of |-> Wrong, exp |-> exp]] = Mid(grown, n, exp)
    <3>1. DOMAIN x = 1 .. n
      BY DEF Mid
    <3>2. ASSUME NEW i \in 1 .. n
          PROVE  x[i].exp = exp /\ x[i].of = y[i] /\ y[i] = grown[i]
      BY DEF Mid, Texts
    <3> HIDE DEF x, y
    <3> QED BY <3>1, <3>2 DEF Mid
  <2> QED BY <1>6, <2>1 DEF Add
<1> QED BY <1>1, <1>2, <1>3, <1>4, <1>5, <1>7, <1>8

\* The stream after a layer is the one the next layer expects.
LEMMA NextStream ==
  ASSUME NEW n \in Nat, NEW grown, NEW l \in Nat, NEW c, c.rescale_every \in Int
  PROVE  (IF Rescales(c, l) THEN Halve(Mid(grown, n, RWKV5Loader(c, l)))
          ELSE Mid(grown, n, RWKV5Loader(c, l))) = Stream(c, l + 1, grown, n)
<1>1. PICK e \in Nat : e = RWKV5Loader(c, l)
  BY SMT DEF RWKV5Loader
<1>2. RWKV5Loader(c, l + 1) = e + (IF Rescales(c, l) THEN 1 ELSE 0)
  BY <1>1, LoaderCountsHalvings
<1>3. \A q : Own(l + 1, q) = q
  BY DEF Own
<1>4. Halve(Mid(grown, n, e)) = Mid(grown, n, e + 1)
  <2>1. [i \in DOMAIN Mid(grown, n, e) |-> [Mid(grown, n, e)[i] EXCEPT !.exp = @ + 1]]
          = Mid(grown, n, e + 1)
    BY DEF Mid
  <2>2. Tuple(Mid(grown, n, e + 1)) = Mid(grown, n, e + 1)
    <3>1. Mid(grown, n, e + 1) = [i \in 1 .. n |-> Mid(grown, n, e + 1)[i]]
      BY DEF Mid
    <3> QED BY <3>1, TupleIs
  <2> QED BY <2>1, <2>2 DEF Halve
<1>5. Stream(c, l + 1, grown, n) = Mid(grown, n, RWKV5Loader(c, l + 1))
  BY <1>3 DEF Stream, Mid
<1> QED BY <1>1, <1>2, <1>4, <1>5

\* Both channel mixes keep the texts, and set the state they read.
LEMMA ChannelExact ==
  ASSUME NEW p, NEW tokens, NEW grown, Grown(grown, p, tokens), NEW n \in Nat \ {0},
         n = Len(tokens), NEW c, NEW l \in Nat, NEW st, StateGet(st, l, "FFN_X") = p
  PROVE  LET res == [out |-> Texts(grown, n), state |-> StateSet(c, st, l, "FFN_X", grown[n])]
         IN  /\ RWKV5_FNN(c, l, Texts(grown, n), st) = res
             /\ RWKV6_FNN(c, l, Texts(grown, n), st) = res
<1> DEFINE x == Texts(grown, n)
           sh == [i \in 1 .. n |-> grown[i - 1]]
<1>1. DOMAIN x = 1 .. n /\ \A i \in 1 .. n : x[i] = grown[i]
  BY DEF Texts
<1>2. TokenShift(p, x) = sh
  <2>1. [i \in DOMAIN x |-> IF i = 1 THEN p ELSE x[i - 1]] = sh
    <3>1. ASSUME NEW i \in 1 .. n PROVE (IF i = 1 THEN p ELSE x[i - 1]) = grown[i - 1]
      <4>1. CASE i = 1
        BY <4>1 DEF Grown
      <4>2. CASE i # 1
        BY <1>1, <4>2
      <4> QED BY <4>1, <4>2
    <3> HIDE DEF x
    <3> QED BY <1>1, <3>1
  <2>2. Tuple(sh) = sh
    BY TupleIs
  <2> HIDE DEF sh, x
  <2> QED BY <2>1, <2>2 DEF TokenShift
<1>3. ASSUME NEW i \in 1 .. n PROVE ChannelMixed(x[i], sh[i]) = grown[i]
  <2>1. grown[i] # Wrong /\ Front(grown[i]) = grown[i - 1]
    BY DEF Grown
  <2> QED BY <1>1, <2>1 DEF ChannelMixed
<1>4. [i \in DOMAIN x |-> ChannelMixed(x[i], sh[i])] = x
  <2> HIDE DEF x, sh
  <2>1. x = [i \in 1 .. n |-> grown[i]]
    BY DEF x, Texts
  <2> QED BY <1>1, <1>3, <2>1
<1>5. Tuple(x) = x /\ LastToken(x) = grown[n]
  <2>1. Tuple(x) = x
    BY TupleIs DEF Texts
  <2>2. LastToken(x) = grown[n]
    BY DEF LastToken, Last, Texts
  <2> QED BY <2>1, <2>2
<1> HIDE DEF x, sh
<1>6. RWKV5_FNN(c, l, x, st) = [out |-> x, state |-> StateSet(c, st, l, "FFN_X", grown[n])]
  BY <1>2, <1>4, <1>5 DEF RWKV5_FNN
<1> QED BY <1>6 DEF RWKV6_FNN, x

\* The storage of a slot after layer l has set all its states in history slot nx.
LayerSet(cells, nx, l, states) == [cells EXCEPT ![nx][l] = states]

\* The slot's part of the storage when the first k layers have set their states.
Stored(c, cells, nx, q, k) ==
  [cells EXCEPT ![nx] = [j \in LayersOf(c) |-> IF j < k THEN StatesOf(c, q)[j] ELSE cells[nx][j]]]

\* The next layer still finds the states it reads, and adds its own.
LEMMA StoredNext ==
  ASSUME NEW c, c.num_hidden_layers \in Nat, NEW cells \in Cells(c), NEW at \in HistorySlots(c),
         NEW nx \in HistorySlots(c), NEW q \in Seq(Tokens), NEW k \in LayersOf(c)
  PROVE  /\ Stored(c, cells, nx, q, k) \in Cells(c)
         /\ Stored(c, cells, nx, q, k)[at][k] = cells[at][k]
         /\ LayerSet(Stored(c, cells, nx, q, k), nx, k, StatesOf(c, q)[k])
              = Stored(c, cells, nx, q, k + 1)
<1> DEFINE Row(i) == [j \in LayersOf(c) |-> IF j < i THEN StatesOf(c, q)[j] ELSE cells[nx][j]]
           s == Stored(c, cells, nx, q, k)
<1>0. LayersOf(c) \subseteq Nat /\ k \in Nat /\ cells[nx] \in [LayersOf(c) -> [StateID -> Seq(Tokens)]]
  BY DEF LayersOf, Cells
<1>1. ASSUME NEW i PROVE Row(i) \in [LayersOf(c) -> [StateID -> Seq(Tokens)]]
  BY <1>0, StatesFit DEF Rows
<1>2. [Row(k) EXCEPT ![k] = StatesOf(c, q)[k]] = Row(k + 1)
  <2>1. \A j \in LayersOf(c) : (j < k + 1) = (j < k \/ j = k)
    BY <1>0
  <2>2. ASSUME NEW j \in LayersOf(c)
        PROVE  [Row(k) EXCEPT ![k] = StatesOf(c, q)[k]][j] = Row(k + 1)[j]
    <3>1. CASE j = k
      BY <2>1, <3>1
    <3>2. CASE j # k
      BY <2>1, <3>2
    <3> QED BY <3>1, <3>2
  <2>3. /\ [Row(k) EXCEPT ![k] = StatesOf(c, q)[k]]
             = [j \in LayersOf(c) |-> [Row(k) EXCEPT ![k] = StatesOf(c, q)[k]][j]]
        /\ Row(k + 1) = [j \in LayersOf(c) |-> Row(k + 1)[j]]
    BY Zenon
  <2> HIDE DEF Row
  <2> QED BY <2>2, <2>3
<1>3. Row(k)[k] = cells[nx][k]
  BY SMTT(20), <1>0
<1>4. \A i : Stored(c, cells, nx, q, i) = [cells EXCEPT ![nx] = Row(i)]
  BY DEF Stored
<1> HIDE DEF Row
<1>5. s \in Cells(c)
  <2>1. s = [cells EXCEPT ![nx] = Row(k)]
    BY <1>4
  <2> HIDE DEF s
  <2> QED BY <1>1, <2>1 DEF Cells
<1>6. s[at][k] = cells[at][k]
  BY Zenon, <1>3, <1>4 DEF Cells
<1>7. [s EXCEPT ![nx][k] = StatesOf(c, q)[k]] = Stored(c, cells, nx, q, k + 1)
  <2>1. s[nx] = Row(k)
    BY <1>4 DEF Cells
  <2>2. [s EXCEPT ![nx][k] = StatesOf(c, q)[k]] = [s EXCEPT ![nx] = Row(k + 1)]
    BY Zenon, <1>2, <2>1
  <2>3. [s EXCEPT ![nx] = Row(k + 1)] = [cells EXCEPT ![nx] = Row(k + 1)]
    BY Zenon, <1>4 DEF Cells
  <2> QED BY <1>4, <2>2, <2>3
<1> QED BY <1>5, <1>6, <1>7 DEF LayerSet

\* The loops over the layers, of RWKV5_Model and of RWKV6_Model.
Step5(c, a, l) == RWKV5_Layer(c, l, a.x, a.state)
Step6(c, a, l) == RWKV6_Layer(c, l, a.x, a.state)
Fold5 == INSTANCE FoldFacts WITH Op <- Step5

\* The states wkv5 and wkv6 compute when the operands of each token are its own.
Recurrence(l, p, grown, n) ==
  CHOOSE kv : kv = [i \in 0 .. n |-> IF i = 0 THEN p
                      ELSE Absorb(l, kv[i - 1], Own(l, grown[i]), Own(l, grown[i - 1]))]

\* The states of the recurrence are the texts, from the state of p.
LEMMA RecurrenceStates ==
  ASSUME NEW p, NEW tokens, NEW grown, Grown(grown, p, tokens), NEW l \in Nat, NEW n \in Nat,
         n = Len(tokens)
  PROVE  \A i \in 0 .. n : Recurrence(l, p, grown, n)[i] = grown[i]
<1>0. PICK kv : kv = Recurrence(l, p, grown, n)
  OBVIOUS
<1> DEFINE Chosen(f) == f = [i \in 0 .. n |-> IF i = 0 THEN p
                               ELSE Absorb(l, f[i - 1], Own(l, grown[i]), Own(l, grown[i - 1]))]
           g == [i \in 0 .. n |-> grown[i]]
<1>1. Chosen(g)
  <2>1. g[0] = p
    BY DEF Grown
  <2>2. ASSUME NEW i \in 1 .. n
        PROVE  g[i] = Absorb(l, g[i - 1], Own(l, grown[i]), Own(l, grown[i - 1]))
    <3>1. g[i - 1] = grown[i - 1] /\ g[i] = grown[i]
      OBVIOUS
    <3> QED BY <3>1, AbsorbNext
  <2>3. g = [i \in 0 .. n |-> g[i]]
    OBVIOUS
  <2>4. \A i \in 0 .. n : i # 0 => i \in 1 .. n
    OBVIOUS
  <2> HIDE DEF g
  <2> QED BY Zenon, <2>1, <2>2, <2>3, <2>4
<1>2. kv = CHOOSE f : Chosen(f)
  BY <1>0, Zenon DEF Recurrence
<1> HIDE DEF Chosen
<1>3. Chosen(kv)
  BY <1>1, <1>2, Zenon
<1> DEFINE T == {i \in Nat : i \in 0 .. n => kv[i] = grown[i]}
<1>4. 0 \in T
  <2>1. kv[0] = p
    BY <1>3 DEF Chosen
  <2> QED BY <2>1 DEF Grown
<1>5. ASSUME NEW i \in T PROVE i + 1 \in T
  <2>1. CASE i + 1 \in 0 .. n
    <3>1. i \in 0 .. n /\ i + 1 # 0 /\ (i + 1) - 1 = i /\ i + 1 \in 1 .. n
      BY <2>1
    <3>2. kv[i + 1] = Absorb(l, kv[i], Own(l, grown[i + 1]), Own(l, grown[i]))
      <4>1. \A j \in 0 .. n : j # 0 =>
              kv[j] = Absorb(l, kv[j - 1], Own(l, grown[j]), Own(l, grown[j - 1]))
        BY <1>3 DEF Chosen
      <4> QED BY <2>1, <3>1, <4>1
    <3>3. PICK j \in 1 .. Len(tokens) : j = i + 1 /\ j - 1 = i
      BY <3>1
    <3>4. Absorb(l, grown[j - 1], Own(l, grown[j]), Own(l, grown[j - 1])) = grown[j]
      BY AbsorbNext
    <3>5. kv[i] = grown[i]
      BY <3>1
    <3> QED BY <3>2, <3>3, <3>4, <3>5
  <2> QED BY <2>1
<1>6. T = Nat
  BY Zenon, <1>4, <1>5, Fold5!SetInduction
<1> QED BY <1>0, <1>6

\* wkv5 goes through the texts of the call.
LEMMA Wkv5Texts ==
  ASSUME NEW p, NEW tokens, NEW grown, Grown(grown, p, tokens), NEW l \in Nat, NEW n \in Nat,
         n = Len(tokens)
  PROVE  Wkv5(l, Owns(l, grown, n), Before(l, grown, n), p)
           = [out |-> Texts(grown, n), kv_state |-> grown[n]]
<1>1. PICK x : x = Owns(l, grown, n)
  OBVIOUS
<1>2. PICK sh : sh = Before(l, grown, n)
  OBVIOUS
<1>3. DOMAIN x = 1 .. n /\ Len(x) = n
  BY <1>1 DEF Owns
<1> DEFINE kv[i \in 0 .. Len(x)] == IF i = 0 THEN p ELSE Absorb(l, kv[i - 1], x[i], sh[i])
<1>4. kv = CHOOSE f : f = [i \in 0 .. Len(x) |-> IF i = 0 THEN p
                                        ELSE Absorb(l, f[i - 1], x[i], sh[i])]
  OBVIOUS
<1>5. Wkv5(l, x, sh, p) = [out |-> Tuple([i \in DOMAIN x |-> kv[i]]), kv_state |-> kv[Len(x)]]
  BY DEF Wkv5
<1> HIDE DEF kv
<1>6. kv = Recurrence(l, p, grown, n)
  <2>1. ASSUME NEW f
        PROVE  [i \in 0 .. Len(x) |-> IF i = 0 THEN p ELSE Absorb(l, f[i - 1], x[i], sh[i])]
                 = [i \in 0 .. n |-> IF i = 0 THEN p
                      ELSE Absorb(l, f[i - 1], Own(l, grown[i]), Own(l, grown[i - 1]))]
    <3>1. ASSUME NEW i \in 0 .. n, i # 0
          PROVE  x[i] = Own(l, grown[i]) /\ sh[i] = Own(l, grown[i - 1])
      BY <1>1, <1>2, <3>1 DEF Owns, Before
    <3> QED BY <1>3, <3>1
  <2> QED BY <1>4, <2>1, Zenon DEF Recurrence
<1>7. \A i \in 0 .. n : kv[i] = grown[i]
  BY <1>6, RecurrenceStates
<1>8. [i \in DOMAIN x |-> kv[i]] = Texts(grown, n) /\ kv[Len(x)] = grown[n]
  BY <1>3, <1>7 DEF Texts
<1>9. Tuple(Texts(grown, n)) = Texts(grown, n)
  BY TupleIs DEF Texts
<1> QED BY <1>1, <1>2, <1>5, <1>8, <1>9

\* wkv6 too, with all operands taken from the same mix.
LEMMA Wkv6Texts ==
  ASSUME NEW p, NEW tokens, NEW grown, Grown(grown, p, tokens), NEW l \in Nat, NEW n \in Nat,
         n = Len(tokens), NEW m, m = UnbindToFive(Owns(l, grown, n), Before(l, grown, n))
  PROVE  /\ Wkv6(l, m, p) = [out |-> Texts(grown, n), kv_state |-> grown[n]]
         /\ \A i \in 1 .. n : m["g"][i][1] = Own(l, grown[i])
<1>1. PICK mix : mix = [i \in 1 .. n |-> <<Own(l, grown[i]), Own(l, grown[i - 1])>>]
  BY Zenon
<1>2. Tuple(mix) = mix /\ DOMAIN mix = 1 .. n /\ Len(mix) = n
  <2>1. mix = [i \in 1 .. n |-> mix[i]]
    BY <1>1
  <2> QED BY <2>1, TupleIs
<1>3. m = [operand \in {"w", "k", "v", "r", "g"} |-> mix]
  <2>1. DOMAIN Owns(l, grown, n) = 1 .. n
    BY DEF Owns
  <2>2. mix = [i \in DOMAIN Owns(l, grown, n) |-> <<Owns(l, grown, n)[i], Before(l, grown, n)[i]>>]
    BY <1>1, <2>1 DEF Owns, Before
  <2> QED BY <1>2, <2>2, Zenon DEF UnbindToFive
<1>4. \A a \in {"w", "k", "v", "r", "g"} : m[a] = mix
  BY <1>3
<1>5. \A i \in 1 .. n : mix[i][1] = Own(l, grown[i]) /\ mix[i][2] = Own(l, grown[i - 1])
  BY <1>1
<1> DEFINE Agree(i) == \A a, b \in {"w", "k", "v", "r"} : m[a][i] = m[b][i]
           kv[i \in 0 .. Len(m["k"])] ==
             IF i = 0 THEN p
             ELSE IF Agree(i) THEN Absorb(l, kv[i - 1], m["k"][i][1], m["k"][i][2]) ELSE Wrong
           Computed(f) == [i \in 0 .. Len(m["k"]) |->
             IF i = 0 THEN p
             ELSE IF Agree(i) THEN Absorb(l, f[i - 1], m["k"][i][1], m["k"][i][2]) ELSE Wrong]
           Meant(f) == [i \in 0 .. n |-> IF i = 0 THEN p
                          ELSE Absorb(l, f[i - 1], Own(l, grown[i]), Own(l, grown[i - 1]))]
<1>6. kv = CHOOSE f : f = Computed(f)
  OBVIOUS
<1>7. Wkv6(l, m, p) = [out |-> Tuple([i \in DOMAIN m["k"] |-> kv[i]]),
                       kv_state |-> kv[Len(m["k"])]]
  BY DEF Wkv6
<1> HIDE DEF kv
<1>8. \A i : Agree(i)
  BY <1>4
<1> HIDE DEF Agree
<1>9. kv = Recurrence(l, p, grown, n)
  <2>1. ASSUME NEW f PROVE Computed(f) = Meant(f)
    <3>1. ASSUME NEW i \in 0 .. n, i # 0
          PROVE  m["k"][i][1] = Own(l, grown[i]) /\ m["k"][i][2] = Own(l, grown[i - 1])
      BY <1>4, <1>5, <3>1
    <3>2. m["k"] = mix
      BY <1>4
    <3> QED BY <1>2, <1>8, <3>1, <3>2
  <2>2. Recurrence(l, p, grown, n) = CHOOSE f : f = Meant(f)
    BY Zenon DEF Recurrence
  <2> HIDE DEF Computed, Meant
  <2> QED BY <1>6, <2>1, <2>2, Zenon
<1>10. \A i \in 0 .. n : kv[i] = grown[i]
  BY <1>9, RecurrenceStates
<1>11. [i \in DOMAIN m["k"] |-> kv[i]] = Texts(grown, n) /\ kv[Len(m["k"])] = grown[n]
  BY <1>2, <1>4, <1>10 DEF Texts
<1>12. Tuple(Texts(grown, n)) = Texts(grown, n)
  BY TupleIs DEF Texts
<1> QED BY Zenon, <1>4, <1>5, <1>7, <1>11, <1>12

\* Both attentions read the layer's states of p and set those of the call's text.
LEMMA AttentionExact ==
  ASSUME NEW p, NEW tokens, NEW grown, Grown(grown, p, tokens), NEW n \in Nat \ {0},
         n = Len(tokens), NEW c, NEW l \in Nat, NEW st,
         StateGet(st, l, "ATT_X") = Own(l, p), StateGet(st, l, "ATT_KV") = p
  PROVE  LET set == StateSet(c, StateSet(c, st, l, "ATT_X", Own(l, grown[n])), l, "ATT_KV", grown[n])
         IN  /\ RWKV5_Attention(c, l, Owns(l, grown, n), st) = [out |-> Texts(grown, n), state |-> set]
             /\ RWKV6_Attention(c, l, Owns(l, grown, n), st) = [out |-> Texts(grown, n), state |-> set]
<1> DEFINE set1 == StateSet(c, st, l, "ATT_X", Own(l, grown[n]))
           set == StateSet(c, set1, l, "ATT_KV", grown[n])
           x == Owns(l, grown, n)
           sh == Before(l, grown, n)
<1>0. p = grown[0]
  BY DEF Grown
<1>1. TokenShift(Own(l, p), x) = sh /\ LastToken(x) = Own(l, grown[n])
  <2>1. TokenShift(Own(l, grown[0]), x) = sh /\ LastToken(x) = Own(l, grown[n])
    BY Zenon, Streams
  <2> QED BY <1>0, <2>1
<1>2. RWKV5_Attention(c, l, x, st) = [out |-> Texts(grown, n), state |-> set]
  <2>1. Wkv5(l, x, sh, p) = [out |-> Texts(grown, n), kv_state |-> grown[n]]
    BY Wkv5Texts
  <2> HIDE DEF x, sh
  <2> QED BY <1>1, <2>1 DEF RWKV5_Attention
<1>3. RWKV6_Attention(c, l, x, st) = [out |-> Texts(grown, n), state |-> set]
  <2>1. PICK m : m = UnbindToFive(x, sh)
    OBVIOUS
  <2>2. /\ Wkv6(l, m, p) = [out |-> Texts(grown, n), kv_state |-> grown[n]]
        /\ \A i \in 1 .. n : m["g"][i][1] = Own(l, grown[i])
    BY <2>1, Wkv6Texts
  <2> DEFINE Gated(o, g) == IF o # Wrong /\ g[1] = Own(l, o) THEN o ELSE Wrong
  <2>3. DOMAIN x = 1 .. n
    BY DEF Owns
  <2>4. [i \in DOMAIN x |-> Gated(Texts(grown, n)[i], m["g"][i])] = Texts(grown, n)
    <3>1. ASSUME NEW i \in 1 .. n PROVE Gated(Texts(grown, n)[i], m["g"][i]) = grown[i]
      <4>1. grown[i] # Wrong /\ Texts(grown, n)[i] = grown[i]
        BY DEF Grown, Texts
      <4> QED BY <2>2, <4>1
    <3> HIDE DEF x, Gated
    <3> QED BY <2>3, <3>1 DEF Texts
  <2>5. Tuple(Texts(grown, n)) = Texts(grown, n)
    BY TupleIs DEF Texts
  <2> HIDE DEF x, sh
  <2>6. RWKV6_Attention(c, l, x, st)
          = [out |-> Tuple([i \in DOMAIN x |-> Gated(Texts(grown, n)[i], m["g"][i])]),
             state |-> set]
    BY <1>1, <2>1, <2>2 DEF RWKV6_Attention
  <2> QED BY <2>4, <2>5, <2>6
<1> QED BY <1>2, <1>3

\* Layer l, run on the stream and the states of the text before the call, gives
\* those of the text after it.
LayerIs(c, l, grown, n, at, cells, nx) ==
  LET st == [at |-> at, cells |-> cells]
      res == [x |-> Stream(c, l + 1, grown, n),
              state |-> [at |-> at, cells |-> LayerSet(cells, nx, l, StatesOf(c, grown[n])[l])]]
  IN  /\ RWKV5_Layer(c, l, Stream(c, l, grown, n), st) = res
      /\ RWKV6_Layer(c, l, Stream(c, l, grown, n), st) = res

\* A layer of either version, entered with the stream of its text and the
\* states of p, leaves the stream the next layer expects and stores the states
\* of the whole text in the next history slot, which may be the slot it reads.
LEMMA LayerExact ==
  ASSUME NEW p \in Seq(Tokens), NEW tokens, NEW grown, Grown(grown, p, tokens),
         NEW n \in Nat \ {0}, n = Len(tokens), NEW c, c.rescale_every \in Int,
         c.num_hidden_layers \in Nat, NEW l \in LayersOf(c),
         NEW cells \in Cells(c), NEW at \in HistorySlots(c), NEW nx \in HistorySlots(c),
         nx = NextHistory(c, at), cells[at][l] = StatesOf(c, p)[l]
  PROVE  LayerIs(c, l, grown, n, at, cells, nx)
<1> DEFINE st == [at |-> at, cells |-> cells]
           s1 == StateSet(c, st, l, "ATT_X", Own(l, grown[n]))
           s2 == StateSet(c, s1, l, "ATT_KV", grown[n])
           s3 == StateSet(c, s2, l, "FFN_X", grown[n])
           end == [at |-> at, cells |-> LayerSet(cells, nx, l, StatesOf(c, grown[n])[l])]
<1>0. l \in Nat /\ p = grown[0]
  BY DEF LayersOf, Grown
<1>1. grown[n] \in Seq(Tokens) /\ Own(l, grown[n]) \in Seq(Tokens)
  <2>1. grown[n] \in Seq(Tokens) /\ grown[n] # <<>> /\ Last(grown[n]) = tokens[n]
    BY DEF Grown
  <2>2. Last(grown[n]) \in Tokens
    BY <2>1, EmptySeq, ElementOfSeq, LenProperties DEF Last
  <2>3. <<Last(grown[n])>> \in Seq(Tokens)
    BY <2>2
  <2> QED BY <2>1, <2>3 DEF Own
<1>2. /\ StateGet(st, l, "ATT_X") = Own(l, p) /\ StateGet(st, l, "ATT_KV") = p
      /\ cells[at][l]["FFN_X"] = p
  BY DEF StatesOf, StateGet, StateID
<1>3. StateGet(s2, l, "FFN_X") = p /\ s3 = end
  <2>1. StatesOf(c, grown[n])[l]
          = [id \in StateID |-> IF id = "ATT_X" THEN Own(l, grown[n])
                                ELSE IF id = "ATT_KV" THEN grown[n] ELSE grown[n]]
    BY SMTT(20) DEF StatesOf
  <2>2. /\ at \in HistorySlots(c) => StateGet(s2, l, "FFN_X") = cells[at][l]["FFN_X"]
        /\ s3 = [at |-> at, cells |-> [cells EXCEPT ![nx][l] =
                  [id \in StateID |-> IF id = "ATT_X" THEN Own(l, grown[n])
                                      ELSE IF id = "ATT_KV" THEN grown[n] ELSE grown[n]]]]
    BY <1>1, SetAll
  <2> HIDE DEF s2, s3
  <2> QED BY <1>2, <2>1, <2>2 DEF LayerSet
<1> HIDE DEF st
<1>4. PICK exp : exp = RWKV5Loader(c, l) /\ exp = RWKV6Loader(c, l)
  BY SMTT(20) DEF RWKV5Loader, RWKV6Loader
<1>5. PICK x : x = Stream(c, l, grown, n)
  OBVIOUS
<1>6. PICK mid : mid = Mid(grown, n, exp)
  OBVIOUS
<1>7. /\ Norm(x) = Owns(l, grown, n) /\ Norm(mid) = Texts(grown, n)
      /\ Add(l, x, Texts(grown, n), exp) = mid /\ Add(l, mid, Texts(grown, n), exp) = mid
  <2>1. /\ Norm(Stream(c, l, grown, n)) = Owns(l, grown, n)
        /\ Norm(Mid(grown, n, RWKV5Loader(c, l))) = Texts(grown, n)
        /\ Add(l, Stream(c, l, grown, n), Texts(grown, n), RWKV5Loader(c, l))
             = Mid(grown, n, RWKV5Loader(c, l))
        /\ Add(l, Mid(grown, n, RWKV5Loader(c, l)), Texts(grown, n), RWKV5Loader(c, l))
             = Mid(grown, n, RWKV5Loader(c, l))
    BY SMTT(20), <1>0, Streams
  <2> QED BY <1>4, <1>5, <1>6, <2>1
<1>8. /\ RWKV5_Attention(c, l, Owns(l, grown, n), st) = [out |-> Texts(grown, n), state |-> s2]
      /\ RWKV6_Attention(c, l, Owns(l, grown, n), st) = [out |-> Texts(grown, n), state |-> s2]
  BY SMTT(20), <1>0, <1>2, AttentionExact
<1> HIDE DEF s2
<1>9. /\ RWKV5_FNN(c, l, Texts(grown, n), s2) = [out |-> Texts(grown, n), state |-> s3]
      /\ RWKV6_FNN(c, l, Texts(grown, n), s2) = [out |-> Texts(grown, n), state |-> s3]
  BY <1>0, <1>3, ChannelExact
<1>10. (IF Rescales(c, l) THEN Halve(mid) ELSE mid) = Stream(c, l + 1, grown, n)
  <2>1. (IF Rescales(c, l) THEN Halve(Mid(grown, n, RWKV5Loader(c, l)))
          ELSE Mid(grown, n, RWKV5Loader(c, l))) = Stream(c, l + 1, grown, n)
    BY <1>0, NextStream
  <2> QED BY <1>4, <1>6, <2>1
<1> HIDE DEF s3, end
<1>11. RWKV5_Layer(c, l, x, st) = [x |-> Stream(c, l + 1, grown, n), state |-> s3]
  <2> DEFINE att == RWKV5_Attention(c, l, Norm(x), st)
             x1 == Add(l, x, att.out, RWKV5Loader(c, l))
             ffn == RWKV5_FNN(c, l, Norm(x1), att.state)
             x2 == Add(l, x1, ffn.out, RWKV5Loader(c, l))
  <2>1. RWKV5_Layer(c, l, x, st)
          = [x |-> IF Rescales(c, l) THEN Halve(x2) ELSE x2, state |-> ffn.state]
    BY Zenon DEF RWKV5_Layer
  <2>2. att.out = Texts(grown, n) /\ att.state = s2
    BY SMTT(20), <1>7, <1>8
  <2> HIDE DEF att
  <2>3. x1 = mid
    BY <1>4, <1>7, <2>2
  <2> HIDE DEF x1
  <2>4. ffn.out = Texts(grown, n) /\ ffn.state = s3
    BY <1>7, <1>9, <2>2, <2>3
  <2> HIDE DEF ffn
  <2>5. x2 = mid
    BY <1>4, <1>7, <2>3, <2>4
  <2> HIDE DEF x2
  <2> QED BY <1>10, <2>1, <2>4, <2>5
<1>12. RWKV6_Layer(c, l, x, st) = [x |-> Stream(c, l + 1, grown, n), state |-> s3]
  <2> DEFINE att == RWKV6_Attention(c, l, Norm(x), st)
             x1 == Add(l, x, att.out, RWKV6Loader(c, l))
             ffn == RWKV6_FNN(c, l, Norm(x1), att.state)
             x2 == Add(l, x1, ffn.out, RWKV6Loader(c, l))
  <2>1. RWKV6_Layer(c, l, x, st)
          = [x |-> IF Rescales(c, l) THEN Halve(x2) ELSE x2, state |-> ffn.state]
    BY Zenon DEF RWKV6_Layer
  <2>2. att.out = Texts(grown, n) /\ att.state = s2
    BY SMTT(20), <1>7, <1>8
  <2> HIDE DEF att
  <2>3. x1 = mid
    BY <1>4, <1>7, <2>2
  <2> HIDE DEF x1
  <2>4. ffn.out = Texts(grown, n) /\ ffn.state = s3
    BY <1>7, <1>9, <2>2, <2>3
  <2> HIDE DEF ffn
  <2>5. x2 = mid
    BY <1>4, <1>7, <2>3, <2>4
  <2> HIDE DEF x2
  <2> QED BY <1>10, <2>1, <2>4, <2>5
<1> QED BY <1>3, <1>5, <1>11, <1>12 DEF st, end, LayerIs

\* The stream and the states when the first k layers have been run.
Through(c, grown, n, at, cells, nx, k) ==
  [x |-> Stream(c, k, grown, n),
   state |-> [at |-> at, cells |-> Stored(c, cells, nx, grown[n], k)]]

\* One more layer, on what the layers below have left.
LEMMA OneLayer ==
  ASSUME NEW p \in Seq(Tokens), NEW tokens, NEW grown, Grown(grown, p, tokens),
         NEW n \in Nat \ {0}, n = Len(tokens), NEW c, c.rescale_every \in Int,
         c.num_hidden_layers \in Nat, NEW k \in LayersOf(c),
         NEW cells \in Cells(c), NEW at \in HistorySlots(c), NEW nx \in HistorySlots(c),
         nx = NextHistory(c, at), cells[at] = StatesOf(c, p)
  PROVE  LET r == Through(c, grown, n, at, cells, nx, k)
         IN  /\ RWKV5_Layer(c, k, r.x, r.state) = Through(c, grown, n, at, cells, nx, k + 1)
             /\ RWKV6_Layer(c, k, r.x, r.state) = Through(c, grown, n, at, cells, nx, k + 1)
<1>1. PICK q \in Seq(Tokens) : q = grown[n]
  BY SMTT(20) DEF Grown
<1>2. PICK old : old = Stored(c, cells, nx, q, k)
  OBVIOUS
<1>3. /\ old \in Cells(c) /\ old[at][k] = cells[at][k]
      /\ LayerSet(old, nx, k, StatesOf(c, q)[k]) = Stored(c, cells, nx, q, k + 1)
  BY <1>2, StoredNext
<1>4. old[at][k] = StatesOf(c, p)[k]
  BY SMTT(20), <1>3
<1>5. LayerIs(c, k, grown, n, at, old, nx)
  BY <1>3, <1>4, LayerExact
<1> QED BY <1>1, <1>2, <1>3, <1>5 DEF Through, LayerIs

\* f[k] is what the loop over the layers holds after k of them, in either version.
LayerRun(c, depth, x, at, cells, f) ==
  /\ f[0] = [x |-> x, state |-> [at |-> at, cells |-> cells]]
  /\ \A k \in 1 .. depth : f[k] \in { RWKV5_Layer(c, k - 1, f[k - 1].x, f[k - 1].state),
                                      RWKV6_Layer(c, k - 1, f[k - 1].x, f[k - 1].state) }

\* All the layers, from the embeddings of the call's tokens.
LEMMA LayersExact ==
  ASSUME NEW p \in Seq(Tokens), NEW tokens \in Seq(Tokens), NEW grown, Grown(grown, p, tokens),
         NEW n \in Nat \ {0}, n = Len(tokens), NEW c, c.rescale_every \in Int,
         NEW depth \in Nat, depth = c.num_hidden_layers,
         NEW cells \in Cells(c), NEW at \in HistorySlots(c), NEW nx \in HistorySlots(c),
         nx = NextHistory(c, at), cells[at] = StatesOf(c, p),
         NEW f, LayerRun(c, depth, Embed(tokens), at, cells, f)
  PROVE  f[depth] = Through(c, grown, n, at, cells, nx, depth)
<1> DEFINE Res(k) == Through(c, grown, n, at, cells, nx, k)
           T == {k \in Nat : k <= depth => f[k] = Res(k)}
<1>0. grown[n] \in Seq(Tokens) /\ c.num_hidden_layers \in Nat
  BY SMTT(20) DEF Grown
<1>1. 0 \in T
  <2>1. Embed(tokens) = Stream(c, 0, grown, n)
    <3>1. RWKV5Loader(c, 0) = 0
      BY LoaderCountsHalvings
    <3>2. ASSUME NEW i \in 1 .. n PROVE Own(0, grown[i]) = <<tokens[i]>>
      <4>1. grown[i] # <<>> /\ Last(grown[i]) = tokens[i]
        BY DEF Grown
      <4> QED BY <4>1 DEF Own
    <3>3. DOMAIN tokens = 1 .. n
      BY LenProperties
    <3> QED BY <3>1, <3>2, <3>3 DEF Embed, Stream
  <2>2. Stored(c, cells, nx, grown[n], 0) = cells
    <3>1. LayersOf(c) \subseteq Nat /\ cells[nx] = [j \in LayersOf(c) |-> cells[nx][j]]
      BY DEF LayersOf, Cells
    <3>2. [j \in LayersOf(c) |-> IF j < 0 THEN StatesOf(c, grown[n])[j] ELSE cells[nx][j]] = cells[nx]
      BY <3>1
    <3> QED BY <3>2 DEF Stored, Cells
  <2> QED BY <2>1, <2>2 DEF Through, LayerRun
<1>2. ASSUME NEW k \in T PROVE k + 1 \in T
  <2>1. CASE k + 1 <= depth
    <3>1. k \in Nat /\ k \in LayersOf(c) /\ f[k] = Res(k)
      BY <2>1 DEF LayersOf
    <3>2. /\ RWKV5_Layer(c, k, Res(k).x, Res(k).state) = Res(k + 1)
          /\ RWKV6_Layer(c, k, Res(k).x, Res(k).state) = Res(k + 1)
      BY <1>0, <3>1, OneLayer
    <3>6. f[k + 1] \in { RWKV5_Layer(c, k, f[k].x, f[k].state), RWKV6_Layer(c, k, f[k].x, f[k].state) }
      <4>1. PICK i \in 1 .. depth : i = k + 1 /\ i - 1 = k
        BY SMTT(20), <2>1, <3>1
      <4>2. f[i] \in { RWKV5_Layer(c, i - 1, f[i - 1].x, f[i - 1].state),
                       RWKV6_Layer(c, i - 1, f[i - 1].x, f[i - 1].state) }
        BY Zenon DEF LayerRun
      <4> QED BY <4>1, <4>2
    <3>7. f[k + 1] = Res(k + 1)
      BY <3>1, <3>2, <3>6
    <3> QED BY <3>7
  <2> QED BY <2>1
<1> HIDE DEF Res
<1>3. T = Nat
  BY Zenon, <1>1, <1>2, Fold5!SetInduction
<1> QED BY <1>3 DEF Res

Fold6 == INSTANCE FoldFacts WITH Op <- Step6

\* What both model classes return, from the loop over their layers.
LEMMA ModelExact ==
  ASSUME NEW p \in Seq(Tokens), NEW tokens \in Seq(Tokens), NEW grown, Grown(grown, p, tokens),
         NEW n \in Nat \ {0}, n = Len(tokens), NEW c, c.rescale_every \in Int,
         NEW depth \in Nat, depth = c.num_hidden_layers,
         NEW cells \in Cells(c), NEW at \in HistorySlots(c), NEW nx \in HistorySlots(c),
         nx = NextHistory(c, at), cells[at] = StatesOf(c, p), NEW st, st = [at |-> at, cells |-> cells]
  PROVE  /\ RWKV5_Model(c, Embed(tokens), st) = Through(c, grown, n, at, cells, nx, depth)
         /\ RWKV6_Model(c, Embed(tokens), st) = Through(c, grown, n, at, cells, nx, depth)
<1> DEFINE base == [x |-> Embed(tokens), state |-> st]
           order == [i \in 1 .. c.num_hidden_layers |-> i - 1]
<1>1. DOMAIN order = 1 .. depth /\ \A k \in 1 .. depth : order[k] = k - 1
  OBVIOUS
<1>2. RWKV5_Model(c, Embed(tokens), st) = Fold5!Fold(c, base, order)
  BY Zenon DEF RWKV5_Model, Step5, Fold5!Fold, FoldLeft, MapThenFoldSet, Fold5!MapThenFoldSet,
               Max, Fold5!Max
<1>3. RWKV6_Model(c, Embed(tokens), st) = Fold6!Fold(c, base, order)
  BY Zenon DEF RWKV6_Model, Step6, Fold6!Fold, FoldLeft, MapThenFoldSet, Fold6!MapThenFoldSet,
               Max, Fold6!Max
<1> HIDE DEF order
<1>4. Fold5!Fold(c, base, order) = Through(c, grown, n, at, cells, nx, depth)
  <2>1. PICK f : Fold5!Steps(c, base, order, depth, f)
    BY <1>1, Fold5!FoldSteps, Zenon
  <2>2. f[0] = base /\ Fold5!Fold(c, base, order) = f[depth]
    BY <2>1, Zenon DEF Fold5!Steps
  <2>3. ASSUME NEW k \in 1 .. depth
        PROVE  f[k] \in { RWKV5_Layer(c, k - 1, f[k - 1].x, f[k - 1].state),
                          RWKV6_Layer(c, k - 1, f[k - 1].x, f[k - 1].state) }
    <3>1. f[k] = Step5(c, f[k - 1], order[k])
      BY <2>1, Zenon DEF Fold5!Steps
    <3> QED BY <1>1, <3>1 DEF Step5
  <2>4. LayerRun(c, depth, Embed(tokens), at, cells, f)
    BY <2>2, <2>3 DEF LayerRun
  <2>5. f[depth] = Through(c, grown, n, at, cells, nx, depth)
    BY <2>4, LayersExact
  <2> QED BY Zenon, <2>2, <2>5
<1>5. Fold6!Fold(c, base, order) = Through(c, grown, n, at, cells, nx, depth)
  <2>1. PICK f : Fold6!Steps(c, base, order, depth, f)
    BY <1>1, Fold6!FoldSteps, Zenon
  <2>2. f[0] = base /\ Fold6!Fold(c, base, order) = f[depth]
    BY <2>1, Zenon DEF Fold6!Steps
  <2>3. ASSUME NEW k \in 1 .. depth
        PROVE  f[k] \in { RWKV5_Layer(c, k - 1, f[k - 1].x, f[k - 1].state),
                          RWKV6_Layer(c, k - 1, f[k - 1].x, f[k - 1].state) }
    <3>1. f[k] = Step6(c, f[k - 1], order[k])
      BY <2>1, Zenon DEF Fold6!Steps
    <3> QED BY <1>1, <3>1 DEF Step6
  <2>4. LayerRun(c, depth, Embed(tokens), at, cells, f)
    BY <2>2, <2>3 DEF LayerRun
  <2>5. f[depth] = Through(c, grown, n, at, cells, nx, depth)
    BY <2>4, LayersExact
  <2> QED BY <2>2, <2>5
<1> QED BY <1>2, <1>3, <1>4, <1>5

\* prefill, decode and batch_decode of rwkv5 and rwkv6, on tokens that follow a
\* text whose states the storage holds, return the logits of the whole text and
\* leave its states in the next history slot, for every accepted configuration,
\* text and number of tokens, layers and history slots.
THEOREM CallsAreExact == CallsExact
<1> SUFFICES ASSUME NEW raw \in RawConfigs, NEW p \in Seq(Tokens), NEW tokens \in Seq(Tokens) \ {<<>>},
                    NEW at, NEW cells, NEW c, c = ParsedConfig(raw), c # Rejected,
                    at \in HistorySlots(c), cells \in Cells(c), cells[at] = StatesOf(c, p)
             PROVE  CallExact(c, p, tokens, at, cells)
  BY SMTT(20) DEF CallsExact
<1>1. /\ c.max_history \in Nat \ {0} /\ c.num_hidden_layers \in Nat \ {0}
      /\ c.rescale_every \in Int
  BY HistoryAssumption, LayerAssumption DEF ParsedConfig, RWKV5Config, RWKV6Config
<1>2. PICK n \in Nat \ {0} : n = Len(tokens)
  BY EmptySeq, LenProperties
<1>3. PICK grown : Grown(grown, p, tokens)
  BY GrownText
<1>4. PICK depth \in Nat : depth = c.num_hidden_layers /\ depth # 0
  BY <1>1
<1>5. PICK nx \in HistorySlots(c) : nx = NextHistory(c, at)
  BY <1>1 DEF HistorySlots, NextHistory
<1>6. PICK st : st = [at |-> at, cells |-> cells]
  BY Zenon
<1>7. PICK r : r = Through(c, grown, n, at, cells, nx, depth)
  OBVIOUS
<1>8. RWKV5_Model(c, Embed(tokens), st) = r /\ RWKV6_Model(c, Embed(tokens), st) = r
  BY <1>1, <1>2, <1>3, <1>4, <1>5, <1>6, <1>7, ModelExact
<1>9. r.x = Stream(c, depth, grown, n) /\ r.state.cells = Stored(c, cells, nx, grown[n], depth)
  BY <1>7 DEF Through
<1>10. LastToken(Norm(r.x)) = p \o tokens
  <2>1. Norm(Stream(c, depth, grown, n)) = Owns(depth, grown, n)
    BY Streams
  <2>2. LastToken(Owns(depth, grown, n)) = Own(depth, grown[n])
    BY Streams
  <2>3. Own(depth, grown[n]) = grown[n]
    BY <1>4 DEF Own
  <2>4. grown[n] = p \o tokens
    BY <1>2, <1>3 DEF Grown
  <2> QED BY <1>9, <2>1, <2>2, <2>3, <2>4
<1>11. r.state.cells = [cells EXCEPT ![nx] = StatesOf(c, p \o tokens)]
  <2>1. grown[n] = p \o tokens
    BY <1>2, <1>3 DEF Grown
  <2>2. \A j \in LayersOf(c) : j < depth
    BY <1>4 DEF LayersOf
  <2>3. [j \in LayersOf(c) |-> IF j < depth THEN StatesOf(c, grown[n])[j] ELSE cells[nx][j]]
          = StatesOf(c, grown[n])
    <3>1. StatesOf(c, grown[n]) = [j \in LayersOf(c) |-> StatesOf(c, grown[n])[j]]
      BY SMTT(20) DEF StatesOf
    <3> QED BY <2>2, <3>1
  <2> QED BY Zenon, <1>9, <2>1, <2>3 DEF Stored
<1> QED BY <1>5, <1>6, <1>8, <1>10, <1>11
        DEF CallExact, ForCasualLM, RWKV5_ForCasualLM, RWKV6_ForCasualLM

\* However the engine adds, forks, removes, prefills, decodes and rolls back
\* sequences of a model with a recurrent state (rwkv5, rwkv6 over the get and
\* set functions of rnn_state.py), the logits a call returns are those of the
\* sequence's whole text, for every number of layers, slots, sequences, tokens
\* and history slots.
THEOREM LogitsExact == Spec => []LogitsOfText
<1>1. CallsExact
  BY CallsAreExact
<1>2. Init => IInv
  BY InitIInv
<1>3. IInv /\ [Next]_vars => IInv'
  BY <1>1, NextIInv
<1>4. IInv => LogitsOfText
  BY IInvImplies
<1> QED BY <1>2, <1>3, <1>4, PTL DEF Spec

\* Under the same calls, each history slot that rnn_state's PopN may return to
\* holds the states of the text without its last tokens, in every layer.
THEOREM RollbacksExact == Spec => []RollbackExact
<1>1. CallsExact
  BY CallsAreExact
<1>2. Init => IInv
  BY InitIInv
<1>3. IInv /\ [Next]_vars => IInv'
  BY <1>1, NextIInv
<1>4. IInv => RollbackExact
  BY IInvImplies
<1> QED BY <1>2, <1>3, <1>4, PTL DEF Spec

=============================================================================

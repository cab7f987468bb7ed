------------------------------- MODULE RadixTree -------------------------------
(***************************************************************************)
(* The paged radix tree of cpp/serve/radix_tree.cc.  A page holds at most  *)
(* Capacity tokens; a sequence ends at the end of a page, and its tokens   *)
(* are those on the way from the root to that page.  Pages are split and   *)
(* merged as sequences are forked, extended, rolled back and removed.      *)
(*                                                                         *)
(* The operations are written as functions on the whole tree, a record     *)
(* with the pages in use and the map seq2page, because one of them makes   *)
(* several changes in turn.  The circular buffer of a page is the sequence *)
(* of its tokens; a list of siblings or of sequence identifiers is a set,  *)
(* since no operation depends on its order.  The identity of a free page   *)
(* does not matter, so the page pool is two counts.  The pool of the nodes *)
(* of those lists works like the page pool and is left out.                *)
(***************************************************************************)
EXTENDS Integers, Sequences, FiniteSets, FiniteSetsExt, SequencesExt

CONSTANTS SeqIds,
          Tokens,
          Capacity,     \* kPageCapacity_
          BlockSize,    \* kPageBlockSize_
          MaxLength     \* bound on the length of a sequence

ASSUME ConstantsAssumption ==
    /\ Capacity \in Nat \ {0} /\ BlockSize \in Nat \ {0}
    /\ MaxLength \in Nat

VARIABLE tree

Root == 0

\* pages: the tokens, sequences and parent of each page in use.
\* free, total: the sizes of free_page_indices_ and pages_ of the pool.
EmptyTree ==
    [pages    |-> (Root :> [parent |-> Root, tokens |-> <<>>, seqs |-> {}]),
     seq2page |-> <<>>,
     free     |-> BlockSize,
     total    |-> BlockSize]

TokenSeqs(n) == UNION {[1..k -> Tokens] : k \in 0..n}

--------------------------------------------------------------------------------
(* Reading the tree.                                                         *)

Length(t, p)   == Len(t.pages[p].tokens)
Room(p)        == IF p = Root THEN 0 ELSE Capacity
Children(t, p) == {c \in DOMAIN t.pages \ {Root} : t.pages[c].parent = p}

RECURSIVE Path(_, _)
Path(t, p) == IF p = Root THEN <<>>
              ELSE Path(t, t.pages[p].parent) \o t.pages[p].tokens

\* GetSequence, and with Len GetSequenceLength.
GetSequence(t, s) == Path(t, t.seq2page[s])

RECURSIVE Subtree(_, _)
Subtree(t, p) == {p} \cup UNION {Subtree(t, c) : c \in Children(t, p)}

\* Mutant: the traversal stops at the page itself.
FindAllChildSequenceLocal(t, p) == t.pages[p].seqs

FindAllChildSequence(t, p) == UNION {t.pages[q].seqs : q \in Subtree(t, p)}

\* RadixPage::MatchPrefix: how many tokens of the page the given ones begin with.
InPage(t, p, tokens) ==
    Max({n \in 0..Min({Length(t, p), Len(tokens)}) :
            SubSeq(t.pages[p].tokens, 1, n) = SubSeq(tokens, 1, n)})

\* MatchSequence, from page p down: the page reached, the number of tokens matched
\* and the position in that page.
RECURSIVE MatchSequence(_, _, _)
MatchSequence(t, p, tokens) ==
    LET found == {c \in Children(t, p) : tokens # <<>> /\ t.pages[c].tokens[1] = tokens[1]}
    IN  IF found = {} THEN [page |-> p, offset |-> 0, in_page |-> Length(t, p)]
        ELSE LET c == CHOOSE c \in found : TRUE
                 n == InPage(t, c, tokens)
                 rest == MatchSequence(t, c, SubSeq(tokens, n + 1, Len(tokens)))
             IN  IF n < Length(t, c) THEN [page |-> c, offset |-> n, in_page |-> n]
                 ELSE [rest EXCEPT !.offset = n + @]

MatchPrefix(t, tokens) ==
    LET m == MatchSequence(t, Root, tokens)
    IN  [offset |-> m.offset,
         seqs   |-> IF m.offset = 0 THEN {} ELSE FindAllChildSequence(t, m.page)]

--------------------------------------------------------------------------------
(* Pages.                                                                    *)

NewPage(t) == CHOOSE p \in 1..(Cardinality(DOMAIN t.pages)) : p \notin DOMAIN t.pages

\* Allocate takes a free page, from a new block when there is none.
Allocate(t, p, page) ==
    [t EXCEPT !.pages = @ @@ (p :> page),
              !.free  = IF @ = 0 THEN BlockSize - 1 ELSE @ - 1,
              !.total = IF t.free = 0 THEN @ + BlockSize ELSE @]

Free(t, p) == [t EXCEPT !.pages = Restrict(@, DOMAIN @ \ {p}), !.free = @ + 1]

MoveTo(t, seqs, p) ==
    [t EXCEPT !.seq2page = [s \in DOMAIN @ |-> IF s \in seqs THEN p ELSE @[s]]]

Adopt(t, children, p) ==
    [t EXCEPT !.pages = [q \in DOMAIN @ |->
        IF q \in children THEN [@[q] EXCEPT !.parent = p] ELSE @[q]]]

PopSequence(t, s) ==
    [t EXCEPT !.pages[t.seq2page[s]].seqs = @ \ {s},
              !.seq2page = Restrict(@, DOMAIN @ \ {s})]

PlaceSequence(t, s, p) ==
    [t EXCEPT !.pages[p].seqs = @ \cup {s},
              !.seq2page = (s :> p) @@ @]

Mergeable(t, p) ==
    /\ t.pages[p].seqs = {}
    /\ \E c \in Children(t, p) :
          /\ Children(t, p) = {c}
          /\ Length(t, p) + Length(t, c) <= Room(p)

\* Mutant: the sequences of the child stay with it.
MergePageLoses(t, p) ==
    LET c == CHOOSE c \in Children(t, p) : TRUE
        joined == [t EXCEPT !.pages[p].tokens = @ \o t.pages[c].tokens]
    IN  Free(Adopt(joined, Children(t, c), p), c)

MergePage(t, p) ==
    LET c == CHOOSE c \in Children(t, p) : TRUE
        joined == [t EXCEPT !.pages[p].tokens = @ \o t.pages[c].tokens,
                            !.pages[p].seqs   = t.pages[c].seqs]
    IN  Free(MoveTo(Adopt(joined, Children(t, c), p), t.pages[c].seqs, p), c)

MergeIf(t, p) == IF Mergeable(t, p) THEN MergePage(t, p) ELSE t

\* Page p keeps its first tokens; a new child takes the rest, its sequences and its
\* children.  The child, and then the parent of p, may merge with their only child.
SplitPage(t, p, offset) ==
    LET c      == NewPage(t)
        page   == t.pages[p]
        added  == Allocate(Adopt(t, Children(t, p), c), c,
                           [parent |-> p, seqs |-> page.seqs,
                            tokens |-> SubSeq(page.tokens, offset + 1, Len(page.tokens))])
        cut    == [added EXCEPT !.pages[p].tokens = SubSeq(@, 1, offset),
                                !.pages[p].seqs   = {}]
        merged == MergeIf(MoveTo(cut, page.seqs, c), c)
    IN  IF p # Root /\ Mergeable(merged, page.parent)
        THEN [tree |-> MergePage(merged, page.parent), page |-> page.parent]
        ELSE [tree |-> merged, page |-> p]

SplitIf(t, p, offset) ==
    IF offset < Length(t, p) THEN SplitPage(t, p, offset) ELSE [tree |-> t, page |-> p]

--------------------------------------------------------------------------------
(* The operations.                                                           *)

AddSequence(t, s) == PlaceSequence(t, s, Root)

\* The page, on the way up from p, that holds the position at the given length.
RECURSIVE PageAt(_, _, _)
PageAt(t, p, n) ==
    LET before == Len(Path(t, p)) - Length(t, p)
    IN  IF n > before THEN [page |-> p, offset |-> n - before]
        ELSE PageAt(t, t.pages[p].parent, n)

ForkSequence(t, s, parent, n) ==
    LET at == PageAt(t, t.seq2page[parent], n)
        cut == SplitIf(t, at.page, at.offset)
    IN  PlaceSequence(cut.tree, s, cut.page)

\* New pages below p for what remains of the tokens.
RECURSIVE Grow(_, _, _)
Grow(t, p, tokens) ==
    IF tokens = <<>> THEN [tree |-> t, page |-> p]
    ELSE LET c == NewPage(t)
             n == Min({Capacity, Len(tokens)})
         IN  Grow(Allocate(t, c, [parent |-> p, seqs |-> {},
                                  tokens |-> SubSeq(tokens, 1, n)]),
                  c, SubSeq(tokens, n + 1, Len(tokens)))

\* Mutant: a leaf page is filled up although a sequence ends there.
FillableShared(t, p) == Children(t, p) = {} /\ p # Root

\* A leaf page at which no sequence ends is filled up first.
Fillable(t, p) == t.pages[p].seqs = {} /\ Children(t, p) = {} /\ p # Root

ExtendSequence(t, s, tokens) ==
    LET original == t.seq2page[s]
        popped   == PopSequence(t, s)
        m        == MatchSequence(popped, original, tokens)
        cut      == SplitIf(popped, m.page, m.in_page)
        rest     == SubSeq(tokens, m.offset + 1, Len(tokens))
        room     == IF Fillable(cut.tree, cut.page)
                    THEN Min({Capacity - Length(cut.tree, cut.page), Len(rest)}) ELSE 0
        filled   == [cut.tree EXCEPT !.pages[cut.page].tokens = @ \o SubSeq(rest, 1, room)]
        grown    == Grow(filled, cut.page, SubSeq(rest, room + 1, Len(rest)))
    IN  MergeIf(PlaceSequence(grown.tree, s, grown.page), original)

Bare(t, p) == t.pages[p].seqs = {} /\ Children(t, p) = {}

RECURSIVE Prune(_, _)
Prune(t, p) ==
    IF p # Root /\ Bare(t, p) THEN Prune(Free(t, p), t.pages[p].parent)
    ELSE [tree |-> t, page |-> p]

RemoveSequence(t, s) ==
    LET pruned == Prune(PopSequence(t, s), t.seq2page[s])
    IN  MergeIf(pruned.tree, pruned.page)

\* The loop of RollBackSequence: whole pages are rolled back, and freed if bare.
RECURSIVE RollBackPages(_, _, _)
RollBackPages(t, p, n) ==
    IF Length(t, p) <= n
    THEN RollBackPages(IF Bare(t, p) THEN Free(t, p) ELSE t,
                       t.pages[p].parent, n - Length(t, p))
    ELSE [tree |-> t, page |-> p, rest |-> n]

RollBackSequence(t, s, n) ==
    IF n = Len(GetSequence(t, s)) THEN AddSequence(RemoveSequence(t, s), s)
    ELSE LET r   == RollBackPages(PopSequence(t, s), t.seq2page[s], n)
             end == Length(r.tree, r.page) - r.rest
             cut == SplitIf(r.tree, r.page, end)
         IN  IF Bare(r.tree, r.page)
             THEN PlaceSequence([r.tree EXCEPT !.pages[r.page].tokens = SubSeq(@, 1, end)],
                                s, r.page)
             ELSE PlaceSequence(cut.tree, s, cut.page)

\* The pool's Reset writes the indices of all pages into free_page_indices_ but does
\* not resize it: the vector keeps the size that it had.
ResetTree(t) == [EmptyTree EXCEPT !.free = t.free, !.total = t.total]

--------------------------------------------------------------------------------
Init == tree = EmptyTree

Add == \E s \in SeqIds \ DOMAIN tree.seq2page : tree' = AddSequence(tree, s)

Fork ==
    \E s \in SeqIds \ DOMAIN tree.seq2page, parent \in DOMAIN tree.seq2page :
    \E n \in 1..Len(GetSequence(tree, parent)) :
        tree' = ForkSequence(tree, s, parent, n)

Extend ==
    \E s \in DOMAIN tree.seq2page :
    \E tokens \in TokenSeqs(MaxLength - Len(GetSequence(tree, s))) :
        tree' = ExtendSequence(tree, s, tokens)

RollBack ==
    \E s \in DOMAIN tree.seq2page :
    \E n \in 1..Len(GetSequence(tree, s)) :
        tree' = RollBackSequence(tree, s, n)

Discard == \E s \in DOMAIN tree.seq2page : tree' = RemoveSequence(tree, s)

Reset == tree' = ResetTree(tree)

Next == Add \/ Fork \/ Extend \/ RollBack \/ Discard \/ Reset

Spec == Init /\ [][Next]_tree

--------------------------------------------------------------------------------
(* Properties.                                                               *)

\* The tree is a tree of pages: each but the root has between one and Capacity tokens
\* and is reached from the root, siblings begin with different tokens, a sequence ends
\* at every leaf, and seq2page is the inverse of the sequences that the pages list.
WellFormed ==
    /\ Subtree(tree, Root) = DOMAIN tree.pages
    /\ \A p \in DOMAIN tree.pages \ {Root} :
          /\ Length(tree, p) \in 1..Capacity
          /\ Children(tree, p) = {} => tree.pages[p].seqs # {}
    /\ \A p \in DOMAIN tree.pages : \A c, d \in Children(tree, p) :
          c # d => tree.pages[c].tokens[1] # tree.pages[d].tokens[1]
    /\ \A s \in SeqIds, p \in DOMAIN tree.pages :
          s \in tree.pages[p].seqs <=> s \in DOMAIN tree.seq2page /\ tree.seq2page[s] = p

Common(a, b) == Max({n \in 0..Min({Len(a), Len(b)}) : SubSeq(a, 1, n) = SubSeq(b, 1, n)})

\* MatchPrefix finds, for any tokens, the longest prefix that a sequence of the tree
\* shares with them, and exactly the sequences that share it, whatever splits and
\* merges have shaped the pages.
MatchIsLongest ==
    LET here == DOMAIN tree.seq2page
        get  == [s \in here |-> GetSequence(tree, s)]
    IN  \A tokens \in TokenSeqs(MaxLength) :
            LET common == [s \in here |-> Common(get[s], tokens)]
                best   == Max({0} \cup {common[s] : s \in here})
            IN  MatchPrefix(tree, tokens) =
                    [offset |-> best,
                     seqs   |-> {s \in here : best # 0 /\ common[s] = best}]

Store == INSTANCE SequenceStore
             WITH seqs <- [s \in DOMAIN tree.seq2page |-> GetSequence(tree, s)]

\* The tree implements the map from identifiers to token sequences: an operation on one
\* sequence changes that sequence as it should and no other.
ImplementsStore == Store!Spec

\* Reset brings the pool "to initial status": every page is then free or in the tree.
PagesAccounted == tree.free + Cardinality(DOMAIN tree.pages \ {Root}) = tree.total
================================================================================

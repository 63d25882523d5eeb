---------------------------- MODULE DocumentProofs ----------------------------
(***************************************************************************)
(* Proofs about the edits of a document, for any documents, values, names    *)
(* and any number of edits: the tree stays a tree, an edit leaves a mark,    *)
(* no anchor is ever defined twice, and aliases keep pointing back.          *)
(***************************************************************************)
EXTENDS Document, SequenceLemmas

\* A name that is an anchor is that of one node.
OneOwner(d) ==
    \A p, q \in DOMAIN d : d[p].anchor = d[q].anchor /\ d[p].anchor # NoName => p = q

Owned(d) == DistinctKeys(d) /\ OneOwner(d)

IInv ==
    /\ TypeOK
    /\ DistinctKeys(loaded) /\ DistinctAnchors(loaded) => Owned(doc)
    /\ doc = loaded \/ \E p \in DOMAIN doc : doc[p].modified
-----------------------------------------------------------------------------
\* What a tree is made of.
LEMMA TreeIs ==
    ASSUME NEW d, IsTree(d), NEW p \in DOMAIN d
    PROVE  /\ p \in Seq(Nat) /\ IsNode(d[p])
           /\ p # <<>> => /\ Front(p) \in DOMAIN d /\ Front(p) \in Seq(Nat) /\ Last(p) \in Nat
                          /\ p = Append(Front(p), Last(p))
                          /\ d[Front(p)].kind \in {"map", "seq"}
                          /\ d[Front(p)].kind = "map" => Last(p) \in DOMAIN d[Front(p)].keys
<1>1. p \in Seq(Nat) /\ IsNode(d[p])
    BY DEF IsTree
<1>2. p # <<>> => Front(p) \in DOMAIN d /\ d[Front(p)].kind \in {"map", "seq"}
                  /\ (d[Front(p)].kind = "map" => Last(p) \in DOMAIN d[Front(p)].keys)
    BY DEF IsTree
<1>3. p # <<>> => Front(p) \in Seq(Nat) /\ Last(p) \in Nat /\ p = Append(Front(p), Last(p))
    BY <1>1, FrontLast
<1> QED BY <1>1, <1>2, <1>3

\* One node more or other than in a tree: the place is one the node above it has.
Attached(d, p) ==
    p # <<>> => /\ Front(p) \in DOMAIN d /\ d[Front(p)].kind \in {"map", "seq"}
                /\ d[Front(p)].kind = "map" => Last(p) \in DOMAIN d[Front(p)].keys

\* Nothing follows where the empty sequence does.
LEMMA EmptyConcat == ASSUME NEW p \in Seq(Nat) PROVE p \o <<>> = p /\ <<>> \in Seq(Nat)
OBVIOUS

\* The nodes of a document that stay where they are when one at p is replaced, and
\* where those of a tree that is put at p come to be.
Kept(d, p) == {q \in DOMAIN d : ~IsPrefix(p, q)}
Placed(p, sub) == {p \o r : r \in DOMAIN sub}

\* A tree that takes the place of another: what is where.
LEMMA GraftIs ==
    ASSUME NEW d, NEW sub, NEW p
    PROVE  /\ DOMAIN Graft(d, p, sub) = Kept(d, p) \union Placed(p, sub)
           /\ \A q \in Kept(d, p) : Graft(d, p, sub)[q] = d[q]
BY DEF Graft, Prune, Under, Restrict, Kept, Placed

\* Below p the result has the tree put there.
LEMMA GraftHas ==
    ASSUME NEW d, NEW sub, DOMAIN sub \subseteq Seq(Nat), NEW p \in Seq(Nat), NEW r \in DOMAIN sub
    PROVE  Graft(d, p, sub)[p \o r] = sub[r]
<1> DEFINE D == Kept(d, p) \union Placed(p, sub)
<1>1. Graft(d, p, sub) = [q \in D |-> IF IsPrefix(p, q) THEN sub[SubSeq(q, Len(p) + 1, Len(q))] ELSE d[q]]
    BY DEF Graft, Prune, Under, Restrict, Kept, Placed
<1>2. IsPrefix(p, p \o r) /\ SubSeq(p \o r, Len(p) + 1, Len(p \o r)) = r
    BY PrefixConcat
<1>3. p \o r \in D
    BY DEF Placed
<1> QED BY <1>1, <1>2, <1>3

\* At p it has that tree's root.
LEMMA GraftRoot ==
    ASSUME NEW d, NEW sub, DOMAIN sub \subseteq Seq(Nat), <<>> \in DOMAIN sub, NEW p \in Seq(Nat)
    PROVE  p \in DOMAIN Graft(d, p, sub) /\ Graft(d, p, sub)[p] = sub[<<>>]
<1>1. IsPrefix(p, p \o <<>>) /\ SubSeq(p \o <<>>, Len(p) + 1, Len(p \o <<>>)) = <<>> /\ p \o <<>> = p
    BY EmptyConcat, PrefixConcat
<1>2. p \in Placed(p, sub)
    BY <1>1 DEF Placed
<1> QED BY <1>1, <1>2 DEF Graft, Prune, Under, Restrict, Placed

\* It is a function.
LEMMA GraftIsFunction ==
    ASSUME NEW d, NEW p, NEW sub, NEW g, g = Graft(d, p, sub)
    PROVE  g = [q \in DOMAIN g |-> g[q]]
BY DEF Graft

\* A prefix of a place above is one of the place, and no place is above itself.
LEMMA PrefixAbove ==
    ASSUME NEW p \in Seq(Nat), NEW q \in Seq(Nat), q # <<>>
    PROVE  /\ IsPrefix(p, Front(q)) => IsPrefix(p, q)
           /\ ~IsPrefix(q, Front(q))
<1>1. Front(q) \in Seq(Nat) /\ Len(Front(q)) = Len(q) - 1 /\ Len(q) \in Nat
    BY FrontLast
<1>2. ~IsPrefix(q, Front(q))
    BY <1>1 DEF IsPrefix
<1>3. IsPrefix(p, Front(q)) => IsPrefix(p, q)
    BY PrefixFront
<1> QED BY <1>2, <1>3

\* Grafted at a place of a tree, a tree makes a tree.
LEMMA GraftTree ==
    ASSUME NEW d, NEW sub, IsTree(d), IsTree(sub), NEW p \in Seq(Nat), Attached(d, p)
    PROVE  IsTree(Graft(d, p, sub))
<1> DEFINE g == Graft(d, p, sub)
           Old == {q \in DOMAIN d : ~IsPrefix(p, q)}
<1>0. Old = Kept(d, p) /\ Placed(p, sub) = {p \o r : r \in DOMAIN sub}
    BY DEF Kept, Placed
<1>1. /\ DOMAIN g = Old \union {p \o r : r \in DOMAIN sub}
      /\ g = [q \in DOMAIN g |-> g[q]]
      /\ \A q \in Old : g[q] = d[q]
      /\ \A r \in DOMAIN sub : g[p \o r] = sub[r]
  <2>1. DOMAIN d \subseteq Seq(Nat) /\ DOMAIN sub \subseteq Seq(Nat)
      BY DEF IsTree
  <2>2. /\ DOMAIN Graft(d, p, sub) = Kept(d, p) \union Placed(p, sub)
        /\ \A q \in Kept(d, p) : Graft(d, p, sub)[q] = d[q]
      BY GraftIs
  <2>4. \A r \in DOMAIN sub : Graft(d, p, sub)[p \o r] = sub[r]
      BY <2>1, GraftHas
  <2>3. g = [q \in DOMAIN g |-> g[q]]
      BY GraftIsFunction
  <2> HIDE DEF g, Old
  <2> QED BY <1>0, <2>2, <2>3, <2>4 DEF g
<1> HIDE DEF g
<1>2. DOMAIN g \subseteq Seq(Nat)
  <2>1. \A r \in DOMAIN sub : p \o r \in Seq(Nat)
      BY DEF IsTree
  <2>2. \A q \in Old : q \in Seq(Nat)
      BY DEF IsTree
  <2> HIDE DEF Old
  <2> QED BY <1>1, <2>1, <2>2
<1>3. IsFiniteSet(DOMAIN g)
  <2>1. IsFiniteSet(Old)
      BY FS_Subset DEF IsTree
  <2>2. IsFiniteSet({p \o r : r \in DOMAIN sub})
    <3>1. IsFiniteSet(DOMAIN sub)
        BY DEF IsTree
    <3> DEFINE F == [r \in DOMAIN sub |-> p \o r]
    <3>2. F = [r \in DOMAIN sub |-> F[r]] /\ {F[r] : r \in DOMAIN sub} = {p \o r : r \in DOMAIN sub}
        OBVIOUS
    <3> HIDE DEF F
    <3>3. IsFiniteSet({F[r] : r \in DOMAIN sub})
        BY <3>1, <3>2, FiniteRange
    <3> QED BY <3>2, <3>3
  <2> QED BY <1>1, <2>1, <2>2, FS_Union, ZenonT(60)
<1>4. <<>> \in DOMAIN g
  <2>1. CASE p = <<>>
      BY <1>1, <2>1, EmptyConcat DEF IsTree
  <2>2. CASE p # <<>>
    <3>1. ~IsPrefix(p, <<>>)
        BY <2>2 DEF IsPrefix
    <3> QED BY <1>1, <3>1 DEF IsTree
  <2> QED BY <2>1, <2>2
<1>5. ASSUME NEW q \in DOMAIN g PROVE IsNode(g[q])
    BY <1>1, ZenonT(60) DEF IsTree
<1>6. ASSUME NEW q \in DOMAIN g \ {<<>>}
      PROVE  /\ Front(q) \in DOMAIN g /\ g[Front(q)].kind \in {"map", "seq"}
             /\ g[Front(q)].kind = "map" => Last(q) \in DOMAIN g[Front(q)].keys
  <2>1. CASE q \in Old
    <3>1. q \in Seq(Nat) /\ Front(q) \in DOMAIN d
        BY <1>6, <2>1 DEF IsTree
    <3>2. Front(q) \in Old
        BY <1>6, <2>1, <3>1, PrefixAbove
    <3> QED BY <1>1, <1>6, <2>1, <3>2 DEF IsTree
  <2>2. CASE q = p
    <3>1. Front(p) \in DOMAIN d /\ d[Front(p)].kind \in {"map", "seq"}
          /\ (d[Front(p)].kind = "map" => Last(p) \in DOMAIN d[Front(p)].keys)
        BY <1>6, <2>2 DEF Attached
    <3>2. Front(p) \in Old
        BY <1>6, <2>2, <3>1, PrefixAbove
    <3> QED BY <1>1, <2>2, <3>1, <3>2
  <2>3. ASSUME NEW r \in DOMAIN sub, q = p \o r, r # <<>>
        PROVE  /\ Front(q) \in DOMAIN g /\ g[Front(q)].kind \in {"map", "seq"}
               /\ g[Front(q)].kind = "map" => Last(q) \in DOMAIN g[Front(q)].keys
    <3>1. /\ Front(r) \in DOMAIN sub /\ sub[Front(r)].kind \in {"map", "seq"}
          /\ sub[Front(r)].kind = "map" => Last(r) \in DOMAIN sub[Front(r)].keys
        BY <2>3, TreeIs
    <3>2. Front(q) = p \o Front(r) /\ Last(q) = Last(r)
        BY <2>3, TreeIs, ConcatFront
    <3> QED BY <1>1, <3>1, <3>2
  <2> QED BY <1>1, <2>1, <2>2, <2>3, EmptyConcat
<1> QED BY <1>1, <1>2, <1>3, <1>4, <1>5, <1>6 DEF IsTree, g

\* Another node at a place of a tree: what is below it can stay there.
LEMMA NodeTree ==
    ASSUME NEW d, IsTree(d), NEW p \in DOMAIN d, NEW n, IsNode(n), n.kind = d[p].kind,
           DOMAIN d[p].keys \subseteq DOMAIN n.keys
    PROVE  IsTree([d EXCEPT ![p] = n])
<1> DEFINE g == [d EXCEPT ![p] = n]
<1>1. DOMAIN g = DOMAIN d /\ g[p] = n /\ \A q \in DOMAIN d : q # p => g[q] = d[q]
    BY DEF IsTree
<1>2. g = [q \in DOMAIN g |-> g[q]]
    BY DEF IsTree
<1> HIDE DEF g
<1>3. \A q \in DOMAIN g : IsNode(g[q])
    BY <1>1 DEF IsTree
<1>4. ASSUME NEW q \in DOMAIN g \ {<<>>}
      PROVE  /\ Front(q) \in DOMAIN g /\ g[Front(q)].kind \in {"map", "seq"}
             /\ g[Front(q)].kind = "map" => Last(q) \in DOMAIN g[Front(q)].keys
    BY <1>1 DEF IsTree
<1> QED BY <1>1, <1>2, <1>3, <1>4 DEF IsTree, g
-----------------------------------------------------------------------------
\* Nodes that are changed in some of their fields.
LEMMA ChangedNode ==
    ASSUME NEW n, IsNode(n)
    PROVE  /\ LET m == [n EXCEPT !.anchor = NoName]
              IN  IsNode(m) /\ m.kind = n.kind /\ m.keys = n.keys /\ m.anchor = NoName
           /\ LET m == [n EXCEPT !.modified = TRUE]
              IN  IsNode(m) /\ m.kind = n.kind /\ m.keys = n.keys /\ m.anchor = n.anchor /\ m.modified = TRUE
           /\ \A keys \in Seq(Keys) :
                LET m == [n EXCEPT !.keys = keys]
                IN  IsNode(m) /\ m.kind = n.kind /\ m.keys = keys /\ m.anchor = n.anchor
           /\ \A keys \in Seq(Keys) :
                LET m == [n EXCEPT !.keys = keys, !.modified = TRUE]
                IN  IsNode(m) /\ m.kind = n.kind /\ m.keys = keys /\ m.anchor = n.anchor /\ m.modified = TRUE
           /\ \A name \in Names :
                LET m == [n EXCEPT !.kind = "alias", !.keys = <<>>, !.val = name,
                                   !.anchor = NoName, !.modified = TRUE]
                IN  /\ IsNode(m) /\ m.kind = "alias" /\ m.val = name /\ m.keys = <<>> /\ m.anchor = NoName
                    /\ m.modified = TRUE
<1>1. n \in [kind : Kinds, keys : Seq(Keys), val : {n.val}, anchor : Names \union {NoName},
             tagged : BOOLEAN, modified : BOOLEAN]
    BY DEF IsNode
<1>3. LET m == [n EXCEPT !.anchor = NoName]
      IN  IsNode(m) /\ m.kind = n.kind /\ m.keys = n.keys /\ m.anchor = NoName
    BY <1>1 DEF IsNode
<1>4. LET m == [n EXCEPT !.modified = TRUE]
      IN  IsNode(m) /\ m.kind = n.kind /\ m.keys = n.keys /\ m.anchor = n.anchor /\ m.modified = TRUE
    BY <1>1 DEF IsNode
<1>6. \A keys \in Seq(Keys) :
        LET m == [n EXCEPT !.keys = keys]
        IN  IsNode(m) /\ m.kind = n.kind /\ m.keys = keys /\ m.anchor = n.anchor
    BY <1>1 DEF IsNode
<1>7. \A keys \in Seq(Keys) :
        LET m == [n EXCEPT !.keys = keys, !.modified = TRUE]
        IN  IsNode(m) /\ m.kind = n.kind /\ m.keys = keys /\ m.anchor = n.anchor /\ m.modified = TRUE
    BY <1>1 DEF IsNode
<1>8. \A name \in Names :
        LET m == [n EXCEPT !.kind = "alias", !.keys = <<>>, !.val = name, !.anchor = NoName, !.modified = TRUE]
        IN  /\ IsNode(m) /\ m.kind = "alias" /\ m.val = name /\ m.keys = <<>> /\ m.anchor = NoName
                    /\ m.modified = TRUE
  <2> TAKE name \in Names
  <2> DEFINE m == [n EXCEPT !.kind = "alias", !.keys = <<>>, !.val = name, !.anchor = NoName, !.modified = TRUE]
  <2>1. m = [kind |-> "alias", keys |-> <<>>, val |-> name, anchor |-> NoName, tagged |-> n.tagged, modified |-> TRUE]
    <3>1. n = [kind |-> n.kind, keys |-> n.keys, val |-> n.val, anchor |-> n.anchor,
               tagged |-> n.tagged, modified |-> n.modified]
        BY <1>1
    <3> DEFINE k == n.kind
               ks == n.keys
               v == n.val
               a == n.anchor
               b == n.tagged
               c == n.modified
               e == [kind |-> k, keys |-> ks, val |-> v, anchor |-> a, tagged |-> b, modified |-> c]
    <3>2. m = [e EXCEPT !.kind = "alias", !.keys = <<>>, !.val = name, !.anchor = NoName, !.modified = TRUE]
        BY <3>1
    <3> HIDE DEF m, k, ks, v, a, b, c
    <3>3. m = [kind |-> "alias", keys |-> <<>>, val |-> name, anchor |-> NoName, tagged |-> b, modified |-> TRUE]
        BY <3>2
    <3> QED BY <3>3 DEF b
  <2> HIDE DEF m
  <2>2. m \in [kind : Kinds, keys : Seq(Keys), val : {m.val}, anchor : Names \union {NoName},
               tagged : BOOLEAN, modified : BOOLEAN]
      BY <1>1, <2>1 DEF Kinds
  <2>3. IsNode(m) /\ m.kind = "alias" /\ m.val = name /\ m.keys = <<>> /\ m.anchor = NoName /\ m.modified = TRUE
      BY <2>1, <2>2 DEF IsNode
  <2> QED BY <2>3 DEF m
<1> QED BY <1>3, <1>4, <1>6, <1>7, <1>8

\* A node that is given a name.
LEMMA NamedNode ==
    ASSUME NEW n, IsNode(n), NEW a \in Names \union {NoName}
    PROVE  LET m == [n EXCEPT !.anchor = a, !.modified = TRUE]
           IN  /\ IsNode(m) /\ m.kind = n.kind /\ m.keys = n.keys /\ m.val = n.val /\ m.anchor = a
               /\ m.modified = TRUE
BY DEF IsNode

\* A node that takes the anchor and the tag of another.
LEMMA RenewedNode ==
    ASSUME NEW n, IsNode(n), NEW o, IsNode(o)
    PROVE  LET m == [n EXCEPT !.anchor = o.anchor, !.tagged = o.tagged, !.modified = TRUE]
           IN  IsNode(m) /\ m.kind = n.kind /\ m.keys = n.keys /\ m.anchor = o.anchor /\ m.modified = TRUE
BY DEF IsNode
-----------------------------------------------------------------------------
\* A tree that is put in a document brings no name but the one it takes the place of.
NoNewNames(d, p, sub) ==
    \A r \in DOMAIN sub :
        sub[r].anchor # NoName => r = <<>> /\ p \in DOMAIN d /\ sub[r].anchor = d[p].anchor

\* A tree that brings no name but that of the node it replaces leaves each name one owner.
LEMMA GraftOwned ==
    ASSUME NEW d, NEW sub, IsTree(d), IsTree(sub), NEW p \in Seq(Nat), Owned(d), DistinctKeys(sub),
           NoNewNames(d, p, sub)
    PROVE  Owned(Graft(d, p, sub))
<1> DEFINE g == Graft(d, p, sub)
<1>1. /\ DOMAIN Graft(d, p, sub) = Kept(d, p) \union Placed(p, sub)
      /\ \A q \in Kept(d, p) : Graft(d, p, sub)[q] = d[q]
    BY GraftIs
<1>2. \A r \in DOMAIN sub : g[p \o r] = sub[r]
    BY GraftHas DEF IsTree
<1>3. IsPrefix(p, p) /\ p \o <<>> = p
    BY EmptyConcat, PrefixIs
<1> HIDE DEF g
<1>4. DistinctKeys(g)
    BY <1>1, <1>2 DEF DistinctKeys, Owned, Kept, Placed, g
<1>5. ASSUME NEW q \in DOMAIN g, g[q].anchor # NoName
      PROVE  q \in DOMAIN d /\ g[q].anchor = d[q].anchor
  <2>1. CASE q \in Kept(d, p)
      BY <1>1, <2>1 DEF Kept, g
  <2>2. CASE q \in Placed(p, sub)
    <3>1. PICK r \in DOMAIN sub : q = p \o r
        BY <2>2 DEF Placed
    <3> QED BY <1>2, <1>3, <1>5, <3>1 DEF NoNewNames
  <2> QED BY <1>1, <2>1, <2>2 DEF g
<1>6. OneOwner(g)
    BY <1>5 DEF OneOwner, Owned
<1> QED BY <1>4, <1>6 DEF Owned, g

\* Another node at a place: its name is that of the node it takes the place of, or nobody's.
LEMMA NodeOwned ==
    ASSUME NEW d, IsTree(d), NEW p \in DOMAIN d, NEW n, Owned(d), IsInjective(n.keys),
           \A q \in DOMAIN d \ {p} : n.anchor # NoName => d[q].anchor # n.anchor
    PROVE  Owned([d EXCEPT ![p] = n])
<1> DEFINE g == [d EXCEPT ![p] = n]
<1>1. DOMAIN g = DOMAIN d /\ g[p] = n /\ \A q \in DOMAIN d : q # p => g[q] = d[q]
    BY DEF IsTree
<1> HIDE DEF g
<1>2. DistinctKeys(g)
    BY <1>1 DEF DistinctKeys, Owned
<1>3. OneOwner(g)
    BY <1>1 DEF OneOwner, Owned
<1> QED BY <1>2, <1>3 DEF Owned, g

\* A tree of a single node.
LEMMA LeafTree ==
    ASSUME NEW n, IsNode(n)
    PROVE  /\ IsTree(Leaf(n)) /\ DOMAIN Leaf(n) = {<<>>} /\ Leaf(n)[<<>>] = n
<1>1. DOMAIN Leaf(n) = {<<>>} /\ Leaf(n)[<<>>] = n /\ Leaf(n) = [r \in DOMAIN Leaf(n) |-> Leaf(n)[r]]
    BY DEF Leaf
<1>2. <<>> \in Seq(Nat)
    OBVIOUS
<1>3. IsFiniteSet({<<>>})
    BY FS_Singleton, Zenon
<1> QED BY <1>1, <1>2, <1>3 DEF IsTree
-----------------------------------------------------------------------------
\* The path to the node above is the path to the node, without its last segment.
LEMMA PathAbove ==
    ASSUME NEW d, NEW p \in Seq(Nat), p # <<>>
    PROVE  /\ DOMAIN Path(d, p) = 1 .. Len(p) /\ Path(d, p)[Len(p)] = Segment(d, p)
           /\ DOMAIN Path(d, Front(p)) = 1 .. Len(p) - 1
           /\ \A i \in 1 .. Len(p) - 1 : Path(d, Front(p))[i] = Path(d, p)[i]
<1> DEFINE f == Front(p)
<1>1. /\ f \in Seq(Nat) /\ Len(f) = Len(p) - 1 /\ Len(p) \in Nat \ {0}
      /\ \A i \in 1 .. Len(p) - 1 : f[i] = p[i]
    BY FrontLast, SMTT(60)
<1> HIDE DEF f
<1>2. DOMAIN p = 1 .. Len(p) /\ DOMAIN f = 1 .. Len(p) - 1 /\ Len(p) \in 1 .. Len(p)
    BY <1>1
<1>3. SubSeq(p, 1, Len(p)) = p
    BY SubSeqFull
<1>4. ASSUME NEW i \in 1 .. Len(p) - 1 PROVE SubSeq(f, 1, i) = SubSeq(p, 1, i)
  <2> DEFINE a == SubSeq(f, 1, i)
             b == SubSeq(p, 1, i)
  <2>1. i \in 0 .. Len(p) /\ i \in 0 .. Len(f) /\ i \in Nat /\ 1 \in 1 .. Len(p) + 1 /\ 1 \in 1 .. Len(f) + 1
      BY <1>1
  <2>2. a \in Seq(Nat) /\ Len(a) = i /\ \A j \in 1 .. i : a[j] = f[j]
      BY <1>1, <2>1, Beginning
  <2>3. b \in Seq(Nat) /\ Len(b) = i /\ \A j \in 1 .. i : b[j] = p[j]
      BY <2>1, Beginning
  <2> HIDE DEF a, b
  <2>4. ASSUME NEW j \in 1 .. i PROVE a[j] = b[j]
    <3>1. j \in 1 .. Len(p) - 1
        BY <1>1, <2>1
    <3>2. f[j] = p[j]
        BY <1>1, <3>1
    <3> QED BY <2>2, <2>3, <3>2
  <2>5. a = b
      BY <2>1, <2>2, <2>3, <2>4, SeqEqual
  <2> QED BY <2>5 DEF a, b
<1>5. \A i \in 1 .. Len(p) - 1 : i \in DOMAIN p /\ i \in DOMAIN f
    BY <1>1, <1>2
<1>6. Path(d, p) = [i \in 1 .. Len(p) |-> Segment(d, SubSeq(p, 1, i))]
    BY <1>2 DEF Path
<1>7. Path(d, f) = [i \in 1 .. Len(p) - 1 |-> Segment(d, SubSeq(f, 1, i))]
    BY <1>2 DEF Path
<1>8. Path(d, p)[Len(p)] = Segment(d, p)
    BY <1>2, <1>3, <1>6
<1>9. ASSUME NEW i \in 1 .. Len(p) - 1 PROVE Path(d, f)[i] = Path(d, p)[i]
    BY <1>2, <1>4, <1>5, <1>6, <1>7
<1> QED BY <1>6, <1>7, <1>8, <1>9 DEF f

\* Where no mapping holds a key twice, a path leads to one node.
LEMMA PathInjective ==
    ASSUME NEW d, IsTree(d), DistinctKeys(d), NEW p \in DOMAIN d, NEW q \in DOMAIN d, Path(d, p) = Path(d, q)
    PROVE  p = q
<1> DEFINE T == {k \in Nat : \A a, b \in DOMAIN d : Len(a) = k /\ Path(d, a) = Path(d, b) => a = b}
<1>1. \A a \in DOMAIN d : a \in Seq(Nat) /\ Len(a) \in Nat /\ DOMAIN Path(d, a) = 1 .. Len(a)
    BY DEF IsTree, Path
<1>2. \A a, b \in DOMAIN d : Path(d, a) = Path(d, b) => Len(a) = Len(b)
    BY <1>1
<1>3. 0 \in T
    BY <1>1, <1>2
<1>4. ASSUME NEW k \in Nat, k \in T PROVE k + 1 \in T
  <2> SUFFICES ASSUME NEW a \in DOMAIN d, NEW b \in DOMAIN d, Len(a) = k + 1, Path(d, a) = Path(d, b)
               PROVE  a = b
      OBVIOUS
  <2>1. a \in Seq(Nat) /\ b \in Seq(Nat) /\ a # <<>> /\ b # <<>> /\ Len(b) = k + 1
      BY <1>1, <1>2
  <2>2. /\ Front(a) \in DOMAIN d /\ Front(b) \in DOMAIN d /\ Last(a) \in Nat /\ Last(b) \in Nat
        /\ a = Append(Front(a), Last(a)) /\ b = Append(Front(b), Last(b))
        /\ d[Front(a)].kind = "map" => Last(a) \in DOMAIN d[Front(a)].keys
        /\ d[Front(b)].kind = "map" => Last(b) \in DOMAIN d[Front(b)].keys
      BY <2>1, TreeIs
  <2>3. Len(Front(a)) = k
    <3>1. Len(Front(a)) = Len(a) - 1
        BY <2>1, FrontLast
    <3> QED BY <3>1
  <2>4. Path(d, Front(a)) = Path(d, Front(b))
    <3>3. /\ DOMAIN Path(d, Front(a)) = 1 .. Len(a) - 1
          /\ \A i \in 1 .. Len(a) - 1 : Path(d, Front(a))[i] = Path(d, a)[i]
        BY <2>1, PathAbove
    <3>4. /\ DOMAIN Path(d, Front(b)) = 1 .. Len(b) - 1
          /\ \A i \in 1 .. Len(b) - 1 : Path(d, Front(b))[i] = Path(d, b)[i]
        BY <2>1, PathAbove
    <3>1. /\ DOMAIN Path(d, Front(a)) = DOMAIN Path(d, Front(b))
          /\ \A i \in DOMAIN Path(d, Front(a)) : Path(d, Front(a))[i] = Path(d, Front(b))[i]
        BY <2>1, <3>3, <3>4
    <3>2. /\ Path(d, Front(a)) = [i \in DOMAIN Path(d, Front(a)) |-> Path(d, Front(a))[i]]
          /\ Path(d, Front(b)) = [i \in DOMAIN Path(d, Front(b)) |-> Path(d, Front(b))[i]]
        BY DEF Path
    <3> QED BY <3>1, <3>2
  <2>5. Front(a) = Front(b)
      BY <1>4, <2>2, <2>3, <2>4
  <2>6. Segment(d, a) = Segment(d, b)
      BY <2>1, PathAbove
  <2>7. Last(a) = Last(b)
      BY <2>2, <2>5, <2>6 DEF Segment, DistinctKeys, IsInjective
  <2> QED BY <2>2, <2>5, <2>7
<1> HIDE DEF T
<1>5. Len(p) \in T
    BY <1>1, <1>3, <1>4, NatSetInduction
<1> QED BY <1>5 DEF T

\* The one node that has an anchor is its definition.
LEMMA DefinitionIs ==
    ASSUME NEW d, OneOwner(d), NEW name, name # NoName, NEW p \in Definitions(d, name)
    PROVE  Definition(d, name) = p
<1>1. \A q \in Definitions(d, name) : q = p
    BY DEF OneOwner, Definitions
<1>2. \E q \in Definitions(d, name) : \A s \in Definitions(d, name) \ {q} : Before(q, s)
    BY <1>1
<1>3. Definition(d, name) \in Definitions(d, name)
    BY <1>2 DEF Definition
<1> QED BY <1>1, <1>3
-----------------------------------------------------------------------------
\* The entries or items of a node: their nodes are in the document.
LEMMA ChildrenAre ==
    ASSUME NEW d, IsTree(d), NEW p \in Seq(Nat)
    PROVE  /\ Children(d, p) \in SUBSET Nat /\ IsFiniteSet(Children(d, p))
           /\ \A i \in Children(d, p) :
                /\ Append(p, i) \in DOMAIN d /\ d[p].kind \in {"map", "seq"}
                /\ d[p].kind = "map" => i \in DOMAIN d[p].keys
<1> DEFINE Q == {q \in DOMAIN d \ {<<>>} : Front(q) = p}
           F == [q \in Q |-> Last(q)]
<1>1. Children(d, p) = {F[q] : q \in Q}
    BY DEF Children
<1>2. F = [q \in Q |-> F[q]]
    OBVIOUS
<1>3. IsFiniteSet(Q)
    BY FS_Subset DEF IsTree
<1>4. \A q \in Q : /\ F[q] \in Nat /\ q = Append(p, F[q]) /\ q \in DOMAIN d /\ d[p].kind \in {"map", "seq"}
                   /\ d[p].kind = "map" => F[q] \in DOMAIN d[p].keys
    BY TreeIs
<1> HIDE DEF F, Q
<1>5. IsFiniteSet({F[q] : q \in Q})
    BY <1>2, <1>3, FiniteRange
<1> QED BY <1>1, <1>4, <1>5

\* The numbers in a set, in order: each is told once.
LEMMA AscendingIs ==
    ASSUME NEW S \in SUBSET Nat, IsFiniteSet(S), NEW f, f = Ascending(S)
    PROVE  /\ Cardinality(S) \in Nat /\ f \in [1 .. Cardinality(S) -> S]
           /\ \A i, j \in 1 .. Cardinality(S) : f[i] = f[j] => i = j
           /\ \A i, j \in 1 .. Cardinality(S) : i < j => f[i] < f[j]
<1>1. Cardinality(S) \in Nat
    BY FS_CardinalityType
<1>2. PICK h \in [1 .. Cardinality(S) -> S] : \A i, j \in 1 .. Cardinality(S) : i < j => h[i] < h[j]
    BY Enumeration
<1>3. \E h1 \in [1 .. Cardinality(S) -> S] : \A i, j \in DOMAIN h1 : i < j => h1[i] < h1[j]
    BY <1>2
<1>4. f \in [1 .. Cardinality(S) -> S] /\ \A i, j \in DOMAIN f : i < j => f[i] < f[j]
    BY <1>3 DEF Ascending
<1>5. ASSUME NEW i \in 1 .. Cardinality(S), NEW j \in 1 .. Cardinality(S), f[i] = f[j]
      PROVE  i = j
  <2>1. f[i] \in Nat /\ f[j] \in Nat /\ i \in DOMAIN f /\ j \in DOMAIN f
      BY <1>4
  <2>2. ~(i < j) /\ ~(j < i)
      BY <1>4, <1>5, <2>1
  <2> QED BY <2>2
<1> QED BY <1>1, <1>4, <1>5

\* A place below the child numbered j of the node at p.
LEMMA BelowChild ==
    ASSUME NEW p \in Seq(Nat), NEW j \in Nat, NEW r \in Seq(Nat), NEW x, x = Append(p, j) \o r
    PROVE  /\ x \in Seq(Nat) /\ x # <<>> /\ x # p /\ IsPrefix(p, x) /\ IsStrictPrefix(p, x)
           /\ x[Len(p) + 1] = j /\ SubSeq(x, Len(p) + 2, Len(x)) = r
<1> DEFINE c == Append(p, j)
<1>1. c \in Seq(Nat) /\ Len(c) = Len(p) + 1 /\ c[Len(p) + 1] = j /\ \A i \in 1 .. Len(p) : c[i] = p[i]
    BY AppendProperties
<1>2. Len(p) \in Nat /\ Len(r) \in Nat
    OBVIOUS
<1> HIDE DEF c
<1>3. /\ x \in Seq(Nat) /\ Len(x) = Len(c) + Len(r)
      /\ \A i \in 1 .. Len(c) : x[i] = c[i]
      /\ SubSeq(x, Len(c) + 1, Len(x)) = r
  <2>1. c \o r = x
      BY DEF c
  <2>2. c \o r \in Seq(Nat) /\ Len(c \o r) = Len(c) + Len(r) /\ \A i \in 1 .. Len(c) : (c \o r)[i] = c[i]
      BY <1>1, ConcatProperties
  <2>3. SubSeq(c \o r, Len(c) + 1, Len(c \o r)) = r
      BY <1>1, PrefixConcat
  <2> QED BY <2>1, <2>2, <2>3
<1>4. \A i \in 1 .. Len(p) : x[i] = p[i]
    BY <1>1, <1>2, <1>3
<1>5. Len(p) + 1 \in 1 .. Len(c) /\ (Len(p) + 1) + 1 = Len(p) + 2
    BY <1>1, <1>2
<1>6. x[Len(p) + 1] = j /\ SubSeq(x, Len(p) + 2, Len(x)) = r
    BY <1>1, <1>3, <1>5
<1>7. Len(p) < Len(x)
    BY <1>1, <1>2, <1>3
<1>8. IsPrefix(p, x)
  <2>1. \A y \in Seq(Nat) : IsPrefix(p, y) <=> Len(p) <= Len(y) /\ \A i \in 1 .. Len(p) : p[i] = y[i]
      BY PrefixIs
  <2>2. x \in Seq(Nat) /\ Len(p) <= Len(x) /\ \A i \in 1 .. Len(p) : p[i] = x[i]
      BY <1>2, <1>3, <1>4, <1>7
  <2> QED BY <2>1, <2>2, Zenon
<1>9. x # p /\ x # <<>>
    BY <1>2, <1>7
<1> QED BY <1>3, <1>6, <1>8, <1>9 DEF IsStrictPrefix

\* A container without some of its children: the others close up, with all below
\* them; each node but the container is one of the document, and no two are the same.
Shortened(d, p, keep, g) ==
    /\ \E n \in Nat : keep \in [1 .. n -> Children(d, p)]
    /\ \A i, j \in DOMAIN keep : (keep[i] = keep[j] => i = j) /\ (i < j => keep[i] < keep[j])
    /\ p \in DOMAIN g
    /\ IsNode(g[p]) /\ g[p].kind = d[p].kind /\ g[p].anchor = d[p].anchor /\ g[p].modified = TRUE
    /\ d[p].kind = "map" => /\ DOMAIN g[p].keys = DOMAIN keep
                            /\ \A j \in DOMAIN keep : g[p].keys[j] = d[p].keys[keep[j]]
    /\ d[p].kind # "map" => g[p].keys = <<>>
    /\ \A q \in Kept(d, p) : q \in DOMAIN g /\ g[q] = d[q]
    /\ \A j \in DOMAIN keep, r \in Seq(Nat) :
         Append(p, keep[j]) \o r \in DOMAIN d =>
             Append(p, j) \o r \in DOMAIN g /\ g[Append(p, j) \o r] = d[Append(p, keep[j]) \o r]
    /\ \A q \in DOMAIN g : \/ q = p
                           \/ q \in Kept(d, p)
                           \/ \E j \in DOMAIN keep, r \in Seq(Nat) :
                                 q = Append(p, j) \o r /\ Append(p, keep[j]) \o r \in DOMAIN d

\* Deleting the children `gone' of p renumbers the others in order and changes nothing else.
LEMMA WithoutChildrenIs ==
    ASSUME NEW d, IsTree(d), NEW p \in DOMAIN d, NEW gone
    PROVE  Shortened(d, p, Ascending(Children(d, p) \ gone), WithoutChildren(d, p, gone))
<1> DEFINE keep == Ascending(Children(d, p) \ gone)
           g == WithoutChildren(d, p, gone)
           kept == Ascending(Children(d, p) \ gone)
           keys == IF d[p].kind = "map" THEN [j \in DOMAIN kept |-> d[p].keys[kept[j]]] ELSE <<>>
           node == [d[p] EXCEPT !.keys = keys, !.modified = TRUE]
           Sub(j) == DOMAIN Subtree(d, Append(p, kept[j]))
           Moved(j) == {Append(p, j) \o r : r \in Sub(j)}
           From(q) == Append(p, kept[q[Len(p) + 1]]) \o SubSeq(q, Len(p) + 2, Len(q))
           D == {q \in DOMAIN d : ~IsStrictPrefix(p, q)} \union UNION {Moved(j) : j \in DOMAIN kept}
<1>1. p \in Seq(Nat) /\ DOMAIN d \subseteq Seq(Nat) /\ Len(p) \in Nat
    BY DEF IsTree
<1>2. g = [q \in D |-> IF q = p THEN node ELSE IF IsPrefix(p, q) THEN d[From(q)] ELSE d[q]]
    BY DEF WithoutChildren
<1> HIDE DEF g
<1>14. kept = keep
    OBVIOUS
<1> HIDE DEF kept
<1>3. PICK n \in Nat :
        /\ kept \in [1 .. n -> Children(d, p)]
        /\ \A i, j \in DOMAIN kept : (kept[i] = kept[j] => i = j) /\ (i < j => kept[i] < kept[j])
  <2> DEFINE S == Children(d, p) \ gone
  <2>1. Children(d, p) \in SUBSET Nat /\ IsFiniteSet(Children(d, p))
      BY <1>1, ChildrenAre
  <2>2. S \in SUBSET Nat /\ IsFiniteSet(S) /\ S \subseteq Children(d, p)
      BY <2>1, FS_Subset
  <2> HIDE DEF S
  <2>3. /\ Cardinality(S) \in Nat /\ kept \in [1 .. Cardinality(S) -> S]
        /\ \A i, j \in 1 .. Cardinality(S) : kept[i] = kept[j] => i = j
        /\ \A i, j \in 1 .. Cardinality(S) : i < j => kept[i] < kept[j]
      BY <2>2, AscendingIs DEF S, kept
  <2> QED BY <2>2, <2>3
<1>4. \A j \in DOMAIN kept : j \in Nat /\ kept[j] \in Nat
  <2>1. Children(d, p) \in SUBSET Nat
      BY <1>1, ChildrenAre
  <2>2. \A j \in DOMAIN kept : j \in Nat /\ kept[j] \in Children(d, p)
      BY <1>3
  <2> QED BY <2>1, <2>2
<1>5. ASSUME NEW j \in DOMAIN kept
      PROVE  Sub(j) = {r \in Seq(Nat) : Append(p, kept[j]) \o r \in DOMAIN d}
  <2> DEFINE c == Append(p, kept[j])
  <2>1. c \in Seq(Nat)
      BY <1>1, <1>4
  <2> HIDE DEF c
  <2>2. Sub(j) = {SubSeq(q, Len(c) + 1, Len(q)) : q \in Under(d, c)}
      BY DEF Subtree, c
  <2>3. ASSUME NEW r \in Sub(j) PROVE r \in Seq(Nat) /\ c \o r \in DOMAIN d
    <3>1. PICK q \in DOMAIN d : IsPrefix(c, q) /\ r = SubSeq(q, Len(c) + 1, Len(q))
        BY <2>2, <2>3 DEF Under
    <3>2. q \in Seq(Nat)
        BY <1>1
    <3>3. r \in Seq(Nat) /\ q = c \o r
        BY <2>1, <3>1, <3>2, PrefixSplit
    <3> QED BY <3>3
  <2>4. ASSUME NEW r \in Seq(Nat), c \o r \in DOMAIN d PROVE r \in Sub(j)
    <3>1. IsPrefix(c, c \o r) /\ SubSeq(c \o r, Len(c) + 1, Len(c \o r)) = r
        BY <2>1, PrefixConcat
    <3>2. c \o r \in Under(d, c)
        BY <2>4, <3>1 DEF Under
    <3> QED BY <2>2, <3>1, <3>2
  <2> HIDE DEF Sub
  <2>5. Sub(j) = {r \in Seq(Nat) : c \o r \in DOMAIN d}
      BY <2>3, <2>4
  <2> QED BY <2>5 DEF c
<1> HIDE DEF Sub
<1>6. p \in D /\ g[p] = node
    BY <1>2 DEF IsStrictPrefix
<1>7. ASSUME NEW q \in Kept(d, p) PROVE q \in D /\ g[q] = d[q]
  <2>1. q \in DOMAIN d /\ ~IsPrefix(p, q) /\ ~IsStrictPrefix(p, q)
      BY DEF Kept, IsStrictPrefix
  <2>2. q # p
      BY <1>1, <2>1, PrefixIs
  <2> QED BY <1>2, <2>1, <2>2
<1>8. ASSUME NEW j \in DOMAIN kept, NEW r \in Seq(Nat), Append(p, kept[j]) \o r \in DOMAIN d
      PROVE  Append(p, j) \o r \in D /\ g[Append(p, j) \o r] = d[Append(p, kept[j]) \o r]
  <2> DEFINE x == Append(p, j) \o r
  <2>1. x \in Moved(j)
      BY <1>5, <1>8
  <2>2. x \in D
      BY <2>1
  <2>3. x # p /\ IsPrefix(p, x) /\ x[Len(p) + 1] = j /\ SubSeq(x, Len(p) + 2, Len(x)) = r
      BY <1>1, <1>4, BelowChild
  <2> HIDE DEF x
  <2>4. g[x] = d[Append(p, kept[j]) \o r]
      BY <1>2, <2>2, <2>3
  <2> QED BY <2>2, <2>4 DEF x
<1>9. ASSUME NEW q \in D
      PROVE  \/ q = p
             \/ q \in Kept(d, p)
             \/ \E j \in DOMAIN kept, r \in Seq(Nat) : q = Append(p, j) \o r /\ Append(p, kept[j]) \o r \in DOMAIN d
  <2>1. CASE q \in DOMAIN d /\ ~IsStrictPrefix(p, q)
      BY <2>1 DEF Kept, IsStrictPrefix
  <2>2. CASE \E j \in DOMAIN kept : q \in Moved(j)
    <3>1. PICK j \in DOMAIN kept : q \in Moved(j)
        BY <2>2
    <3>2. PICK r \in Sub(j) : q = Append(p, j) \o r
        BY <3>1
    <3> QED BY <1>5, <3>2
  <2> QED BY <2>1, <2>2
<1>11. /\ IsNode(node) /\ node.kind = d[p].kind /\ node.anchor = d[p].anchor /\ node.modified = TRUE
       /\ node.keys = keys
  <2>1. IsNode(d[p])
      BY TreeIs
  <2>2. keys \in Seq(Keys)
    <3>1. CASE d[p].kind = "map"
      <4>1. \A j \in DOMAIN kept : kept[j] \in DOMAIN d[p].keys
        <5>1. \A i \in Children(d, p) : i \in DOMAIN d[p].keys
            BY <1>1, <3>1, ChildrenAre
        <5> QED BY <1>3, <5>1
      <4>2. d[p].keys \in Seq(Keys)
          BY <2>1 DEF IsNode
      <4>3. PICK k \in Nat : kept \in [1 .. k -> Children(d, p)]
          BY <1>3
      <4>4. \A j \in 1 .. k : d[p].keys[kept[j]] \in Keys
          BY <4>1, <4>2, <4>3
      <4>5. keys = [j \in 1 .. k |-> d[p].keys[kept[j]]]
          BY <3>1, <4>3
      <4> HIDE DEF keys
      <4> QED BY <4>3, <4>4, <4>5
    <3>2. CASE d[p].kind # "map"
        BY <3>2
    <3> QED BY <3>1, <3>2
  <2> HIDE DEF keys
  <2>3. LET m == [d[p] EXCEPT !.keys = keys, !.modified = TRUE]
        IN  IsNode(m) /\ m.kind = d[p].kind /\ m.keys = keys /\ m.anchor = d[p].anchor /\ m.modified = TRUE
      BY <2>1, <2>2, ChangedNode
  <2> QED BY <2>3
<1>12. d[p].kind = "map" => DOMAIN keys = DOMAIN kept /\ \A j \in DOMAIN kept : keys[j] = d[p].keys[kept[j]]
    OBVIOUS
<1>13. d[p].kind # "map" => keys = <<>>
    OBVIOUS
<1> HIDE DEF keys, node
<1>10. DOMAIN g = D
    BY <1>2
<1> HIDE DEF D
<1> HIDE DEF keep
<1>15. \E k \in Nat : keep \in [1 .. k -> Children(d, p)]
    BY <1>3, <1>14
<1>16. \A i, j \in DOMAIN keep : (keep[i] = keep[j] => i = j) /\ (i < j => keep[i] < keep[j])
    BY <1>3, <1>14
<1>17. \A q \in Kept(d, p) : q \in DOMAIN g /\ g[q] = d[q]
    BY <1>7, <1>10
<1>18. \A j \in DOMAIN keep, r \in Seq(Nat) :
          Append(p, keep[j]) \o r \in DOMAIN d =>
              Append(p, j) \o r \in DOMAIN g /\ g[Append(p, j) \o r] = d[Append(p, keep[j]) \o r]
    BY <1>8, <1>10, <1>14
<1>19. \A q \in DOMAIN g : \/ q = p
                           \/ q \in Kept(d, p)
                           \/ \E j \in DOMAIN keep, r \in Seq(Nat) :
                                 q = Append(p, j) \o r /\ Append(p, keep[j]) \o r \in DOMAIN d
    BY <1>9, <1>10, <1>14
<1>20. /\ p \in DOMAIN g
       /\ IsNode(g[p]) /\ g[p].kind = d[p].kind /\ g[p].anchor = d[p].anchor /\ g[p].modified = TRUE
       /\ d[p].kind = "map" => /\ DOMAIN g[p].keys = DOMAIN keep
                               /\ \A j \in DOMAIN keep : g[p].keys[j] = d[p].keys[keep[j]]
       /\ d[p].kind # "map" => g[p].keys = <<>>
    BY <1>6, <1>10, <1>11, <1>12, <1>13, <1>14
<1>21. Shortened(d, p, keep, g)
    BY <1>15, <1>16, <1>17, <1>18, <1>19, <1>20 DEF Shortened
<1> QED BY <1>21 DEF keep, g

\* The result is a function on its positions.
LEMMA WithoutChildrenIsFunction ==
    ASSUME NEW d, NEW p, NEW gone, NEW g, g = WithoutChildren(d, p, gone)
    PROVE  g = [q \in DOMAIN g |-> g[q]]
BY DEF WithoutChildren

\* What is left is a tree with one owner for each name.
LEMMA WithoutChildrenTree ==
    ASSUME NEW d, IsTree(d), NEW p \in DOMAIN d, NEW gone, NEW g, g = WithoutChildren(d, p, gone)
    PROVE  IsTree(g) /\ (Owned(d) => Owned(g)) /\ p \in DOMAIN g /\ g[p].modified = TRUE
<1> DEFINE kept == Ascending(Children(d, p) \ gone)
           Old(j, r) == Append(p, kept[j]) \o r
           New(j, r) == Append(p, j) \o r
<1>0. kept = Ascending(Children(d, p) \ gone)
    OBVIOUS
<1> HIDE DEF kept
<1>1. /\ \E n \in Nat : kept \in [1 .. n -> Children(d, p)]
      /\ \A i, j \in DOMAIN kept : kept[i] = kept[j] => i = j
      /\ p \in DOMAIN g
      /\ IsNode(g[p]) /\ g[p].kind = d[p].kind /\ g[p].anchor = d[p].anchor /\ g[p].modified = TRUE
      /\ d[p].kind = "map" => /\ DOMAIN g[p].keys = DOMAIN kept
                              /\ \A j \in DOMAIN kept : g[p].keys[j] = d[p].keys[kept[j]]
      /\ d[p].kind # "map" => g[p].keys = <<>>
      /\ \A q \in Kept(d, p) : q \in DOMAIN g /\ g[q] = d[q]
      /\ \A j \in DOMAIN kept, r \in Seq(Nat) :
            Old(j, r) \in DOMAIN d => New(j, r) \in DOMAIN g /\ g[New(j, r)] = d[Old(j, r)]
      /\ \A q \in DOMAIN g : \/ q = p
                             \/ q \in Kept(d, p)
                             \/ \E j \in DOMAIN kept, r \in Seq(Nat) : q = New(j, r) /\ Old(j, r) \in DOMAIN d
  <2>1. Shortened(d, p, kept, g)
      BY <1>0, WithoutChildrenIs
  <2> QED BY <2>1 DEF Shortened
<1>2. p \in Seq(Nat) /\ DOMAIN d \subseteq Seq(Nat) /\ Len(p) \in Nat
    BY DEF IsTree
<1>3. ASSUME NEW j \in DOMAIN kept
      PROVE  /\ j \in Nat /\ kept[j] \in Nat /\ kept[j] \in Children(d, p)
             /\ Append(p, j) \in Seq(Nat) /\ Append(p, kept[j]) \in Seq(Nat) /\ Append(p, kept[j]) \in DOMAIN d
  <2>1. kept[j] \in Children(d, p) /\ j \in Nat
      BY <1>1
  <2>2. kept[j] \in Nat /\ Append(p, kept[j]) \in DOMAIN d
      BY <1>2, <2>1, ChildrenAre
  <2> QED BY <1>2, <2>1, <2>2
<1>4. ASSUME NEW j \in DOMAIN kept, NEW r \in Seq(Nat)
      PROVE  /\ New(j, r) \in Seq(Nat) /\ New(j, r) # <<>> /\ New(j, r) # p /\ IsPrefix(p, New(j, r))
             /\ New(j, r)[Len(p) + 1] = j /\ SubSeq(New(j, r), Len(p) + 2, Len(New(j, r))) = r
             /\ Old(j, r) \in Seq(Nat) /\ Old(j, r) # <<>> /\ Old(j, r) # p /\ IsPrefix(p, Old(j, r))
             /\ Old(j, r)[Len(p) + 1] = kept[j] /\ SubSeq(Old(j, r), Len(p) + 2, Len(Old(j, r))) = r
  <2>1. /\ New(j, r) \in Seq(Nat) /\ New(j, r) # <<>> /\ New(j, r) # p /\ IsPrefix(p, New(j, r))
        /\ New(j, r)[Len(p) + 1] = j /\ SubSeq(New(j, r), Len(p) + 2, Len(New(j, r))) = r
      BY <1>2, <1>3, BelowChild
  <2>3. \A i \in Nat :
            LET x == Append(p, i) \o r
            IN  /\ x \in Seq(Nat) /\ x # <<>> /\ x # p /\ IsPrefix(p, x)
                /\ x[Len(p) + 1] = i /\ SubSeq(x, Len(p) + 2, Len(x)) = r
      BY <1>2, BelowChild
  <2>2. /\ Old(j, r) \in Seq(Nat) /\ Old(j, r) # <<>> /\ Old(j, r) # p /\ IsPrefix(p, Old(j, r))
        /\ Old(j, r)[Len(p) + 1] = kept[j] /\ SubSeq(Old(j, r), Len(p) + 2, Len(Old(j, r))) = r
      BY <1>3, <2>3, Zenon
  <2> QED BY <2>1, <2>2
\* The node of the document that each node was, which tells them apart.
<1> DEFINE Was(q, o) == \/ q = p /\ o = p
                        \/ q \in Kept(d, p) /\ o = q
                        \/ \E j \in DOMAIN kept, r \in Seq(Nat) : q = New(j, r) /\ o = Old(j, r)
           was == [q \in DOMAIN g |-> CHOOSE o \in DOMAIN d : Was(q, o)]
<1>5. ASSUME NEW q \in DOMAIN g
      PROVE  was[q] \in DOMAIN d /\ Was(q, was[q])
  <2>1. \E o \in DOMAIN d : Was(q, o)
      BY <1>1, ZenonT(60) DEF Kept
  <2> HIDE DEF Was
  <2> QED BY <2>1
<1>6. was \in [DOMAIN g -> DOMAIN d]
  <2> HIDE DEF Was
  <2> QED BY <1>5
<1> HIDE DEF was
<1>7. \A q \in Kept(d, p) : q \in DOMAIN d /\ ~IsPrefix(p, q) /\ q # p
  <2>1. IsPrefix(p, p)
      BY <1>2, PrefixIs
  <2> QED BY <2>1 DEF Kept
<1>8. ASSUME NEW a \in DOMAIN g, NEW b \in DOMAIN g, was[a] = was[b] PROVE a = b
  <2>1. Was(a, was[a]) /\ Was(b, was[b])
      BY <1>5
  <2>5. \A j \in DOMAIN kept, r \in Seq(Nat) : IsPrefix(p, Old(j, r)) /\ Old(j, r) # p
      BY <1>4
  <2>2. CASE was[a] = p
    <3> HIDE DEF New, Old
    <3> QED BY <1>7, <1>8, <2>1, <2>2, <2>5
  <2>3. CASE was[a] \in Kept(d, p)
    <3> HIDE DEF New, Old
    <3> QED BY <1>7, <1>8, <2>1, <2>3, <2>5
  <2>4. ASSUME NEW i \in DOMAIN kept, NEW r \in Seq(Nat), a = New(i, r), was[a] = Old(i, r),
               NEW j \in DOMAIN kept, NEW s \in Seq(Nat), b = New(j, s), was[b] = Old(j, s)
        PROVE  a = b
    <3>1. kept[i] = kept[j] /\ r = s
      <4> HIDE DEF New, Old
      <4>1. /\ Old(i, r)[Len(p) + 1] = kept[i]
            /\ SubSeq(Old(i, r), Len(p) + 2, Len(Old(i, r))) = r
          BY <1>4
      <4>2. /\ Old(j, s)[Len(p) + 1] = kept[j]
            /\ SubSeq(Old(j, s), Len(p) + 2, Len(Old(j, s))) = s
          BY <1>4
      <4>3. Old(i, r) = Old(j, s)
          BY <1>8, <2>4
      <4> QED BY <4>1, <4>2, <4>3
    <3>2. i = j
        BY <1>1, <3>1
    <3> QED BY <2>4, <3>1, <3>2
  <2> HIDE DEF New, Old
  <2> QED BY <1>8, <2>1, <2>2, <2>3, <2>4
<1>9. ASSUME NEW q \in DOMAIN g, q # p PROVE g[q] = d[was[q]]
  <2> HIDE DEF New, Old
  <2>1. Was(q, was[q]) /\ was[q] \in DOMAIN d
      BY <1>5
  <2> QED BY <1>1, <1>9, <2>1
<1>10. was[p] = p
  <2> HIDE DEF New, Old
  <2>1. Was(p, was[p])
      BY <1>1, <1>5
  <2> QED BY <1>4, <1>7, <2>1
<1>11. DOMAIN g \subseteq Seq(Nat)
  <2> HIDE DEF New, Old
  <2> QED BY <1>1, <1>2, <1>4, <1>7
<1>12. IsFiniteSet(DOMAIN g)
  <2>1. was \in Injection(DOMAIN g, DOMAIN d)
      BY <1>6, <1>8 DEF Injection, IsInjective
  <2>2. IsFiniteSet(DOMAIN d)
      BY DEF IsTree
  <2> QED BY <2>1, <2>2, FS_Injection
<1>13. <<>> \in DOMAIN g
  <2>1. CASE p = <<>>
      BY <1>1, <2>1
  <2>2. CASE p # <<>>
    <3>1. ~IsPrefix(p, <<>>) /\ <<>> \in DOMAIN d
        BY <2>2 DEF IsTree, IsPrefix
    <3> QED BY <1>1, <3>1 DEF Kept
  <2> QED BY <2>1, <2>2
<1>14. ASSUME NEW q \in DOMAIN g PROVE IsNode(g[q])
  <2>1. \A o \in DOMAIN d : IsNode(d[o])
      BY TreeIs
  <2> HIDE DEF Was
  <2> QED BY <1>1, <1>5, <1>9, <2>1
<1>15. ASSUME NEW q \in DOMAIN g \ {<<>>}
       PROVE  /\ Front(q) \in DOMAIN g /\ g[Front(q)].kind \in {"map", "seq"}
              /\ g[Front(q)].kind = "map" => Last(q) \in DOMAIN g[Front(q)].keys
  <2>1. CASE q = p \/ q \in Kept(d, p)
    <3>1. /\ q \in DOMAIN d /\ q \in Seq(Nat) /\ q # <<>> /\ Front(q) \in DOMAIN d
          /\ d[Front(q)].kind \in {"map", "seq"}
          /\ d[Front(q)].kind = "map" => Last(q) \in DOMAIN d[Front(q)].keys
        BY <1>7, <2>1, TreeIs
    <3>2. ~IsPrefix(p, Front(q))
        BY <1>2, <1>7, <2>1, <3>1, PrefixAbove
    <3>3. Front(q) \in DOMAIN g /\ g[Front(q)] = d[Front(q)]
        BY <1>1, <3>1, <3>2 DEF Kept
    <3> QED BY <3>1, <3>3
  <2>2. ASSUME NEW j \in DOMAIN kept, NEW r \in Seq(Nat), q = New(j, r), Old(j, r) \in DOMAIN d
        PROVE  /\ Front(q) \in DOMAIN g /\ g[Front(q)].kind \in {"map", "seq"}
               /\ g[Front(q)].kind = "map" => Last(q) \in DOMAIN g[Front(q)].keys
    <3>1. CASE r = <<>>
      <4>1. q = Append(p, j)
          BY <1>3, <2>2, <3>1, EmptyConcat
      <4>2. Front(q) = p /\ Last(q) = j
          BY <1>2, <1>3, <4>1, AppendIs DEF Front, Last
      <4>3. d[p].kind \in {"map", "seq"}
          BY <1>2, <1>3, ChildrenAre
      <4> QED BY <1>1, <4>2, <4>3
    <3>2. CASE r # <<>>
      <4>1. Front(r) \in Seq(Nat)
          BY <3>2, FrontLast
      <4>2. Front(New(j, r)) = New(j, Front(r)) /\ Last(New(j, r)) = Last(r)
          BY <1>3, <3>2, ConcatFront, ZenonT(60)
      <4>3. Front(Old(j, r)) = Old(j, Front(r)) /\ Last(Old(j, r)) = Last(r)
          BY <1>3, <3>2, ConcatFront, ZenonT(60)
      <4>4. Old(j, r) # <<>>
          BY <1>4
      <4> HIDE DEF New, Old
      <4>5. /\ Old(j, Front(r)) \in DOMAIN d /\ d[Old(j, Front(r))].kind \in {"map", "seq"}
            /\ d[Old(j, Front(r))].kind = "map" => Last(r) \in DOMAIN d[Old(j, Front(r))].keys
          BY <2>2, <4>3, <4>4, TreeIs
      <4>6. New(j, Front(r)) \in DOMAIN g /\ g[New(j, Front(r))] = d[Old(j, Front(r))]
          BY <1>1, <4>1, <4>5
      <4> QED BY <2>2, <4>2, <4>5, <4>6
    <3> QED BY <3>1, <3>2
  <2> HIDE DEF New, Old
  <2> QED BY <1>1, <2>1, <2>2
<1>19. g = [q \in DOMAIN g |-> g[q]]
    BY WithoutChildrenIsFunction
<1>16. IsTree(g)
    BY <1>19, <1>11, <1>12, <1>13, <1>14, <1>15 DEF IsTree
<1>17. ASSUME Owned(d) PROVE DistinctKeys(g)
  <2>1. \A q \in DOMAIN g : q # p => IsInjective(g[q].keys)
      BY <1>5, <1>9, <1>17 DEF Owned, DistinctKeys
  <2>2. IsInjective(g[p].keys)
    <3>1. CASE d[p].kind = "map"
      <4>1. IsInjective(d[p].keys)
          BY <1>17 DEF Owned, DistinctKeys
      <4>2. \A j \in DOMAIN kept : kept[j] \in DOMAIN d[p].keys
        <5>1. \A i \in Children(d, p) : i \in DOMAIN d[p].keys
            BY <1>2, <3>1, ChildrenAre
        <5> QED BY <1>3, <5>1
      <4>3. \A i, j \in DOMAIN d[p].keys : d[p].keys[i] = d[p].keys[j] => i = j
          BY <4>1 DEF IsInjective
      <4>4. \A i, j \in DOMAIN g[p].keys : g[p].keys[i] = g[p].keys[j] => i = j
          BY <1>1, <3>1, <4>2, <4>3
      <4> QED BY <4>4 DEF IsInjective
    <3>2. CASE d[p].kind # "map"
        BY <1>1, <3>2 DEF IsInjective
    <3> QED BY <3>1, <3>2
  <2> QED BY <2>1, <2>2 DEF DistinctKeys
<1>18. ASSUME Owned(d) PROVE OneOwner(g)
  <2>1. \A q \in DOMAIN g : was[q] \in DOMAIN d /\ g[q].anchor = d[was[q]].anchor
      BY <1>1, <1>5, <1>9, <1>10
  <2> QED BY <1>8, <1>18, <2>1 DEF Owned, OneOwner
<1> QED BY <1>1, <1>16, <1>17, <1>18 DEF Owned
-----------------------------------------------------------------------------
\* Document order, by the place where two sequences part.
PartsAt(p, q, k) ==
    /\ k <= Len(p) /\ k < Len(q) /\ \A i \in 1 .. k : p[i] = q[i]
    /\ k = Len(p) \/ p[k + 1] < q[k + 1]

\* A position that parts to the left of another is before it.
LEMMA BeforeParts ==
    ASSUME NEW p \in Seq(Nat), NEW q \in Seq(Nat), NEW k \in Nat, PartsAt(p, q, k)
    PROVE  Before(p, q)
<1>1. Len(p) \in Nat /\ Len(q) \in Nat
    OBVIOUS
<1>4. DOMAIN p = 1 .. Len(p) /\ DOMAIN q = 1 .. Len(q)
    OBVIOUS
<1>2. CASE k = Len(p)
  <2>1. IsPrefix(p, q) <=> Len(p) <= Len(q) /\ \A i \in 1 .. Len(p) : p[i] = q[i]
      BY PrefixIs, ZenonT(60)
  <2>2. IsPrefix(p, q) /\ p # q
      BY <1>1, <1>2, <2>1 DEF PartsAt
  <2> QED BY <2>2 DEF Before, IsStrictPrefix
<1>3. CASE k # Len(p)
  <2>4. k <= Len(p) /\ k < Len(q) /\ (k = Len(p) \/ p[k + 1] < q[k + 1])
      BY DEF PartsAt
  <2>5. p[k + 1] < q[k + 1]
      BY <1>3, <2>4, Zenon
  <2>3. k < Len(p) /\ k < Len(q)
    <3>1. k <= Len(p) /\ k < Len(q)
        BY DEF PartsAt
    <3> QED BY <1>1, <1>3, <3>1
  <2>1. /\ k + 1 \in DOMAIN p \intersect DOMAIN q /\ (k + 1) - 1 = k
        /\ k \in 0 .. Len(p) /\ k \in 0 .. Len(q)
    <3>1. k + 1 \in 1 .. Len(p) /\ k + 1 \in 1 .. Len(q) /\ k \in 0 .. Len(p) /\ k \in 0 .. Len(q)
        BY <1>1, <2>3
    <3> QED BY <1>4, <3>1
  <2>2. SubSeq(p, 1, k) = SubSeq(q, 1, k)
    <3> DEFINE a == SubSeq(p, 1, k)
               b == SubSeq(q, 1, k)
    <3>1. a \in Seq(Nat) /\ Len(a) = k /\ \A i \in 1 .. k : a[i] = p[i]
        BY <2>1, Beginning
    <3>2. b \in Seq(Nat) /\ Len(b) = k /\ \A i \in 1 .. k : b[i] = q[i]
        BY <2>1, Beginning
    <3> HIDE DEF a, b
    <3>3. \A i \in 1 .. k : a[i] = b[i]
        BY <3>1, <3>2 DEF PartsAt
    <3>4. a = b
        BY <3>1, <3>2, <3>3, SeqEqual
    <3> QED BY <3>4 DEF a, b
  <2> QED BY <2>1, <2>2, <2>5 DEF Before
<1> QED BY <1>2, <1>3

\* Of two sequences one is before the other.
LEMMA PartsTotal ==
    ASSUME NEW p \in Seq(Nat), NEW q \in Seq(Nat), p # q
    PROVE  \E k \in Nat : PartsAt(p, q, k) \/ PartsAt(q, p, k)
<1> DEFINE T == {i \in Nat : i # 0 /\ (i > Len(p) \/ i > Len(q) \/ p[i] # q[i])}
<1>1. Len(p) + 1 \in T
    OBVIOUS
<1>2. PICK m \in T : \A i \in T : m <= i
    BY <1>1, LeastNatural
<1>3. m - 1 \in Nat /\ m \in Nat \ {0} /\ Len(p) \in Nat /\ Len(q) \in Nat
    OBVIOUS
<1>4. \A i \in 1 .. m - 1 : i <= Len(p) /\ i <= Len(q) /\ p[i] = q[i]
    BY <1>2, <1>3
<1>5. m - 1 <= Len(p) /\ m - 1 <= Len(q)
    BY <1>3, <1>4
<1>6. ~(m - 1 = Len(p) /\ m - 1 = Len(q))
    BY <1>4, SeqEqual
<1>7. CASE m - 1 = Len(p) \/ m - 1 = Len(q)
    BY <1>3, <1>4, <1>5, <1>6, <1>7, SMTT(60) DEF PartsAt
<1>8. CASE m <= Len(p) /\ m <= Len(q)
  <2>1. p[m] \in Nat /\ q[m] \in Nat /\ p[m] # q[m]
      BY <1>2, <1>3, <1>8
  <2>2. p[m] < q[m] \/ q[m] < p[m]
      BY <2>1
  <2> DEFINE k == m - 1
  <2>3. k \in Nat /\ k + 1 = m /\ k < Len(p) /\ k < Len(q) /\ \A i \in 1 .. k : p[i] = q[i]
      BY <1>3, <1>4, <1>8
  <2> HIDE DEF k
  <2>4. PartsAt(p, q, k) \/ PartsAt(q, p, k)
      BY <1>3, <2>2, <2>3 DEF PartsAt
  <2> QED BY <2>3, <2>4
<1> QED BY <1>3, <1>5, <1>7, <1>8, SMTT(60)

\* Parting to the left is transitive, at the nearer of the two places.
LEMMA PartsTransitive ==
    ASSUME NEW p \in Seq(Nat), NEW q \in Seq(Nat), NEW r \in Seq(Nat), NEW k \in Nat, NEW l \in Nat,
           PartsAt(p, q, k), PartsAt(q, r, l)
    PROVE  \E n \in Nat : PartsAt(p, r, n)
<1>1. /\ Len(p) \in Nat /\ Len(q) \in Nat /\ Len(r) \in Nat
      /\ \A i \in 1 .. Len(p) : p[i] \in Nat
      /\ \A i \in 1 .. Len(q) : q[i] \in Nat
      /\ \A i \in 1 .. Len(r) : r[i] \in Nat
    OBVIOUS
<1>2. CASE k < l
  <2>1. k + 1 \in 1 .. l
      BY <1>2
  <2>2. PartsAt(p, r, k)
      BY <1>1, <1>2, <2>1 DEF PartsAt
  <2> QED BY <2>2
<1>3. CASE l < k
  <2>1. l + 1 \in 1 .. k
      BY <1>3
  <2>2. PartsAt(p, r, l)
      BY <1>1, <1>3, <2>1, SMTT(60) DEF PartsAt
  <2> QED BY <2>2
<1>4. CASE l = k
  <2>1. k + 1 \in 1 .. Len(q) /\ k + 1 \in 1 .. Len(r)
      BY <1>1, <1>4 DEF PartsAt
  <2>2. k # Len(p) => k + 1 \in 1 .. Len(p)
      BY <1>1 DEF PartsAt
  <2>3. PartsAt(p, r, k)
      BY <1>1, <1>4, <2>1, <2>2, SMTT(60) DEF PartsAt
  <2> QED BY <2>3
<1> QED BY <1>2, <1>3, <1>4

\* One of finitely many nodes is the first in the document.
LEMMA FirstExists ==
    ASSUME NEW S \in SUBSET Seq(Nat), IsFiniteSet(S), S # {}
    PROVE  \E p \in S : \A q \in S \ {p} : Before(p, q)
<1> DEFINE Ahead(p, q) == \E k \in Nat : PartsAt(p, q, k)
           First(Q) == \E p \in Q : \A q \in Q \ {p} : Ahead(p, q)
           T == {n \in Nat : \A Q \in SUBSET Seq(Nat) :
                    IsFiniteSet(Q) /\ Q # {} /\ Cardinality(Q) = n => First(Q)}
<1>1. 0 \in T
    BY FS_EmptySet
<1>2. ASSUME NEW n \in Nat, n \in T PROVE n + 1 \in T
  <2> SUFFICES ASSUME NEW Q \in SUBSET Seq(Nat), IsFiniteSet(Q), Q # {}, Cardinality(Q) = n + 1
               PROVE  First(Q)
    <3> HIDE DEF First
    <3> QED OBVIOUS
  <2>1. PICK m \in Q : TRUE
      OBVIOUS
  <2>5. \A q \in Q : q \in Seq(Nat)
      OBVIOUS
  <2>2. IsFiniteSet(Q \ {m}) /\ Cardinality(Q \ {m}) = n
    <3>1. /\ IsFiniteSet(Q \ {m})
          /\ Cardinality(Q \ {m}) = IF m \in Q THEN Cardinality(Q) - 1 ELSE Cardinality(Q)
        BY FS_RemoveElement, Zenon
    <3> QED BY <3>1
  <2>3. CASE Q \ {m} = {}
      BY <2>3
  <2>4. CASE Q \ {m} # {}
    <3>1. First(Q \ {m})
        BY <1>2, <2>2, <2>4
    <3>2. PICK p \in Q \ {m} : \A q \in (Q \ {m}) \ {p} : Ahead(p, q)
        BY <3>1
    <3>3. m \in Seq(Nat) /\ p \in Seq(Nat) /\ m # p
        BY <3>2
    <3>4. Ahead(p, m) \/ Ahead(m, p)
        BY <3>3, PartsTotal
    <3>5. ASSUME Ahead(m, p), NEW q \in Q \ {m} PROVE Ahead(m, q)
      <4>1. q # p => Ahead(p, q)
          BY <3>2
      <4>2. q \in Seq(Nat)
          BY <2>5
      <4> QED BY <3>3, <3>5, <4>1, <4>2, PartsTransitive
    <3> HIDE DEF Ahead
    <3> QED BY <3>2, <3>4, <3>5
  <2> QED BY <2>3, <2>4
<1> HIDE DEF T
<1>3. Cardinality(S) \in T
    BY <1>1, <1>2, NatSetInduction, FS_CardinalityType
<1>4. First(S)
    BY <1>3 DEF T
<1> QED BY <1>4, BeforeParts

\* A name that some node has, has a definition.
LEMMA DefinitionExists ==
    ASSUME NEW d, IsTree(d), NEW name, Definitions(d, name) # {}
    PROVE  Definition(d, name) \in DOMAIN d
<1>1. Definitions(d, name) \in SUBSET Seq(Nat) /\ IsFiniteSet(Definitions(d, name))
    BY FS_Subset DEF Definitions, IsTree
<1>2. \E p \in Definitions(d, name) : \A q \in Definitions(d, name) \ {p} : Before(p, q)
    BY <1>1, FirstExists
<1>3. Definition(d, name) \in Definitions(d, name)
    BY <1>2 DEF Definition
<1> QED BY <1>3 DEF Definitions
-----------------------------------------------------------------------------
\* What a copy of a node of d is: a tree without anchors and aliases, with no key twice if
\* d has none.
Plain(t, d) ==
    /\ IsTree(t) /\ \A r \in DOMAIN t : t[r].anchor = NoName /\ t[r].kind # "alias"
    /\ DistinctKeys(d) => DistinctKeys(t)

\* The null that stands for a dropped alias is a plain copy.
LEMMA NullPlain ==
    ASSUME NEW d
    PROVE  Plain(Leaf(Scalar(Null)), d)
<1> DEFINE n == Scalar(Null)
<1>1. n = [kind |-> "scalar", keys |-> <<>>, val |-> Null, anchor |-> NoName, tagged |-> FALSE, modified |-> FALSE]
    BY DEF Scalar, Node
<1> HIDE DEF n
<1>2. IsNode(n) /\ n.keys = <<>> /\ n.anchor = NoName /\ n.kind # "alias"
    BY <1>1 DEF IsNode, Kinds
<1>3. IsTree(Leaf(n)) /\ DOMAIN Leaf(n) = {<<>>} /\ Leaf(n)[<<>>] = n
    BY <1>2, LeafTree
<1> QED BY <1>2, <1>3 DEF Plain, DistinctKeys, IsInjective, n

\* A place below the root, and the place it has below the first node on the way.
LEMMA OneBelow ==
    ASSUME NEW i \in Nat, NEW s \in Seq(Nat)
    PROVE  /\ <<i>> \o s \in Seq(Nat) /\ <<i>> \o s # <<>>
           /\ (<<i>> \o s)[1] = i /\ Tail(<<i>> \o s) = s
           /\ s = <<>> => Front(<<i>> \o s) = <<>> /\ Last(<<i>> \o s) = i
           /\ s # <<>> => Front(<<i>> \o s) = <<i>> \o Front(s) /\ Last(<<i>> \o s) = Last(s)
<1> DEFINE h == <<i>>
           x == h \o s
           t == Tail(x)
<1>1. h \in Seq(Nat) /\ Len(h) = 1 /\ h[1] = i
    OBVIOUS
<1> HIDE DEF h
<1>2. /\ x \in Seq(Nat) /\ Len(x) = 1 + Len(s) /\ Len(s) \in Nat /\ x[1] = i
      /\ \A j \in 1 .. Len(s) : x[1 + j] = s[j]
  <2>1. /\ h \o s \in Seq(Nat) /\ Len(h \o s) = Len(h) + Len(s)
        /\ \A j \in 1 .. Len(h) : (h \o s)[j] = h[j]
        /\ \A j \in 1 .. Len(s) : (h \o s)[Len(h) + j] = s[j]
    <3>1. \A a \in Seq(Nat) :
            /\ a \o s \in Seq(Nat) /\ Len(a \o s) = Len(a) + Len(s)
            /\ \A j \in 1 .. Len(a) : (a \o s)[j] = a[j]
            /\ \A j \in 1 .. Len(s) : (a \o s)[Len(a) + j] = s[j]
        BY ConcatProperties
    <3> QED BY <1>1, <3>1, Zenon
  <2> QED BY <1>1, <2>1
<1>3. s # <<>> => Front(x) = h \o Front(s) /\ Last(x) = Last(s)
    BY <1>1, ConcatFront
<1> HIDE DEF x
<1>4. x # <<>>
    BY <1>2
<1>5. t \in Seq(Nat) /\ Len(t) = Len(s) /\ \A j \in 1 .. Len(s) : t[j] = x[j + 1]
  <2>1. /\ Tail(x) \in Seq(Nat) /\ Len(Tail(x)) = Len(x) - 1
        /\ \A j \in 1 .. Len(Tail(x)) : Tail(x)[j] = x[j + 1]
      BY <1>2, <1>4, HeadTailProperties
  <2> QED BY <1>2, <2>1
<1> HIDE DEF t
<1>6. \A j \in 1 .. Len(s) : t[j] = s[j]
  <2>1. \A j \in 1 .. Len(s) : j + 1 = 1 + j
      BY <1>2
  <2> QED BY <1>2, <1>5, <2>1
<1>7. t = s
    BY <1>2, <1>5, <1>6, SeqEqual
<1>8. s = <<>> => Front(x) = <<>> /\ Last(x) = i
  <2> SUFFICES ASSUME s = <<>> PROVE Front(x) = <<>> /\ Last(x) = i
      OBVIOUS
  <2>1. Len(x) = 1 /\ Len(s) = 0
      BY <1>2
  <2>2. Front(x) \in Seq(Nat) /\ Len(Front(x)) = Len(x) - 1 /\ Last(x) = x[Len(x)]
      BY <1>2, <1>4, FrontLast
  <2> QED BY <1>2, <2>1, <2>2
<1> QED BY <1>2, <1>3, <1>4, <1>7, <1>8 DEF h, t, x

\* A copy made of copies is one.
LEMMA CopiedPlain ==
    ASSUME NEW d, IsTree(d), NEW q \in DOMAIN d, NEW copies, \A x \in DOMAIN d : Plain(copies[x], d)
    PROVE  Plain(Copied(d, q, copies), d)
<1>1. CASE d[q].kind = "alias"
    BY <1>1, NullPlain, DefinitionExists DEF Copied
<1>2. CASE d[q].kind # "alias"
  <2> DEFINE C == Children(d, q)
             sub(i) == copies[Append(q, i)]
             M(i) == {<<i>> \o s : s \in DOMAIN sub(i)}
             root == [d[q] EXCEPT !.anchor = NoName]
             D == {<<>>} \union UNION {M(i) : i \in C}
             g == [r \in D |-> IF r = <<>> THEN root ELSE sub(r[1])[Tail(r)]]
  <2>1. Copied(d, q, copies) = g
      BY <1>2 DEF Copied
  <2>2. /\ q \in Seq(Nat) /\ IsNode(d[q]) /\ C \in SUBSET Nat /\ IsFiniteSet(C)
        /\ \A i \in C : /\ Append(q, i) \in DOMAIN d /\ d[q].kind \in {"map", "seq"}
                        /\ d[q].kind = "map" => i \in DOMAIN d[q].keys
      BY TreeIs, ChildrenAre
  <2>3. /\ IsNode(root) /\ root.kind = d[q].kind /\ root.keys = d[q].keys /\ root.anchor = NoName
      BY <2>2, ChangedNode
  <2>4. \A i \in C : Plain(sub(i), d)
      BY <2>2
  <2> HIDE DEF root, C
  <2>5. DOMAIN g = D /\ g = [r \in DOMAIN g |-> g[r]] /\ g[<<>>] = root
      OBVIOUS
  <2> HIDE DEF sub
  <2>6. ASSUME NEW i \in C, NEW s \in DOMAIN sub(i)
        PROVE  <<i>> \o s \in D /\ <<i>> \o s \in Seq(Nat) /\ <<i>> \o s # <<>> /\ g[<<i>> \o s] = sub(i)[s]
    <3>1. s \in Seq(Nat) /\ i \in Nat
        BY <2>2, <2>4, <2>6 DEF Plain, IsTree
    <3> DEFINE x == <<i>> \o s
    <3>2. x \in M(i)
        OBVIOUS
    <3>3. x \in D
        BY <3>2
    <3>4. x \in Seq(Nat) /\ x # <<>> /\ x[1] = i /\ Tail(x) = s
        BY <3>1, OneBelow
    <3> HIDE DEF x, D
    <3>5. g[x] = sub(i)[s]
        BY <3>3, <3>4
    <3> QED BY <3>3, <3>4, <3>5 DEF x
  <2>7. ASSUME NEW r \in D
        PROVE  r = <<>> \/ \E i \in C, s \in Seq(Nat) : s \in DOMAIN sub(i) /\ r = <<i>> \o s
    <3>1. CASE \E i \in C : r \in M(i)
      <4>1. PICK i \in C : r \in M(i)
          BY <3>1
      <4>2. PICK s \in DOMAIN sub(i) : r = <<i>> \o s
          BY <4>1
      <4>3. s \in Seq(Nat)
          BY <2>4, <4>2 DEF Plain, IsTree
      <4> QED BY <4>2, <4>3
    <3> QED BY <3>1
  <2>8. IsFiniteSet(D)
    <3>1. ASSUME NEW i \in C PROVE IsFiniteSet(M(i))
      <4> DEFINE F == [s \in DOMAIN sub(i) |-> <<i>> \o s]
      <4>1. F = [s \in DOMAIN sub(i) |-> F[s]] /\ M(i) = {F[s] : s \in DOMAIN sub(i)}
          OBVIOUS
      <4>2. IsFiniteSet(DOMAIN sub(i))
          BY <2>4 DEF Plain, IsTree
      <4> HIDE DEF F
      <4>3. IsFiniteSet({F[s] : s \in DOMAIN sub(i)})
          BY <4>1, <4>2, FiniteRange
      <4> QED BY <4>1, <4>3
    <3> DEFINE G == [i \in C |-> M(i)]
    <3>2. G = [i \in C |-> G[i]] /\ {M(i) : i \in C} = {G[i] : i \in C} /\ \A i \in C : G[i] = M(i)
        OBVIOUS
    <3> HIDE DEF G, M
    <3>3. IsFiniteSet({G[i] : i \in C})
        BY <2>2, <3>2, FiniteRange
    <3>4. IsFiniteSet(UNION {M(i) : i \in C})
      <4>1. \A m \in {M(i) : i \in C} : IsFiniteSet(m)
          BY <3>1
      <4> QED BY <3>2, <3>3, <4>1, FS_UNION
    <3>5. IsFiniteSet({<<>>})
        BY FS_Singleton, Zenon
    <3> QED BY <3>4, <3>5, FS_Union
  <2> HIDE DEF D, g
  <2>9. D \subseteq Seq(Nat) /\ <<>> \in D
    <3>1. <<>> \in D
        BY DEF D
    <3>2. ASSUME NEW r \in D PROVE r \in Seq(Nat)
      <4>1. CASE r = <<>>
          BY <4>1
      <4>2. CASE r # <<>>
        <5>1. PICK i \in C, s \in Seq(Nat) : s \in DOMAIN sub(i) /\ r = <<i>> \o s
            BY <2>7, <4>2
        <5>2. <<i>> \o s \in Seq(Nat)
            BY <2>6, <5>1
        <5> QED BY <5>1, <5>2
      <4> QED BY <4>1, <4>2
    <3> QED BY <3>1, <3>2
  <2> DEFINE Bare(r) == IsNode(g[r]) /\ g[r].anchor = NoName /\ g[r].kind # "alias"
                        /\ (DistinctKeys(d) => IsInjective(g[r].keys))
  <2>10. ASSUME NEW r \in D PROVE Bare(r)
    <3>1. CASE r = <<>>
        BY <1>2, <2>3, <2>5, <3>1 DEF DistinctKeys
    <3>2. ASSUME NEW i \in C, NEW s \in DOMAIN sub(i), r = <<i>> \o s
          PROVE  Bare(r)
      <4>1. g[r] = sub(i)[s] /\ Plain(sub(i), d)
          BY <2>4, <2>6, <3>2
      <4>2. IsNode(sub(i)[s])
          BY <4>1, TreeIs DEF Plain
      <4> QED BY <4>1, <4>2 DEF Plain, DistinctKeys
    <3>3. r = <<>> \/ \E i \in C, s \in Seq(Nat) : s \in DOMAIN sub(i) /\ r = <<i>> \o s
        BY <2>7, Zenon
    <3> HIDE DEF Bare
    <3> QED BY <3>1, <3>2, <3>3, Zenon
  <2>11. ASSUME NEW r \in D \ {<<>>}
         PROVE  /\ Front(r) \in D /\ g[Front(r)].kind \in {"map", "seq"}
                /\ g[Front(r)].kind = "map" => Last(r) \in DOMAIN g[Front(r)].keys
    <3>1. PICK i \in C, s \in Seq(Nat) : s \in DOMAIN sub(i) /\ r = <<i>> \o s
        BY <2>7
    <3>2. i \in Nat /\ IsTree(sub(i))
        BY <2>2, <2>4 DEF Plain
    <3>3. CASE s = <<>>
      <4>1. Front(r) = <<>> /\ Last(r) = i
          BY <3>1, <3>2, <3>3, OneBelow
      <4> QED BY <2>2, <2>3, <2>5, <2>9, <4>1
    <3>4. CASE s # <<>>
      <4>1. Front(r) = <<i>> \o Front(s) /\ Last(r) = Last(s)
          BY <3>1, <3>2, <3>4, OneBelow
      <4>2. /\ Front(s) \in DOMAIN sub(i) /\ sub(i)[Front(s)].kind \in {"map", "seq"}
            /\ sub(i)[Front(s)].kind = "map" => Last(s) \in DOMAIN sub(i)[Front(s)].keys
          BY <3>1, <3>2, <3>4, TreeIs
      <4>3. <<i>> \o Front(s) \in D /\ g[<<i>> \o Front(s)] = sub(i)[Front(s)]
          BY <2>6, <4>2
      <4> QED BY <4>1, <4>2, <4>3
    <3> QED BY <3>3, <3>4
  <2>12. IsTree(g)
      BY <2>5, <2>8, <2>9, <2>10, <2>11 DEF IsTree
  <2>13. Plain(g, d)
      BY <2>5, <2>10, <2>12 DEF Plain, DistinctKeys
  <2> QED BY <2>1, <2>13
<1> QED BY <1>1, <1>2

\* What detached_clone makes call by call is well defined.
Copies(d, copies) == [q \in DOMAIN d |-> Copied(d, q, copies)]
NoCopies(d) == [q \in DOMAIN d |-> Leaf(Scalar(Null))]

\* For every number of calls there is a function that gives what each makes.
LEMMA CloneExists ==
    ASSUME NEW d, NEW n \in Nat
    PROVE  \E f : f = [k \in 0 .. n |-> IF k = 0 THEN NoCopies(d) ELSE Copies(d, f[k - 1])]
<1> DEFINE Defines(f, m) == f = [k \in 0 .. m |-> IF k = 0 THEN NoCopies(d) ELSE Copies(d, f[k - 1])]
           T == {m \in Nat : \E f : Defines(f, m)}
<1>1. 0 \in T
  <2> DEFINE g == [k \in 0 .. 0 |-> NoCopies(d)]
  <2>1. \A k \in 0 .. 0 : g[k] = IF k = 0 THEN NoCopies(d) ELSE Copies(d, g[k - 1])
      OBVIOUS
  <2>2. g = [k \in 0 .. 0 |-> g[k]]
      OBVIOUS
  <2> HIDE DEF g
  <2>3. Defines(g, 0)
      BY <2>1, <2>2
  <2> HIDE DEF Defines
  <2> QED BY <2>3
<1>2. ASSUME NEW m \in Nat, m \in T PROVE m + 1 \in T
  <2>1. PICK f : Defines(f, m)
      BY <1>2
  <2> DEFINE g == [k \in 0 .. m + 1 |-> IF k = m + 1 THEN Copies(d, f[m]) ELSE f[k]]
  <2>2. ASSUME NEW k \in 0 .. m + 1
        PROVE  g[k] = IF k = 0 THEN NoCopies(d) ELSE Copies(d, g[k - 1])
    <3>1. CASE k = m + 1
      <4>1. k # 0 /\ k - 1 = m /\ m \in 0 .. m + 1 /\ m # m + 1
          BY <3>1
      <4>2. g[k] = Copies(d, f[m]) /\ g[m] = f[m]
          BY <3>1, <4>1
      <4> HIDE DEF g
      <4> QED BY <4>1, <4>2
    <3>2. CASE k \in 0 .. m
      <4>1. f[k] = IF k = 0 THEN NoCopies(d) ELSE Copies(d, f[k - 1])
          BY <2>1, <3>2
      <4>2. g[k] = f[k] /\ (k # 0 => g[k - 1] = f[k - 1])
          BY <3>2
      <4> HIDE DEF g
      <4> QED BY <4>1, <4>2
    <3> QED BY <3>1, <3>2
  <2>3. g = [k \in 0 .. m + 1 |-> g[k]]
      OBVIOUS
  <2> HIDE DEF g
  <2>4. Defines(g, m + 1)
      BY <2>2, <2>3
  <2> HIDE DEF Defines
  <2> QED BY <2>4
<1> HIDE DEF T
<1>3. n \in T
    BY <1>1, <1>2, NatSetInduction
<1> QED BY <1>3 DEF T

\* A detached copy is one.
LEMMA ClonePlain ==
    ASSUME NEW d, IsTree(d), NEW p \in DOMAIN d
    PROVE  Plain(DetachedClone(d, p), d)
<1> DEFINE n == Cardinality(DOMAIN d)
           Is(f) == f = [k \in 0 .. n |-> IF k = 0 THEN NoCopies(d) ELSE Copies(d, f[k - 1])]
           clone == CHOOSE f : f = [k \in 0 .. n |->
                        [q \in DOMAIN d |-> IF k = 0 THEN Leaf(Scalar(Null)) ELSE Copied(d, q, f[k - 1])]]
<1>1. n \in Nat
    BY FS_CardinalityType DEF IsTree
<1>2. DetachedClone(d, p) = clone[n][p]
    BY DEF DetachedClone
<1> HIDE DEF n
<1>3. \A f : Is(f) <=> f = [k \in 0 .. n |->
                                [q \in DOMAIN d |-> IF k = 0 THEN Leaf(Scalar(Null)) ELSE Copied(d, q, f[k - 1])]]
    BY DEF Copies, NoCopies
<1>4. Is(clone)
  <2>1. \E f : Is(f)
      BY <1>1, CloneExists
  <2> HIDE DEF Is
  <2>2. \E f : f = [k \in 0 .. n |->
                        [q \in DOMAIN d |-> IF k = 0 THEN Leaf(Scalar(Null)) ELSE Copied(d, q, f[k - 1])]]
      BY <1>3, <2>1, Zenon
  <2>3. clone = [k \in 0 .. n |->
                    [q \in DOMAIN d |-> IF k = 0 THEN Leaf(Scalar(Null)) ELSE Copied(d, q, clone[k - 1])]]
      BY <2>2, Zenon
  <2> QED BY <1>3, <2>3, Zenon
<1> HIDE DEF clone
<1>5. \A k \in 0 .. n : clone[k] = IF k = 0 THEN NoCopies(d) ELSE Copies(d, clone[k - 1])
    BY <1>4
<1> HIDE DEF Is
<1> DEFINE T == {k \in Nat : k \in 0 .. n => \A q \in DOMAIN d : Plain(clone[k][q], d)}
<1>6. 0 \in T
  <2>1. clone[0] = NoCopies(d)
      BY <1>1, <1>5
  <2> QED BY <2>1, NullPlain DEF NoCopies
<1>7. ASSUME NEW k \in Nat, k \in T PROVE k + 1 \in T
  <2> SUFFICES ASSUME k + 1 \in 0 .. n, NEW q \in DOMAIN d PROVE Plain(clone[k + 1][q], d)
      OBVIOUS
  <2>1. k \in 0 .. n /\ k + 1 # 0 /\ (k + 1) - 1 = k
      BY <1>1
  <2>2. clone[k + 1] = Copies(d, clone[k])
      BY <1>5, <2>1
  <2>3. \A x \in DOMAIN d : Plain(clone[k][x], d)
      BY <1>7, <2>1
  <2>4. Plain(Copied(d, q, clone[k]), d)
      BY <2>3, CopiedPlain
  <2> QED BY <2>2, <2>4 DEF Copies
<1> HIDE DEF T
<1>8. n \in T
    BY <1>1, <1>6, <1>7, NatSetInduction
<1>9. Plain(clone[n][p], d)
    BY <1>1, <1>8 DEF T
<1> QED BY <1>2, <1>9
-----------------------------------------------------------------------------
\* Document order tells where two sequences part, and a node in another from one after it.
LEMMA BeforeIs ==
    ASSUME NEW p \in Seq(Nat), NEW q \in Seq(Nat)
    PROVE  Before(p, q) <=> \E k \in Nat : PartsAt(p, q, k)
<1>1. ASSUME Before(p, q) PROVE \E k \in Nat : PartsAt(p, q, k)
  <2>1. Len(p) \in Nat /\ Len(q) \in Nat /\ DOMAIN p = 1 .. Len(p) /\ DOMAIN q = 1 .. Len(q)
      OBVIOUS
  <2>2. CASE IsStrictPrefix(p, q)
    <3>1. p # q /\ Len(p) <= Len(q) /\ \A i \in 1 .. Len(p) : p[i] = q[i]
        BY <2>2, PrefixIs DEF IsStrictPrefix
    <3>2. Len(p) # Len(q)
        BY <2>1, <3>1, SeqEqual
    <3>5. \A a, b \in Nat : a <= b /\ a # b => a <= a /\ a < b
        OBVIOUS
    <3>4. Len(p) <= Len(p) /\ Len(p) < Len(q)
        BY <2>1, <3>1, <3>2, <3>5, Zenon
    <3>3. PartsAt(p, q, Len(p))
        BY <3>1, <3>4, Zenon DEF PartsAt
    <3> QED BY <2>1, <3>3
  <2>3. ASSUME NEW i \in DOMAIN p \intersect DOMAIN q, SubSeq(p, 1, i - 1) = SubSeq(q, 1, i - 1), p[i] < q[i]
        PROVE  \E k \in Nat : PartsAt(p, q, k)
    <3> DEFINE k == i - 1
    <3>1. k \in Nat /\ k + 1 = i /\ k < Len(p) /\ k < Len(q) /\ k \in 0 .. Len(p) /\ k \in 0 .. Len(q)
        BY <2>1
    <3> HIDE DEF k
    <3>2. SubSeq(p, 1, k) = SubSeq(q, 1, k)
        BY <2>3 DEF k
    <3>3. \A j \in 1 .. k : p[j] = q[j]
        BY <3>1, <3>2, Beginning
    <3>4. k <= Len(p) /\ k < Len(q) /\ p[k + 1] < q[k + 1]
        BY <2>1, <2>3, <3>1
    <3>5. PartsAt(p, q, k)
        BY <3>3, <3>4, Zenon DEF PartsAt
    <3> QED BY <3>1, <3>5
  <2> QED BY <1>1, <2>2, <2>3 DEF Before
<1> QED BY <1>1, BeforeParts

\* An alias after its anchor and not in it.
Follows(p, q) == Before(q, p) /\ ~IsPrefix(q, p)

\* The nodes of g that have names are those of d, at the places `was' gives.
NamesFrom(d, g, was) ==
    \A q \in DOMAIN g : g[q].anchor # NoName => was[q] \in DOMAIN d /\ d[was[q]].anchor = g[q].anchor

\* The definition of a name is one of the nodes that have it.
LEMMA DefinitionHas ==
    ASSUME NEW d, IsTree(d), NEW name, Definitions(d, name) # {}
    PROVE  Definition(d, name) \in Definitions(d, name)
<1>1. Definitions(d, name) \in SUBSET Seq(Nat) /\ IsFiniteSet(Definitions(d, name))
    BY FS_Subset DEF Definitions, IsTree
<1>2. \E p \in Definitions(d, name) : \A q \in Definitions(d, name) \ {p} : Before(p, q)
    BY <1>1, FirstExists
<1> QED BY <1>2 DEF Definition

\* An alias that follows its anchor still does where order is kept.
LEMMA StillFollows ==
    ASSUME NEW d, IsTree(d), OneOwner(d), NEW g, IsTree(g), NEW was, NamesFrom(d, g, was),
           NEW x \in Aliases(g), NEW y, \A q \in DOMAIN g : Follows(y, was[q]) => Follows(x, q),
           Definitions(d, g[x].val) # {} => Follows(y, Definition(d, g[x].val)),
           NEW q \in Definitions(g, g[x].val)
    PROVE  Follows(x, q)
<1>1. IsNode(g[x]) /\ g[x].kind = "alias"
    BY TreeIs DEF Aliases
<1>2. g[x].val # NoName
    BY <1>1, DocumentAssumption DEF IsNode
<1>3. q \in DOMAIN g /\ g[q].anchor = g[x].val
    BY DEF Definitions
<1>4. was[q] \in Definitions(d, g[x].val)
    BY <1>2, <1>3 DEF NamesFrom, Definitions
<1>5. Definition(d, g[x].val) = was[q]
    BY <1>2, <1>4, DefinitionIs
<1> QED BY <1>3, <1>4, <1>5

\* Where nodes stay in their places.
Stays(g) == [q \in DOMAIN g |-> q]

\* A tree that brings no names and no aliases leaves the others pointing back.
LEMMA GraftFollows ==
    ASSUME NEW d, IsTree(d), OneOwner(d), NEW p \in Seq(Nat), NEW sub, IsTree(sub),
           NEW g, g = Graft(d, p, sub), IsTree(g), NoNewNames(d, p, sub),
           NEW x \in Aliases(g), x \in Placed(p, sub) => x \in DOMAIN d /\ Definitions(d, g[x].val) # {}
                                                        /\ Follows(x, Definition(d, g[x].val)),
           AliasesPointBack(d), NEW q \in Definitions(g, g[x].val)
    PROVE  Follows(x, q)
<1>1. /\ DOMAIN g = Kept(d, p) \union Placed(p, sub)
      /\ \A z \in Kept(d, p) : g[z] = d[z]
    BY GraftIs
<1>2. \A r \in DOMAIN sub : g[p \o r] = sub[r]
    BY GraftHas DEF IsTree
<1>3. p \o <<>> = p
    BY EmptyConcat
<1>4. NamesFrom(d, g, Stays(g))
  <2> SUFFICES ASSUME NEW z \in DOMAIN g, g[z].anchor # NoName PROVE z \in DOMAIN d /\ d[z].anchor = g[z].anchor
      BY DEF NamesFrom, Stays
  <2>1. CASE z \in Kept(d, p)
      BY <1>1, <2>1 DEF Kept
  <2>2. CASE z \in Placed(p, sub)
    <3>1. PICK r \in DOMAIN sub : z = p \o r
        BY <2>2 DEF Placed
    <3> QED BY <1>2, <1>3, <3>1 DEF NoNewNames
  <2> QED BY <1>1, <2>1, <2>2
<1>5. Definitions(d, g[x].val) # {} => Follows(x, Definition(d, g[x].val))
  <2>1. x \in DOMAIN g /\ g[x].kind = "alias"
      BY DEF Aliases
  <2>2. CASE x \in Kept(d, p)
    <3>1. x \in Aliases(d) /\ d[x].val = g[x].val
        BY <1>1, <2>1, <2>2 DEF Kept, Aliases
    <3> QED BY <3>1 DEF AliasesPointBack, PointsBack, Follows
  <2> QED BY <1>1, <2>1, <2>2
<1>6. \A z \in DOMAIN g : Follows(x, Stays(g)[z]) => Follows(x, z)
    BY DEF Stays
<1> QED BY <1>4, <1>5, <1>6, StillFollows
-----------------------------------------------------------------------------
\* Where children are taken out, a node was at another place: one number of it changes.
Shifted(p, keep, x, y) ==
    /\ x \in Seq(Nat) /\ y \in Seq(Nat) /\ Len(y) = Len(x)
    /\ \A i \in 1 .. Len(x) : i # Len(p) + 1 => y[i] = x[i]
    /\ Len(p) + 1 <= Len(x) =>
        y[Len(p) + 1] = IF \A i \in 1 .. Len(p) : x[i] = p[i] THEN keep[x[Len(p) + 1]] ELSE x[Len(p) + 1]
    /\ Len(p) + 1 <= Len(x) /\ (\A i \in 1 .. Len(p) : x[i] = p[i]) => x[Len(p) + 1] \in DOMAIN keep

\* Numbers that are kept in their order.
Rising(keep) ==
    /\ \A i, j \in DOMAIN keep : (keep[i] = keep[j] => i = j) /\ (i < j => keep[i] < keep[j])
    /\ \A i \in DOMAIN keep : i \in Nat /\ keep[i] \in Nat

\* Renumbering the children that are kept keeps the order of any two nodes.
LEMMA ShiftedOrder ==
    ASSUME NEW p \in Seq(Nat), NEW keep, Rising(keep), NEW x, NEW a, NEW y, NEW b,
           Shifted(p, keep, x, a), Shifted(p, keep, y, b)
    PROVE  Before(a, b) => Before(x, y)
<1> DEFINE m == Len(p) + 1
           at(z) == \A i \in 1 .. Len(p) : z[i] = p[i]
<1>1. /\ Len(p) \in Nat /\ x \in Seq(Nat) /\ y \in Seq(Nat) /\ a \in Seq(Nat) /\ b \in Seq(Nat)
      /\ Len(a) = Len(x) /\ Len(b) = Len(y) /\ Len(x) \in Nat /\ Len(y) \in Nat
      /\ \A i \in 1 .. Len(x) : i # m => a[i] = x[i]
      /\ \A i \in 1 .. Len(y) : i # m => b[i] = y[i]
      /\ m <= Len(x) => a[m] = IF at(x) THEN keep[x[m]] ELSE x[m]
      /\ m <= Len(y) => b[m] = IF at(y) THEN keep[y[m]] ELSE y[m]
      /\ m <= Len(x) /\ at(x) => x[m] \in DOMAIN keep
      /\ m <= Len(y) /\ at(y) => y[m] \in DOMAIN keep
    BY DEF Shifted
<1>2. SUFFICES ASSUME NEW k \in Nat, PartsAt(a, b, k) PROVE PartsAt(x, y, k)
    BY <1>1, BeforeIs
<1>3. /\ k <= Len(x) /\ k < Len(y) /\ \A i \in 1 .. k : a[i] = b[i]
      /\ k = Len(x) \/ a[k + 1] < b[k + 1]
    BY <1>1, <1>2 DEF PartsAt
<1>4. m \in Nat /\ \A i \in 1 .. Len(p) : i \in Nat /\ i # m /\ i < m
    BY <1>1
<1>9. Len(p) \in Nat /\ k \in Nat /\ Len(x) \in Nat /\ Len(y) \in Nat /\ k <= Len(x) /\ k < Len(y)
    BY <1>1, <1>3
\* Up to the place where they part, what is above the children is the same of both.
<1>5. ASSUME m <= k + 1 PROVE at(x) <=> at(y)
  <2>1. \A i \in 1 .. Len(p) : i \in 1 .. k /\ i \in 1 .. Len(x) /\ i \in 1 .. Len(y)
      BY <1>5, <1>9
  <2>2. \A i \in 1 .. Len(p) : x[i] = y[i]
      BY <1>1, <1>3, <1>4, <2>1
  <2> QED BY <2>2
<1>6. \A i \in 1 .. k : i \in 1 .. Len(x) /\ i \in 1 .. Len(y)
    BY <1>9
<1>7. ASSUME NEW i \in 1 .. k PROVE x[i] = y[i]
  <2>1. CASE i # m
      BY <1>1, <1>3, <1>6, <2>1
  <2>2. CASE i = m
    <3>1. m <= k + 1 /\ m <= Len(x) /\ m <= Len(y) /\ a[m] = b[m]
        BY <1>1, <1>3, <1>6, <2>2
    <3>2. at(x) <=> at(y)
        BY <1>5, <3>1
    <3> HIDE DEF m, at
    <3>3. at(x) => keep[x[m]] = keep[y[m]] /\ x[m] \in DOMAIN keep /\ y[m] \in DOMAIN keep
        BY <1>1, <3>1, <3>2
    <3>4. ~at(x) => x[m] = y[m]
        BY <1>1, <3>1, <3>2
    <3> QED BY <2>2, <3>3, <3>4 DEF Rising
  <2> QED BY <2>1, <2>2
<1>8. ASSUME k # Len(x) PROVE x[k + 1] < y[k + 1]
  <2>4. k + 1 \in 1 .. Len(x) /\ k + 1 \in 1 .. Len(y)
      BY <1>8, <1>9
  <2>1. k + 1 \in 1 .. Len(x) /\ k + 1 \in 1 .. Len(y) /\ a[k + 1] < b[k + 1]
      BY <1>3, <1>8, <2>4
  <2>2. CASE k + 1 # m
      BY <1>1, <2>1, <2>2
  <2>3. CASE k + 1 = m
    <3>1. m <= k + 1 /\ m <= Len(x) /\ m <= Len(y) /\ a[m] < b[m]
        BY <1>1, <2>1, <2>3
    <3>2. at(x) <=> at(y)
        BY <1>5, <3>1
    <3>5. x[m] \in Nat /\ y[m] \in Nat
      <4>1. \A z \in Seq(Nat) : \A i \in 1 .. Len(z) : z[i] \in Nat
          OBVIOUS
      <4> QED BY <1>1, <2>3, <2>4, <4>1, Zenon
    <3> HIDE DEF m, at
    <3>3. at(x) => keep[x[m]] < keep[y[m]] /\ x[m] \in DOMAIN keep /\ y[m] \in DOMAIN keep
        BY <1>1, <3>1, <3>2
    <3>4. ~at(x) => x[m] < y[m]
        BY <1>1, <3>1, <3>2
    <3>6. at(x) => x[m] < y[m]
      <4> SUFFICES ASSUME at(x) PROVE x[m] < y[m]
          OBVIOUS
      <4>1. /\ keep[x[m]] < keep[y[m]] /\ keep[x[m]] \in Nat /\ keep[y[m]] \in Nat
            /\ y[m] < x[m] => keep[y[m]] < keep[x[m]]
            /\ x[m] = y[m] => keep[x[m]] = keep[y[m]]
          BY <3>3 DEF Rising
      <4> QED BY <3>5, <4>1
    <3> QED BY <2>3, <3>4, <3>6
  <2> QED BY <2>2, <2>3
<1> QED BY <1>3, <1>7, <1>8 DEF PartsAt

\* So does what is in what.
LEMMA ShiftedPrefix ==
    ASSUME NEW p \in Seq(Nat), NEW keep, NEW x, NEW a, NEW y, NEW b,
           Shifted(p, keep, x, a), Shifted(p, keep, y, b), IsPrefix(x, y)
    PROVE  IsPrefix(a, b)
<1> DEFINE m == Len(p) + 1
           at(z) == \A i \in 1 .. Len(p) : z[i] = p[i]
<1>1. /\ Len(p) \in Nat /\ x \in Seq(Nat) /\ y \in Seq(Nat) /\ a \in Seq(Nat) /\ b \in Seq(Nat)
      /\ Len(a) = Len(x) /\ Len(b) = Len(y) /\ Len(x) \in Nat /\ Len(y) \in Nat
      /\ \A i \in 1 .. Len(x) : i # m => a[i] = x[i]
      /\ \A i \in 1 .. Len(y) : i # m => b[i] = y[i]
      /\ m <= Len(x) => a[m] = IF at(x) THEN keep[x[m]] ELSE x[m]
      /\ m <= Len(y) => b[m] = IF at(y) THEN keep[y[m]] ELSE y[m]
    BY DEF Shifted
<1>6. x \in Seq(Nat) /\ y \in Seq(Nat) /\ Len(x) \in Nat /\ Len(y) \in Nat
    BY <1>1
<1>7. Len(x) <= Len(y) /\ \A i \in 1 .. Len(x) : x[i] = y[i]
    BY <1>6, PrefixIs
<1>2. Len(x) <= Len(y) /\ \A i \in 1 .. Len(x) : x[i] = y[i] /\ i \in 1 .. Len(y)
    BY <1>6, <1>7
<1>3. ASSUME NEW i \in 1 .. Len(x) PROVE a[i] = b[i]
  <2>1. CASE i # m
      BY <1>1, <1>2, <2>1
  <2>2. CASE i = m
    <3>1. m <= Len(x) /\ m <= Len(y) /\ x[m] = y[m]
        BY <1>1, <1>2, <2>2
    <3>2. \A j \in 1 .. Len(p) : j \in 1 .. Len(x)
        BY <1>1, <3>1
    <3>3. at(x) <=> at(y)
        BY <1>2, <3>2
    <3> HIDE DEF m, at
    <3> QED BY <1>1, <2>2, <3>1, <3>3
  <2> QED BY <2>1, <2>2
<1>4. Len(a) <= Len(b) /\ \A i \in 1 .. Len(a) : a[i] = b[i]
    BY <1>1, <1>2, <1>3
<1>5. a \in Seq(Nat) /\ b \in Seq(Nat)
    BY <1>1
<1> QED BY <1>4, <1>5, PrefixIs
\* A place below a child, number by number.
LEMMA ChildPlace ==
    ASSUME NEW p \in Seq(Nat), NEW j \in Nat, NEW r \in Seq(Nat), NEW x, x = Append(p, j) \o r
    PROVE  /\ x \in Seq(Nat) /\ Len(x) = Len(p) + 1 + Len(r) /\ x[Len(p) + 1] = j
           /\ \A i \in 1 .. Len(p) : x[i] = p[i]
           /\ \A i \in 1 .. Len(r) : x[Len(p) + 1 + i] = r[i]
<1> DEFINE c == Append(p, j)
<1>1. c \in Seq(Nat) /\ Len(c) = Len(p) + 1 /\ c[Len(p) + 1] = j /\ \A i \in 1 .. Len(p) : c[i] = p[i]
    BY AppendProperties
<1>2. Len(p) \in Nat /\ Len(r) \in Nat
    OBVIOUS
<1> HIDE DEF c
<1>3. /\ c \o r \in Seq(Nat) /\ Len(c \o r) = Len(c) + Len(r)
      /\ \A i \in 1 .. Len(c) : (c \o r)[i] = c[i]
      /\ \A i \in 1 .. Len(r) : (c \o r)[Len(c) + i] = r[i]
  <2>1. \A a \in Seq(Nat) :
          /\ a \o r \in Seq(Nat) /\ Len(a \o r) = Len(a) + Len(r)
          /\ \A i \in 1 .. Len(a) : (a \o r)[i] = a[i]
          /\ \A i \in 1 .. Len(r) : (a \o r)[Len(a) + i] = r[i]
      BY ConcatProperties
  <2> QED BY <1>1, <2>1, Zenon
<1>4. c \o r = x
    BY DEF c
<1>5. Len(p) + 1 \in 1 .. Len(c) /\ \A i \in 1 .. Len(p) : i \in 1 .. Len(c)
    BY <1>1, <1>2
<1> QED BY <1>1, <1>3, <1>4, <1>5

\* The same below a child that gets another number.
LEMMA ChildShifted ==
    ASSUME NEW p \in Seq(Nat), NEW keep, NEW j \in Nat, j \in DOMAIN keep, keep[j] \in Nat,
           NEW r \in Seq(Nat), NEW x, x = Append(p, j) \o r, NEW y, y = Append(p, keep[j]) \o r
    PROVE  Shifted(p, keep, x, y)
<1>1. /\ x \in Seq(Nat) /\ Len(x) = Len(p) + 1 + Len(r) /\ x[Len(p) + 1] = j
      /\ \A i \in 1 .. Len(p) : x[i] = p[i]
      /\ \A i \in 1 .. Len(r) : x[Len(p) + 1 + i] = r[i]
    BY ChildPlace
<1>2. /\ y \in Seq(Nat) /\ Len(y) = Len(p) + 1 + Len(r) /\ y[Len(p) + 1] = keep[j]
      /\ \A i \in 1 .. Len(p) : y[i] = p[i]
      /\ \A i \in 1 .. Len(r) : y[Len(p) + 1 + i] = r[i]
    BY ChildPlace
<1>3. Len(p) \in Nat /\ Len(r) \in Nat
    OBVIOUS
<1>4. ASSUME NEW i \in 1 .. Len(x), i # Len(p) + 1 PROVE y[i] = x[i]
  <2>1. Len(x) \in Nat /\ i \in Nat /\ 1 <= i /\ i <= Len(p) + 1 + Len(r)
      BY <1>1, <1>3
  <2>2. CASE i <= Len(p)
      BY <1>1, <1>2, <2>1, <2>2
  <2>3. CASE ~(i <= Len(p))
    <3> DEFINE n == i - (Len(p) + 1)
    <3>1. n \in 1 .. Len(r) /\ i = Len(p) + 1 + n
        BY <1>3, <1>4, <2>1, <2>3
    <3> HIDE DEF n
    <3> QED BY <1>1, <1>2, <3>1
  <2> QED BY <2>2, <2>3
<1>5. Len(y) = Len(x)
    BY <1>1, <1>2
<1> QED BY <1>1, <1>2, <1>4, <1>5 DEF Shifted

\* What Shifted says of a node that stays.
LEMMA KeptShifted ==
    ASSUME NEW p \in Seq(Nat), NEW keep, NEW q \in Seq(Nat), q = p \/ ~IsPrefix(p, q)
    PROVE  Shifted(p, keep, q, q)
<1>1. Len(p) \in Nat /\ Len(q) \in Nat
    OBVIOUS
<1>2. ASSUME Len(p) + 1 <= Len(q), \A i \in 1 .. Len(p) : q[i] = p[i] PROVE FALSE
  <2>1. Len(p) <= Len(q) /\ Len(p) # Len(q)
      BY <1>1, <1>2
  <2>2. IsPrefix(p, q)
      BY <1>2, <2>1, PrefixIs
  <2> QED BY <2>1, <2>2
<1> QED BY <1>2 DEF Shifted

\* The place in the document that each node of the shortened one had.
LEMMA ShortenedWas ==
    ASSUME NEW d, IsTree(d), NEW p \in DOMAIN d, NEW keep, NEW g, Shortened(d, p, keep, g)
    PROVE  /\ Rising(keep)
           /\ \E was : \A q \in DOMAIN g :
                /\ was[q] \in DOMAIN d /\ Shifted(p, keep, q, was[q])
                /\ q = p => was[q] = p
                /\ q # p => g[q] = d[was[q]]
<1>1. p \in Seq(Nat) /\ DOMAIN d \subseteq Seq(Nat)
    BY DEF IsTree
<1>2. Children(d, p) \in SUBSET Nat
    BY <1>1, ChildrenAre
<1>3. PICK n \in Nat : keep \in [1 .. n -> Children(d, p)]
    BY DEF Shortened
<1>4. \A i \in DOMAIN keep : i \in Nat /\ keep[i] \in Nat
    BY <1>2, <1>3
<1>5. Rising(keep)
    BY <1>4 DEF Rising, Shortened
<1> DEFINE Was(q, o) == /\ o \in DOMAIN d /\ Shifted(p, keep, q, o)
                        /\ q = p => o = p
                        /\ q # p => g[q] = d[o]
<1>6. ASSUME NEW q \in DOMAIN g PROVE \E o : Was(q, o)
  <2>1. CASE q = p
    <3>1. Shifted(p, keep, p, p)
        BY <1>1, KeptShifted
    <3> QED BY <2>1, <3>1
  <2>2. CASE q \in Kept(d, p)
    <3>1. q \in DOMAIN d /\ q \in Seq(Nat) /\ ~IsPrefix(p, q) /\ g[q] = d[q]
        BY <1>1, <2>2 DEF Kept, Shortened
    <3>2. Shifted(p, keep, q, q)
        BY <1>1, <3>1, KeptShifted
    <3>3. Was(q, q)
      <4>1. IsPrefix(p, p)
          BY <1>1, PrefixIs
      <4> QED BY <3>1, <3>2, <4>1
    <3> QED BY <3>3
  <2>3. ASSUME NEW j \in DOMAIN keep, NEW r \in Seq(Nat), q = Append(p, j) \o r, Append(p, keep[j]) \o r \in DOMAIN d
        PROVE  \E o : Was(q, o)
    <3> DEFINE o == Append(p, keep[j]) \o r
    <3>1. Shifted(p, keep, q, o)
        BY <1>1, <1>4, <2>3, ChildShifted
    <3>2. g[q] = d[o]
        BY <2>3 DEF Shortened
    <3>3. q # p
      <4>1. Append(p, j) \o r # p
          BY <1>1, <1>4, <2>3, BelowChild
      <4> QED BY <2>3, <4>1
    <3>4. o \in DOMAIN d
        BY <2>3
    <3> HIDE DEF o
    <3>5. Was(q, o)
        BY <3>1, <3>2, <3>3, <3>4
    <3> QED BY <3>5
  <2> HIDE DEF Was
  <2> QED BY <2>1, <2>2, <2>3 DEF Shortened
<1> DEFINE was == [q \in DOMAIN g |-> CHOOSE o : Was(q, o)]
<1>7. \A q \in DOMAIN g : Was(q, was[q])
  <2> HIDE DEF Was
  <2> QED BY <1>6
<1> HIDE DEF was
<1> QED BY <1>5, <1>7

\* Deleting keeps each alias after its anchor.
LEMMA DeletedFollows ==
    ASSUME NEW d, IsTree(d), OneOwner(d), NEW p \in DOMAIN d, d[p].kind # "alias", NEW gone,
           NEW g, g = WithoutChildren(d, p, gone), IsTree(g)
    PROVE  \A x \in Aliases(g) :
             \E y \in Aliases(d) :
                /\ g[x] = d[y]
                /\ (Definitions(d, d[y].val) # {} => Follows(y, Definition(d, d[y].val)))
                        => \A q \in Definitions(g, g[x].val) : Follows(x, q)
<1> DEFINE keep == Ascending(Children(d, p) \ gone)
<1>1. Shortened(d, p, keep, g)
    BY WithoutChildrenIs
<1> HIDE DEF keep
<1>9. g[p].kind = d[p].kind /\ g[p].anchor = d[p].anchor
    BY <1>1 DEF Shortened
<1>10. p \in Seq(Nat)
    BY DEF IsTree
<1>11. Rising(keep)
    BY <1>1, ShortenedWas, Zenon
<1>2. Rising(keep) /\ p \in Seq(Nat) /\ g[p].kind = d[p].kind /\ g[p].anchor = d[p].anchor
    BY <1>9, <1>10, <1>11
<1>3. PICK was : \A q \in DOMAIN g :
                /\ was[q] \in DOMAIN d /\ Shifted(p, keep, q, was[q])
                /\ q = p => was[q] = p
                /\ q # p => g[q] = d[was[q]]
    BY <1>1, ShortenedWas
<1>4. NamesFrom(d, g, was)
    BY <1>2, <1>3 DEF NamesFrom
<1> SUFFICES ASSUME NEW x \in Aliases(g)
             PROVE  \E y \in Aliases(d) :
                      /\ g[x] = d[y]
                      /\ (Definitions(d, d[y].val) # {} => Follows(y, Definition(d, d[y].val)))
                              => \A q \in Definitions(g, g[x].val) : Follows(x, q)
    OBVIOUS
<1>5. x \in DOMAIN g /\ x # p /\ g[x].kind = "alias"
    BY <1>2 DEF Aliases
<1>6. was[x] \in Aliases(d) /\ g[x] = d[was[x]]
    BY <1>3, <1>5 DEF Aliases
<1>7. ASSUME NEW q \in DOMAIN g, Follows(was[x], was[q]) PROVE Follows(x, q)
  <2>1. Shifted(p, keep, x, was[x]) /\ Shifted(p, keep, q, was[q])
      BY <1>3, <1>5
  <2>2. Before(was[q], was[x]) => Before(q, x)
      BY <1>2, <2>1, ShiftedOrder
  <2>3. IsPrefix(q, x) => IsPrefix(was[q], was[x])
      BY <1>2, <2>1, ShiftedPrefix
  <2> QED BY <1>7, <2>2, <2>3 DEF Follows
<1>8. ASSUME Definitions(d, g[x].val) # {} => Follows(was[x], Definition(d, g[x].val)),
             NEW q \in Definitions(g, g[x].val)
      PROVE  Follows(x, q)
    BY <1>4, <1>7, <1>8, StillFollows
<1> QED BY <1>6, <1>8
-----------------------------------------------------------------------------
\* The beginning of a beginning.
LEMMA NestedBeginning ==
    ASSUME NEW p \in Seq(Nat), NEW k \in 0 .. Len(p), NEW i \in 0 .. k
    PROVE  SubSeq(SubSeq(p, 1, k), 1, i) = SubSeq(p, 1, i)
<1> DEFINE f == SubSeq(p, 1, k)
           a == SubSeq(f, 1, i)
           b == SubSeq(p, 1, i)
<1>1. Len(p) \in Nat /\ k \in Nat /\ i \in Nat /\ i <= k /\ k <= Len(p) /\ i \in 0 .. Len(p)
    OBVIOUS
<1>2. f \in Seq(Nat) /\ Len(f) = k /\ \A j \in 1 .. k : f[j] = p[j]
    BY Beginning
<1> HIDE DEF f
<1>3. a \in Seq(Nat) /\ Len(a) = i /\ \A j \in 1 .. i : a[j] = f[j]
    BY <1>1, <1>2, Beginning
<1>4. b \in Seq(Nat) /\ Len(b) = i /\ \A j \in 1 .. i : b[j] = p[j]
    BY <1>1, Beginning
<1> HIDE DEF a, b
<1>5. \A j \in 1 .. i : j \in 1 .. k
  <2>1. \A m, n \in Nat : m <= n => \A j \in 1 .. m : j \in 1 .. n
      OBVIOUS
  <2> QED BY <1>1, <2>1, Zenon
<1>6. a = b
    BY <1>2, <1>3, <1>4, <1>5, SeqEqual
<1> QED BY <1>6 DEF a, b, f

\* Every node on the way to a node is in the document.
LEMMA Ancestor ==
    ASSUME NEW d, IsTree(d), NEW p \in DOMAIN d, NEW k \in 0 .. Len(p)
    PROVE  SubSeq(p, 1, k) \in DOMAIN d
<1> DEFINE T == {n \in Nat : \A q \in DOMAIN d : Len(q) = n => \A j \in 0 .. n : SubSeq(q, 1, j) \in DOMAIN d}
<1>1. \A q \in DOMAIN d : q \in Seq(Nat) /\ Len(q) \in Nat /\ SubSeq(q, 1, Len(q)) = q
    BY SubSeqFull DEF IsTree
<1>2. 0 \in T
  <2> SUFFICES ASSUME NEW q \in DOMAIN d, Len(q) = 0, NEW j \in 0 .. 0 PROVE SubSeq(q, 1, j) \in DOMAIN d
      OBVIOUS
  <2>1. j = Len(q)
      OBVIOUS
  <2> QED BY <1>1, <2>1
<1>3. ASSUME NEW n \in Nat, n \in T PROVE n + 1 \in T
  <2> SUFFICES ASSUME NEW q \in DOMAIN d, Len(q) = n + 1, NEW j \in 0 .. n + 1 PROVE SubSeq(q, 1, j) \in DOMAIN d
      OBVIOUS
  <2>1. CASE j = n + 1
      BY <1>1, <2>1
  <2>2. CASE j \in 0 .. n
    <3>1. q \in Seq(Nat) /\ q # <<>> /\ n \in 0 .. Len(q)
        BY <1>1
    <3>2. Front(q) \in DOMAIN d /\ Len(Front(q)) = Len(q) - 1
        BY <3>1, TreeIs, FrontLast
    <3>3. Front(q) = SubSeq(q, 1, n)
        BY DEF Front
    <3>4. SubSeq(Front(q), 1, j) = SubSeq(q, 1, j)
        BY <2>2, <3>1, <3>3, NestedBeginning
    <3>5. Len(Front(q)) = n
        BY <3>2
    <3> QED BY <1>3, <2>2, <3>2, <3>4, <3>5
  <2> QED BY <2>1, <2>2
<1> HIDE DEF T
<1>4. Len(p) \in T
    BY <1>1, <1>2, <1>3, NatSetInduction
<1> QED BY <1>4 DEF T

\* The path to a node is a sequence of keys and numbers, and begins with those on the way.
LEMMA PathIs ==
    ASSUME NEW d, IsTree(d), NEW p \in DOMAIN d
    PROVE  /\ Path(d, p) \in Seq(Keys \union Nat) /\ Len(Path(d, p)) = Len(p)
           /\ \A k \in 0 .. Len(p) : Path(d, SubSeq(p, 1, k)) = SubSeq(Path(d, p), 1, k)
           /\ \A i \in 1 .. Len(p) : Path(d, p)[i] = Segment(d, SubSeq(p, 1, i))
<1>1. p \in Seq(Nat) /\ Len(p) \in Nat /\ DOMAIN p = 1 .. Len(p)
    BY DEF IsTree
<1>2. Path(d, p) = [i \in 1 .. Len(p) |-> Segment(d, SubSeq(p, 1, i))]
    BY <1>1 DEF Path
<1>3. ASSUME NEW i \in 1 .. Len(p) PROVE Segment(d, SubSeq(p, 1, i)) \in Keys \union Nat
  <2> DEFINE s == SubSeq(p, 1, i)
  <2>1. i \in 0 .. Len(p)
      BY <1>1
  <2>2. s \in DOMAIN d /\ s \in Seq(Nat) /\ Len(s) = i
      BY <1>1, <2>1, Ancestor, Beginning
  <2>3. s # <<>>
      BY <1>1, <2>2
  <2> HIDE DEF s
  <2>4. /\ Front(s) \in DOMAIN d /\ Last(s) \in Nat
        /\ d[Front(s)].kind = "map" => Last(s) \in DOMAIN d[Front(s)].keys
      BY <2>2, <2>3, TreeIs
  <2>5. d[Front(s)].keys \in Seq(Keys)
      BY <2>4, TreeIs DEF IsNode
  <2>6. Segment(d, s) \in Keys \union Nat
      BY <2>4, <2>5 DEF Segment
  <2> QED BY <2>6 DEF s
<1>4. Path(d, p) \in Seq(Keys \union Nat) /\ Len(Path(d, p)) = Len(p)
    BY <1>1, <1>2, <1>3
<1>5. ASSUME NEW k \in 0 .. Len(p) PROVE Path(d, SubSeq(p, 1, k)) = SubSeq(Path(d, p), 1, k)
  <2> DEFINE s == SubSeq(p, 1, k)
             a == Path(d, s)
             w == Path(d, p)
             b == SubSeq(w, 1, k)
  <2>1. s \in Seq(Nat) /\ Len(s) = k /\ k \in Nat
      BY <1>1, Beginning
  <2>2. \A i \in 1 .. k : SubSeq(s, 1, i) = SubSeq(p, 1, i) /\ i \in 1 .. Len(p)
    <3>1. \A i \in 1 .. k : i \in 0 .. k /\ i \in 1 .. Len(p)
        BY <1>1
    <3> QED BY <1>1, <3>1, NestedBeginning
  <2> HIDE DEF s
  <2>3. a = [i \in 1 .. k |-> Segment(d, SubSeq(s, 1, i))]
    <3>1. DOMAIN s = 1 .. k
        BY <2>1
    <3> QED BY <3>1 DEF Path
  <2> HIDE DEF a, w
  <2>4. a = [i \in 1 .. k |-> w[i]]
      BY <1>2, <2>2, <2>3 DEF w
  <2>5. w \in Seq(Keys \union Nat) /\ k \in 0 .. Len(w)
      BY <1>4 DEF w
  <2>6. b \in Seq(Keys \union Nat) /\ Len(b) = k /\ \A i \in 1 .. k : b[i] = w[i]
      BY <2>5, Beginning
  <2>7. b = [i \in 1 .. k |-> b[i]]
      BY <2>1, <2>6
  <2> HIDE DEF b
  <2>8. a = b
      BY <2>4, <2>6, <2>7
  <2> QED BY <2>8 DEF a, b, s, w
<1> QED BY <1>2, <1>4, <1>5

\* Where no key is held twice every node is reached, and found by its path.
LEMMA ResolveIs ==
    ASSUME NEW d, IsTree(d), DistinctKeys(d), NEW p \in DOMAIN d
    PROVE  p \in Reached(d) /\ Resolve(d, Path(d, p)) = p
<1>1. p \in Seq(Nat) /\ DOMAIN p = 1 .. Len(p) /\ Len(p) \in Nat
    BY DEF IsTree
<1>2. ASSUME NEW a \in DOMAIN d
      PROVE  a \in Reached(d)
  <2> SUFFICES ASSUME NEW i \in DOMAIN a, NEW s, s = SubSeq(a, 1, i), NEW q \in Siblings(d, s), Last(q) > Last(s)
               PROVE  Segment(d, q) # Segment(d, s)
      BY DEF Reached
  <2>1. a \in Seq(Nat) /\ i \in 0 .. Len(a) /\ i # 0
      BY DEF IsTree
  <2>2. s \in DOMAIN d /\ s \in Seq(Nat) /\ Len(s) = i
      BY <2>1, Ancestor, Beginning
  <2>3. s # <<>>
      BY <2>1, <2>2
  <2>4. q \in DOMAIN d /\ q # <<>> /\ Front(q) = Front(s)
      BY DEF Siblings
  <2>5. /\ Last(s) \in Nat
        /\ d[Front(s)].kind = "map" => Last(s) \in DOMAIN d[Front(s)].keys
      BY <2>2, <2>3, TreeIs
  <2>6. /\ Last(q) \in Nat
        /\ d[Front(q)].kind = "map" => Last(q) \in DOMAIN d[Front(q)].keys
      BY <2>4, TreeIs
  <2>9. Front(s) \in DOMAIN d
      BY <2>2, <2>3, TreeIs
  <2>7. IsInjective(d[Front(s)].keys)
      BY <2>9 DEF DistinctKeys
  <2>8. Last(q) # Last(s)
    <3>1. \A m, n \in Nat : m > n => m # n
        OBVIOUS
    <3> QED BY <2>5, <2>6, <3>1, Zenon
  <2> QED BY <2>4, <2>5, <2>6, <2>7, <2>8 DEF Segment, IsInjective
<1>3. \A a \in Reached(d) : a \in DOMAIN d
    BY DEF Reached
<1>4. Resolve(d, Path(d, p)) \in Reached(d) /\ Path(d, Resolve(d, Path(d, p))) = Path(d, p)
    BY <1>2 DEF Resolve
<1> QED BY <1>2, <1>3, <1>4, PathInjective

\* What is the beginning of a sequence is a sequence.
LEMMA PrefixesAre ==
    ASSUME NEW S, NEW a \in Seq(S), NEW c \in Prefixes(a)
    PROVE  c \in Seq(S) /\ Len(c) \in Nat
<1>1. PICK n \in 0 .. Len(a) : c = SubSeq(a, 1, n)
    BY DEF Prefixes
<1> QED BY <1>1, Beginning

\* The sequence s is the beginning of length n of both a and b.
SharedTo(a, b, s, n) ==
    /\ n <= Len(a) /\ n <= Len(b) /\ Len(s) = n /\ s = SubSeq(a, 1, n) /\ s = SubSeq(b, 1, n)
    /\ \A i \in 1 .. n : a[i] = b[i]

\* The longest beginning that two sequences share: they part after it.
LEMMA SharedIs ==
    ASSUME NEW S, NEW a \in Seq(S), NEW b \in Seq(S), NEW s, s = LongestCommonPrefix({a, b})
    PROVE  \E n \in Nat : SharedTo(a, b, s, n)
<1> DEFINE T == {i \in Nat : i # 0 /\ (i > Len(a) \/ i > Len(b) \/ a[i] # b[i])}
           C == CommonPrefixes({a, b})
<1>1. Len(a) \in Nat /\ Len(b) \in Nat
    OBVIOUS
<1>2. Len(a) + 1 \in T
    OBVIOUS
<1>3. PICK m \in T : \A i \in T : m <= i
    BY <1>2, LeastNatural
<1> DEFINE k == m - 1
<1>4. k \in Nat /\ m = k + 1 /\ k <= Len(a) /\ k <= Len(b) /\ \A i \in 1 .. k : a[i] = b[i]
  <2>1. m \in Nat \ {0}
      OBVIOUS
  <2>2. \A i \in 1 .. k : i <= Len(a) /\ i <= Len(b) /\ a[i] = b[i]
      BY <1>3, <2>1
  <2>3. k \in Nat
      BY <2>1
  <2>4. k = 0 \/ k \in 1 .. k
      BY <2>3
  <2> QED BY <1>1, <2>1, <2>2, <2>3, <2>4
<1> HIDE DEF T, k
<1>5. ASSUME NEW c PROVE c \in C <=> \E n \in 0 .. Len(a) : n <= k /\ c = SubSeq(a, 1, n)
  <2>1. c \in C <=> /\ c \in UNION {Prefixes(x) : x \in {a, b}}
                    /\ IsPrefix(c, a) /\ IsPrefix(c, b)
      BY DEF CommonPrefixes
  <2>2. c \in UNION {Prefixes(x) : x \in {a, b}} <=> c \in Prefixes(a) \/ c \in Prefixes(b)
      OBVIOUS
  <2> HIDE DEF C
  <2>3. ASSUME c \in C PROVE \E n \in 0 .. Len(a) : n <= k /\ c = SubSeq(a, 1, n)
    <3> DEFINE n == Len(c)
    <3>1. c \in Seq(S) /\ n \in Nat
      <4>1. CASE c \in Prefixes(a)
          BY <4>1, PrefixesAre
      <4>2. CASE c \in Prefixes(b)
          BY <4>2, PrefixesAre
      <4> QED BY <2>1, <2>2, <2>3, <4>1, <4>2
    <3>2. Len(c) = n
        OBVIOUS
    <3> HIDE DEF n
    <3>3. /\ n <= Len(a) /\ n <= Len(b)
          /\ \A i \in 1 .. n : c[i] = a[i] /\ c[i] = b[i]
        BY <2>1, <2>3, <3>1, <3>2, PrefixIs
    <3>4. c = SubSeq(a, 1, n)
      <4>1. n \in 0 .. Len(a) /\ Len(c) <= Len(a)
          BY <1>1, <3>2, <3>3
      <4>2. IsPrefix(c, a)
          BY <2>1, <2>3
      <4>3. SubSeq(c, 1, Len(c)) = c
          BY <3>1, <3>2, SubSeqFull
      <4> QED BY <3>2, <4>2, <4>3 DEF IsPrefix
    <3>5. n <= k
      <4>1. m \in T
          BY <1>3
      <4>2. m > Len(a) \/ m > Len(b) \/ a[m] # b[m]
          BY <4>1 DEF T
      <4>3. m \in 1 .. n => a[m] = b[m]
          BY <3>3
      <4> QED BY <1>1, <1>4, <3>1, <3>3, <4>2, <4>3
    <3>6. n \in 0 .. Len(a)
        BY <1>1, <3>1, <3>3
    <3> QED BY <3>4, <3>5, <3>6
  <2>4. ASSUME NEW n \in 0 .. Len(a), n <= k, c = SubSeq(a, 1, n) PROVE c \in C
    <3>1. c \in Seq(S) /\ Len(c) = n /\ \A i \in 1 .. n : c[i] = a[i]
        BY <2>4, Beginning
    <3>2. \A i \in 1 .. n : c[i] = b[i]
      <4>1. \A i \in 1 .. n : i \in 1 .. k
          BY <1>4, <2>4
      <4> QED BY <1>4, <3>1, <4>1
    <3>3. Len(c) <= Len(a) /\ Len(c) <= Len(b)
        BY <1>1, <1>4, <2>4, <3>1
    <3>4. IsPrefix(c, a)
        BY <3>1, <3>3, PrefixIs
    <3>5. IsPrefix(c, b)
        BY <3>1, <3>2, <3>3, PrefixIs
    <3>6. c \in Prefixes(a)
        BY <2>4 DEF Prefixes
    <3> QED BY <2>1, <2>2, <3>4, <3>5, <3>6
  <2> QED BY <2>3, <2>4
<1> HIDE DEF C
<1>6. k \in 0 .. Len(a)
    BY <1>1, <1>4
<1>7. \A n \in 0 .. Len(a) : Len(SubSeq(a, 1, n)) = n
    BY Beginning
<1>8. s \in C /\ \A c \in C : Len(c) <= Len(s)
  <2>1. SubSeq(a, 1, k) \in C /\ \A c \in C : Len(c) <= Len(SubSeq(a, 1, k))
    <3>1. k <= k
        BY <1>4
    <3>2. SubSeq(a, 1, k) \in C
        BY <1>5, <1>6, <3>1
    <3>3. Len(SubSeq(a, 1, k)) = k
        BY <1>6, <1>7
    <3>4. ASSUME NEW c \in C PROVE Len(c) <= k
      <4>1. PICK n \in 0 .. Len(a) : n <= k /\ c = SubSeq(a, 1, n)
          BY <1>5
      <4>2. Len(c) = n
          BY <1>7, <4>1
      <4> QED BY <4>1, <4>2
    <3> QED BY <3>2, <3>3, <3>4
  <2>2. s = CHOOSE x \in C : \A c \in C : Len(c) <= Len(x)
      BY DEF LongestCommonPrefix, C
  <2> QED BY <2>1, <2>2
<1>9. PICK n \in 0 .. Len(a) : n <= k /\ s = SubSeq(a, 1, n)
    BY <1>5, <1>8
<1>10. n \in Nat /\ n <= Len(a) /\ n <= Len(b) /\ Len(s) = n /\ \A i \in 1 .. n : a[i] = b[i]
  <2>1. n \in Nat /\ n <= Len(a) /\ n <= Len(b) /\ \A i \in 1 .. n : i \in 1 .. k
      BY <1>1, <1>4, <1>9
  <2> QED BY <1>4, <1>7, <1>9, <2>1
<1>11. s = SubSeq(b, 1, n)
  <2>1. IsPrefix(s, b) /\ s \in Seq(S)
    <3>1. s \in Seq(S)
        BY <1>9, Beginning
    <3> QED BY <1>8, <3>1 DEF C, CommonPrefixes
  <2>2. SubSeq(s, 1, Len(s)) = s
      BY <2>1, SubSeqFull
  <2> QED BY <1>10, <2>1, <2>2 DEF IsPrefix
<1> QED BY <1>9, <1>10, <1>11 DEF SharedTo

\* A segment stands where the node does: by its number, or by that of its one key.
LEMMA OrderIs ==
    ASSUME NEW d, IsTree(d), DistinctKeys(d), NEW p \in DOMAIN d, p # <<>>
    PROVE  Order(d, Front(p), Segment(d, p)) = Last(p)
<1> DEFINE c == Front(p)
           n == Last(p)
           keys == d[c].keys
<1>1. c \in DOMAIN d /\ n \in Nat
    BY TreeIs
<1>2. d[c].kind = "map" => n \in DOMAIN keys
    BY TreeIs
<1>3. IsInjective(keys) /\ keys \in Seq(Keys)
    BY <1>1, TreeIs DEF DistinctKeys, IsNode
<1> HIDE DEF c, n, keys
<1>4. CASE d[c].kind # "map"
    BY <1>4 DEF Order, Segment, c, n
<1>5. CASE d[c].kind = "map"
  <2> DEFINE M == {i \in DOMAIN keys : keys[i] = keys[n]} \union {Len(keys) + 1}
  <2>1. n \in DOMAIN keys /\ Len(keys) \in Nat /\ DOMAIN keys = 1 .. Len(keys)
      BY <1>2, <1>3, <1>5
  <2>2. M = {n, Len(keys) + 1}
      BY <1>3, <2>1 DEF IsInjective
  <2>3. n < Len(keys) + 1 /\ n \in Nat
      BY <1>1, <2>1
  <2> HIDE DEF M
  <2>4. Min(M) = n
    <3>1. n \in M /\ \A m \in M : n <= m
        BY <2>1, <2>2, <2>3
    <3>2. \A x \in M : (\A m \in M : x <= m) => x = n
        BY <2>1, <2>2, <2>3
    <3> QED BY <3>1, <3>2 DEF Min
  <2>5. Order(d, c, keys[n]) = Min(M)
      BY <1>5 DEF Order, M, keys
  <2>6. Segment(d, p) = keys[n]
      BY <1>5 DEF Segment, keys, c, n
  <2> QED BY <2>4, <2>5, <2>6 DEF c, n
<1> QED BY <1>4, <1>5

\* What make_alias tells of paths, told of nodes.
LEMMA PrecedesIs ==
    ASSUME NEW d, IsTree(d), DistinctKeys(d), NEW a \in DOMAIN d, NEW b \in DOMAIN d,
           ~IsPrefix(Path(d, a), Path(d, b)), Precedes(d, Path(d, a), Path(d, b))
    PROVE  Follows(b, a)
<1> DEFINE A == Path(d, a)
           B == Path(d, b)
           shared == LongestCommonPrefix({A, B})
<1>1. /\ A \in Seq(Keys \union Nat) /\ Len(A) = Len(a)
      /\ \A k \in 0 .. Len(a) : Path(d, SubSeq(a, 1, k)) = SubSeq(A, 1, k)
      /\ \A i \in 1 .. Len(a) : A[i] = Segment(d, SubSeq(a, 1, i))
    BY PathIs
<1>2. /\ B \in Seq(Keys \union Nat) /\ Len(B) = Len(b)
      /\ \A k \in 0 .. Len(b) : Path(d, SubSeq(b, 1, k)) = SubSeq(B, 1, k)
      /\ \A i \in 1 .. Len(b) : B[i] = Segment(d, SubSeq(b, 1, i))
    BY PathIs
<1>3. ~IsPrefix(A, B) /\ Precedes(d, A, B)
    OBVIOUS
<1> HIDE DEF A, B
<1>4. PICK n \in Nat :
        /\ n <= Len(A) /\ n <= Len(B) /\ Len(shared) = n /\ shared = SubSeq(A, 1, n) /\ shared = SubSeq(B, 1, n)
        /\ \A i \in 1 .. n : A[i] = B[i]
  <2>1. A \in Seq(Keys \union Nat) /\ B \in Seq(Keys \union Nat)
      BY <1>1, <1>2, Zenon
  <2>2. shared = LongestCommonPrefix({A, B})
      OBVIOUS
  <2> HIDE DEF shared
  <2>3. \E n \in Nat : SharedTo(A, B, shared, n)
      BY <2>1, <2>2, SharedIs, Zenon
  <2> QED BY <2>3, Zenon DEF SharedTo
<1> DEFINE at == Resolve(d, shared)
<1>5. n < Len(B) /\ (n = Len(A) \/ Order(d, at, A[n + 1]) < Order(d, at, B[n + 1]))
    BY <1>3, <1>4 DEF Precedes
<1>6. n # Len(A)
  <2> SUFFICES ASSUME n = Len(A) PROVE FALSE
      OBVIOUS
  <2>1. IsPrefix(A, B)
      BY <1>1, <1>2, <1>4, PrefixIs
  <2> QED BY <1>3, <2>1
<1> HIDE DEF shared
<1>7. a \in Seq(Nat) /\ b \in Seq(Nat) /\ Len(a) \in Nat /\ Len(b) \in Nat
    BY DEF IsTree
<1>8. n < Len(a) /\ n < Len(b) /\ n \in 0 .. Len(a) /\ n \in 0 .. Len(b)
      /\ n + 1 \in 0 .. Len(a) /\ n + 1 \in 0 .. Len(b) /\ n + 1 \in 1 .. Len(a) /\ n + 1 \in 1 .. Len(b)
  <2>1. Len(A) = Len(a) /\ Len(B) = Len(b)
      BY <1>1, <1>2, Zenon
  <2>2. n <= Len(A) /\ n < Len(B) /\ n # Len(A)
      BY <1>4, <1>5, <1>6, Zenon
  <2>3. n \in Nat
      OBVIOUS
  <2>4. \A x, y \in Nat : n <= x /\ n # x /\ n < y =>
          /\ n < x /\ n \in 0 .. x /\ n \in 0 .. y
          /\ n + 1 \in 0 .. x /\ n + 1 \in 0 .. y /\ n + 1 \in 1 .. x /\ n + 1 \in 1 .. y
      BY <2>3
  <2> QED BY <1>7, <2>1, <2>2, <2>4, Zenon
<1> DEFINE c == SubSeq(a, 1, n)
           e == SubSeq(b, 1, n)
           a1 == SubSeq(a, 1, n + 1)
           b1 == SubSeq(b, 1, n + 1)
<1>9. c \in DOMAIN d /\ e \in DOMAIN d /\ a1 \in DOMAIN d /\ b1 \in DOMAIN d
    BY <1>8, Ancestor
<1>10. Path(d, c) = shared /\ Path(d, e) = shared
    BY <1>1, <1>2, <1>4, <1>8
<1>11. c = e /\ at = c
  <2> HIDE DEF c, e
  <2>1. c = e
      BY <1>9, <1>10, PathInjective
  <2>2. Resolve(d, Path(d, c)) = c
      BY <1>9, ResolveIs
  <2> QED BY <1>10, <2>1, <2>2
<1>12. /\ c \in Seq(Nat) /\ Len(c) = n /\ \A i \in 1 .. n : c[i] = a[i]
       /\ e \in Seq(Nat) /\ Len(e) = n /\ \A i \in 1 .. n : e[i] = b[i]
    BY <1>7, <1>8, Beginning
<1>13. /\ a1 \in Seq(Nat) /\ Len(a1) = n + 1 /\ \A i \in 1 .. n + 1 : a1[i] = a[i]
       /\ b1 \in Seq(Nat) /\ Len(b1) = n + 1 /\ \A i \in 1 .. n + 1 : b1[i] = b[i]
    BY <1>7, <1>8, Beginning
<1>14. Front(a1) = c /\ Front(b1) = e
  <2>1. SubSeq(a1, 1, n) = c /\ SubSeq(b1, 1, n) = e
    <3>1. n \in 0 .. n + 1
        OBVIOUS
    <3> QED BY <1>7, <1>8, <3>1, NestedBeginning
  <2>2. Len(a1) - 1 = n /\ Len(b1) - 1 = n
      BY <1>13
  <2> HIDE DEF a1, b1, c, e
  <2> QED BY <2>1, <2>2 DEF Front
<1>15. Last(a1) = a[n + 1] /\ Last(b1) = b[n + 1] /\ a1 # <<>> /\ b1 # <<>>
  <2>1. n + 1 \in 1 .. n + 1
      OBVIOUS
  <2> HIDE DEF a1, b1
  <2> QED BY <1>13, <2>1 DEF Last
<1>16. A[n + 1] = Segment(d, a1) /\ B[n + 1] = Segment(d, b1)
    BY <1>1, <1>2, <1>8
<1> HIDE DEF a1, b1, c, e, at
<1>17. Order(d, c, A[n + 1]) = a[n + 1] /\ Order(d, c, B[n + 1]) = b[n + 1]
    BY <1>9, <1>11, <1>14, <1>15, <1>16, OrderIs
<1>18. a[n + 1] < b[n + 1]
    BY <1>5, <1>6, <1>11, <1>17
<1>19. PartsAt(a, b, n)
  <2>1. n <= Len(a)
      BY <1>8
  <2> QED BY <1>8, <1>11, <1>12, <1>18, <2>1, Zenon DEF PartsAt
<1>20. ~IsPrefix(a, b)
  <2>1. a[n + 1] # b[n + 1]
    <3>1. a[n + 1] \in Nat /\ b[n + 1] \in Nat
        BY <1>7, <1>8
    <3> QED BY <1>18, <3>1
  <2> QED BY <1>7, <1>8, <2>1, PrefixIs
<1> QED BY <1>7, <1>19, <1>20, BeforeParts DEF Follows
-----------------------------------------------------------------------------
\* Where every alias follows each node that has its name, every alias points back.
LEMMA PointBackIf ==
    ASSUME NEW g, IsTree(g), \A x \in Aliases(g) : \A q \in Definitions(g, g[x].val) : Follows(x, q)
    PROVE  AliasesPointBack(g)
<1> SUFFICES ASSUME NEW x \in Aliases(g), Definitions(g, g[x].val) # {} PROVE PointsBack(g, x)
    BY DEF AliasesPointBack
<1>1. Definition(g, g[x].val) \in Definitions(g, g[x].val)
    BY DefinitionHas
<1> QED BY <1>1 DEF PointsBack, Follows

\* A tree in which no node is an alias.
NoAliases(t) == \A r \in DOMAIN t : t[r].kind # "alias"

\* Where a tree without names and aliases is put in, the aliases still point back.
LEMMA BareFollows ==
    ASSUME NEW d, IsTree(d), OneOwner(d), AliasesPointBack(d), NEW p \in Seq(Nat), NEW sub, IsTree(sub),
           NoAliases(sub), NoNewNames(d, p, sub),
           NEW g, g = Graft(d, p, sub), IsTree(g)
    PROVE  AliasesPointBack(g)
<1>1. ASSUME NEW x \in Aliases(g) PROVE x \notin Placed(p, sub)
  <2>1. \A r \in DOMAIN sub : g[p \o r] = sub[r]
      BY GraftHas DEF IsTree
  <2> QED BY <2>1 DEF Placed, Aliases, NoAliases
<1>2. ASSUME NEW x \in Aliases(g), NEW q \in Definitions(g, g[x].val) PROVE Follows(x, q)
    BY <1>1, GraftFollows
<1> QED BY <1>2, PointBackIf

\* At a place with a node at it or below there is a node, and one below makes it a container.
LEMMA AtOrBelow ==
    ASSUME NEW d, IsTree(d), NEW p \in Seq(Nat), NEW q \in DOMAIN d, IsPrefix(p, q)
    PROVE  p \in DOMAIN d /\ (q # p => d[p].kind \in {"map", "seq"})
<1>1. q \in Seq(Nat) /\ Len(p) \in Nat /\ Len(q) \in Nat
    BY TreeIs
<1>2. Len(p) <= Len(q) /\ \A i \in 1 .. Len(p) : p[i] = q[i]
    BY <1>1, PrefixIs
<1>3. Len(p) \in 0 .. Len(q)
    BY <1>1, <1>2
<1>4. SubSeq(q, 1, Len(p)) = p
    BY DEF IsPrefix
<1>5. p \in DOMAIN d
    BY <1>3, <1>4, Ancestor
<1>6. ASSUME q # p PROVE d[p].kind \in {"map", "seq"}
  <2>1. Len(p) # Len(q)
      BY <1>1, <1>2, <1>6, SeqEqual
  <2>2. Len(p) + 1 \in 0 .. Len(q) /\ Len(p) \in 0 .. Len(p) + 1
      BY <1>1, <1>2, <2>1
  <2> DEFINE s == SubSeq(q, 1, Len(p) + 1)
  <2>3. s \in DOMAIN d
      BY <2>2, Ancestor
  <2>4. SubSeq(s, 1, Len(p)) = p
      BY <1>1, <1>4, <2>2, NestedBeginning
  <2>5. Len(s) = Len(p) + 1
      BY <1>1, <2>2, Beginning
  <2> HIDE DEF s
  <2>6. Front(s) = p /\ s # <<>>
    <3>1. Len(s) - 1 = Len(p) /\ Len(s) # 0
        BY <1>1, <2>5
    <3>2. s # <<>>
        BY <3>1
    <3> QED BY <2>4, <3>1, <3>2 DEF Front
  <2> QED BY <2>3, <2>6, TreeIs
<1> QED BY <1>5, <1>6

\* Neither a node at p nor one below it has a name.
NamelessFrom(d, p) == \A q \in DOMAIN d : IsPrefix(p, q) => d[q].anchor = NoName

\* A document composes still when what is replaced had no names, and what replaces it no aliases.
LEMMA GraftComposes ==
    ASSUME NEW d, IsTree(d), Composes(d), NEW p \in Seq(Nat), NEW sub, IsTree(sub),
           NoAliases(sub), NamelessFrom(d, p), NEW g, g = Graft(d, p, sub)
    PROVE  Composes(g)
<1>1. DOMAIN g = Kept(d, p) \union Placed(p, sub) /\ \A z \in Kept(d, p) : g[z] = d[z]
  <2>1. /\ DOMAIN Graft(d, p, sub) = Kept(d, p) \union Placed(p, sub)
        /\ \A z \in Kept(d, p) : Graft(d, p, sub)[z] = d[z]
      BY GraftIs
  <2> QED BY <2>1
<1>2. \A r \in DOMAIN sub : g[p \o r] = sub[r]
    BY GraftHas DEF IsTree
<1> SUFFICES ASSUME NEW x \in Aliases(g)
             PROVE  /\ ~g[x].tagged /\ g[x].anchor = NoName
                    /\ \E q \in Definitions(g, g[x].val) : Before(q, x) /\ ~IsPrefix(q, x)
    BY DEF Composes
<1>3. x \in Kept(d, p)
    BY <1>1, <1>2 DEF Placed, Aliases, NoAliases
<1>4. x \in Aliases(d) /\ g[x] = d[x]
    BY <1>1, <1>3 DEF Kept, Aliases
<1>5. ~d[x].tagged /\ d[x].anchor = NoName
    BY <1>4 DEF Composes
<1>6. PICK q \in Definitions(d, d[x].val) : Before(q, x) /\ ~IsPrefix(q, x)
    BY <1>4 DEF Composes
<1>7. d[x].val # NoName
  <2>1. IsNode(d[x]) /\ d[x].kind = "alias"
      BY <1>4, TreeIs DEF Aliases
  <2> QED BY <2>1, DocumentAssumption DEF IsNode
<1>8. q \in Kept(d, p)
    BY <1>7 DEF Definitions, Kept, NamelessFrom
<1>9. q \in Definitions(g, g[x].val)
    BY <1>1, <1>4, <1>8 DEF Definitions
<1> QED BY <1>4, <1>5, <1>6, <1>9
-----------------------------------------------------------------------------
\* The two promises an edit keeps: about aliases that point back, about documents that compose.
KeepsPointingBack ==
    Owned(doc) /\ Dangling(doc) = {} /\ AliasesPointBack(doc) => AliasesPointBack(doc')
KeepsComposing == OneOwner(doc) /\ Composes(doc) => Composes(doc')

\* A value takes the place of another.
LEMMA ReplaceStep ==
    ASSUME IsTree(doc), NEW p \in DOMAIN doc, NEW tree \in Assigned, Replace(p, tree)
    PROVE  /\ IsTree(doc') /\ (Owned(doc) => Owned(doc')) /\ (\E q \in DOMAIN doc' : doc'[q].modified)
           /\ KeepsPointingBack
<1> DEFINE root == [tree[<<>>] EXCEPT !.anchor = doc[p].anchor, !.tagged = doc[p].tagged, !.modified = TRUE]
           sub == [tree EXCEPT ![<<>>] = root]
<1>1. /\ IsTree(tree) /\ DistinctKeys(tree)
      /\ \A r \in DOMAIN tree : tree[r].anchor = NoName /\ tree[r].kind # "alias"
    BY DocumentAssumption
<1>2. <<>> \in DOMAIN tree /\ IsNode(tree[<<>>]) /\ p \in Seq(Nat) /\ IsNode(doc[p]) /\ <<>> \in Seq(Nat)
    BY <1>1 DEF IsTree
<1>4. /\ IsNode(root) /\ root.kind = tree[<<>>].kind /\ root.keys = tree[<<>>].keys
      /\ root.anchor = doc[p].anchor /\ root.modified = TRUE
    BY <1>2, RenewedNode, ZenonT(60)
<1>5. doc' = Graft(doc, p, sub)
    BY DEF Replace
<1> HIDE DEF root
<1>6. DOMAIN sub = DOMAIN tree /\ sub[<<>>] = root /\ \A r \in DOMAIN tree : r # <<>> => sub[r] = tree[r]
    BY <1>1, <1>2 DEF IsTree
<1>7. IsTree(sub)
    BY <1>1, <1>2, <1>4, NodeTree
<1> HIDE DEF sub
<1>8. DistinctKeys(sub)
    BY <1>1, <1>2, <1>4, <1>6 DEF DistinctKeys
<1>9. Attached(doc, p)
    BY TreeIs DEF Attached
<1>10. IsTree(doc')
    BY <1>2, <1>5, <1>7, <1>9, GraftTree
<1>11. NoNewNames(doc, p, sub)
    BY <1>1, <1>4, <1>6 DEF NoNewNames
<1>12. Owned(doc) => Owned(doc')
    BY <1>2, <1>5, <1>7, <1>8, <1>11, GraftOwned
<1>13. p \in DOMAIN doc' /\ doc'[p] = root
    BY <1>2, <1>5, <1>6, <1>7, GraftRoot DEF IsTree
<1>14. KeepsPointingBack
  <2>1. NoAliases(sub)
      BY <1>1, <1>2, <1>4, <1>6 DEF NoAliases
  <2> QED BY <1>2, <1>5, <1>7, <1>10, <1>11, <2>1, BareFollows DEF KeepsPointingBack, Owned
<1> QED BY <1>4, <1>10, <1>12, <1>13, <1>14

\* A mapping takes another entry.
LEMMA AddEntryStep ==
    ASSUME IsTree(doc), NEW p \in DOMAIN doc, NEW tree \in Assigned, NEW key \in Keys, AddEntry(p, key, tree)
    PROVE  /\ IsTree(doc') /\ (Owned(doc) => Owned(doc')) /\ (\E q \in DOMAIN doc' : doc'[q].modified)
           /\ KeepsPointingBack /\ KeepsComposing
<1> DEFINE keys == Append(doc[p].keys, key)
           n == [doc[p] EXCEPT !.keys = keys]
           d == [doc EXCEPT ![p] = n]
           at == Append(p, Len(keys))
           root == [tree[<<>>] EXCEPT !.modified = TRUE]
           sub == [tree EXCEPT ![<<>>] = root]
<1>1. /\ IsTree(tree) /\ DistinctKeys(tree)
      /\ \A r \in DOMAIN tree : tree[r].anchor = NoName /\ tree[r].kind # "alias"
    BY DocumentAssumption
<1>2. <<>> \in DOMAIN tree /\ IsNode(tree[<<>>]) /\ p \in Seq(Nat) /\ IsNode(doc[p]) /\ <<>> \in Seq(Nat)
    BY <1>1 DEF IsTree
<1>3. /\ doc[p].kind = "map" /\ key \notin ToSet(doc[p].keys) /\ doc[p].keys \in Seq(Keys)
      /\ doc' = Graft(d, at, sub)
    BY <1>2 DEF AddEntry, IsNode
<1>4. /\ keys \in Seq(Keys) /\ Len(keys) = Len(doc[p].keys) + 1 /\ DOMAIN keys = 1 .. Len(keys)
      /\ DOMAIN doc[p].keys \subseteq DOMAIN keys /\ Len(keys) \in Nat \ {0}
    BY <1>3
<1>5. IsInjective(doc[p].keys) => IsInjective(keys)
  <2>1. \A i \in 1 .. Len(doc[p].keys) : keys[i] = doc[p].keys[i] /\ keys[i] # key
      BY <1>3 DEF ToSet
  <2>2. keys[Len(keys)] = key
      BY <1>3
  <2> QED BY <1>3, <1>4, <2>1, <2>2 DEF IsInjective
<1> HIDE DEF keys
<1>6. IsNode(n) /\ n.kind = doc[p].kind /\ n.keys = keys /\ n.anchor = doc[p].anchor
    BY <1>2, <1>4, ChangedNode, ZenonT(60)
<1>7. /\ IsNode(root) /\ root.kind = tree[<<>>].kind /\ root.keys = tree[<<>>].keys
      /\ root.anchor = tree[<<>>].anchor /\ root.modified = TRUE
    BY <1>2, ChangedNode
<1> HIDE DEF n, root
<1>8. DOMAIN d = DOMAIN doc /\ d[p] = n /\ \A q \in DOMAIN doc : q # p => d[q] = doc[q]
    BY DEF IsTree
<1>9. DOMAIN sub = DOMAIN tree /\ sub[<<>>] = root /\ \A r \in DOMAIN tree : r # <<>> => sub[r] = tree[r]
    BY <1>1, <1>2 DEF IsTree
<1>10. IsTree(d)
    BY <1>4, <1>6, NodeTree
<1>11. IsTree(sub)
    BY <1>1, <1>2, <1>7, NodeTree
<1>12. Owned(doc) => Owned(d)
  <2>1. Owned(doc) => IsInjective(n.keys) /\ \A q \in DOMAIN doc \ {p} : n.anchor # NoName => doc[q].anchor # n.anchor
      BY <1>5, <1>6 DEF Owned, DistinctKeys, OneOwner
  <2> QED BY <2>1, NodeOwned
<1> HIDE DEF d, sub
<1>13. at \in Seq(Nat) /\ at # <<>> /\ Front(at) = p /\ Last(at) = Len(keys)
    BY <1>2, <1>4, AppendIs DEF Front, Last
<1> HIDE DEF at
<1>14. Attached(d, at)
    BY <1>3, <1>4, <1>6, <1>8, <1>13 DEF Attached
<1>15. IsTree(doc')
    BY <1>3, <1>10, <1>11, <1>13, <1>14, GraftTree
<1>16. DistinctKeys(sub) /\ NoNewNames(d, at, sub)
    BY <1>1, <1>2, <1>7, <1>9 DEF DistinctKeys, NoNewNames
<1>17. Owned(doc) => Owned(doc')
    BY <1>3, <1>10, <1>11, <1>12, <1>13, <1>16, GraftOwned
<1>18. at \in DOMAIN doc' /\ doc'[at] = root
  <2>1. DOMAIN sub \subseteq Seq(Nat) /\ <<>> \in DOMAIN sub
      BY <1>11 DEF IsTree
  <2>2. at \in DOMAIN Graft(d, at, sub) /\ Graft(d, at, sub)[at] = sub[<<>>]
      BY <1>13, <2>1, GraftRoot
  <2> QED BY <1>3, <1>9, <2>2
<1>19. NoAliases(sub)
    BY <1>1, <1>2, <1>7, <1>9 DEF NoAliases
<1>20. d[p].kind # "alias" /\ doc[p].kind # "alias" /\ d[p].anchor = doc[p].anchor
    BY <1>3, <1>6, <1>8
<1>21. Aliases(d) = Aliases(doc) /\ \A x \in Aliases(doc) : d[x] = doc[x]
    BY <1>8, <1>20 DEF Aliases
<1>22. \A name : Definitions(d, name) = Definitions(doc, name) /\ Definition(d, name) = Definition(doc, name)
  <2>1. \A name : Definitions(d, name) = Definitions(doc, name)
      BY <1>8, <1>20 DEF Definitions
  <2> QED BY <2>1 DEF Definition
<1>23. KeepsPointingBack
  <2>1. AliasesPointBack(doc) => AliasesPointBack(d)
      BY <1>21, <1>22 DEF AliasesPointBack, PointsBack
  <2> QED BY <1>3, <1>10, <1>11, <1>12, <1>13, <1>15, <1>16, <1>19, <2>1, BareFollows
          DEF KeepsPointingBack, Owned
<1>24. KeepsComposing
  <2>1. Composes(doc) => Composes(d)
      BY <1>21, <1>22 DEF Composes
  <2>2. ASSUME NEW q \in DOMAIN d, IsPrefix(at, q) PROVE FALSE
    <3>1. at \in DOMAIN doc
        BY <1>8, <1>13, <2>2, AtOrBelow
    <3>2. Last(at) \in DOMAIN doc[p].keys
        BY <1>3, <1>13, <3>1, TreeIs
    <3> QED BY <1>3, <1>4, <1>13, <3>2
  <2> QED BY <1>3, <1>10, <1>11, <1>13, <1>19, <2>1, <2>2, GraftComposes DEF KeepsComposing, NamelessFrom
<1> QED BY <1>7, <1>15, <1>17, <1>18, <1>23, <1>24

\* A node becomes an alias.
LEMMA MakeAliasStep ==
    ASSUME IsTree(doc), NEW p \in DOMAIN doc, NEW name \in Names, MakeAlias(p, name)
    PROVE  /\ IsTree(doc') /\ (Owned(doc) => Owned(doc')) /\ (\E q \in DOMAIN doc' : doc'[q].modified)
           /\ KeepsPointingBack
<1> DEFINE n == [doc[p] EXCEPT !.kind = "alias", !.keys = <<>>, !.val = name, !.anchor = NoName, !.modified = TRUE]
           sub == Leaf(n)
<1>1. p \in Seq(Nat) /\ IsNode(doc[p]) /\ <<>> \in Seq(Nat)
    BY DEF IsTree
<1>2. /\ IsNode(n) /\ n.kind = "alias" /\ n.val = name /\ n.keys = <<>> /\ n.anchor = NoName
      /\ n.modified = TRUE
    BY <1>1, ChangedNode, ZenonT(60)
<1>3. doc' = Graft(doc, p, sub)
    BY DEF MakeAlias, ToAlias
<1> HIDE DEF n
<1>4. IsTree(sub) /\ DOMAIN sub = {<<>>} /\ sub[<<>>] = n
    BY <1>2, LeafTree
<1> HIDE DEF sub
<1>5. DistinctKeys(sub) /\ NoNewNames(doc, p, sub)
    BY <1>2, <1>4 DEF DistinctKeys, IsInjective, NoNewNames
<1>6. Attached(doc, p)
    BY TreeIs DEF Attached
<1>7. IsTree(doc')
    BY <1>1, <1>3, <1>4, <1>6, GraftTree
<1>8. Owned(doc) => Owned(doc')
    BY <1>1, <1>2, <1>3, <1>4, <1>5, GraftOwned
<1>9. p \in DOMAIN doc' /\ doc'[p] = n
    BY <1>1, <1>3, <1>4, GraftRoot
<1>10. KeepsPointingBack
  <2> SUFFICES ASSUME Owned(doc), AliasesPointBack(doc) PROVE AliasesPointBack(doc')
      BY DEF KeepsPointingBack
  <2>1. Definitions(doc, name) # {} /\ Definition(doc, name) \in DOMAIN doc
      BY DefinitionExists DEF MakeAlias
  <2>2. /\ ~IsPrefix(Path(doc, Definition(doc, name)), Path(doc, p))
        /\ Precedes(doc, Path(doc, Definition(doc, name)), Path(doc, p))
      BY DEF MakeAlias
  <2>3. Follows(p, Definition(doc, name))
      BY <2>1, <2>2, PrecedesIs DEF Owned
  <2>4. ASSUME NEW x \in Aliases(doc'), x \in Placed(p, sub) PROVE x = p /\ doc'[x].val = name
    <3>1. x = p \o <<>>
        BY <1>4, <2>4 DEF Placed
    <3>2. x = p
        BY <1>1, <3>1, EmptyConcat
    <3> QED BY <1>2, <1>9, <3>2
  <2>5. ASSUME NEW x \in Aliases(doc'), NEW q \in Definitions(doc', doc'[x].val) PROVE Follows(x, q)
    <3>1. x \in Placed(p, sub) => /\ x \in DOMAIN doc /\ Definitions(doc, doc'[x].val) # {}
                                  /\ Follows(x, Definition(doc, doc'[x].val))
        BY <2>1, <2>3, <2>4
    <3> QED BY <1>1, <1>3, <1>4, <1>5, <1>7, <3>1, GraftFollows DEF Owned
  <2> QED BY <1>7, <2>5, PointBackIf
<1> QED BY <1>2, <1>7, <1>8, <1>9, <1>10

\* A node takes a name, or loses it.
LEMMA SetAnchorStep ==
    ASSUME IsTree(doc), NEW p \in DOMAIN doc, NEW name \in Names \union {NoName}, SetAnchor(p, name)
    PROVE  /\ IsTree(doc') /\ (Owned(doc) => Owned(doc')) /\ (\E q \in DOMAIN doc' : doc'[q].modified)
           /\ KeepsPointingBack
<1> DEFINE n == [doc[p] EXCEPT !.anchor = name, !.modified = TRUE]
           g == [doc EXCEPT ![p] = n]
<1>1. IsNode(doc[p])
    BY TreeIs
<1>2. /\ IsNode(n) /\ n.kind = doc[p].kind /\ n.keys = doc[p].keys /\ n.val = doc[p].val
      /\ n.anchor = name /\ n.modified = TRUE
    BY <1>1, NamedNode
<1>3. doc' = g
    BY DEF SetAnchor
<1> HIDE DEF n
<1>4. IsTree(g)
    BY <1>2, NodeTree
<1>5. ASSUME Owned(doc) PROVE Owned(g)
  <2>1. ASSUME NEW q \in DOMAIN doc \ {p}, name # NoName, doc[q].anchor = name PROVE FALSE
    <3>1. q \in Definitions(doc, name)
        BY <2>1 DEF Definitions
    <3>2. Definition(doc, name) = q
        BY <1>5, <2>1, <3>1, DefinitionIs DEF Owned
    <3>3. Path(doc, q) = Path(doc, p)
        BY <2>1, <3>1, <3>2 DEF SetAnchor
    <3>4. q = p
        BY <1>5, <2>1, <3>3, PathInjective DEF Owned
    <3> QED BY <2>1, <3>4
  <2>2. IsInjective(n.keys)
      BY <1>2, <1>5 DEF Owned, DistinctKeys
  <2>3. \A q \in DOMAIN doc \ {p} : n.anchor # NoName => doc[q].anchor # n.anchor
      BY <1>2, <2>1
  <2> QED BY <1>5, <2>2, <2>3, NodeOwned
<1>6. p \in DOMAIN g /\ g[p] = n /\ DOMAIN g = DOMAIN doc /\ \A q \in DOMAIN doc : q # p => g[q] = doc[q]
    BY DEF IsTree
<1> HIDE DEF g
<1>7. KeepsPointingBack
  <2> SUFFICES ASSUME Owned(doc), Dangling(doc) = {}, AliasesPointBack(doc),
                      NEW x \in Aliases(g), NEW q \in Definitions(g, g[x].val)
               PROVE  Follows(x, q)
      BY <1>3, <1>4, PointBackIf DEF KeepsPointingBack
  <2> DEFINE v == g[x].val
  <2>1. x \in Aliases(doc) /\ doc[x].val = v
      BY <1>2, <1>6 DEF Aliases
  <2>2. v # NoName
    <3>1. IsNode(g[x]) /\ g[x].kind = "alias"
        BY <1>4, TreeIs DEF Aliases
    <3> QED BY <3>1, DocumentAssumption DEF IsNode
  <2>3. Definitions(doc, v) # {}
      BY <2>1 DEF Dangling
  <2>4. Follows(x, Definition(doc, v))
      BY <2>1, <2>3 DEF AliasesPointBack, PointsBack, Follows
  <2>5. q \in DOMAIN doc /\ g[q].anchor = v
      BY <1>6 DEF Definitions
  <2> HIDE DEF v
  <2>6. Definition(doc, v) = q
    <3>1. CASE q # p
      <4>1. q \in Definitions(doc, v)
          BY <1>6, <2>5, <3>1 DEF Definitions
      <4> QED BY <2>2, <4>1, DefinitionIs DEF Owned
    <3>2. CASE q = p
      <4>1. name = v
          BY <1>2, <1>6, <2>5, <3>2
      <4>2. Path(doc, Definition(doc, v)) = Path(doc, p)
          BY <2>2, <2>3, <4>1 DEF SetAnchor
      <4> QED BY <2>3, <3>2, <4>2, DefinitionExists, PathInjective DEF Owned
    <3> QED BY <3>1, <3>2
  <2> QED BY <2>4, <2>6
<1> QED BY <1>2, <1>3, <1>4, <1>5, <1>6, <1>7

\* An entry or an item goes.
LEMMA DeleteStep ==
    ASSUME IsTree(doc), NEW p \in DOMAIN doc, Delete(p)
    PROVE  /\ IsTree(doc') /\ (Owned(doc) => Owned(doc')) /\ (\E q \in DOMAIN doc' : doc'[q].modified)
           /\ KeepsPointingBack /\ KeepsComposing
<1> DEFINE gone == {Last(q) : q \in {q \in Siblings(doc, p) : Segment(doc, q) = Segment(doc, p)}}
<1>1. p # <<>> /\ doc' = WithoutChildren(doc, Front(p), gone)
    BY DEF Delete, Deleted
<1> HIDE DEF gone
<1>2. Front(p) \in DOMAIN doc
    BY <1>1, TreeIs
<1>3. IsTree(doc') /\ (Owned(doc) => Owned(doc')) /\ Front(p) \in DOMAIN doc' /\ doc'[Front(p)].modified = TRUE
    BY <1>1, <1>2, WithoutChildrenTree
<1>4. doc[Front(p)].kind # "alias"
    BY <1>1, TreeIs
<1>5. ASSUME OneOwner(doc)
      PROVE  \A x \in Aliases(doc') :
               \E y \in Aliases(doc) :
                  /\ doc'[x] = doc[y]
                  /\ (Definitions(doc, doc[y].val) # {} => Follows(y, Definition(doc, doc[y].val)))
                          => \A q \in Definitions(doc', doc'[x].val) : Follows(x, q)
    BY <1>1, <1>2, <1>3, <1>4, <1>5, DeletedFollows
<1>6. KeepsPointingBack
  <2>1. ASSUME OneOwner(doc), AliasesPointBack(doc), NEW x \in Aliases(doc'),
               NEW q \in Definitions(doc', doc'[x].val)
        PROVE  Follows(x, q)
      BY <1>5, <2>1 DEF AliasesPointBack, PointsBack, Follows
  <2> QED BY <1>3, <2>1, PointBackIf DEF KeepsPointingBack, Owned
<1>7. KeepsComposing
  <2> SUFFICES ASSUME OneOwner(doc), Composes(doc), NEW x \in Aliases(doc')
               PROVE  /\ ~doc'[x].tagged /\ doc'[x].anchor = NoName
                      /\ \E q \in Definitions(doc', doc'[x].val) : Before(q, x) /\ ~IsPrefix(q, x)
      BY DEF KeepsComposing, Composes
  <2>1. PICK y \in Aliases(doc) :
            /\ doc'[x] = doc[y]
            /\ (Definitions(doc, doc[y].val) # {} => Follows(y, Definition(doc, doc[y].val)))
                    => \A q \in Definitions(doc', doc'[x].val) : Follows(x, q)
      BY <1>5
  <2>2. ~doc[y].tagged /\ doc[y].anchor = NoName
      BY DEF Composes
  <2>3. PICK q \in Definitions(doc, doc[y].val) : Before(q, y) /\ ~IsPrefix(q, y)
      BY DEF Composes
  <2>4. doc[y].val # NoName
    <3>1. IsNode(doc[y]) /\ doc[y].kind = "alias"
        BY TreeIs DEF Aliases
    <3> QED BY <3>1, DocumentAssumption DEF IsNode
  <2>5. Definition(doc, doc[y].val) = q
      BY <2>3, <2>4, DefinitionIs
  <2>6. \A z \in Definitions(doc', doc'[x].val) : Follows(x, z)
      BY <2>1, <2>3, <2>5 DEF Follows
  <2>7. Definitions(doc', doc'[x].val) # {}
    <3>1. Dangling(doc) = {}
        BY DEF Composes, Dangling
    <3>2. Dangling(doc') \subseteq Dangling(doc)
        BY DEF Delete
    <3>3. doc'[x].val \notin Dangling(doc')
        BY <3>1, <3>2
    <3> QED BY <3>3 DEF Dangling
  <2> QED BY <2>1, <2>2, <2>6, <2>7 DEF Follows
<1> QED BY <1>3, <1>6, <1>7

\* An alias becomes a copy of what it names.
LEMMA DetachStep ==
    ASSUME IsTree(doc), NEW p \in DOMAIN doc, Detach(p)
    PROVE  /\ IsTree(doc') /\ (Owned(doc) => Owned(doc')) /\ (\E q \in DOMAIN doc' : doc'[q].modified)
           /\ KeepsPointingBack /\ KeepsComposing
<1> DEFINE t == DetachedClone(doc, p)
           root == [t[<<>>] EXCEPT !.modified = TRUE]
           sub == [t EXCEPT ![<<>>] = root]
<1>1. Plain(t, doc)
    BY ClonePlain
<1>2. doc' = Graft(doc, p, sub)
    BY DEF Detach
<1> HIDE DEF t
<1>3. <<>> \in DOMAIN t /\ IsNode(t[<<>>]) /\ p \in Seq(Nat)
    BY <1>1 DEF Plain, IsTree
<1>4. /\ IsNode(root) /\ root.kind = t[<<>>].kind /\ root.keys = t[<<>>].keys
      /\ root.anchor = t[<<>>].anchor /\ root.modified = TRUE
    BY <1>3, ChangedNode
<1> HIDE DEF root
<1>5. DOMAIN sub = DOMAIN t /\ sub[<<>>] = root /\ \A r \in DOMAIN t : r # <<>> => sub[r] = t[r]
    BY <1>1, <1>3 DEF Plain, IsTree
<1>6. IsTree(sub)
    BY <1>1, <1>3, <1>4, NodeTree DEF Plain
<1> HIDE DEF sub
<1>7. Attached(doc, p)
    BY TreeIs DEF Attached
<1>8. IsTree(doc')
    BY <1>2, <1>3, <1>6, <1>7, GraftTree
<1>9. NoNewNames(doc, p, sub)
    BY <1>1, <1>3, <1>4, <1>5 DEF NoNewNames, Plain
<1>10. DistinctKeys(doc) => DistinctKeys(sub)
    BY <1>1, <1>3, <1>4, <1>5 DEF DistinctKeys, Plain
<1>11. Owned(doc) => Owned(doc')
    BY <1>2, <1>3, <1>6, <1>9, <1>10, GraftOwned DEF Owned
<1>12. p \in DOMAIN doc' /\ doc'[p] = root
  <2>1. DOMAIN sub \subseteq Seq(Nat) /\ <<>> \in DOMAIN sub
      BY <1>6 DEF IsTree
  <2>2. p \in DOMAIN Graft(doc, p, sub) /\ Graft(doc, p, sub)[p] = sub[<<>>]
      BY <1>3, <2>1, GraftRoot
  <2> QED BY <1>2, <1>5, <2>2
<1>13. NoAliases(sub)
    BY <1>1, <1>3, <1>4, <1>5 DEF Plain, NoAliases
<1>14. KeepsPointingBack
    BY <1>2, <1>3, <1>6, <1>8, <1>9, <1>13, BareFollows DEF KeepsPointingBack, Owned
<1>15. KeepsComposing
  <2> SUFFICES ASSUME Composes(doc) PROVE Composes(doc')
      BY DEF KeepsComposing
  <2>1. p \in Aliases(doc)
      BY DEF Detach
  <2>2. ASSUME NEW q \in DOMAIN doc, IsPrefix(p, q) PROVE doc[q].anchor = NoName
    <3>1. q = p
        BY <1>3, <2>1, <2>2, AtOrBelow DEF Aliases
    <3> QED BY <2>1, <3>1 DEF Composes
  <2> QED BY <1>2, <1>3, <1>6, <1>13, <2>2, GraftComposes DEF NamelessFrom
<1> QED BY <1>4, <1>8, <1>11, <1>12, <1>14, <1>15
-----------------------------------------------------------------------------
\* Names that are each defined once at most have one owner, and the other way round.
LEMMA OwnersOfNames ==
    ASSUME NEW d, IsTree(d)
    PROVE  DistinctAnchors(d) <=> OneOwner(d)
<1>1. \A name : IsFiniteSet(Definitions(d, name))
    BY FS_Subset DEF Definitions, IsTree
<1>2. ASSUME DistinctAnchors(d) PROVE OneOwner(d)
  <2> SUFFICES ASSUME NEW p \in DOMAIN d, NEW q \in DOMAIN d,
                      d[p].anchor = d[q].anchor, d[p].anchor # NoName, p # q
               PROVE  FALSE
      BY DEF OneOwner
  <2> DEFINE S == Definitions(d, d[p].anchor)
  <2>1. d[p].anchor \in Names
      BY TreeIs DEF IsNode
  <2>2. IsFiniteSet(S) /\ Cardinality(S) <= 1 /\ p \in S /\ q \in S
      BY <1>1, <1>2, <2>1 DEF DistinctAnchors, Definitions
  <2> HIDE DEF S
  <2>3. Cardinality(S) \in Nat /\ Cardinality(S) # 0
      BY <2>2, FS_CardinalityType, FS_EmptySet
  <2>4. Cardinality(S) = 1
      BY <2>2, <2>3
  <2>5. \E x : S = {x}
      BY <2>2, <2>4, FS_Singleton
  <2> QED BY <2>2, <2>5
<1>3. ASSUME OneOwner(d), NEW name \in Names PROVE Cardinality(Definitions(d, name)) <= 1
  <2> DEFINE S == Definitions(d, name)
  <2>1. name # NoName
      BY DocumentAssumption
  <2>2. \A p, q \in S : p = q
      BY <1>3, <2>1 DEF OneOwner, Definitions
  <2> HIDE DEF S
  <2>3. CASE S = {}
      BY <2>3, FS_EmptySet DEF S
  <2>4. CASE S # {}
    <3>1. PICK p \in S : S = {p}
        BY <2>2, <2>4
    <3>2. Cardinality({p}) = 1
        BY FS_Singleton, Zenon
    <3> QED BY <3>1, <3>2 DEF S
  <2> QED BY <2>3, <2>4
<1> QED BY <1>2, <1>3 DEF DistinctAnchors

\* Every document of every run is a tree; one that was read with each name defined
\* once still defines it once; one with no mark is the one that was read.
THEOREM DocumentInvariant == Spec => []IInv
<1>1. Init => IInv
  <2> SUFFICES ASSUME Init PROVE IInv
      OBVIOUS
  <2>1. IsTree(doc) /\ loaded = doc /\ loaded \in Docs /\ edits = 0 /\ MaxEdits \in Nat
      BY DocumentAssumption DEF Init
  <2>2. TypeOK
      BY <2>1 DEF TypeOK
  <2>3. DistinctKeys(loaded) /\ DistinctAnchors(loaded) => Owned(doc)
      BY <2>1, OwnersOfNames DEF Owned
  <2> QED BY <2>1, <2>2, <2>3 DEF IInv
<1>2. IInv /\ [Next]_vars => IInv'
  <2> SUFFICES ASSUME IInv, [Next]_vars PROVE IInv'
      OBVIOUS
  <2>1. IsTree(doc) /\ loaded \in Docs /\ edits \in 0 .. MaxEdits /\ MaxEdits \in Nat
      BY DocumentAssumption DEF IInv, TypeOK
  <2>2. ASSUME Edit, IsTree(doc'), Owned(doc) => Owned(doc'), \E q \in DOMAIN doc' : doc'[q].modified
        PROVE  IInv'
    <3>1. loaded' = loaded /\ edits' \in 0 .. MaxEdits
        BY <2>1, <2>2 DEF Edit
    <3>2. TypeOK'
        BY <2>1, <2>2, <3>1 DEF TypeOK
    <3>3. (DistinctKeys(loaded) /\ DistinctAnchors(loaded) => Owned(doc))'
        BY <2>2, <3>1 DEF IInv
    <3> QED BY <2>2, <3>2, <3>3 DEF IInv
  <2>3. ASSUME NEW p \in DOMAIN doc, NEW tree \in Assigned, Replace(p, tree) PROVE IInv'
      BY <2>1, <2>2, <2>3, ReplaceStep DEF Replace
  <2>4. ASSUME NEW p \in DOMAIN doc, NEW tree \in Assigned, NEW key \in Keys, AddEntry(p, key, tree) PROVE IInv'
      BY <2>1, <2>2, <2>4, AddEntryStep DEF AddEntry
  <2>5. ASSUME NEW p \in DOMAIN doc, Delete(p) PROVE IInv'
      BY <2>1, <2>2, <2>5, DeleteStep DEF Delete
  <2>6. ASSUME NEW p \in DOMAIN doc, NEW name \in Names \union {NoName}, SetAnchor(p, name) PROVE IInv'
      BY <2>1, <2>2, <2>6, SetAnchorStep DEF SetAnchor
  <2>7. ASSUME NEW p \in DOMAIN doc, NEW name \in Names, MakeAlias(p, name) PROVE IInv'
      BY <2>1, <2>2, <2>7, MakeAliasStep DEF MakeAlias
  <2>8. ASSUME NEW p \in DOMAIN doc, Detach(p) PROVE IInv'
      BY <2>1, <2>2, <2>8, DetachStep DEF Detach
  <2>9. CASE UNCHANGED vars
    <3>1. doc' = doc /\ loaded' = loaded /\ edits' = edits
        BY <2>9 DEF vars
    <3>2. TypeOK'
        BY <3>1 DEF IInv, TypeOK
    <3>3. (DistinctKeys(loaded) /\ DistinctAnchors(loaded) => Owned(doc))'
        BY <3>1 DEF IInv
    <3>4. (doc = loaded \/ \E p \in DOMAIN doc : doc[p].modified)'
        BY <3>1 DEF IInv
    <3> QED BY <3>2, <3>3, <3>4 DEF IInv
  <2> QED BY <2>3, <2>4, <2>5, <2>6, <2>7, <2>8, <2>9 DEF Next
<1> QED BY <1>1, <1>2, PTL DEF Spec

\* An edit leaves a tree: each node but the root is an entry or an item of one
\* that is there, whatever was put in, taken out, closed up or copied before.
THEOREM DocumentTypeOK == Spec => []TypeOK
<1>1. IInv => TypeOK
    BY DEF IInv
<1> QED BY <1>1, DocumentInvariant, PTL

\* The source text is written only for the document it is the text of.
THEOREM DocumentUnmarkedIsUnchanged == Spec => []UnmarkedIsUnchanged
<1>1. IInv => UnmarkedIsUnchanged
    BY DEF IInv, UnmarkedIsUnchanged
<1> QED BY <1>1, DocumentInvariant, PTL

\* No series of edits gives two nodes one name.
THEOREM DocumentAnchorsStayUnique == Spec => []AnchorsStayUnique
<1>1. IInv => AnchorsStayUnique
    BY OwnersOfNames DEF IInv, TypeOK, Owned, AnchorsStayUnique
<1> QED BY <1>1, DocumentInvariant, PTL

\* Aliases go on pointing back, at a node before them that they are not in: whatever
\* is put in, taken out, renamed or made an alias.
THEOREM DocumentAliasesKeepPointingBack == Spec => AliasesKeepPointingBack
<1>1. IInv /\ [Next]_vars =>
        [DistinctKeys(doc) /\ DistinctAnchors(doc) /\ Dangling(doc) = {} /\ AliasesPointBack(doc)
            => AliasesPointBack(doc')]_vars
  <2> SUFFICES ASSUME IInv, Next, Owned(doc), Dangling(doc) = {}, AliasesPointBack(doc)
               PROVE  AliasesPointBack(doc')
      BY OwnersOfNames DEF IInv, TypeOK, Owned
  <2>1. IsTree(doc)
      BY DEF IInv, TypeOK
  <2>2. ASSUME NEW p \in DOMAIN doc, NEW tree \in Assigned, Replace(p, tree) PROVE KeepsPointingBack
      BY <2>1, <2>2, ReplaceStep
  <2>3. ASSUME NEW p \in DOMAIN doc, NEW tree \in Assigned, NEW key \in Keys, AddEntry(p, key, tree)
        PROVE  KeepsPointingBack
      BY <2>1, <2>3, AddEntryStep
  <2>4. ASSUME NEW p \in DOMAIN doc, Delete(p) PROVE KeepsPointingBack
      BY <2>1, <2>4, DeleteStep
  <2>5. ASSUME NEW p \in DOMAIN doc, NEW name \in Names \union {NoName}, SetAnchor(p, name)
        PROVE  KeepsPointingBack
      BY <2>1, <2>5, SetAnchorStep
  <2>6. ASSUME NEW p \in DOMAIN doc, NEW name \in Names, MakeAlias(p, name) PROVE KeepsPointingBack
      BY <2>1, <2>6, MakeAliasStep
  <2>7. ASSUME NEW p \in DOMAIN doc, Detach(p) PROVE KeepsPointingBack
      BY <2>1, <2>7, DetachStep
  <2>8. KeepsPointingBack
      BY <2>2, <2>3, <2>4, <2>5, <2>6, <2>7 DEF Next
  <2> QED BY <2>8 DEF KeepsPointingBack
<1> QED BY <1>1, DocumentInvariant, PTL DEF Spec, AliasesKeepPointingBack

\* What can be read again can be read again after a delete, a new entry or a detach.
THEOREM DocumentDeletesKeepComposing == Spec => DeletesKeepComposing
<1>1. IInv /\ [Next]_vars =>
        [DistinctAnchors(doc) /\ Composes(doc)
         /\ (\E p \in DOMAIN doc :
              Delete(p) \/ Detach(p) \/ \E tree \in Assigned, key \in Keys : AddEntry(p, key, tree))
          => Composes(doc')]_vars
  <2> SUFFICES ASSUME IInv, OneOwner(doc), Composes(doc), NEW p \in DOMAIN doc,
                      Delete(p) \/ Detach(p) \/ \E tree \in Assigned, key \in Keys : AddEntry(p, key, tree)
               PROVE  Composes(doc')
      BY OwnersOfNames DEF IInv, TypeOK
  <2>1. IsTree(doc)
      BY DEF IInv, TypeOK
  <2>2. CASE Delete(p)
      BY <2>1, <2>2, DeleteStep DEF KeepsComposing
  <2>3. CASE Detach(p)
      BY <2>1, <2>3, DetachStep DEF KeepsComposing
  <2>4. ASSUME NEW tree \in Assigned, NEW key \in Keys, AddEntry(p, key, tree) PROVE Composes(doc')
      BY <2>1, <2>4, AddEntryStep DEF KeepsComposing
  <2> QED BY <2>2, <2>3, <2>4
<1> QED BY <1>1, DocumentInvariant, PTL DEF Spec, DeletesKeepComposing
=============================================================================

--------------------------- MODULE WriteBackProofs ----------------------------
(***************************************************************************)
(* Proofs about the write-back of split configurations, for any number of    *)
(* files, any configuration in which no file is nothing but a directive, and *)
(* any number of edits, saves and writes of others: a save writes the files  *)
(* that were edited, and no other.                                           *)
(***************************************************************************)
EXTENDS WriteBack, SequenceLemmas

\* No document is nothing but a directive.  Where one is, a save overwrites it with
\* what it stands for (the run chained_include_overwritten shows how).
IsPlain(text) == IsText(text) /\ \A i \in DOMAIN text : text[i][<<>>].kind \in {"map", "value"}
PlainFiles == \A d \in Disks : \A f \in Files : IsPlain(d[f])

\* A node: what waits to be resolved replaces nothing yet, and what replaced an
\* include is written in the file it names.
IsNode(n) ==
    /\ n = [cell |-> n.cell, source |-> n.source, cached |-> n.cached, home |-> n.home,
            modified |-> n.modified]
    /\ n.cell \in {Mapping} \union {Value(v) : v \in Values} \union {Include(f) : f \in Files}
                  \union {IncludeDir(e) : e \in Dirs} \union {Member(f) : f \in Files}
    /\ n.source \in {NoSource} \union {Include(f) : f \in Files} \union {IncludeDir(e) : e \in Dirs}
    /\ n.home \in Files /\ n.modified \in BOOLEAN
    /\ n.cell.kind \in {"include", "dir", "member"} => n.source = NoSource
    /\ n.source.kind = "include" => n.home = n.source.target /\ IsPlain(n.cached)

\* A node and the mapping it is an entry of: unless that is the listing of a
\* directory, or the node replaced a directive, both are written in the same file.
Below(n, up) ==
    /\ up.cell = Mapping
    /\ up.source.kind # "dir" => /\ n.cell.kind # "member"
                                 /\ n.source = NoSource => n.home = up.home

IsTree(t) ==
    /\ t = [p \in DOMAIN t |-> t[p]] /\ DOMAIN t \subseteq Seq(Steps) /\ <<>> \in DOMAIN t
    /\ \A p \in DOMAIN t : IsNode(t[p])
    /\ \A p \in DOMAIN t \ {<<>>} : Front(p) \in DOMAIN t /\ Below(t[p], t[Front(p)])

\* A document of the root file, in which only nodes of the files E were edited.
IsLoaded(t, E) ==
    /\ IsTree(t)
    /\ t[<<>>].source = NoSource /\ t[<<>>].home = Root /\ t[<<>>].cell.kind \in {"map", "value"}
    /\ \A p \in DOMAIN t : t[p].modified => t[p].home \in E

\* One in which no directive waits to be resolved.
IsOpen(t, E) == IsLoaded(t, E) /\ Pending(t) = {}

\* What a save may write.
Savable == edited \union IF mode = "saveas" THEN {Root} ELSE {}

ScalarInv ==
    /\ phase \in {"closed", "loading", "open", "writing"}
    /\ mode \in {"none", "save", "saveas", "dump"}
    /\ settled \in BOOLEAN /\ disturbed \in BOOLEAN
    /\ edits \in 0 .. MaxEdits /\ saves \in 0 .. MaxSaves /\ others \in 0 .. MaxOthers
DiskInv == disk = [f \in Files |-> disk[f]] /\ \A f \in Files : IsPlain(disk[f])
DocsInv ==
    /\ docs \in Seq(ToSet(docs)) /\ (phase # "closed" => Len(docs) > 0)
    /\ \A i \in DOMAIN docs : IsLoaded(docs[i], edited)
    /\ phase \in {"open", "writing"} => \A i \in DOMAIN docs : Pending(docs[i]) = {}
    /\ source = <<>> \/ IsPlain(source)
    /\ edited \subseteq Files
TodoInv ==
    /\ phase # "writing" => todo = {}
    /\ \A w \in todo : /\ w.file \in Files /\ IsPlain(w.text)
                       /\ mode \in {"save", "saveas"} => w.file \in Savable

IInv == ScalarInv /\ DiskInv /\ DocsInv /\ TodoInv
-----------------------------------------------------------------------------
\* Files and directories.
LEMMA Targets ==
    /\ \A f : Include(f).kind = "include" /\ Include(f).target = f
    /\ \A e : IncludeDir(e).kind = "dir" /\ IncludeDir(e).target = e
    /\ \A f : Member(f).kind = "member" /\ Member(f).target = f
    /\ \A v : Value(v).kind = "value" /\ Mapping.kind = "map" /\ NoSource.kind = "none"
BY DEF Include, IncludeDir, Member, Value, Mapping, NoSource

\* A mapping is no directive and no value.
LEMMA Kinds ==
    /\ \A f : Mapping # Include(f) /\ NoSource # Include(f) /\ Mapping # Member(f)
    /\ \A e : Mapping # IncludeDir(e) /\ NoSource # IncludeDir(e)
    /\ \A v : Mapping # Value(v)
<1>1. /\ \A f : Include(f).kind = "include" /\ Member(f).kind = "member"
      /\ \A e : IncludeDir(e).kind = "dir" /\ \A v : Value(v).kind = "value"
      /\ Mapping.kind = "map" /\ NoSource.kind = "none"
    BY Targets
<1> QED BY <1>1, ZenonT(30)

\* What the fields of a node tell of it.
LEMMA NodeIs ==
    ASSUME NEW n, IsNode(n)
    PROVE  /\ n.cell.kind \in {"map", "value", "include", "dir", "member"}
           /\ n.cell.kind = "map" <=> n.cell = Mapping
           /\ n.cell.kind \in {"map", "value"} =>
                n.cell = Mapping \/ \E v \in Values : n.cell = Value(v)
           /\ n.cell.kind = "include" => n.cell.target \in Files /\ n.cell = Include(n.cell.target)
           /\ n.cell.kind = "dir" => n.cell.target \in Dirs /\ n.cell = IncludeDir(n.cell.target)
           /\ n.cell.kind = "member" => n.cell.target \in Files
           /\ n.source.kind \in {"none", "include", "dir"}
           /\ n.source.kind = "none" <=> n.source = NoSource
           /\ n.source.kind = "include" => n.source.target \in Files /\ n.source = Include(n.source.target)
           /\ n.source.kind = "dir" => n.source.target \in Dirs /\ n.source = IncludeDir(n.source.target)
<1>1. \/ n.cell = Mapping \/ \E v \in Values : n.cell = Value(v)
      \/ \E f \in Files : n.cell = Include(f) \/ n.cell = Member(f)
      \/ \E e \in Dirs : n.cell = IncludeDir(e)
    BY Zenon DEF IsNode
<1>2. \/ n.source = NoSource \/ \E f \in Files : n.source = Include(f)
      \/ \E e \in Dirs : n.source = IncludeDir(e)
    BY Zenon DEF IsNode
<1> QED BY <1>1, <1>2, Targets

\* The fields of a node that is made.
LEMMA Made ==
    /\ \A cell, file : LET n == Node(cell, file) IN
        /\ n = [cell |-> n.cell, source |-> n.source, cached |-> n.cached, home |-> n.home, modified |-> n.modified]
        /\ n.cell = cell /\ n.source = NoSource /\ n.home = file /\ n.modified = FALSE
    /\ \A o, src, cached : LET n == InPlace(o, src, cached) IN
        /\ n = [cell |-> n.cell, source |-> n.source, cached |-> n.cached, home |-> n.home, modified |-> n.modified]
        /\ n.cell = o.cell /\ n.source = src /\ n.cached = cached /\ n.home = o.home
        /\ n.modified = o.modified
BY DEF Node, InPlace

\* A mark is all that marking changes.
LEMMA MarkedIs ==
    ASSUME NEW n,
           n = [cell |-> n.cell, source |-> n.source, cached |-> n.cached, home |-> n.home, modified |-> n.modified]
    PROVE  LET m == Marked(n) IN
           /\ m = [cell |-> m.cell, source |-> m.source, cached |-> m.cached, home |-> m.home, modified |-> m.modified]
           /\ m.cell = n.cell /\ m.source = n.source /\ m.cached = n.cached /\ m.home = n.home
           /\ m.modified = TRUE
<1> DEFINE c == n.cell
           s == n.source
           k == n.cached
           h == n.home
           b == n.modified
           m == Marked(n)
<1>1. m = [[cell |-> c, source |-> s, cached |-> k, home |-> h, modified |-> b] EXCEPT !.modified = TRUE]
    BY DEF Marked
<1> HIDE DEF c, s, k, h, b, m
<1>2. m = [cell |-> c, source |-> s, cached |-> k, home |-> h, modified |-> TRUE]
    BY <1>1
<1>3. /\ m = [cell |-> m.cell, source |-> m.source, cached |-> m.cached, home |-> m.home, modified |-> m.modified]
      /\ m.cell = c /\ m.source = s /\ m.cached = k /\ m.home = h /\ m.modified = TRUE
    BY <1>2
<1> QED BY <1>3 DEF c, s, k, h, m

LEMMA MarkedNode ==
    ASSUME NEW n, IsNode(n)
    PROVE  LET m == Marked(n) IN
           /\ IsNode(m) /\ m.cell = n.cell /\ m.source = n.source /\ m.home = n.home /\ m.modified = TRUE
<1>1. n = [cell |-> n.cell, source |-> n.source, cached |-> n.cached, home |-> n.home, modified |-> n.modified]
    BY DEF IsNode
<1> QED BY <1>1, MarkedIs DEF IsNode
-----------------------------------------------------------------------------
\* A tree that takes the place of another: what is where.
Kept(t, p) == {q \in DOMAIN t : ~IsPrefix(p, q)}
Placed(p, sub) == {p \o r : r \in DOMAIN sub}

IsGraft(g, t, p, sub) ==
    /\ g = [q \in DOMAIN g |-> g[q]]
    /\ DOMAIN g = Kept(t, p) \union Placed(p, sub)
    /\ \A q \in Kept(t, p) : g[q] = t[q]
    /\ \A r \in DOMAIN sub : g[p \o r] = sub[r]

LEMMA GraftIs ==
    ASSUME NEW t, NEW sub, DOMAIN sub \subseteq Seq(Steps), NEW p \in Seq(Steps)
    PROVE  IsGraft(Graft(t, p, sub), t, p, sub)
<1> SUFFICES ASSUME NEW g, g = Graft(t, p, sub) PROVE IsGraft(g, t, p, sub)
    OBVIOUS
<1> DEFINE D == Kept(t, p) \union Placed(p, sub)
<1>1. g = [q \in D |-> IF IsPrefix(p, q) THEN sub[SubSeq(q, Len(p) + 1, Len(q))] ELSE t[q]]
    BY DEF Graft, Prune, Under, Restrict, Kept, Placed
<1>2. ASSUME NEW r \in DOMAIN sub PROVE g[p \o r] = sub[r]
  <2>1. IsPrefix(p, p \o r) /\ SubSeq(p \o r, Len(p) + 1, Len(p \o r)) = r
      BY PrefixConcat
  <2>2. p \o r \in D
      BY DEF Placed
  <2> QED BY <1>1, <2>1, <2>2
<1>3. \A q \in Kept(t, p) : g[q] = t[q]
    BY <1>1 DEF Kept
<1>4. g = [q \in DOMAIN g |-> g[q]] /\ DOMAIN g = D
    BY <1>1
<1> QED BY <1>2, <1>3, <1>4 DEF IsGraft

\* What a tree loses below a place.
LEMMA PruneIs ==
    ASSUME NEW t, NEW p
    PROVE  \A g : g = Prune(t, p) =>
           g = [q \in DOMAIN g |-> g[q]] /\ DOMAIN g = Kept(t, p) /\ \A q \in Kept(t, p) : g[q] = t[q]
BY DEF Prune, Under, Restrict, Kept

\* A prefix of a place above is one of the place, and no place is above itself.
LEMMA PrefixAbove ==
    ASSUME NEW p \in Seq(Steps), NEW q \in Seq(Steps), q # <<>>
    PROVE  /\ Front(q) \in Seq(Steps) /\ Len(Front(q)) = Len(q) - 1
           /\ IsPrefix(p, Front(q)) => IsPrefix(p, q)
           /\ ~IsPrefix(q, Front(q))
           /\ p # <<>> => ~IsPrefix(p, <<>>)
<1>1. Front(q) \in Seq(Steps) /\ Len(Front(q)) = Len(q) - 1 /\ Len(q) \in Nat
    BY FrontLast
<1>2. ~IsPrefix(q, Front(q))
    BY <1>1 DEF IsPrefix
<1>3. IsPrefix(p, Front(q)) => IsPrefix(p, q)
    BY PrefixFront
<1>4. p # <<>> => ~IsPrefix(p, <<>>)
    BY DEF IsPrefix
<1> QED BY <1>1, <1>2, <1>3, <1>4

LEMMA EmptyConcat == ASSUME NEW p \in Seq(Steps) PROVE p \o <<>> = p /\ <<>> \in Seq(Steps)
OBVIOUS

\* Grafted where its root may stand, a tree makes a tree.
LEMMA GraftTree ==
    ASSUME NEW t, NEW sub, IsTree(t), IsTree(sub), NEW p \in Seq(Steps), p # <<>>,
           Front(p) \in DOMAIN t, Below(sub[<<>>], t[Front(p)])
    PROVE  IsTree(Graft(t, p, sub)) /\ <<>> \in Kept(t, p)
<1> SUFFICES ASSUME NEW g, g = Graft(t, p, sub) PROVE IsTree(g) /\ <<>> \in Kept(t, p)
    OBVIOUS
<1>0. /\ DOMAIN sub \subseteq Seq(Steps) /\ DOMAIN t \subseteq Seq(Steps)
      /\ <<>> \in DOMAIN t /\ <<>> \in DOMAIN sub
      /\ \A q \in DOMAIN t : IsNode(t[q])
      /\ \A q \in DOMAIN sub : IsNode(sub[q])
      /\ \A q \in DOMAIN t \ {<<>>} : Front(q) \in DOMAIN t /\ Below(t[q], t[Front(q)])
      /\ \A q \in DOMAIN sub \ {<<>>} : Front(q) \in DOMAIN sub /\ Below(sub[q], sub[Front(q)])
    BY DEF IsTree
<1>1. /\ g = [q \in DOMAIN g |-> g[q]]
      /\ DOMAIN g = Kept(t, p) \union Placed(p, sub)
      /\ \A q \in Kept(t, p) : g[q] = t[q]
      /\ \A r \in DOMAIN sub : g[p \o r] = sub[r]
  <2>1. DOMAIN sub \subseteq Seq(Steps)
      BY <1>0
  <2>2. IsGraft(g, t, p, sub)
      BY <2>1, GraftIs
  <2> QED BY <2>2 DEF IsGraft
<1>2. <<>> \in Kept(t, p)
    BY <1>0, PrefixAbove DEF Kept
<1>3. DOMAIN g \subseteq Seq(Steps)
  <2>1. \A r \in DOMAIN sub : p \o r \in Seq(Steps)
      BY <1>0, PrefixConcat
  <2> QED BY <1>0, <1>1, <2>1 DEF Kept, Placed
<1>4. \A q \in DOMAIN g : IsNode(g[q])
    BY <1>0, <1>1, ZenonT(60) DEF Kept, Placed
<1>5. ASSUME NEW q \in DOMAIN g \ {<<>>} PROVE Front(q) \in DOMAIN g /\ Below(g[q], g[Front(q)])
  <2>1. CASE q \in Kept(t, p)
    <3>1. q \in DOMAIN t \ {<<>>} /\ q \in Seq(Steps)
        BY <1>0, <1>5, <2>1 DEF Kept
    <3>2. Front(q) \in Kept(t, p)
        BY <1>0, <2>1, <3>1, PrefixAbove DEF Kept
    <3> QED BY <1>0, <1>1, <2>1, <3>1, <3>2
  <2>2. CASE q = p
    <3>1. Front(p) \in Kept(t, p)
        BY <1>0, PrefixAbove DEF Kept
    <3>2. g[p] = sub[<<>>]
        BY <1>0, <1>1, EmptyConcat
    <3> QED BY <1>1, <2>2, <3>1, <3>2
  <2>3. ASSUME NEW r \in DOMAIN sub \ {<<>>}, q = p \o r
        PROVE  Front(q) \in DOMAIN g /\ Below(g[q], g[Front(q)])
    <3>1. Front(r) \in DOMAIN sub /\ Below(sub[r], sub[Front(r)])
        BY <1>0
    <3>2. Front(q) = p \o Front(r)
        BY <1>0, <2>3, ConcatFront
    <3> QED BY <1>1, <2>3, <3>1, <3>2 DEF Placed
  <2> QED BY <1>0, <1>1, <2>1, <2>2, <2>3, EmptyConcat DEF Placed
<1> QED BY <1>1, <1>2, <1>3, <1>4, <1>5 DEF IsTree

\* Without a node and what is below it, a tree is a tree.
LEMMA PruneTree ==
    ASSUME NEW t, IsTree(t), NEW p \in DOMAIN t, p # <<>>
    PROVE  IsTree(Prune(t, p)) /\ Front(p) \in Kept(t, p) /\ <<>> \in Kept(t, p)
<1> SUFFICES ASSUME NEW g, g = Prune(t, p)
             PROVE  IsTree(g) /\ Front(p) \in Kept(t, p) /\ <<>> \in Kept(t, p)
    OBVIOUS
<1>0. /\ DOMAIN t \subseteq Seq(Steps) /\ <<>> \in DOMAIN t
      /\ \A q \in DOMAIN t : IsNode(t[q])
      /\ \A q \in DOMAIN t \ {<<>>} : Front(q) \in DOMAIN t /\ Below(t[q], t[Front(q)])
    BY DEF IsTree
<1>1. g = [q \in DOMAIN g |-> g[q]] /\ DOMAIN g = Kept(t, p) /\ \A q \in Kept(t, p) : g[q] = t[q]
    BY PruneIs
<1>2. <<>> \in Kept(t, p) /\ Front(p) \in Kept(t, p)
  <2>1. p \in Seq(Steps)
      BY <1>0
  <2> QED BY <1>0, <2>1, PrefixAbove DEF Kept
<1>3. ASSUME NEW q \in DOMAIN g \ {<<>>} PROVE Front(q) \in DOMAIN g /\ Below(g[q], g[Front(q)])
  <2>1. q \in DOMAIN t \ {<<>>} /\ q \in Seq(Steps) /\ p \in Seq(Steps) /\ ~IsPrefix(p, q)
      BY <1>0, <1>1 DEF Kept
  <2>2. Front(q) \in Kept(t, p)
      BY <1>0, <2>1, PrefixAbove DEF Kept
  <2> QED BY <1>0, <1>1, <2>1, <2>2
<1>4. DOMAIN g \subseteq Seq(Steps) /\ \A q \in DOMAIN g : IsNode(g[q])
    BY <1>0, <1>1 DEF Kept
<1> QED BY <1>1, <1>2, <1>3, <1>4 DEF IsTree
-----------------------------------------------------------------------------
\* A document as it is read: nothing in it replaced a directive, or was changed.
IsRead(t, d, file) ==
    /\ IsTree(t) /\ DOMAIN t = DOMAIN d
    /\ \A p \in DOMAIN d :
        t[p].cell = d[p] /\ t[p].source = NoSource /\ t[p].home = file /\ t[p].modified = FALSE

LEMMA ReadTree ==
    ASSUME NEW d, IsDocument(d), NEW file \in Files
    PROVE  IsRead(Tree(d, file), d, file)
<1> SUFFICES ASSUME NEW t, t = Tree(d, file) PROVE IsRead(t, d, file)
    OBVIOUS
<1>1. t = [p \in DOMAIN d |-> Node(d[p], file)]
    BY DEF Tree
<1>2. DOMAIN t = DOMAIN d /\ t = [p \in DOMAIN t |-> t[p]]
    BY <1>1
<1>3. ASSUME NEW p \in DOMAIN d
      PROVE  /\ t[p] = [cell |-> t[p].cell, source |-> t[p].source, cached |-> t[p].cached,
                        home |-> t[p].home, modified |-> t[p].modified]
             /\ t[p].cell = d[p] /\ t[p].source = NoSource /\ t[p].home = file /\ t[p].modified = FALSE
  <2>1. t[p] = Node(d[p], file)
      BY <1>1
  <2> QED BY <2>1, Made
<1>4. ASSUME NEW p \in DOMAIN d
      PROVE  IsNode(t[p]) /\ d[p].kind # "member"
  <2>1. d[p] \in {Mapping} \union {Value(v) : v \in Values}
               \union {Include(f) : f \in Files} \union {IncludeDir(e) : e \in Dirs}
      BY DEF IsDocument
  <2>2. d[p].kind # "member"
      BY <2>1, Targets
  <2> QED BY <1>3, <2>1, <2>2, Targets DEF IsNode
<1>5. ASSUME NEW p \in DOMAIN d \ {<<>>} PROVE Front(p) \in DOMAIN d /\ Below(t[p], t[Front(p)])
  <2>1. Front(p) \in DOMAIN d /\ d[Front(p)] = Mapping
      BY DEF IsDocument
  <2> QED BY <1>3, <1>4, <2>1 DEF Below
<1>6. IsTree(t)
    BY <1>2, <1>4, <1>5 DEF IsTree, IsDocument
<1> QED BY <1>2, <1>3, <1>6 DEF IsRead

\* A tree that takes the place of another, in a document.
LEMMA GraftLoaded ==
    ASSUME NEW t, NEW E, NEW sub, IsLoaded(t, E), IsTree(sub), NEW p \in Seq(Steps), p # <<>>,
           Front(p) \in DOMAIN t, Below(sub[<<>>], t[Front(p)]),
           \A r \in DOMAIN sub : sub[r].modified => sub[r].home \in E
    PROVE  IsLoaded(Graft(t, p, sub), E)
<1> SUFFICES ASSUME NEW g, g = Graft(t, p, sub) PROVE IsLoaded(g, E)
    OBVIOUS
<1>1. IsTree(g) /\ <<>> \in Kept(t, p)
    BY GraftTree DEF IsLoaded
<1>2. IsGraft(g, t, p, sub)
  <2>1. DOMAIN sub \subseteq Seq(Steps)
      BY DEF IsTree
  <2> QED BY <2>1, GraftIs
<1>3. ASSUME NEW q \in DOMAIN g, g[q].modified PROVE g[q].home \in E
  <2>1. CASE q \in Kept(t, p)
      BY <1>2, <1>3, <2>1 DEF IsGraft, IsLoaded, Kept
  <2>2. ASSUME NEW r \in DOMAIN sub, q = p \o r PROVE g[q].home \in E
      BY <1>2, <1>3, <2>2 DEF IsGraft
  <2> QED BY <1>2, <2>1, <2>2 DEF IsGraft, Placed
<1>4. g[<<>>] = t[<<>>]
    BY <1>1, <1>2 DEF IsGraft
<1> QED BY <1>1, <1>3, <1>4 DEF IsLoaded

\* Another node in the place of one, in a tree of which the rest fits it as well.
LEMMA NodeTree ==
    ASSUME NEW t, IsTree(t), NEW p \in DOMAIN t, NEW n, IsNode(n),
           p # <<>> => Below(n, t[Front(p)]),
           \A m : Below(m, t[p]) => Below(m, n)
    PROVE  IsTree([t EXCEPT ![p] = n])
<1> SUFFICES ASSUME NEW g, g = [t EXCEPT ![p] = n] PROVE IsTree(g)
    OBVIOUS
<1>0. /\ DOMAIN t \subseteq Seq(Steps) /\ <<>> \in DOMAIN t /\ t = [q \in DOMAIN t |-> t[q]]
      /\ \A q \in DOMAIN t : IsNode(t[q])
      /\ \A q \in DOMAIN t \ {<<>>} : Front(q) \in DOMAIN t /\ Below(t[q], t[Front(q)])
    BY DEF IsTree
<1>1. /\ DOMAIN g = DOMAIN t /\ g = [q \in DOMAIN g |-> g[q]] /\ g[p] = n
      /\ \A q \in DOMAIN t : q # p => g[q] = t[q]
    BY <1>0
<1>2. ASSUME NEW q \in DOMAIN t \ {<<>>} PROVE Below(g[q], g[Front(q)])
  <2>1. Front(q) \in DOMAIN t /\ Below(t[q], t[Front(q)]) /\ q \in Seq(Steps)
      BY <1>0
  <2>2. Front(q) # q
      BY <2>1, FrontLast
  <2>3. CASE q = p
      BY <1>1, <2>1, <2>2, <2>3
  <2>4. CASE q # p
    <3>1. g[q] = t[q]
        BY <1>1, <2>4
    <3>2. CASE Front(q) = p
        BY <1>1, <2>1, <3>1, <3>2
    <3>3. CASE Front(q) # p
        BY <1>1, <2>1, <3>1, <3>3
    <3> QED BY <3>2, <3>3
  <2> QED BY <2>3, <2>4
<1>3. \A q \in DOMAIN g : IsNode(g[q])
    BY <1>0, <1>1
<1> QED BY <1>0, <1>1, <1>2, <1>3 DEF IsTree
-----------------------------------------------------------------------------
\* Two sequences that begin with each other are one.
LEMMA PrefixBoth ==
    ASSUME NEW p \in Seq(Steps), NEW q \in Seq(Steps), IsPrefix(p, q), IsPrefix(q, p)
    PROVE  p = q
<1>1. Len(p) <= Len(q) /\ \A i \in 1 .. Len(p) : p[i] = q[i]
    BY PrefixIs
<1>2. Len(q) <= Len(p)
    BY PrefixIs
<1>3. Len(p) = Len(q)
    BY <1>1, <1>2
<1> QED BY <1>1, <1>3, SeqEqual

\* What is written with a node is written with the node above it.
LEMMA RegionStep ==
    ASSUME NEW t, IsTree(t), NEW b \in DOMAIN t, NEW q \in Region(t, b), q # b
    PROVE  /\ q \in DOMAIN t /\ q \in Seq(Steps) /\ q # <<>>
           /\ Front(q) \in Region(t, b) /\ Front(q) \in DOMAIN t
           /\ t[q].source = NoSource /\ Below(t[q], t[Front(q)])
<1>1. /\ q \in DOMAIN t /\ IsPrefix(b, q) /\ q \in Seq(Steps) /\ b \in Seq(Steps)
      /\ \A r \in Under(t, b) : r # b /\ IsPrefix(r, q) => t[r].source = NoSource
    BY DEF Region, Under, IsTree
<1>2. q # <<>>
    BY <1>1, PrefixAbove
<1>3. Front(q) \in DOMAIN t /\ Below(t[q], t[Front(q)])
    BY <1>1, <1>2 DEF IsTree
<1>4. IsPrefix(b, Front(q))
    BY <1>1, <1>2, PrefixFront
<1>5. t[q].source = NoSource
  <2>1. IsPrefix(q, q)
      BY <1>1, PrefixIs
  <2> QED BY <1>1, <2>1 DEF Under
<1>6. ASSUME NEW r \in Under(t, b), r # b, IsPrefix(r, Front(q)) PROVE t[r].source = NoSource
  <2>1. r \in Seq(Steps)
      BY DEF Under, IsTree
  <2>2. IsPrefix(r, q)
      BY <1>1, <1>2, <1>6, <2>1, PrefixAbove
  <2> QED BY <1>1, <1>6, <2>2
<1> QED BY <1>1, <1>2, <1>3, <1>4, <1>5, <1>6 DEF Region, Under

\* A place is written with itself.
LEMMA RegionRoot ==
    ASSUME NEW t, IsTree(t), NEW b \in DOMAIN t
    PROVE  b \in Region(t, b) /\ Region(t, b) \subseteq DOMAIN t
<1>1. DOMAIN t \subseteq Seq(Steps) /\ b \in Seq(Steps)
    BY DEF IsTree
<1>2. IsPrefix(b, b)
    BY <1>1, PrefixIs
<1>3. ASSUME NEW r \in Under(t, b), r # b, IsPrefix(r, b) PROVE FALSE
  <2>1. r \in Seq(Steps) /\ IsPrefix(b, r)
      BY <1>1 DEF Under
  <2> QED BY <1>1, <1>3, <2>1, PrefixBoth
<1> QED BY <1>2, <1>3 DEF Region, Under

\* The nodes written with an include, or with the root, are of its file.
LEMMA RegionHome ==
    ASSUME NEW t, IsTree(t), NEW b \in DOMAIN t, t[b].source.kind # "dir", NEW q \in Region(t, b)
    PROVE  t[q].home = t[b].home
<1> DEFINE T == {n \in Nat : \A r \in Region(t, b) : Len(r) = n => t[r].home = t[b].home}
<1>1. \A r \in Region(t, b) : Len(r) \in Nat /\ r \in Seq(Steps)
    BY RegionRoot DEF IsTree
<1>2. ASSUME NEW r \in Region(t, b), r # b
      PROVE  t[r].home = t[Front(r)].home /\ Len(Front(r)) = Len(r) - 1 /\ Front(r) \in Region(t, b)
             /\ Len(r) # 0
  <2>1. /\ r \in Seq(Steps) /\ r # <<>> /\ Front(r) \in Region(t, b) /\ Front(r) \in DOMAIN t
        /\ t[r].source = NoSource /\ Below(t[r], t[Front(r)])
      BY <1>2, RegionStep
  <2>2. t[Front(r)].source.kind # "dir"
    <3>1. CASE Front(r) = b
        BY <3>1
    <3>2. CASE Front(r) # b
      <4>1. t[Front(r)].source = NoSource
          BY <2>1, <3>2, RegionStep
      <4> QED BY <4>1, Targets
    <3> QED BY <3>1, <3>2
  <2>3. Len(Front(r)) = Len(r) - 1 /\ Len(r) # 0
    <3>1. Len(Front(r)) = Len(r) - 1
        BY <2>1, PrefixAbove
    <3>2. Len(r) # 0
        BY <2>1
    <3> QED BY <3>1, <3>2
  <2> QED BY <2>1, <2>2, <2>3 DEF Below
<1>3. 0 \in T
    BY <1>2
<1>4. ASSUME NEW n \in Nat, n \in T PROVE n + 1 \in T
  <2> SUFFICES ASSUME NEW r \in Region(t, b), Len(r) = n + 1 PROVE t[r].home = t[b].home
      OBVIOUS
  <2>1. CASE r = b
      BY <2>1
  <2>2. CASE r # b
    <3>1. Front(r) \in Region(t, b) /\ Len(Front(r)) = n /\ t[r].home = t[Front(r)].home
        BY <1>2, <2>2
    <3> QED BY <1>4, <3>1
  <2> QED BY <2>1, <2>2
<1> HIDE DEF T
<1>5. Len(q) \in T
    BY <1>1, <1>3, <1>4, NatSetInduction
<1> QED BY <1>5 DEF T
-----------------------------------------------------------------------------
\* What is written of a tree in which nothing waits is a document that can be read
\* again, and its root is no directive.
LEMMA TextDocument ==
    ASSUME NEW t, IsTree(t), Pending(t) = {}, NEW b \in DOMAIN t
    PROVE  IsDocument(Text(t, b)) /\ Text(t, b)[<<>>].kind \in {"map", "value"}
<1> DEFINE own == Region(t, b)
           next == {q \in Under(t, b) \ own : Front(q) \in own}
           D == {SubSeq(q, Len(b) + 1, Len(q)) : q \in own \union next}
<1> SUFFICES ASSUME NEW x, x = Text(t, b)
             PROVE  IsDocument(x) /\ x[<<>>].kind \in {"map", "value"}
    OBVIOUS
<1>1. x = [r \in D |-> IF b \o r \in own THEN t[b \o r].cell ELSE t[b \o r].source]
    BY DEF Text
<1>2. /\ DOMAIN t \subseteq Seq(Steps) /\ b \in Seq(Steps) /\ b \in own /\ own \subseteq DOMAIN t
      /\ \A q \in own : IsPrefix(b, q)
    BY RegionRoot DEF IsTree, Region, Under
<1>3. ASSUME NEW q \in next
      PROVE  /\ q \in DOMAIN t /\ q \in Seq(Steps) /\ IsPrefix(b, q) /\ q \notin own
             /\ q # b /\ q # <<>> /\ Front(q) \in own /\ t[q].source # NoSource
             /\ Below(t[q], t[Front(q)])
  <2>1. /\ q \in DOMAIN t /\ q \in Seq(Steps) /\ IsPrefix(b, q) /\ q \notin own
        /\ q # b /\ Front(q) \in own /\ q \in Under(t, b)
      BY <1>2 DEF Under
  <2>2. q # <<>>
      BY <1>2, <2>1, PrefixAbove
  <2>3. ASSUME t[q].source = NoSource, NEW r \in Under(t, b), r # b, IsPrefix(r, q)
        PROVE  t[r].source = NoSource
    <3>1. r \in Seq(Steps)
        BY <1>2 DEF Under
    <3>2. r = q \/ IsPrefix(r, Front(q))
        BY <2>1, <2>2, <2>3, <3>1, PrefixFront
    <3> QED BY <2>1, <2>3, <3>2 DEF Region
  <2>4. t[q].source # NoSource
      BY <2>1, <2>3 DEF Region
  <2>5. Below(t[q], t[Front(q)])
      BY <2>1, <2>2 DEF IsTree
  <2> QED BY <2>1, <2>2, <2>4, <2>5
<1> HIDE DEF own, next
<1>4. ASSUME NEW r \in D PROVE r \in Seq(Steps) /\ b \o r \in own \union next
  <2>1. PICK q \in own \union next : r = SubSeq(q, Len(b) + 1, Len(q))
      OBVIOUS
  <2>2. q \in Seq(Steps) /\ IsPrefix(b, q)
      BY <1>2, <1>3
  <2>3. r \in Seq(Steps) /\ q = b \o r
      BY <1>2, <2>1, <2>2, PrefixSplit
  <2> QED BY <2>1, <2>3
<1>5. ASSUME NEW r \in Seq(Steps), b \o r \in own \union next PROVE r \in D
  <2>1. SubSeq(b \o r, Len(b) + 1, Len(b \o r)) = r
      BY <1>2, PrefixConcat
  <2> QED BY <1>5, <2>1
<1> HIDE DEF D
<1>6. DOMAIN x = D /\ x = [r \in DOMAIN x |-> x[r]]
    BY <1>1
<1>7. b \o <<>> = b /\ <<>> \in Seq(Steps)
    BY <1>2, EmptyConcat
<1>8. <<>> \in D
    BY <1>2, <1>5, <1>7
<1>9. ASSUME NEW q \in own PROVE t[q].cell = Mapping \/ \E v \in Values : t[q].cell = Value(v)
  <2>1. IsNode(t[q]) /\ q \in DOMAIN t
      BY <1>2 DEF IsTree
  <2>2. t[q].cell.kind \notin {"include", "dir", "member"}
      BY <2>1 DEF Pending
  <2> QED BY <2>1, <2>2, NodeIs
<1>10. ASSUME NEW r \in D
       PROVE  x[r] \in {Mapping} \union {Value(v) : v \in Values}
                       \union {Include(f) : f \in Files} \union {IncludeDir(e) : e \in Dirs}
  <2>1. CASE b \o r \in own
    <3>1. x[r] = t[b \o r].cell
        BY <1>1, <2>1
    <3> QED BY <1>9, <2>1, <3>1
  <2>2. CASE b \o r \notin own
    <3>1. x[r] = t[b \o r].source /\ b \o r \in next
        BY <1>1, <1>4, <2>2
    <3>2. IsNode(t[b \o r]) /\ t[b \o r].source # NoSource
        BY <1>3, <3>1 DEF IsTree
    <3>3. \/ \E f \in Files : t[b \o r].source = Include(f)
          \/ \E e \in Dirs : t[b \o r].source = IncludeDir(e)
        BY <3>2, Zenon DEF IsNode
    <3> QED BY <3>1, <3>3
  <2> QED BY <2>1, <2>2
<1>11. ASSUME NEW r \in D \ {<<>>} PROVE Front(r) \in D /\ x[Front(r)] = Mapping
  <2> DEFINE q == b \o r
  <2>1. r \in Seq(Steps) /\ q \in own \union next
      BY <1>4
  <2>2. Front(q) = b \o Front(r) /\ Front(r) \in Seq(Steps)
    <3>1. Front(r) \in Seq(Steps)
        BY <2>1, FrontLast
    <3> QED BY <1>2, <2>1, <3>1, ConcatFront
  <2>3. q # b
    <3>1. CASE q = b
      <4>1. b \o r = b \o <<>>
          BY <1>7, <3>1
      <4>2. r = <<>>
          BY <1>2, <1>7, <2>1, <4>1, ConcatCancel
      <4> QED BY <4>2
    <3> QED BY <3>1
  <2> HIDE DEF q
  <2>4. Front(q) \in own /\ Below(t[q], t[Front(q)])
    <3>1. CASE q \in own
      <4>1. q \in Region(t, b)
          BY <3>1 DEF own
      <4>2. Front(q) \in Region(t, b) /\ Below(t[q], t[Front(q)])
          BY <2>3, <4>1, RegionStep
      <4> QED BY <4>2 DEF own
    <3>2. CASE q \in next
        BY <1>3, <3>2
    <3> QED BY <2>1, <3>1, <3>2 DEF q
  <2>5. b \o Front(r) \in own /\ t[b \o Front(r)].cell = Mapping
      BY <2>2, <2>4 DEF Below
  <2>6. Front(r) \in D
      BY <1>5, <2>2, <2>5
  <2> QED BY <1>1, <2>5, <2>6
<1>12. D \subseteq Seq(Steps)
    BY <1>4
<1>13. IsDocument(x)
    BY <1>6, <1>8, <1>10, <1>11, <1>12 DEF IsDocument
<1>14. x[<<>>].kind \in {"map", "value"}
  <2>1. x[<<>>] = t[b].cell
      BY <1>1, <1>2, <1>7, <1>8
  <2> QED BY <1>2, <1>9, <2>1, Targets
<1> QED BY <1>13, <1>14
-----------------------------------------------------------------------------
\* What a directive names, put in the place of its root: a tree that fits there.
IsPlaced(sub, src) ==
    /\ IsTree(sub) /\ \A r \in DOMAIN sub : ~sub[r].modified
    /\ sub[<<>>].cell.kind \in {"map", "value"} /\ sub[<<>>].source = src

LEMMA PlacedDocument ==
    ASSUME NEW d, IsDocument(d), d[<<>>].kind \in {"map", "value"}, NEW file \in Files,
           NEW src, src \in {NoSource, Include(file)}, NEW text, src # NoSource => IsPlain(text)
    PROVE  IsPlaced([Tree(d, file) EXCEPT ![<<>>] = InPlace(@, src, text)], src)
<1> DEFINE t == Tree(d, file)
<1>1. /\ IsTree(t) /\ DOMAIN t = DOMAIN d
      /\ \A p \in DOMAIN d : t[p].cell = d[p] /\ t[p].source = NoSource /\ t[p].home = file /\ t[p].modified = FALSE
  <2>1. IsRead(t, d, file)
      BY ReadTree
  <2> HIDE DEF t
  <2> QED BY <2>1 DEF IsRead
<1>2. <<>> \in DOMAIN d
    BY DEF IsDocument
<1> HIDE DEF t
<1> DEFINE n == InPlace(t[<<>>], src, text)
<1>3. /\ n = [cell |-> n.cell, source |-> n.source, cached |-> n.cached, home |-> n.home, modified |-> n.modified]
      /\ n.cell = d[<<>>] /\ n.source = src /\ n.cached = text /\ n.home = file /\ n.modified = FALSE
    BY <1>1, <1>2, Made
<1> HIDE DEF n
<1>4. IsNode(n)
  <2>1. IsNode(t[<<>>]) /\ t[<<>>].cell = d[<<>>]
      BY <1>1, <1>2 DEF IsTree
  <2>2. /\ n.source \in {NoSource} \union {Include(f) : f \in Files} \union {IncludeDir(e) : e \in Dirs}
        /\ n.source.kind = "include" => n.home = n.source.target /\ IsPlain(n.cached)
      BY <1>3, Targets
  <2> QED BY <1>3, <2>1, <2>2 DEF IsNode
<1>5. \A m : Below(m, t[<<>>]) => Below(m, n)
    BY <1>1, <1>2, <1>3, Targets DEF Below
<1> DEFINE sub == [t EXCEPT ![<<>>] = n]
<1>6. IsTree(sub)
    BY <1>1, <1>2, <1>4, <1>5, NodeTree
<1>7. DOMAIN sub = DOMAIN t /\ sub[<<>>] = n /\ \A q \in DOMAIN t : q # <<>> => sub[q] = t[q]
    BY <1>1, <1>2 DEF IsTree
<1> HIDE DEF sub
<1>8. \A r \in DOMAIN sub : ~sub[r].modified
  <2> TAKE r \in DOMAIN sub
  <2>1. CASE r = <<>>
      BY <1>3, <1>7, <2>1
  <2>2. CASE r # <<>>
      BY <1>1, <1>7, <2>2
  <2> QED BY <2>1, <2>2
<1>9. sub = [Tree(d, file) EXCEPT ![<<>>] = InPlace(@, src, text)]
    BY DEF sub, n, t
<1> QED BY <1>3, <1>6, <1>7, <1>8, <1>9 DEF IsPlaced

\* The listing of a directory, in the place of its directive.
LEMMA PlacedListing ==
    ASSUME NEW e \in Dirs, NEW file \in Files, NEW listing,
           listing = [q \in {<<>>} \union {<<f>> : f \in ToSet(Members[e])} |->
                         IF q = <<>> THEN Mapping ELSE Member(q[1])]
    PROVE  IsPlaced([Tree(listing, file) EXCEPT ![<<>>] = InPlace(@, IncludeDir(e), <<>>)], IncludeDir(e))
<1> DEFINE M == ToSet(Members[e])
           root == InPlace(Node(Mapping, file), IncludeDir(e), <<>>)
           entry(f) == Node(Member(f), file)
<1> SUFFICES ASSUME NEW sub, sub = [Tree(listing, file) EXCEPT ![<<>>] = InPlace(@, IncludeDir(e), <<>>)]
             PROVE  IsPlaced(sub, IncludeDir(e))
    OBVIOUS
<1>1. M \subseteq Files
  <2>1. Members[e] \in Seq(Files)
      BY ConfigTreeAssumption
  <2> QED BY <2>1 DEF ToSet
<1> HIDE DEF M
<1>2. \A f \in M : <<f>> # <<>> /\ <<f>>[1] = f /\ <<f>> \in Seq(Steps) /\ Front(<<f>>) = <<>>
  <2> TAKE f \in M
  <2>1. f \in Steps
      BY <1>1 DEF Steps
  <2>2. <<f>> # <<>> /\ <<f>>[1] = f /\ <<f>> \in Seq(Steps) /\ Len(<<f>>) = 1
      BY <2>1
  <2>3. Front(<<f>>) \in Seq(Steps) /\ Len(Front(<<f>>)) = 0
    <3> DEFINE q == <<f>>
    <3> HIDE DEF q
    <3>1. q \in Seq(Steps) /\ q # <<>> /\ Len(q) = 1
        BY <2>2 DEF q
    <3>2. Front(q) \in Seq(Steps) /\ Len(Front(q)) = Len(q) - 1
        BY <3>1, FrontLast
    <3> QED BY <3>1, <3>2 DEF q
  <2> QED BY <2>2, <2>3
<1>3. /\ DOMAIN listing = {<<>>} \union {<<f>> : f \in M} /\ listing[<<>>] = Mapping
      /\ \A f \in M : listing[<<f>>] = Member(f)
    BY <1>2 DEF M
<1>4. /\ DOMAIN sub = {<<>>} \union {<<f>> : f \in M} /\ sub = [p \in DOMAIN sub |-> sub[p]]
      /\ sub[<<>>] = root /\ \A f \in M : sub[<<f>>] = entry(f)
    BY <1>2, <1>3 DEF Tree
<1>5. /\ root = [cell |-> root.cell, source |-> root.source, cached |-> root.cached,
                 home |-> root.home, modified |-> root.modified]
      /\ root.cell = Mapping /\ root.source = IncludeDir(e) /\ root.home = file /\ root.modified = FALSE
  <2> DEFINE o == Node(Mapping, file)
  <2>1. o.cell = Mapping /\ o.home = file /\ o.modified = FALSE
      BY Made
  <2> HIDE DEF o
  <2>2. LET n == InPlace(o, IncludeDir(e), <<>>) IN
        /\ n = [cell |-> n.cell, source |-> n.source, cached |-> n.cached, home |-> n.home, modified |-> n.modified]
        /\ n.cell = o.cell /\ n.source = IncludeDir(e) /\ n.home = o.home /\ n.modified = o.modified
      BY Made
  <2> QED BY <2>1, <2>2 DEF o
<1>6. \A f \in M :
        /\ entry(f) = [cell |-> entry(f).cell, source |-> entry(f).source, cached |-> entry(f).cached,
                       home |-> entry(f).home, modified |-> entry(f).modified]
        /\ entry(f).cell = Member(f) /\ entry(f).source = NoSource /\ entry(f).home = file
        /\ entry(f).modified = FALSE
    BY Made
<1> HIDE DEF root, entry
<1>7. IsNode(root)
    BY <1>5, Targets DEF IsNode
<1>8. \A f \in M : IsNode(entry(f))
    BY <1>1, <1>6, Targets DEF IsNode
<1>9. \A f \in M : Below(entry(f), root)
    BY <1>5, Targets DEF Below
<1>10. DOMAIN sub \subseteq Seq(Steps) /\ <<>> \in DOMAIN sub
  <2>1. <<>> \in Seq(Steps)
      OBVIOUS
  <2>2. ASSUME NEW p \in DOMAIN sub PROVE p \in Seq(Steps)
    <3>1. CASE p = <<>>
        BY <2>1, <3>1
    <3>2. ASSUME NEW f \in M, p = <<f>> PROVE p \in Seq(Steps)
        BY <1>2, <3>2
    <3> QED BY <1>4, <3>1, <3>2
  <2> QED BY <1>4, <2>2
<1>11. \A p \in DOMAIN sub : IsNode(sub[p]) /\ ~sub[p].modified
    BY <1>4, <1>5, <1>6, <1>7, <1>8
<1>12. \A p \in DOMAIN sub \ {<<>>} : Front(p) \in DOMAIN sub /\ Below(sub[p], sub[Front(p)])
  <2> TAKE p \in DOMAIN sub \ {<<>>}
  <2>1. PICK f \in M : p = <<f>>
      BY <1>4
  <2>2. Front(p) = <<>> /\ sub[p] = entry(f) /\ sub[<<>>] = root
      BY <1>2, <1>4, <2>1
  <2> QED BY <1>9, <1>10, <2>2
<1>13. IsTree(sub)
    BY <1>4, <1>10, <1>11, <1>12 DEF IsTree
<1> QED BY <1>4, <1>5, <1>11, <1>13, Targets DEF IsPlaced

\* A directive resolved.
LEMMA ResolveLoaded ==
    ASSUME NEW t, NEW E, IsLoaded(t, E), NEW p \in Pending(t), NEW dk, \A f \in Files : IsPlain(dk[f])
    PROVE  IsLoaded(ResolveAt(t, p, dk), E)
<1> DEFINE node == t[p]
           cell == node.cell
<1>1. /\ IsTree(t) /\ p \in DOMAIN t /\ IsNode(node) /\ cell.kind \in {"include", "dir", "member"}
      /\ DOMAIN t \subseteq Seq(Steps) /\ t[<<>>].cell.kind \in {"map", "value"}
    BY DEF IsLoaded, IsTree, Pending
<1>2. p # <<>> /\ p \in Seq(Steps)
    BY <1>1
<1>3. Front(p) \in DOMAIN t /\ Below(node, t[Front(p)])
    BY <1>1, <1>2 DEF IsTree
<1>4. node.source = NoSource /\ node.home \in Files
    BY <1>1 DEF IsNode
<1>5. ASSUME NEW sub, NEW src, IsPlaced(sub, src),
             src = NoSource => node.cell.kind = "member",
             ResolveAt(t, p, dk) = Graft(t, p, sub)
      PROVE  IsLoaded(ResolveAt(t, p, dk), E)
  <2>1. Below(sub[<<>>], t[Front(p)])
    <3>1. sub[<<>>].cell.kind # "member"
        BY <1>5 DEF IsPlaced
    <3> QED BY <1>3, <1>5, <3>1 DEF Below, IsPlaced
  <2> QED BY <1>2, <1>3, <1>5, <2>1, GraftLoaded DEF IsPlaced
<1>6. ASSUME NEW file \in Files
      PROVE  IsDocument(dk[file][1]) /\ dk[file][1][<<>>].kind \in {"map", "value"}
  <2>1. IsPlain(dk[file])
      OBVIOUS
  <2>2. 1 \in DOMAIN dk[file]
      BY <2>1 DEF IsPlain, IsText
  <2> QED BY <2>1, <2>2 DEF IsPlain, IsText
<1>7. CASE cell.kind = "include"
  <2> DEFINE file == cell.target
             sub == [Tree(dk[file][1], file) EXCEPT ![<<>>] = InPlace(@, cell, dk[file])]
  <2>1. file \in Files /\ cell = Include(file) /\ cell # NoSource
      BY <1>1, <1>7, NodeIs, Kinds
  <2>2. ResolveAt(t, p, dk) = Graft(t, p, sub)
      BY <1>4, <1>7 DEF ResolveAt
  <2>3. IsPlaced(sub, cell)
    <3> HIDE DEF cell
    <3> QED BY <1>6, <2>1, PlacedDocument
  <2> HIDE DEF sub
  <2> QED BY <1>5, <2>1, <2>2, <2>3
<1>8. CASE cell.kind = "member"
  <2> DEFINE file == cell.target
             sub == [Tree(dk[file][1], file) EXCEPT ![<<>>] = InPlace(@, NoSource, <<>>)]
  <2>1. file \in Files
      BY <1>1, <1>8, NodeIs
  <2>2. ResolveAt(t, p, dk) = Graft(t, p, sub)
      BY <1>4, <1>8 DEF ResolveAt
  <2>3. IsPlaced(sub, NoSource)
    <3> HIDE DEF cell
    <3> QED BY <1>6, <2>1, PlacedDocument
  <2> HIDE DEF sub
  <2> QED BY <1>5, <1>8, <2>2, <2>3
<1>9. CASE cell.kind = "dir"
  <2> DEFINE e == cell.target
             home == node.home
             listing == [q \in {<<>>} \union {<<f>> : f \in ToSet(Members[e])} |->
                           IF q = <<>> THEN Mapping ELSE Member(q[1])]
             sub == [Tree(listing, home) EXCEPT ![<<>>] = InPlace(@, cell, <<>>)]
  <2>1. e \in Dirs /\ cell = IncludeDir(e) /\ cell # NoSource
      BY <1>1, <1>9, NodeIs, Kinds
  <2>2. ResolveAt(t, p, dk) = Graft(t, p, sub)
      BY <1>4, <1>9 DEF ResolveAt
  <2>3. IsPlaced(sub, cell)
    <3>1. home \in Files
        BY <1>4
    <3> HIDE DEF cell, home
    <3> QED BY <2>1, <3>1, PlacedListing
  <2> HIDE DEF sub
  <2> QED BY <1>5, <2>1, <2>2, <2>3
<1> QED BY <1>1, <1>7, <1>8, <1>9
-----------------------------------------------------------------------------
\* A longer path leads through the place it is longer than.
LEMMA AppendPath ==
    ASSUME NEW p \in Seq(Steps), NEW key \in Steps
    PROVE  Append(p, key) \in Seq(Steps) /\ Append(p, key) # <<>> /\ Front(Append(p, key)) = p
<1> DEFINE q == Append(p, key)
<1>1. q \in Seq(Steps) /\ q # <<>> /\ Len(q) = Len(p) + 1 /\ \A i \in 1 .. Len(p) : q[i] = p[i]
    BY AppendProperties
<1> HIDE DEF q
<1>2. Front(q) \in Seq(Steps) /\ Len(Front(q)) = Len(q) - 1 /\ \A i \in 1 .. Len(q) - 1 : Front(q)[i] = q[i]
    BY <1>1, FrontLast
<1> DEFINE f == Front(q)
<1> HIDE DEF f
<1>3. Len(p) \in Nat
    OBVIOUS
<1>4. f \in Seq(Steps) /\ Len(f) = Len(p) /\ \A i \in 1 .. Len(p) : f[i] = p[i]
    BY <1>1, <1>2, <1>3 DEF f
<1>5. f = p
    BY <1>4, SeqEqual
<1> QED BY <1>1, <1>5 DEF q, f

\* An edit that is counted for one more file.
LEMMA LoadedMore ==
    ASSUME NEW t, NEW E, IsLoaded(t, E), NEW F, E \subseteq F
    PROVE  IsLoaded(t, F)
BY DEF IsLoaded

\* A value that was assigned, as a tree.
IsValue(sub, file) ==
    /\ IsTree(sub) /\ DOMAIN sub = {<<>>}
    /\ sub[<<>>].source = NoSource /\ sub[<<>>].home = file /\ sub[<<>>].cell.kind = "value"

LEMMA ValueTree ==
    ASSUME NEW v \in Values, NEW file \in Files
    PROVE  IsValue(Single(Marked(Node(Value(v), file))), file)
<1> DEFINE o == Node(Value(v), file)
           n == Marked(o)
           sub == Single(n)
<1>1. /\ o = [cell |-> o.cell, source |-> o.source, cached |-> o.cached, home |-> o.home, modified |-> o.modified]
      /\ o.cell = Value(v) /\ o.source = NoSource /\ o.home = file /\ o.modified = FALSE
    BY Made
<1> HIDE DEF o
<1>2. IsNode(o)
    BY <1>1, Targets DEF IsNode
<1>3. IsNode(n) /\ n.cell = o.cell /\ n.source = o.source /\ n.home = o.home
    BY <1>2, MarkedNode
<1> HIDE DEF n
<1>4. DOMAIN sub = {<<>>} /\ sub[<<>>] = n /\ sub = [p \in DOMAIN sub |-> sub[p]]
    BY DEF Single
<1> HIDE DEF sub
<1>5. <<>> \in Seq(Steps)
    OBVIOUS
<1>6. IsTree(sub)
    BY <1>3, <1>4, <1>5 DEF IsTree
<1>7. IsValue(sub, file)
    BY <1>1, <1>3, <1>4, <1>6, Targets DEF IsValue
<1> QED BY <1>7 DEF sub, n, o

LEMMA ValueLoaded ==
    ASSUME NEW sub, IsValue(sub, Root), NEW E
    PROVE  IsOpen(sub, E \union {Root})
BY DEF IsValue, IsLoaded, Pending, IsOpen

\* A value assigned to an entry of a mapping: the mapping's file was edited.
LEMMA AssignLoaded ==
    ASSUME NEW t, NEW E, IsLoaded(t, E), Pending(t) = {}, NEW p \in DOMAIN t, t[p].cell = Mapping,
           NEW key \in Keys, NEW sub, IsValue(sub, t[p].home)
    PROVE  IsOpen(Graft(t, Append(p, key), sub), E \union {t[p].home})
<1> DEFINE q == Append(p, key)
           F == E \union {t[p].home}
<1> SUFFICES ASSUME NEW g, g = Graft(t, q, sub) PROVE IsOpen(g, F)
    OBVIOUS
<1>1. q \in Seq(Steps) /\ q # <<>> /\ Front(q) = p
  <2>1. p \in Seq(Steps) /\ key \in Steps
      BY DEF IsLoaded, IsTree, Steps
  <2> QED BY <2>1, AppendPath
<1> HIDE DEF q
<1>2. IsLoaded(t, F)
    BY LoadedMore
<1>3. Below(sub[<<>>], t[p])
    BY DEF IsValue, Below
<1>4. IsTree(sub) /\ \A r \in DOMAIN sub : sub[r].modified => sub[r].home \in F
    BY DEF IsValue
<1>5. IsLoaded(g, F)
  <2> HIDE DEF F
  <2> QED BY <1>1, <1>2, <1>3, <1>4, GraftLoaded
<1>6. IsGraft(g, t, q, sub)
  <2>1. DOMAIN sub \subseteq Seq(Steps)
      BY <1>4 DEF IsTree
  <2> QED BY <1>1, <2>1, GraftIs
<1>7. ASSUME NEW r \in DOMAIN g PROVE g[r].cell.kind \notin {"include", "dir", "member"}
  <2>1. CASE r \in Kept(t, q)
      BY <1>6, <2>1 DEF IsGraft, Pending, Kept
  <2>2. ASSUME NEW s \in DOMAIN sub, r = q \o s PROVE g[r].cell.kind \notin {"include", "dir", "member"}
      BY <1>6, <2>2 DEF IsGraft, IsValue
  <2> QED BY <1>6, <2>1, <2>2 DEF IsGraft, Placed
<1> QED BY <1>5, <1>7 DEF IsOpen, Pending

\* An entry deleted from a mapping: the mapping's file was edited.
LEMMA DeleteLoaded ==
    ASSUME NEW t, NEW E, IsLoaded(t, E), Pending(t) = {}, NEW q \in DOMAIN t, q # <<>>
    PROVE  IsOpen(Mark(Prune(t, q), Front(q)), E \union {t[Front(q)].home})
<1> DEFINE up == Front(q)
           F == E \union {t[up].home}
<1> SUFFICES ASSUME NEW h, h = Prune(t, q)
             PROVE  IsOpen([h EXCEPT ![up] = Marked(@)], F)
    BY DEF Mark
<1>1. IsTree(h) /\ up \in Kept(t, q) /\ <<>> \in Kept(t, q)
    BY PruneTree DEF IsLoaded
<1>2. DOMAIN h = Kept(t, q) /\ \A r \in Kept(t, q) : h[r] = t[r]
    BY PruneIs
<1> HIDE DEF up, F
<1> DEFINE n == Marked(h[up])
           g == [h EXCEPT ![up] = n]
<1>3. IsNode(h[up]) /\ h[up] = t[up] /\ up \in DOMAIN h
    BY <1>1, <1>2 DEF IsTree
<1>4. IsNode(n) /\ n.cell = h[up].cell /\ n.source = h[up].source /\ n.home = h[up].home
    BY <1>3, MarkedNode
<1> HIDE DEF n
<1>5. \A m : (Below(m, h[up]) => Below(m, n)) /\ (Below(h[up], m) => Below(n, m))
    BY <1>4 DEF Below
<1>6. IsTree(g)
  <2>1. up # <<>> => Below(h[up], h[Front(up)])
      BY <1>1, <1>3 DEF IsTree
  <2> QED BY <1>1, <1>3, <1>4, <1>5, <2>1, NodeTree
<1>7. DOMAIN g = DOMAIN h /\ g[up] = n /\ \A r \in DOMAIN h : r # up => g[r] = h[r]
    BY <1>1, <1>3 DEF IsTree
<1> HIDE DEF g
<1>8. \A r \in DOMAIN h : g[r].cell = t[r].cell /\ g[r].source = t[r].source /\ g[r].home = t[r].home
  <2> TAKE r \in DOMAIN h
  <2>1. h[r] = t[r]
      BY <1>2
  <2>2. CASE r = up
      BY <1>4, <1>7, <2>1, <2>2
  <2>3. CASE r # up
      BY <1>7, <2>1, <2>3
  <2> QED BY <2>2, <2>3
<1>9. \A r \in DOMAIN g : g[r].modified => g[r].home \in F
  <2> TAKE r \in DOMAIN g
  <2>1. r \in DOMAIN t /\ r \in DOMAIN h /\ g[r].home = t[r].home
      BY <1>2, <1>7, <1>8 DEF Kept
  <2>2. CASE r = up
      BY <2>1, <2>2 DEF F
  <2>3. CASE r # up
      BY <1>2, <1>7, <2>1, <2>3 DEF F, IsLoaded
  <2> QED BY <2>2, <2>3
<1>10. IsLoaded(g, F)
    BY <1>1, <1>2, <1>6, <1>7, <1>8, <1>9 DEF IsLoaded
<1>11. Pending(g) = {}
    BY <1>2, <1>7, <1>8 DEF Pending, Kept
<1>12. IsOpen(g, F)
    BY <1>10, <1>11 DEF IsOpen
<1> QED BY <1>12 DEF g, n
-----------------------------------------------------------------------------
\* Sequences of any elements.
LEMMA StreamIs ==
    ASSUME NEW n \in Nat, NEW s, s = [i \in 1 .. n |-> s[i]]
    PROVE  s \in Seq(ToSet(s)) /\ Len(s) = n /\ DOMAIN s = 1 .. n
<1>1. DOMAIN s = 1 .. n
    OBVIOUS
<1>2. ToSet(s) = {s[i] : i \in 1 .. n}
    BY <1>1, Zenon DEF ToSet
<1> DEFINE T == ToSet(s)
<1>3. \A i \in 1 .. n : s[i] \in T
    BY <1>2
<1> HIDE DEF T
<1>4. s \in [1 .. n -> T]
    BY <1>3
<1>5. s \in Seq(T) /\ Len(s) = n
    BY <1>4
<1> QED BY <1>1, <1>5 DEF T

\* One element more or less, or another one.
IsChange(g, s, i, x) ==
    /\ g \in Seq(ToSet(g)) /\ Len(g) = Len(s) /\ DOMAIN g = DOMAIN s
    /\ g[i] = x /\ \A j \in DOMAIN s : j # i => g[j] = s[j]

LEMMA StreamExcept ==
    ASSUME NEW s, s \in Seq(ToSet(s)), NEW i \in DOMAIN s, NEW x
    PROVE  IsChange([s EXCEPT ![i] = x], s, i, x)
<1> SUFFICES ASSUME NEW g, g = [s EXCEPT ![i] = x] PROVE IsChange(g, s, i, x)
    OBVIOUS
<1>1. DOMAIN s = 1 .. Len(s) /\ Len(s) \in Nat /\ s = [j \in 1 .. Len(s) |-> s[j]]
    OBVIOUS
<1>2. g = [j \in 1 .. Len(s) |-> g[j]] /\ g[i] = x /\ \A j \in DOMAIN s : j # i => g[j] = s[j]
    BY <1>1
<1>3. g \in Seq(ToSet(g)) /\ Len(g) = Len(s) /\ DOMAIN g = 1 .. Len(s)
    BY <1>1, <1>2, StreamIs
<1> QED BY <1>1, <1>2, <1>3 DEF IsChange

LEMMA StreamRemove ==
    ASSUME NEW s, s \in Seq(ToSet(s)), NEW i \in DOMAIN s, NEW g, g = RemoveAt(s, i)
    PROVE  g \in Seq(ToSet(g)) /\ Len(g) = Len(s) - 1 /\ \A j \in DOMAIN g : \E k \in DOMAIN s : g[j] = s[k]
<1> DEFINE n == Len(s)
           S == ToSet(s)
           a == SubSeq(s, 1, i - 1)
           b == SubSeq(s, i + 1, n)
<1>1. DOMAIN s = 1 .. n /\ n \in Nat /\ i \in 1 .. n /\ S = {s[k] : k \in 1 .. n}
  <2>1. DOMAIN s = 1 .. n /\ n \in Nat
      OBVIOUS
  <2> QED BY <2>1 DEF ToSet
<1> HIDE DEF S
<1>2. s \in Seq(S)
    BY DEF S
<1> HIDE DEF n
<1>3. a \in Seq(S) /\ Len(a) = i - 1
  <2>1. i - 1 \in 0 .. Len(s)
      BY <1>1 DEF n
  <2> QED BY <1>2, <2>1, Beginning
<1>4. b \in Seq(S) /\ Len(b) = n - i
  <2>1. i + 1 \in Int /\ n \in Int /\ \A j \in i + 1 .. n : s[j] \in S
      BY <1>1, <1>2 DEF n
  <2>2. b \in Seq(S) /\ Len(b) = IF i + 1 <= n THEN n - (i + 1) + 1 ELSE 0
      BY <1>2, <2>1, SubSeqProperties
  <2> QED BY <1>1, <2>2
<1>5. g = a \o b
    BY DEF RemoveAt, n
<1> HIDE DEF a, b
<1>6. a \o b \in Seq(S) /\ Len(a \o b) = Len(a) + Len(b)
    BY <1>3, <1>4, ConcatProperties
<1>7. g \in Seq(S) /\ Len(g) = n - 1
    BY <1>1, <1>3, <1>4, <1>5, <1>6
<1>8. Len(g) \in Nat /\ DOMAIN g = 1 .. Len(g) /\ g = [j \in 1 .. Len(g) |-> g[j]] /\ \A j \in DOMAIN g : g[j] \in S
    BY <1>7
<1>9. g \in Seq(ToSet(g))
    BY <1>8, StreamIs
<1>10. \A j \in DOMAIN g : \E k \in DOMAIN s : g[j] = s[k]
    BY <1>1, <1>8
<1> QED BY <1>7, <1>9, <1>10 DEF n

\* The text of one document.
LEMMA OneText ==
    ASSUME NEW d, IsDocument(d), d[<<>>].kind \in {"map", "value"}
    PROVE  IsPlain(<<d>>)
<1> DEFINE s == <<d>>
<1>1. s = [i \in 1 .. 1 |-> s[i]] /\ 1 \in Nat /\ \A i \in 1 .. 1 : s[i] = d
    OBVIOUS
<1> HIDE DEF s
<1>2. s \in Seq(ToSet(s)) /\ Len(s) = 1 /\ DOMAIN s = 1 .. 1
    BY <1>1, StreamIs
<1>3. IsPlain(s)
    BY <1>1, <1>2 DEF IsPlain, IsText
<1> QED BY <1>3 DEF s

\* A value of a file that another program changes.
LEMMA OtherText ==
    ASSUME NEW text, IsPlain(text), NEW key \in Keys, NEW v \in Values,
           <<key>> \in DOMAIN text[1], text[1][<<key>>].kind = "value"
    PROVE  IsPlain([text EXCEPT ![1] = [text[1] EXCEPT ![<<key>>] = Value(v)]])
<1> DEFINE d == text[1]
           q == <<key>>
           x == [d EXCEPT ![q] = Value(v)]
<1>1. 1 \in DOMAIN text /\ IsDocument(d) /\ d[<<>>].kind \in {"map", "value"}
    BY DEF IsPlain, IsText
<1>2. q # <<>>
    OBVIOUS
<1> HIDE DEF q, d
<1>3. q \in DOMAIN d /\ d[q] # Mapping /\ d = [p \in DOMAIN d |-> d[p]]
    BY <1>1, Targets DEF q, d, IsDocument
<1>4. /\ DOMAIN x = DOMAIN d /\ x = [p \in DOMAIN x |-> x[p]] /\ x[q] = Value(v)
      /\ \A p \in DOMAIN d : p # q => x[p] = d[p]
    BY <1>3
<1> HIDE DEF x
<1>5. \A p \in DOMAIN d \ {<<>>} : Front(p) \in DOMAIN d /\ d[Front(p)] = Mapping
    BY <1>1 DEF IsDocument
<1>6. \A p \in DOMAIN x \ {<<>>} : Front(p) \in DOMAIN x /\ x[Front(p)] = Mapping
  <2> TAKE p \in DOMAIN x \ {<<>>}
  <2>1. Front(p) \in DOMAIN d /\ d[Front(p)] = Mapping
      BY <1>4, <1>5
  <2>2. Front(p) # q
      BY <1>3, <2>1
  <2> QED BY <1>4, <2>1, <2>2
<1>7. ASSUME NEW p \in DOMAIN x
      PROVE  x[p] \in {Mapping} \union {Value(u) : u \in Values}
                      \union {Include(f) : f \in Files} \union {IncludeDir(e) : e \in Dirs}
  <2>1. CASE p = q
      BY <1>4, <2>1
  <2>2. CASE p # q
      BY <1>1, <1>4, <2>2 DEF IsDocument
  <2> QED BY <2>1, <2>2
<1>8. IsDocument(x)
    BY <1>1, <1>4, <1>6, <1>7 DEF IsDocument
<1>9. x[<<>>].kind \in {"map", "value"}
    BY <1>1, <1>2, <1>4 DEF IsDocument
<1> DEFINE g == [text EXCEPT ![1] = x]
<1> SUFFICES ASSUME NEW h, h = g PROVE IsPlain(h)
    BY DEF x, d, q
<1>10. text \in Seq(ToSet(text)) /\ Len(text) > 0
    BY DEF IsPlain, IsText
<1>11. /\ h \in Seq(ToSet(h)) /\ Len(h) = Len(text) /\ DOMAIN h = DOMAIN text
       /\ h[1] = x /\ \A j \in DOMAIN text : j # 1 => h[j] = text[j]
    BY <1>1, <1>10, StreamExcept DEF IsChange
<1>12. \A j \in DOMAIN h : IsDocument(h[j]) /\ h[j][<<>>].kind \in {"map", "value"}
    BY <1>8, <1>9, <1>11 DEF IsPlain, IsText
<1> QED BY <1>10, <1>11, <1>12 DEF IsPlain, IsText
-----------------------------------------------------------------------------
\* Every boundary is an include of a document, and what is written of it is a text.
LEMMA BoundaryIs ==
    ASSUME DocsInv, NEW b \in AllBoundaries
    PROVE  /\ b.doc \in DOMAIN docs /\ b.at \in DOMAIN docs[b.doc]
           /\ IsNode(docs[b.doc][b.at])
           /\ docs[b.doc][b.at].source.kind = "include" /\ Target(b) \in Files
           /\ docs[b.doc][b.at].home = Target(b) /\ IsPlain(docs[b.doc][b.at].cached)
           /\ LocalModified(docs[b.doc], b.at) => Target(b) \in edited
           /\ phase = "open" => IsPlain(<<Text(docs[b.doc], b.at)>>)
<1>0. PICK i \in DOMAIN docs : b \in {[doc |-> i, at |-> p] : p \in Boundaries(docs[i])}
    BY DEF AllBoundaries
<1>1. PICK p \in Boundaries(docs[i]) : b = [doc |-> i, at |-> p]
    BY <1>0
<1>2. b.doc = i /\ b.at = p
    BY <1>1
<1> DEFINE t == docs[i]
<1>3. IsLoaded(t, edited) /\ IsTree(t) /\ (phase = "open" => Pending(t) = {})
    BY DEF DocsInv, IsLoaded
<1>4. p \in DOMAIN t /\ t[p].source.kind = "include" /\ IsNode(t[p])
    BY <1>1, <1>3 DEF Boundaries, IsTree
<1>5. Target(b) = t[p].source.target
    BY <1>2 DEF Target
<1> HIDE DEF t
<1>6. t[p].source.target \in Files /\ t[p].home = t[p].source.target /\ IsPlain(t[p].cached)
    BY <1>4, NodeIs DEF IsNode
<1>7. LocalModified(t, p) => t[p].home \in edited
  <2> SUFFICES ASSUME NEW q \in Region(t, p), t[q].modified PROVE t[p].home \in edited
      BY DEF LocalModified
  <2>1. t[q].home = t[p].home
      BY <1>3, <1>4, RegionHome
  <2>2. q \in DOMAIN t
      BY <1>3, <1>4, RegionRoot
  <2> QED BY <1>3, <2>1, <2>2 DEF IsLoaded
<1>8. phase = "open" => IsPlain(<<Text(t, p)>>)
    BY <1>3, <1>4, TextDocument, OneText
<1> QED BY <1>2, <1>4, <1>5, <1>6, <1>7, <1>8 DEF t

\* Where the root's own content was changed, an edit was counted for the root file.
LEMMA RootModified ==
    ASSUME DocsInv, NEW i \in DOMAIN docs, LocalModified(docs[i], <<>>)
    PROVE  Root \in edited
<1> DEFINE t == docs[i]
<1>1. /\ IsLoaded(t, edited) /\ IsTree(t) /\ <<>> \in DOMAIN t
      /\ t[<<>>].source.kind # "dir" /\ t[<<>>].home = Root
    BY Targets DEF DocsInv, IsLoaded, IsTree
<1> HIDE DEF t
<1>2. PICK q \in Region(t, <<>>) : t[q].modified
    BY DEF LocalModified, t
<1>3. t[q].home = Root /\ q \in DOMAIN t
    BY <1>1, RegionHome, RegionRoot
<1> QED BY <1>1, <1>2, <1>3 DEF IsLoaded

\* What is written of the root file is a text.
LEMMA RootText_IsPlain ==
    ASSUME DocsInv, phase = "open"
    PROVE  IsPlain(RootBytes)
<1> DEFINE s == [i \in DOMAIN docs |-> RootText(docs[i])]
<1>1. docs \in Seq(ToSet(docs)) /\ Len(docs) > 0 /\ DOMAIN docs = 1 .. Len(docs) /\ Len(docs) \in Nat
    BY DEF DocsInv
<1>2. \A i \in DOMAIN docs : s[i] = RootText(docs[i])
    OBVIOUS
<1>3. s = [i \in 1 .. Len(docs) |-> s[i]]
    BY <1>1
<1> HIDE DEF s
<1>4. s \in Seq(ToSet(s)) /\ Len(s) = Len(docs) /\ DOMAIN s = DOMAIN docs
    BY <1>1, <1>3, StreamIs
<1>5. ASSUME NEW i \in DOMAIN docs PROVE IsDocument(s[i]) /\ s[i][<<>>].kind \in {"map", "value"}
  <2>1. IsTree(docs[i]) /\ <<>> \in DOMAIN docs[i] /\ Pending(docs[i]) = {}
        /\ docs[i][<<>>].source = NoSource
      BY DEF DocsInv, IsLoaded, IsTree
  <2>2. s[i] = Text(docs[i], <<>>)
      BY <1>2, <2>1 DEF RootText
  <2> QED BY <2>1, <2>2, TextDocument
<1>6. IsPlain(s)
    BY <1>1, <1>4, <1>5 DEF IsPlain, IsText
<1>7. RootBytes = source \/ RootBytes = s
    BY DEF RootBytes, s
<1>8. RootBytes = source => source # <<>> \/ RootBytes = s
    BY DEF RootBytes, s
<1> QED BY <1>6, <1>7, <1>8 DEF DocsInv
-----------------------------------------------------------------------------
\* The first state.
LEMMA InitInv == PlainFiles /\ Init => IInv
<1> SUFFICES ASSUME PlainFiles, Init PROVE IInv
    OBVIOUS
<1>1. ScalarInv
  <2>1. settled \in BOOLEAN /\ disturbed \in BOOLEAN
      BY Zenon DEF Init
  <2>2. edits \in 0 .. MaxEdits /\ saves \in 0 .. MaxSaves /\ others \in 0 .. MaxOthers
      BY WriteBackAssumption DEF Init
  <2> QED BY <2>1, <2>2 DEF Init, ScalarInv
<1>2. DiskInv
    BY WriteBackAssumption DEF Init, DiskInv, PlainFiles
<1>3. DocsInv
    BY DEF Init, DocsInv
<1>4. TodoInv
    BY DEF Init, TodoInv
<1> QED BY <1>1, <1>2, <1>3, <1>4 DEF IInv

\* The root file, read.
LEMMA LoadInv == IInv /\ Load => IInv'
<1> SUFFICES ASSUME IInv, Load PROVE IInv'
    OBVIOUS
<1> DEFINE text == disk[Root]
<1>1. IsPlain(text) /\ text \in Seq(ToSet(text)) /\ Len(text) > 0 /\ Root \in Files
      /\ DOMAIN text = 1 .. Len(text) /\ Len(text) \in Nat
    BY WriteBackAssumption DEF IInv, DiskInv, IsPlain, IsText
<1>2. /\ phase = "closed" /\ phase' = "loading" /\ edited' = {} /\ source' = text /\ edits' = 0
      /\ docs' = [i \in DOMAIN text |-> Tree(text[i], Root)] /\ mode' = "none" /\ settled' = FALSE
      /\ disturbed' = FALSE /\ disk' = disk /\ todo' = todo /\ saves' = saves /\ others' = others
    BY DEF Load
<1> HIDE DEF text
<1>3. docs' = [i \in 1 .. Len(text) |-> docs'[i]] /\ \A i \in 1 .. Len(text) : docs'[i] = Tree(text[i], Root)
    BY <1>1, <1>2
<1>4. docs' \in Seq(ToSet(docs')) /\ Len(docs') = Len(text) /\ DOMAIN docs' = 1 .. Len(text)
    BY <1>1, <1>3, StreamIs
<1>5. ASSUME NEW i \in DOMAIN docs' PROVE IsLoaded(docs'[i], edited')
  <2> DEFINE d == text[i]
             t == Tree(d, Root)
  <2>1. IsDocument(d) /\ d[<<>>].kind \in {"map", "value"} /\ <<>> \in DOMAIN d
      BY <1>1, <1>4 DEF IsPlain, IsText, IsDocument
  <2> HIDE DEF d
  <2>2. IsRead(t, d, Root)
      BY <1>1, <2>1, ReadTree
  <2> HIDE DEF t
  <2>3. IsLoaded(t, {})
      BY <2>1, <2>2 DEF IsRead, IsLoaded
  <2> QED BY <1>2, <1>3, <1>4, <2>3 DEF t, d
<1>6. ScalarInv'
  <2>1. settled' \in BOOLEAN /\ disturbed' \in BOOLEAN
      BY <1>2, Zenon
  <2>2. edits' \in 0 .. MaxEdits
      BY <1>2, WriteBackAssumption
  <2> QED BY <1>2, <2>1, <2>2 DEF IInv, ScalarInv
<1>7. DiskInv'
    BY <1>2 DEF IInv, DiskInv
<1>8. DocsInv'
    BY <1>1, <1>2, <1>4, <1>5 DEF DocsInv
<1>9. TodoInv'
  <2>1. todo = {}
      BY <1>2 DEF IInv, TodoInv
  <2> QED BY <1>2, <2>1 DEF TodoInv
<1> QED BY <1>6, <1>7, <1>8, <1>9 DEF IInv

\* A directive resolved, or the last one found to be.
LEMMA ResolveInv == IInv /\ ResolveNext => IInv'
<1> SUFFICES ASSUME IInv, ResolveNext PROVE IInv'
    OBVIOUS
<1>1. /\ phase = "loading" /\ disk' = disk /\ source' = source /\ edited' = edited /\ mode' = mode
      /\ todo' = todo /\ settled' = settled /\ disturbed' = disturbed /\ edits' = edits
      /\ saves' = saves /\ others' = others
    BY DEF ResolveNext
<1>2. ScalarInv /\ DiskInv /\ DocsInv /\ TodoInv
    BY DEF IInv
<1>3. DiskInv'
    BY <1>1, <1>2 DEF DiskInv
<1>4. CASE (\A i \in DOMAIN docs : Pending(docs[i]) = {}) /\ phase' = "open" /\ docs' = docs
  <2>1. DocsInv'
      BY <1>1, <1>2, <1>4 DEF DocsInv
  <2>2. ScalarInv' /\ TodoInv'
      BY <1>1, <1>2, <1>4 DEF ScalarInv, TodoInv
  <2> QED BY <1>3, <2>1, <2>2 DEF IInv
<1>5. ASSUME NEW i \in DOMAIN docs, NEW p \in NextPending(docs[i]),
             docs' = [docs EXCEPT ![i] = ResolveAt(docs[i], p, disk)], phase' = phase
      PROVE  IInv'
  <2> DEFINE x == ResolveAt(docs[i], p, disk)
  <2>1. IsLoaded(x, edited)
    <3>1. p \in Pending(docs[i])
        BY <1>5 DEF NextPending
    <3>2. \A f \in Files : IsPlain(disk[f])
        BY <1>2 DEF DiskInv
    <3>3. IsLoaded(docs[i], edited)
        BY <1>2 DEF DocsInv
    <3> QED BY <3>1, <3>2, <3>3, ResolveLoaded
  <2> HIDE DEF x
  <2>2. docs \in Seq(ToSet(docs)) /\ docs' = [docs EXCEPT ![i] = x]
      BY <1>2, <1>5 DEF DocsInv, x
  <2>3. IsChange(docs', docs, i, x)
      BY <2>2, StreamExcept
  <2>4. \A j \in DOMAIN docs' : IsLoaded(docs'[j], edited)
      BY <1>2, <2>1, <2>3 DEF IsChange, DocsInv
  <2>5. DocsInv'
      BY <1>1, <1>2, <1>5, <2>3, <2>4 DEF DocsInv, IsChange
  <2>6. ScalarInv' /\ TodoInv'
      BY <1>1, <1>2, <1>5 DEF ScalarInv, TodoInv
  <2> QED BY <1>3, <2>5, <2>6 DEF IInv
<1> QED BY <1>4, <1>5 DEF ResolveNext
-----------------------------------------------------------------------------
\* What an edit does but to the document and its cached text.
LEMMA EditedInv ==
    ASSUME IInv, NEW file \in Files, Edited(file),
           docs' \in Seq(ToSet(docs')), Len(docs') > 0,
           \A i \in DOMAIN docs' : IsOpen(docs'[i], edited \union {file}),
           source' = source \/ source' = <<>>
    PROVE  IInv'
<1>1. /\ phase = "open" /\ edits < MaxEdits /\ edits' = edits + 1 /\ edited' = edited \union {file}
      /\ settled' = FALSE /\ disk' = disk /\ phase' = phase /\ mode' = mode /\ todo' = todo
      /\ disturbed' = disturbed /\ saves' = saves /\ others' = others
    BY DEF Edited
<1>2. ScalarInv /\ DiskInv /\ DocsInv /\ TodoInv
    BY DEF IInv
<1>3. ScalarInv'
  <2>1. settled' \in BOOLEAN
      BY <1>1, Zenon
  <2>2. edits' \in 0 .. MaxEdits
      BY <1>1, <1>2, WriteBackAssumption DEF ScalarInv
  <2> QED BY <1>1, <1>2, <2>1, <2>2 DEF ScalarInv
<1>4. DiskInv'
    BY <1>1, <1>2 DEF DiskInv
<1>5. DocsInv'
  <2>1. \A i \in DOMAIN docs' : IsLoaded(docs'[i], edited') /\ Pending(docs'[i]) = {}
      BY <1>1 DEF IsOpen
  <2>2. edited' \subseteq Files /\ (source' = <<>> \/ IsPlain(source'))
      BY <1>1, <1>2 DEF DocsInv
  <2> QED BY <1>1, <2>1, <2>2 DEF DocsInv
<1>6. TodoInv'
  <2>1. todo = {}
      BY <1>1, <1>2 DEF TodoInv
  <2> QED BY <1>1, <2>1 DEF TodoInv
<1> QED BY <1>3, <1>4, <1>5, <1>6 DEF IInv

\* An edit of one document of the stream.
LEMMA OneEdited ==
    ASSUME IInv, NEW file \in Files, Edited(file), NEW i \in DOMAIN docs, NEW x,
           docs' = [docs EXCEPT ![i] = x], IsOpen(x, edited \union {file}), source' = source
    PROVE  IInv'
<1>1. DocsInv /\ phase = "open" /\ docs \in Seq(ToSet(docs)) /\ Len(docs) > 0
    BY DEF IInv, DocsInv, Edited
<1>2. IsChange(docs', docs, i, x)
    BY <1>1, StreamExcept
<1>3. ASSUME NEW j \in DOMAIN docs' PROVE IsOpen(docs'[j], edited \union {file})
  <2>1. CASE j = i
      BY <1>2, <2>1 DEF IsChange
  <2>2. CASE j # i
    <3>1. IsLoaded(docs[j], edited) /\ Pending(docs[j]) = {} /\ docs'[j] = docs[j]
        BY <1>1, <1>2, <2>2 DEF IsChange, DocsInv
    <3>2. IsLoaded(docs[j], edited \union {file})
        BY <3>1, LoadedMore
    <3> QED BY <3>1, <3>2 DEF IsOpen
  <2> QED BY <2>1, <2>2
<1> QED BY <1>1, <1>2, <1>3, EditedInv DEF IsChange

\* Every edit.
LEMMA EditInv == IInv /\ Edit => IInv'
<1> SUFFICES ASSUME IInv, Edit PROVE IInv'
    OBVIOUS
<1>1. DocsInv /\ docs \in Seq(ToSet(docs)) /\ Root \in Files
    BY WriteBackAssumption DEF IInv, DocsInv
<1>2. ASSUME Len(docs) = 1
      PROVE  1 \in DOMAIN docs
    BY <1>1, <1>2
<1>3. ASSUME NEW i \in DOMAIN docs, NEW p \in DOMAIN docs[i]
      PROVE  docs[i][p].home \in Files
    BY <1>1 DEF DocsInv, IsLoaded, IsTree, IsNode
<1>4. ASSUME NEW p \in DOMAIN docs[1], NEW key \in Keys, NEW v \in Values, Assign(p, key, v)
      PROVE  IInv'
  <2> DEFINE t == docs[1]
             home == t[p].home
             sub == Single(Marked(Node(Value(v), home)))
             x == Graft(t, Append(p, key), sub)
  <2>1. /\ Len(docs) = 1 /\ t[p].cell = Mapping /\ docs' = [docs EXCEPT ![1] = x]
        /\ source' = source /\ Edited(home)
      BY <1>4 DEF Assign
  <2>2. 1 \in DOMAIN docs /\ home \in Files /\ phase = "open"
      BY <1>2, <1>3, <2>1 DEF Edited
  <2>3. IsLoaded(t, edited) /\ Pending(t) = {}
      BY <1>1, <2>2 DEF DocsInv
  <2>4. IsValue(sub, home)
      BY <2>2, ValueTree
  <2>5. IsOpen(x, edited \union {home})
    <3> HIDE DEF sub, t
    <3>1. p \in DOMAIN t /\ t[p].cell = Mapping
        BY <1>4, <2>1 DEF t
    <3> QED BY <2>3, <2>4, <3>1, AssignLoaded
  <2> HIDE DEF x, home
  <2> QED BY <2>1, <2>2, <2>5, OneEdited
<1>5. ASSUME NEW q \in DOMAIN docs[1], Delete(q)
      PROVE  IInv'
  <2> DEFINE t == docs[1]
             home == t[Front(q)].home
             x == Mark(Prune(t, q), Front(q))
  <2>0. Len(docs) = 1 /\ q # <<>> /\ source' = source /\ Edited(home)
      BY <1>5 DEF Delete
  <2>1. docs' = [docs EXCEPT ![1] = x]
      BY <1>5 DEF Delete
  <2>2. 1 \in DOMAIN docs /\ phase = "open"
      BY <1>2, <2>0 DEF Edited
  <2>3. IsLoaded(t, edited) /\ Pending(t) = {}
      BY <1>1, <2>2 DEF DocsInv
  <2>4. home \in Files
    <3>1. Front(q) \in DOMAIN docs[1]
        BY <1>5, <2>0, <2>3 DEF IsLoaded, IsTree
    <3> QED BY <1>3, <2>2, <3>1
  <2>5. IsOpen(x, edited \union {home})
      BY <1>5, <2>0, <2>3, DeleteLoaded
  <2> HIDE DEF x, home
  <2> QED BY <2>0, <2>1, <2>2, <2>4, <2>5, OneEdited
<1>6. ASSUME NEW i \in DOMAIN docs, NEW v \in Values, AssignDocument(i, v)
      PROVE  IInv'
  <2> DEFINE x == Single(Marked(Node(Value(v), Root)))
  <2>1. docs' = [docs EXCEPT ![i] = x] /\ source' = source /\ Edited(Root)
      BY <1>6 DEF AssignDocument
  <2>2. IsValue(x, Root)
      BY <1>1, ValueTree
  <2> HIDE DEF x
  <2>3. IsOpen(x, edited \union {Root})
      BY <2>2, ValueLoaded
  <2> QED BY <1>1, <2>1, <2>3, OneEdited
<1>7. ASSUME NEW i \in DOMAIN docs, DeleteDocument(i)
      PROVE  IInv'
  <2>1. Len(docs) # 1 /\ docs' = RemoveAt(docs, i) /\ source' = <<>> /\ Edited(Root) /\ phase = "open"
      BY <1>7 DEF DeleteDocument, Edited
  <2>2. /\ docs' \in Seq(ToSet(docs')) /\ Len(docs') = Len(docs) - 1
        /\ \A j \in DOMAIN docs' : \E k \in DOMAIN docs : docs'[j] = docs[k]
      BY <1>1, <2>1, StreamRemove
  <2>3. Len(docs') > 0
      BY <1>1, <2>1, <2>2 DEF DocsInv
  <2>4. ASSUME NEW j \in DOMAIN docs' PROVE IsOpen(docs'[j], edited \union {Root})
    <3>1. PICK k \in DOMAIN docs : docs'[j] = docs[k]
        BY <2>2
    <3>2. IsLoaded(docs[k], edited) /\ Pending(docs[k]) = {}
        BY <1>1, <2>1 DEF DocsInv
    <3>3. IsLoaded(docs[k], edited \union {Root})
        BY <3>2, LoadedMore
    <3> QED BY <3>1, <3>2, <3>3 DEF IsOpen
  <2> QED BY <1>1, <2>1, <2>2, <2>3, <2>4, EditedInv
<1> QED BY <1>4, <1>5, <1>6, <1>7 DEF Edit
-----------------------------------------------------------------------------
\* A write-back that is begun: what it will write.
LEMMA BeginInv ==
    ASSUME IInv, NEW m \in {"save", "saveas", "dump"}, NEW writes, Begin(m, writes),
           \A w \in writes :
               /\ w.file \in Files /\ IsPlain(w.text)
               /\ m \in {"save", "saveas"} => w.file \in edited \/ (m = "saveas" /\ w.file = Root)
    PROVE  IInv'
<1>1. /\ phase = "open" /\ saves < MaxSaves /\ saves' = saves + 1 /\ phase' = "writing" /\ mode' = m
      /\ todo' = writes /\ settled' = FALSE /\ disk' = disk /\ docs' = docs /\ source' = source
      /\ edited' = edited /\ disturbed' = disturbed /\ edits' = edits /\ others' = others
    BY DEF Begin, doc
<1>2. ScalarInv /\ DiskInv /\ DocsInv /\ TodoInv
    BY DEF IInv
<1>3. ScalarInv'
  <2>1. settled' \in BOOLEAN
      BY <1>1, Zenon
  <2>2. saves' \in 0 .. MaxSaves
      BY <1>1, <1>2, WriteBackAssumption DEF ScalarInv
  <2>3. mode' \in {"none", "save", "saveas", "dump"}
      BY <1>1
  <2> QED BY <1>1, <1>2, <2>1, <2>2, <2>3 DEF ScalarInv
<1>4. DiskInv' /\ DocsInv'
    BY <1>1, <1>2 DEF DiskInv, DocsInv
<1>5. TodoInv'
    BY <1>1 DEF TodoInv, Savable
<1> QED BY <1>3, <1>4, <1>5 DEF IInv

\* A rewritten include.
LEMMA RewriteIs ==
    ASSUME DocsInv, phase = "open", NEW w \in ChangedIncludes
    PROVE  w.file \in edited /\ w.file \in Files /\ IsPlain(w.text)
<1>1. PICK b \in AllBoundaries : LocalModified(docs[b.doc], b.at) /\ w = Rewrite(b)
    BY DEF ChangedIncludes
<1>2. w.file = Target(b) /\ w.text = <<Text(docs[b.doc], b.at)>>
    BY <1>1 DEF Rewrite, Write
<1> QED BY <1>1, <1>2, BoundaryIs

\* save, and a save to a path.
LEMMA SaveInv == ASSUME NEW explicit \in BOOLEAN PROVE IInv /\ Save(explicit) => IInv'
<1> SUFFICES ASSUME IInv, Save(explicit) PROVE IInv'
    OBVIOUS
<1> DEFINE write == Write(Len(docs) + 1, <<>>, Root, RootBytes)
           changed == \E i \in DOMAIN docs : LocalModified(docs[i], <<>>)
           own == IF explicit \/ changed THEN {write} ELSE {}
           m == IF explicit THEN "saveas" ELSE "save"
<1>1. Begin(m, ChangedIncludes \union own)
    BY DEF Save
<1>2. DocsInv /\ phase = "open"
    BY <1>1 DEF IInv, Begin
<1>3. m \in {"save", "saveas", "dump"} /\ (m = "saveas" <=> explicit)
    OBVIOUS
<1>4. changed => Root \in edited
    BY <1>2, RootModified
<1>5. write.file = Root /\ write.text = RootBytes /\ Root \in Files /\ IsPlain(RootBytes)
    BY <1>2, RootText_IsPlain, WriteBackAssumption DEF Write
<1>6. ASSUME NEW w \in ChangedIncludes \union own
      PROVE  /\ w.file \in Files /\ IsPlain(w.text)
             /\ m \in {"save", "saveas"} => w.file \in edited \/ (m = "saveas" /\ w.file = Root)
  <2>1. CASE w \in ChangedIncludes
      BY <1>2, <2>1, RewriteIs
  <2>2. CASE w \in own
    <3>1. w = write /\ (explicit \/ changed)
        BY <2>2
    <3> HIDE DEF write, changed, m
    <3> QED BY <1>3, <1>4, <1>5, <3>1
  <2> QED BY <2>1, <2>2
<1> HIDE DEF own, m
<1> QED BY <1>1, <1>3, <1>6, BeginInv

\* dump_includes.
LEMMA DumpInv == IInv /\ DumpIncludes => IInv'
<1> SUFFICES ASSUME IInv, DumpIncludes PROVE IInv'
    OBVIOUS
<1>1. Begin("dump", AllIncludes) /\ DocsInv /\ phase = "open"
    BY DEF DumpIncludes, Begin, IInv
<1>2. ASSUME NEW w \in AllIncludes PROVE w.file \in Files /\ IsPlain(w.text)
  <2>1. PICK b \in AllBoundaries :
            w = Write(0, <<>>, Target(b),
                      IF LocalModified(docs[b.doc], b.at) THEN <<Text(docs[b.doc], b.at)>>
                      ELSE docs[b.doc][b.at].cached)
      BY DEF AllIncludes
  <2>2. /\ w.file = Target(b)
        /\ w.text = <<Text(docs[b.doc], b.at)>> \/ w.text = docs[b.doc][b.at].cached
      BY <2>1 DEF Write
  <2> QED BY <1>1, <2>2, BoundaryIs
<1>3. "dump" \in {"save", "saveas", "dump"} /\ "dump" \notin {"save", "saveas"}
    OBVIOUS
<1> QED BY <1>1, <1>2, <1>3, BeginInv

\* A write, a write that fails, or the end.
LEMMA WriteNextInv == IInv /\ WriteNext => IInv'
<1> SUFFICES ASSUME IInv, WriteNext PROVE IInv'
    OBVIOUS
<1>1. /\ phase = "writing" /\ docs' = docs /\ source' = source /\ edited' = edited /\ mode' = mode
      /\ disturbed' = disturbed /\ edits' = edits /\ saves' = saves /\ others' = others
    BY DEF WriteNext, doc
<1>2. ScalarInv /\ DiskInv /\ DocsInv /\ TodoInv
    BY DEF IInv
<1>3. CASE /\ todo' = {} /\ phase' = "open" /\ disk' = disk
           /\ settled' = settled \/ settled' = TRUE
  <2>1. settled' \in BOOLEAN
      BY <1>2, <1>3, Zenon DEF ScalarInv
  <2>2. ScalarInv'
      BY <1>1, <1>2, <1>3, <2>1 DEF ScalarInv
  <2>3. DiskInv' /\ DocsInv' /\ TodoInv'
      BY <1>1, <1>2, <1>3 DEF DiskInv, DocsInv, TodoInv
  <2> QED BY <2>2, <2>3 DEF IInv
<1>4. ASSUME NEW w \in todo, disk' = [disk EXCEPT ![w.file] = w.text], todo' = todo \ {w},
             phase' = phase, settled' = settled
      PROVE  IInv'
  <2>1. w.file \in Files /\ IsPlain(w.text)
      BY <1>2 DEF TodoInv
  <2>2. DiskInv'
      BY <1>2, <1>4, <2>1 DEF DiskInv
  <2>3. ScalarInv' /\ DocsInv'
      BY <1>1, <1>2, <1>4 DEF ScalarInv, DocsInv
  <2>4. TodoInv'
      BY <1>1, <1>2, <1>4 DEF TodoInv, Savable
  <2> QED BY <2>2, <2>3, <2>4 DEF IInv
<1> QED BY <1>3, <1>4 DEF WriteNext

\* The document let go.
LEMMA CloseInv == IInv /\ Close => IInv'
<1> SUFFICES ASSUME IInv, Close PROVE IInv'
    OBVIOUS
<1>1. /\ phase' = "closed" /\ docs' = <<>> /\ source' = <<>> /\ edited' = {} /\ todo' = {}
      /\ mode' = "none" /\ settled' = FALSE /\ disk' = disk /\ disturbed' = disturbed
      /\ edits' = edits /\ saves' = saves /\ others' = others
    BY DEF Close
<1>2. ScalarInv /\ DiskInv
    BY DEF IInv
<1>3. settled' \in BOOLEAN
    BY <1>1, Zenon
<1>4. ScalarInv' /\ DiskInv'
    BY <1>1, <1>2, <1>3 DEF ScalarInv, DiskInv
<1>5. DocsInv' /\ TodoInv'
    BY <1>1 DEF DocsInv, TodoInv
<1> QED BY <1>4, <1>5 DEF IInv

\* Another program's write.
LEMMA OtherInv ==
    ASSUME NEW f \in Files, NEW key \in Keys, NEW v \in Values
    PROVE  IInv /\ OtherWrites(f, key, v) => IInv'
<1> SUFFICES ASSUME IInv, OtherWrites(f, key, v) PROVE IInv'
    OBVIOUS
<1> DEFINE text == [disk[f] EXCEPT ![1] = [disk[f][1] EXCEPT ![<<key>>] = Value(v)]]
<1>1. /\ others < MaxOthers /\ others' = others + 1 /\ disturbed' = TRUE
      /\ <<key>> \in DOMAIN disk[f][1] /\ disk[f][1][<<key>>].kind = "value"
      /\ phase' = phase /\ docs' = docs /\ source' = source /\ edited' = edited /\ mode' = mode
      /\ todo' = todo /\ settled' = settled /\ edits' = edits /\ saves' = saves
    BY DEF OtherWrites, doc
<1>2. ScalarInv /\ DiskInv /\ DocsInv /\ TodoInv
    BY DEF IInv
<1>3. disk' = [disk EXCEPT ![f] = text]
    BY DEF OtherWrites
<1>4. IsPlain(text)
  <2>1. IsPlain(disk[f])
      BY <1>2 DEF DiskInv
  <2> QED BY <1>1, <2>1, OtherText
<1> HIDE DEF text
<1>5. DiskInv'
    BY <1>2, <1>3, <1>4 DEF DiskInv
<1>6. ScalarInv'
  <2>1. disturbed' \in BOOLEAN
      BY <1>1, Zenon
  <2>2. others' \in 0 .. MaxOthers
      BY <1>1, <1>2, WriteBackAssumption DEF ScalarInv
  <2> QED BY <1>1, <1>2, <2>1, <2>2 DEF ScalarInv
<1>7. DocsInv' /\ TodoInv'
    BY <1>1, <1>2 DEF DocsInv, TodoInv, Savable
<1> QED BY <1>5, <1>6, <1>7 DEF IInv

\* Nothing done.
LEMMA StutterInv == IInv /\ UNCHANGED vars => IInv'
<1> SUFFICES ASSUME IInv, UNCHANGED vars PROVE IInv'
    OBVIOUS
<1>1. /\ disk' = disk /\ phase' = phase /\ docs' = docs /\ source' = source /\ edited' = edited
      /\ mode' = mode /\ todo' = todo /\ settled' = settled /\ disturbed' = disturbed
      /\ edits' = edits /\ saves' = saves /\ others' = others
    BY DEF vars, doc
<1> QED BY <1>1 DEF IInv, ScalarInv, DiskInv, DocsInv, TodoInv, Savable
-----------------------------------------------------------------------------
LEMMA NextInv == IInv /\ [Next]_vars => IInv'
<1> SUFFICES ASSUME IInv, [Next]_vars PROVE IInv'
    OBVIOUS
<1>1. CASE UNCHANGED vars
    BY <1>1, StutterInv
<1>2. CASE Load
    BY <1>2, LoadInv
<1>3. CASE ResolveNext
    BY <1>3, ResolveInv
<1>4. CASE Edit
    BY <1>4, EditInv
<1>5. ASSUME NEW explicit \in BOOLEAN, Save(explicit) PROVE IInv'
    BY <1>5, SaveInv
<1>6. CASE DumpIncludes
    BY <1>6, DumpInv
<1>7. CASE WriteNext
    BY <1>7, WriteNextInv
<1>8. CASE Close
    BY <1>8, CloseInv
<1>9. ASSUME NEW f \in Files, NEW key \in Keys, NEW v \in Values, OtherWrites(f, key, v) PROVE IInv'
    BY <1>9, OtherInv
<1> QED BY <1>1, <1>2, <1>3, <1>4, <1>5, <1>6, <1>7, <1>8, <1>9 DEF Next

\* Where no file is nothing but a directive, every node of the document knows the
\* file it is written in, and every edit was counted for its file: IInv holds of
\* all that loading, editing and writing back make of it.
THEOREM WriteBackInvariant == ASSUME PlainFiles PROVE Spec => []IInv
<1>1. Init => IInv
    BY InitInv
<1>2. IInv /\ [Next]_vars => IInv'
    BY NextInv
<1> QED BY <1>1, <1>2, PTL DEF Spec

\* The state has its type: in an open document no directive waits, and every node
\* but the root is an entry of a mapping.
THEOREM WriteBackTypeOK == ASSUME PlainFiles PROVE Spec => []TypeOK
<1>1. IInv => TypeOK
  <2> SUFFICES ASSUME IInv PROVE TypeOK
      OBVIOUS
  <2>1. DOMAIN disk = Files /\ \A f \in Files : Len(disk[f]) >= 0
    <3>1. \A f \in Files : Len(disk[f]) > 0 /\ Len(disk[f]) \in Nat
        BY DEF IInv, DiskInv, IsPlain, IsText
    <3> QED BY <3>1 DEF IInv, DiskInv
  <2>2. ASSUME NEW i \in DOMAIN docs, NEW p \in DOMAIN docs[i]
        PROVE  /\ p # <<>> => Front(p) \in DOMAIN docs[i] /\ docs[i][Front(p)].cell = Mapping
               /\ docs[i][p].home \in Files
               /\ phase \in {"open", "writing"} => docs[i][p].cell.kind \in {"map", "value"}
    <3>1. IsTree(docs[i]) /\ IsNode(docs[i][p])
        BY DEF IInv, DocsInv, IsLoaded, IsTree
    <3>2. phase \in {"open", "writing"} => docs[i][p].cell.kind \notin {"include", "dir", "member"}
        BY DEF IInv, DocsInv, Pending
    <3>3. docs[i][p].cell.kind \in {"map", "value", "include", "dir", "member"}
        BY <3>1, NodeIs
    <3>4. p # <<>> => Front(p) \in DOMAIN docs[i] /\ docs[i][Front(p)].cell = Mapping
        BY <3>1 DEF IsTree, Below
    <3> QED BY <3>1, <3>2, <3>3, <3>4 DEF IsNode
  <2>3. ScalarInv /\ edited \subseteq Files /\ \A w \in todo : w.file \in Files
      BY DEF IInv, DocsInv, TodoInv
  <2> QED BY <2>1, <2>2, <2>3, Zenon DEF TypeOK, ScalarInv
<1> QED BY <1>1, WriteBackInvariant, PTL

\* A save writes no file but those edits were made in, and the file it was told to
\* write: what another program wrote to any other stays.
THEOREM WriteBackSaveKeepsOthers == ASSUME PlainFiles PROVE Spec => SaveKeepsOthers
<1> DEFINE Step == phase = "writing" /\ others' = others /\ mode \in {"save", "saveas"} =>
                     \A f \in Files \ (edited \union IF mode = "saveas" THEN {Root} ELSE {}) : disk'[f] = disk[f]
<1>1. IInv /\ [Next]_vars => [Step]_vars
  <2> SUFFICES ASSUME IInv, Next, phase = "writing", others' = others, mode \in {"save", "saveas"},
                      NEW f \in Files \ Savable
               PROVE  disk'[f] = disk[f]
      BY DEF Savable
  <2>1. CASE Load \/ ResolveNext \/ DumpIncludes \/ Close \/ \E explicit \in BOOLEAN : Save(explicit)
      BY <2>1 DEF Load, ResolveNext, DumpIncludes, Close, Save, Begin
  <2>2. CASE Edit
      BY <2>2 DEF Edit, Assign, Delete, AssignDocument, DeleteDocument, Edited
  <2>3. CASE WriteNext
    <3>1. CASE disk' = disk
        BY <3>1
    <3>2. ASSUME NEW w \in todo, disk' = [disk EXCEPT ![w.file] = w.text] PROVE disk'[f] = disk[f]
      <4>1. w.file \in Savable /\ disk = [g \in Files |-> disk[g]]
          BY DEF IInv, TodoInv, DiskInv
      <4> QED BY <3>2, <4>1
    <3> QED BY <2>3, <3>1, <3>2 DEF WriteNext
  <2>4. ASSUME NEW g \in Files, NEW key \in Keys, NEW v \in Values, OtherWrites(g, key, v) PROVE FALSE
    <3>1. others' = others + 1 /\ others \in Nat
        BY <2>4, WriteBackAssumption DEF OtherWrites, IInv, ScalarInv
    <3> QED BY <3>1
  <2> QED BY <2>1, <2>2, <2>3, <2>4 DEF Next
<1>2. Spec => []IInv
    BY WriteBackInvariant
<1> QED BY <1>1, <1>2, PTL DEF Spec, SaveKeepsOthers
=============================================================================

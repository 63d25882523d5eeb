------------------------ MODULE IncludeResolverProofs -------------------------
(***************************************************************************)
(* Proofs about a load, for any files, directories, texts, limits and any    *)
(* changes other programs make meanwhile.  The inductive invariant follows   *)
(* each node from the text it is in, through the frame that resolves it, to  *)
(* the value it has in the result.                                           *)
(***************************************************************************)
EXTENDS IncludeResolver, SequenceLemmas

\* The node is in the text the map keeps for the id, that of a file.
From(map, id, node) ==
    id \in DOMAIN map /\ map[id].path \in Files /\ node \in Sources(map[id].source)

\* A frame whose nodes are from the text of its id, and whose files are those of a
\* directive that was within the limit.
Good(f, map) ==
    /\ IsFrame(f) /\ f.id \in DOMAIN map /\ Len(f.chain) <= MaxDepth
    /\ \A k \in DOMAIN f.todo : From(map, f.id, f.todo[k])
    /\ f.files # <<>> => f.loop # None
    /\ f.loop # None => Len(f.chain) < MaxDepth

\* No directory is listed in the frames up to the i-th.
Straight(fs, i) == \A j \in 1 .. i : fs[j].loop = None

FramesInv(fs, map) ==
    /\ fs \in Seq(ToSet(fs))
    /\ \A i \in DOMAIN fs : Good(fs[i], map) /\ (Straight(fs, i) => IsInjective(fs[i].chain))

Origins == \A i \in DOMAIN out : From(fileMap, out[i].id, out[i].node)

\* A secret that was used is still the one its directory is known by.
Cached ==
    \A i \in DOMAIN out : out[i].dir # None =>
        /\ out[i].dir \in DOMAIN cache
        /\ out[i].val = cache[out[i].dir][out[i].node.arg]

CacheTyped ==
    \A d \in DOMAIN cache : d \in Dirs /\ \A n \in DOMAIN cache[d] : cache[d][n] \in Scalars

IInv ==
    /\ TypeOK /\ FramesInv(frames, fileMap) /\ Origins /\ Cached /\ CacheTyped
    /\ MissesAreTheHoles
-----------------------------------------------------------------------------
\* The frame at hand, the node at hand, and what is left of the frame's nodes.
LEMMA TopTyped ==
    ASSUME TypeOK, frames # <<>>
    PROVE  /\ Len(frames) \in Nat \ {0} /\ DOMAIN frames = 1 .. Len(frames)
           /\ Top = frames[Len(frames)] /\ IsFrame(Top)
           /\ Top.id \in DOMAIN fileMap /\ Len(Top.chain) <= MaxDepth
<1>1. Len(frames) \in Nat \ {0} /\ DOMAIN frames = 1 .. Len(frames)
    BY DEF TypeOK
<1>2. Top = frames[Len(frames)]
    BY DEF Top, Last
<1> QED BY <1>1, <1>2 DEF TypeOK

\* The node looked at is a node, and what is left to do are nodes.
LEMMA NodeTyped ==
    ASSUME TypeOK, frames # <<>>, Top.todo # <<>>
    PROVE  /\ Node \in Nodes /\ Node = Top.todo[1] /\ 1 \in DOMAIN Top.todo
           /\ Tail(Top.todo) \in Seq(Nodes)
           /\ \A k \in DOMAIN Tail(Top.todo) : Tail(Top.todo)[k] \in ToSet(Top.todo)
<1>1. Top.todo \in Seq(Nodes)
    BY TopTyped DEF IsFrame
<1> DEFINE todo == Top.todo
<1> HIDE DEF todo
<1>2. todo \in Seq(Nodes) /\ todo # <<>>
    BY <1>1 DEF todo
<1>3. Head(todo) = todo[1] /\ todo[1] \in Nodes /\ 1 \in DOMAIN todo
    BY <1>2
<1>4. Tail(todo) \in Seq(Nodes) /\ \A k \in DOMAIN Tail(todo) : Tail(todo)[k] = todo[k + 1] /\ k + 1 \in DOMAIN todo
    BY <1>2
<1>5. \A k \in DOMAIN Tail(todo) : Tail(todo)[k] \in ToSet(todo)
    BY <1>4 DEF ToSet
<1> QED BY <1>3, <1>4, <1>5 DEF todo, Node

\* The frames, where the one on top went on with its nodes or its files.
Onward(fs) ==
    LET n == Len(frames)
    IN  /\ fs \in Seq(ToSet(fs)) /\ Len(fs) = n
        /\ \A i \in 1 .. n - 1 : fs[i] = frames[i]
        /\ IsFrame(fs[n])
        /\ fs[n].loop = Top.loop /\ fs[n].id = Top.id /\ fs[n].chain = Top.chain
        /\ fs[n].files # <<>> => Top.files # <<>>
        /\ \A k \in DOMAIN fs[n].todo : fs[n].todo[k] \in ToSet(Top.todo)

\* Such frames have the frame on top at the same place.
LEMMA OnwardTop ==
    ASSUME TypeOK, frames # <<>>, NEW f, IsFrame(f),
           f.loop = Top.loop, f.id = Top.id, f.chain = Top.chain,
           f.files # <<>> => Top.files # <<>>,
           \A k \in DOMAIN f.todo : f.todo[k] \in ToSet(Top.todo)
    PROVE  Onward([frames EXCEPT ![Len(frames)] = f])
<1> DEFINE n == Len(frames)
           fs == [frames EXCEPT ![n] = f]
<1>1. n \in Nat \ {0} /\ DOMAIN frames = 1 .. n
    BY TopTyped
<1>2. /\ DOMAIN fs = 1 .. n /\ fs[n] = f /\ \A i \in 1 .. n - 1 : fs[i] = frames[i]
      /\ fs = [i \in 1 .. n |-> fs[i]]
  <2> HIDE DEF n
  <2>1. n \in 1 .. n /\ \A i \in 1 .. n - 1 : i \in 1 .. n /\ i # n
      BY <1>1
  <2> QED BY <1>1, <2>1
<1>3. \A i \in 1 .. n : fs[i] \in ToSet(fs)
    BY <1>2 DEF ToSet
<1> HIDE DEF fs
<1>4. fs \in Seq(ToSet(fs)) /\ Len(fs) = n
    BY <1>1, <1>2, <1>3
<1> QED BY <1>2, <1>4 DEF Onward, fs

\* Going on in the frame on top disturbs no other frame.
LEMMA RestIs ==
    ASSUME TypeOK, frames # <<>>, Top.todo # <<>>
    PROVE  Onward(Rest)
<1> DEFINE n == Len(frames)
           f == [todo |-> Tail(Top.todo), loop |-> Top.loop, files |-> Top.files, id |-> Top.id,
                 chain |-> Top.chain, climb |-> None]
<1>1. n \in Nat \ {0} /\ DOMAIN frames = 1 .. n /\ Top = frames[n] /\ IsFrame(Top)
    BY TopTyped
<1>2. [[Top EXCEPT !.todo = Tail(Top.todo)] EXCEPT !.climb = None] = f
  <2> DEFINE g == [Top EXCEPT !.todo = Tail(Top.todo)]
  <2>1. /\ g \in [todo : Seq(Nodes), loop : {Top.loop}, files : {Top.files}, id : {Top.id},
                 chain : {Top.chain}, climb : Dirs \union {None}]
        /\ g.todo = Tail(Top.todo)
    <3>1. Tail(Top.todo) \in Seq(Nodes)
        BY NodeTyped
    <3> QED BY <1>1, <3>1 DEF IsFrame
  <2> HIDE DEF g
  <2>2. [g EXCEPT !.climb = None] =
            [todo |-> g.todo, loop |-> g.loop, files |-> g.files, id |-> g.id, chain |-> g.chain, climb |-> None]
      BY <2>1
  <2>3. g.loop = Top.loop /\ g.files = Top.files /\ g.id = Top.id /\ g.chain = Top.chain
      BY <2>1
  <2>4. [g EXCEPT !.climb = None] = f
      BY <2>1, <2>2, <2>3
  <2> QED BY <2>4 DEF g
<1>3. Rest = [frames EXCEPT ![n] = f]
  <2>1. Rest = [[frames EXCEPT ![n] = [Top EXCEPT !.todo = Tail(Top.todo)]]
                  EXCEPT ![n] = [[Top EXCEPT !.todo = Tail(Top.todo)] EXCEPT !.climb = None]]
    <3> DEFINE g == [frames EXCEPT ![n] = [Top EXCEPT !.todo = Tail(Top.todo)]]
    <3>1. g[n] = [Top EXCEPT !.todo = Tail(Top.todo)]
        BY <1>1
    <3>2. Rest = [g EXCEPT ![n] = [g[n] EXCEPT !.climb = None]]
        BY <1>1 DEF Rest
    <3> QED BY <3>1, <3>2
  <2> HIDE DEF f
  <2> QED BY <1>1, <1>2, <2>1
<1>4. IsFrame(f)
    BY <1>1, NodeTyped DEF IsFrame
<1>5. f.loop = Top.loop /\ f.id = Top.id /\ f.chain = Top.chain /\ f.files = Top.files /\ f.todo = Tail(Top.todo)
    OBVIOUS
<1> HIDE DEF f
<1> QED BY <1>3, <1>4, <1>5, OnwardTop, NodeTyped

\* They keep the invariant, and so does a frame put on top of them.
LEMMA OnwardKeeps ==
    ASSUME IInv, frames # <<>>, NEW fs, Onward(fs)
    PROVE  FramesInv(fs, fileMap)
<1> DEFINE n == Len(frames)
<1>1. n \in Nat \ {0} /\ DOMAIN frames = 1 .. n /\ Top = frames[n] /\ Good(Top, fileMap)
    BY TopTyped DEF IInv, FramesInv
<1>2. DOMAIN fs = 1 .. n /\ \A i \in 1 .. n : fs[i].loop = frames[i].loop /\ fs[i].chain = frames[i].chain
    BY <1>1 DEF Onward
<1>3. Good(fs[n], fileMap)
    BY <1>1 DEF Good, Onward, ToSet
<1>4. \A i \in 1 .. n : Good(fs[i], fileMap)
    BY <1>1, <1>3 DEF IInv, FramesInv, Onward
<1>5. \A i \in 1 .. n : Straight(fs, i) => Straight(frames, i)
    BY <1>1, <1>2 DEF Straight
<1> QED BY <1>1, <1>2, <1>4, <1>5 DEF IInv, FramesInv, Onward

\* A good frame on top of good frames keeps the invariant of the stack.
LEMMA PushKeeps ==
    ASSUME NEW fs, NEW map, FramesInv(fs, map), NEW f, Good(f, map),
           Straight(fs, Len(fs)) /\ f.loop = None => IsInjective(f.chain)
    PROVE  FramesInv(Append(fs, f), map)
<1> DEFINE gs == Append(fs, f)
           n == Len(fs)
<1>1. n \in Nat /\ DOMAIN fs = 1 .. n /\ fs \in Seq(ToSet(fs))
    BY DEF FramesInv
<1>2. /\ DOMAIN gs = 1 .. n + 1 /\ gs[n + 1] = f /\ \A i \in 1 .. n : gs[i] = fs[i]
      /\ gs = [i \in 1 .. n + 1 |-> gs[i]] /\ Len(gs) = n + 1
    BY <1>1, AppendIs
<1>3. \A i \in 1 .. n + 1 : gs[i] \in ToSet(gs)
    BY <1>2 DEF ToSet
<1> HIDE DEF gs
<1>4. gs \in Seq(ToSet(gs))
    BY <1>1, <1>2, <1>3
<1>5. \A i \in 1 .. n : Straight(gs, i) => Straight(fs, i)
  <2>1. \A i \in 1 .. n : \A j \in 1 .. i : j \in 1 .. n
      BY <1>1
  <2> HIDE DEF n
  <2> QED BY <1>2, <2>1 DEF Straight
<1>6. Straight(gs, n + 1) => Straight(fs, n) /\ f.loop = None
  <2>1. n + 1 \in 1 .. n + 1 /\ \A i \in 1 .. n : i \in 1 .. n + 1
      BY <1>1
  <2> HIDE DEF n
  <2> QED BY <1>2, <2>1 DEF Straight
<1>7. \A i \in 1 .. n : Good(gs[i], map) /\ (Straight(gs, i) => IsInjective(gs[i].chain))
    BY <1>1, <1>2, <1>5 DEF FramesInv
<1>8. Good(gs[n + 1], map) /\ (Straight(gs, n + 1) => IsInjective(gs[n + 1].chain))
    BY <1>2, <1>6
<1>9. \A i \in 1 .. n + 1 : i = n + 1 \/ i \in 1 .. n
    BY <1>1
<1> QED BY <1>2, <1>4, <1>7, <1>8, <1>9 DEF FramesInv, gs

\* The map only grows: what it keeps for an id stays.
Grown(map) ==
    /\ map \in Seq(ToSet(map)) /\ DOMAIN fileMap \subseteq DOMAIN map
    /\ \A i \in DOMAIN fileMap : map[i] = fileMap[i]
    /\ \A i \in DOMAIN map : map[i].path \in Files \union Dirs

\* A file that is read gets the next id and takes none away.
LEMMA GrownMap ==
    ASSUME TypeOK, NEW path \in Files \union Dirs, NEW source
    PROVE  LET map == Append(fileMap, [path |-> path, source |-> source])
           IN  /\ Grown(map) /\ Len(fileMap) + 1 \in DOMAIN map
               /\ map[Len(fileMap) + 1] = [path |-> path, source |-> source]
<1> DEFINE x == [path |-> path, source |-> source]
           map == Append(fileMap, x)
           n == Len(fileMap)
<1>0. x.path = path
    OBVIOUS
<1> HIDE DEF x
<1>1. n \in Nat /\ DOMAIN fileMap = 1 .. n
    BY DEF TypeOK
<1>2. /\ DOMAIN map = 1 .. n + 1 /\ map[n + 1] = x /\ \A i \in 1 .. n : map[i] = fileMap[i]
      /\ map = [i \in 1 .. n + 1 |-> map[i]]
    BY <1>1, AppendIs DEF TypeOK
<1>3. \A i \in 1 .. n + 1 : map[i] \in ToSet(map)
    BY <1>2 DEF ToSet
<1> HIDE DEF map
<1>4. map \in Seq(ToSet(map))
    BY <1>1, <1>2, <1>3
<1>5. \A i \in 1 .. n + 1 : map[i].path \in Files \union Dirs
  <2>1. \A i \in 1 .. n + 1 : i = n + 1 \/ i \in 1 .. n
      BY <1>1
  <2> QED BY <1>0, <1>1, <1>2, <2>1 DEF TypeOK
<1> QED BY <1>1, <1>2, <1>4, <1>5 DEF Grown, map, x

\* What is said of ids stays true when more files are known.
LEMMA GrownKeeps ==
    ASSUME NEW map, Grown(map)
    PROVE  /\ \A id, node : From(fileMap, id, node) => From(map, id, node)
           /\ \A f : Good(f, fileMap) => Good(f, map)
           /\ \A fs : FramesInv(fs, fileMap) => FramesInv(fs, map)
<1>1. \A id, node : From(fileMap, id, node) => From(map, id, node)
    BY DEF From, Grown
<1>2. \A f : Good(f, fileMap) => Good(f, map)
    BY <1>1 DEF Good, Grown
<1> QED BY <1>1, <1>2 DEF FramesInv
-----------------------------------------------------------------------------
\* What a step does to the result: nothing, or one more value.
OutStep(r) == out' = Append(out, r)

OutSet == [id : Nat, node : Nodes, val : Scalars \union {None, Null}, dir : Dirs \union {None}]

\* A result is put behind the results so far.
LEMMA OutIs ==
    ASSUME TypeOK, NEW r \in OutSet, OutStep(r)
    PROVE  /\ out' \in Seq(OutSet) /\ Len(out) \in Nat
           /\ DOMAIN out = 1 .. Len(out) /\ DOMAIN out' = 1 .. Len(out) + 1
           /\ out'[Len(out) + 1] = r /\ \A i \in 1 .. Len(out) : out'[i] = out[i]
<1>1. out \in Seq(OutSet)
    BY DEF TypeOK, OutSet
<1> HIDE DEF OutSet
<1> QED BY <1>1 DEF OutStep

\* The value comes from a text; and if it is a secret, it is the one its directory
\* is known by now.
LEMMA OutKeeps ==
    ASSUME IInv, NEW r \in OutSet, OutStep(r), Grown(fileMap'), From(fileMap, r.id, r.node),
           \A d \in DOMAIN cache : d \in DOMAIN cache' /\ cache'[d] = cache[d],
           r.dir # None => r.dir \in DOMAIN cache' /\ r.val = cache'[r.dir][r.node.arg]
    PROVE  Origins' /\ Cached'
<1>1. \A i \in DOMAIN out' : i = Len(out) + 1 \/ i \in DOMAIN out
    BY OutIs DEF IInv
<1>2. out'[Len(out) + 1] = r /\ \A i \in DOMAIN out : out'[i] = out[i]
    BY OutIs DEF IInv
<1>3. \A id, node : From(fileMap, id, node) => From(fileMap', id, node)
    BY GrownKeeps
<1>4. Origins'
    BY <1>1, <1>2, <1>3 DEF IInv, Origins
<1>5. Cached'
    BY <1>1, <1>2 DEF IInv, Cached
<1> QED BY <1>4, <1>5

\* A step without a result keeps what is said of the results.
LEMMA SameOutKeeps ==
    ASSUME IInv, out' = out, Grown(fileMap'),
           \A d \in DOMAIN cache : d \in DOMAIN cache' /\ cache'[d] = cache[d]
    PROVE  Origins' /\ Cached'
<1>1. \A id, node : From(fileMap, id, node) => From(fileMap', id, node)
    BY GrownKeeps
<1> QED BY <1>1 DEF IInv, Origins, Cached

\* The place of a hole among the holes: it stays when more come after it.
LEMMA HolePlaces ==
    ASSUME TypeOK, NEW tag
    PROVE  /\ IsFiniteSet(Holes(tag)) /\ Cardinality(Holes(tag)) \in Nat
           /\ \A i \in Holes(tag) :
                Cardinality({j \in Holes(tag) : j <= i}) \in 1 .. Cardinality(Holes(tag))
<1>1. DOMAIN out = 1 .. Len(out) /\ Len(out) \in Nat
    BY DEF TypeOK
<1>2. IsFiniteSet(1 .. Len(out)) /\ Holes(tag) \subseteq 1 .. Len(out)
    BY <1>1, FS_Interval DEF Holes
<1>3. IsFiniteSet(Holes(tag)) /\ Cardinality(Holes(tag)) \in Nat
    BY <1>2, FS_Subset, FS_CardinalityType
<1>4. ASSUME NEW i \in Holes(tag)
      PROVE  Cardinality({j \in Holes(tag) : j <= i}) \in 1 .. Cardinality(Holes(tag))
  <2> DEFINE P == {j \in Holes(tag) : j <= i}
  <2>1. P \subseteq Holes(tag) /\ i \in P
      BY <1>2
  <2> HIDE DEF P
  <2>2. IsFiniteSet(P) /\ Cardinality(P) <= Cardinality(Holes(tag)) /\ Cardinality(P) \in Nat
      BY <1>3, <2>1, FS_Subset, FS_CardinalityType
  <2>3. Cardinality(P) # 0
      BY <2>1, <2>2, FS_EmptySet
  <2> QED BY <1>3, <2>2, <2>3 DEF P
<1> QED BY <1>3, <1>4

\* Where no hole of the tag comes, its misses stay.
LEMMA SameHoles ==
    ASSUME IInv, NEW tag \in MissTags, Holes(tag)' = Holes(tag), misses'[tag] = misses[tag], UNCHANGED options,
           \A i \in Holes(tag) : out'[i] = out[i] /\ fileMap'[out[i].id] = fileMap[out[i].id]
    PROVE  /\ Len(misses'[tag]) = Cardinality(Holes(tag)')
           /\ \A i \in Holes(tag)' : misses'[tag][Cardinality({j \in Holes(tag)' : j <= i})] =
                  [node |-> out'[i].node, file |-> fileMap'[out'[i].id].path]
           /\ Holes(tag)' # {} => tag \in options'.collect
<1>1. \A i \in Holes(tag)' : {j \in Holes(tag)' : j <= i} = {j \in Holes(tag) : j <= i}
    OBVIOUS
<1>2. \A i \in Holes(tag) : misses[tag][Cardinality({j \in Holes(tag) : j <= i})] =
          [node |-> out[i].node, file |-> fileMap[out[i].id].path]
    BY DEF IInv, MissesAreTheHoles
<1>3. ASSUME NEW i \in Holes(tag)'
      PROVE  misses'[tag][Cardinality({j \in Holes(tag)' : j <= i})] =
                 [node |-> out'[i].node, file |-> fileMap'[out'[i].id].path]
    BY <1>1, <1>2
<1> QED BY <1>3 DEF IInv, MissesAreTheHoles

\* A value that is there is no hole.
LEMMA ValueKeepsHoles ==
    ASSUME IInv, Grown(fileMap'), UNCHANGED <<options, misses>>,
           \/ out' = out
           \/ \E r \in OutSet : OutStep(r) /\ (r.val # Null \/ r.node.tag \notin MissTags)
    PROVE  MissesAreTheHoles'
<1>1. /\ \A tag \in MissTags : Holes(tag)' = Holes(tag)
      /\ \A tag \in MissTags : \A i \in Holes(tag) : out'[i] = out[i] /\ out[i].id \in DOMAIN fileMap
  <2>1. CASE out' = out
      BY <2>1 DEF Holes, IInv, Origins, From
  <2>2. ASSUME NEW r \in OutSet, OutStep(r), r.val # Null \/ r.node.tag \notin MissTags
        PROVE  /\ \A tag \in MissTags : Holes(tag)' = Holes(tag)
               /\ \A tag \in MissTags : \A i \in Holes(tag) : out'[i] = out[i] /\ out[i].id \in DOMAIN fileMap
    <3>1. \A i \in DOMAIN out' : i = Len(out) + 1 \/ i \in DOMAIN out
        BY <2>2, OutIs DEF IInv
    <3>2. DOMAIN out \subseteq DOMAIN out'
        BY <2>2, OutIs DEF IInv
    <3>3. out'[Len(out) + 1] = r /\ \A i \in DOMAIN out : out'[i] = out[i]
        BY <2>2, OutIs DEF IInv
    <3> QED BY <2>2, <3>1, <3>2, <3>3 DEF Holes, IInv, Origins, From
  <2> QED BY <2>1, <2>2
<1>2. \A tag \in MissTags : \A i \in Holes(tag) : fileMap'[out'[i].id] = fileMap[out[i].id]
    BY <1>1 DEF Grown
<1>3. ASSUME NEW tag \in MissTags
      PROVE  /\ Len(misses'[tag]) = Cardinality(Holes(tag)')
             /\ \A i \in Holes(tag)' : misses'[tag][Cardinality({j \in Holes(tag)' : j <= i})] =
                    [node |-> out'[i].node, file |-> fileMap'[out'[i].id].path]
             /\ Holes(tag)' # {} => tag \in options'.collect
    BY <1>1, <1>2, SameHoles
<1> QED BY <1>3 DEF MissesAreTheHoles

\* The hole of a miss comes last, and so does the miss.
LEMMA MissKeepsHoles ==
    ASSUME IInv, Grown(fileMap'), UNCHANGED options, NEW r \in OutSet, OutStep(r), r.val = Null,
           r.node.tag \in MissTags, r.node.tag \in options.collect, From(fileMap, r.id, r.node),
           misses' = [misses EXCEPT ![r.node.tag] =
                         Append(@, [node |-> r.node, file |-> fileMap[r.id].path])]
    PROVE  MissesAreTheHoles' /\ misses' \in [MissTags -> Seq([node : Nodes, file : Files])]
<1> DEFINE new == r.node.tag
           n == Len(out) + 1
           m == [node |-> r.node, file |-> fileMap[r.id].path]
<1>1. \A i \in DOMAIN out' : i = n \/ i \in DOMAIN out
    BY OutIs DEF IInv
<1>2. /\ Len(out) \in Nat /\ DOMAIN out = 1 .. Len(out) /\ n \in DOMAIN out' /\ DOMAIN out \subseteq DOMAIN out'
      /\ out'[n] = r /\ \A i \in DOMAIN out : out'[i] = out[i]
    BY OutIs DEF IInv
<1>3. m \in [node : Nodes, file : Files]
    BY DEF From, OutSet
<1>4. misses \in [MissTags -> Seq([node : Nodes, file : Files])]
    BY DEF IInv, TypeOK
<1>5. misses' = [misses EXCEPT ![new] = Append(misses[new], m)]
    BY <1>4
<1> HIDE DEF m
<1>6. misses' \in [MissTags -> Seq([node : Nodes, file : Files])]
  <2>1. Append(misses[new], m) \in Seq([node : Nodes, file : Files])
    <3> DEFINE M == [node : Nodes, file : Files]
    <3>1. misses[new] \in Seq(M) /\ m \in M
        BY <1>3, <1>4
    <3> HIDE DEF M
    <3>2. Append(misses[new], m) \in Seq(M)
        BY <3>1
    <3> QED BY <3>2 DEF M
  <2> QED BY <1>4, <1>5, <2>1
<1>7. ASSUME NEW tag \in MissTags, tag # new
      PROVE  Holes(tag)' = Holes(tag) /\ misses'[tag] = misses[tag]
  <2>1. Holes(tag)' = Holes(tag)
      BY <1>1, <1>2, <1>7 DEF Holes
  <2> QED BY <1>4, <1>5, <1>7, <2>1
<1>8. Holes(new)' = Holes(new) \union {n} /\ n \notin Holes(new)
  <2>1. n \notin DOMAIN out
      BY <1>2
  <2> QED BY <1>1, <1>2, <2>1 DEF Holes
<1>9. \A tag : \A i \in Holes(tag) : i \in Nat /\ i < n /\ fileMap'[out'[i].id] = fileMap[out[i].id] /\ out'[i] = out[i]
    BY <1>2 DEF Holes, Grown, IInv, Origins, From
<1>10. fileMap'[r.id] = fileMap[r.id]
    BY DEF Grown, From
<1> DEFINE c == Cardinality(Holes(new))
<1>11. c \in Nat /\ IsFiniteSet(Holes(new)) /\ Cardinality(Holes(new)') = c + 1
  <2>1. IsFiniteSet(Holes(new)) /\ c \in Nat
      BY HolePlaces DEF IInv
  <2> QED BY <1>8, <2>1, FS_AddElement
<1>12. Len(misses[new]) = c /\ misses[new] \in Seq([node : Nodes, file : Files])
    BY <1>4 DEF IInv, MissesAreTheHoles
<1>13. Len(misses'[new]) = c + 1 /\ misses'[new][c + 1] = m /\ \A k \in 1 .. c : misses'[new][k] = misses[new][k]
  <2>1. misses'[new] = Append(misses[new], m)
      BY <1>4, <1>5
  <2> HIDE DEF c
  <2> QED BY <1>12, <2>1, AppendIs
<1>14. ASSUME NEW i \in Holes(new)
       PROVE  {j \in Holes(new)' : j <= i} = {j \in Holes(new) : j <= i}
  <2>1. ~(n <= i)
      BY <1>2, <1>9
  <2> HIDE DEF n
  <2> QED BY <1>8, <2>1
<1>15. {j \in Holes(new)' : j <= n} = Holes(new)'
  <2>1. n <= n /\ \A j \in Holes(new) : j <= n
      BY <1>2, <1>9
  <2> HIDE DEF n
  <2> QED BY <1>8, <2>1
<1>16. ASSUME NEW i \in Holes(new)'
       PROVE  misses'[new][Cardinality({j \in Holes(new)' : j <= i})] =
                  [node |-> out'[i].node, file |-> fileMap'[out'[i].id].path]
  <2>1. CASE i = n
    <3>1. Cardinality({j \in Holes(new)' : j <= i}) = c + 1
        BY <1>11, <1>15, <2>1
    <3> QED BY <1>2, <1>10, <1>13, <2>1, <3>1 DEF m
  <2>2. CASE i \in Holes(new)
    <3>1. Cardinality({j \in Holes(new) : j <= i}) \in 1 .. c
        BY <2>2, HolePlaces DEF IInv
    <3>2. misses[new][Cardinality({j \in Holes(new) : j <= i})] =
              [node |-> out[i].node, file |-> fileMap[out[i].id].path]
        BY <2>2 DEF IInv, MissesAreTheHoles
    <3>3. Cardinality({j \in Holes(new)' : j <= i}) = Cardinality({j \in Holes(new) : j <= i})
        BY <1>14, <2>2
    <3> QED BY <1>9, <1>13, <2>2, <3>1, <3>2, <3>3
  <2> QED BY <1>8, <2>1, <2>2
<1>17. ASSUME NEW tag \in MissTags, tag # new
       PROVE  /\ Len(misses'[tag]) = Cardinality(Holes(tag)')
              /\ \A i \in Holes(tag)' : misses'[tag][Cardinality({j \in Holes(tag)' : j <= i})] =
                     [node |-> out'[i].node, file |-> fileMap'[out'[i].id].path]
              /\ Holes(tag)' # {} => tag \in options'.collect
    BY <1>7, <1>9, <1>17, SameHoles
<1>18. MissesAreTheHoles'
    BY <1>11, <1>13, <1>16, <1>17 DEF MissesAreTheHoles
<1> QED BY <1>6, <1>18
-----------------------------------------------------------------------------
\* A load that fails keeps all it has.
LEMMA FailKeeps ==
    ASSUME IInv, frames # <<>>, NEW kind \in Kinds \ {"done"}, Fail(kind)
    PROVE  IInv'
<1> USE DEF IInv, Fail
<1>1. TypeOK'
    BY DEF TypeOK
<1>2. FramesInv(frames, fileMap)' /\ Origins' /\ Cached' /\ CacheTyped'
    BY DEF Origins, Cached, CacheTyped
<1>3. MissesAreTheHoles'
    BY DEF MissesAreTheHoles, Holes
<1> QED BY <1>1, <1>2, <1>3

\* Knowing no more files is a case of it.
LEMMA SameMapGrown == ASSUME TypeOK, fileMap' = fileMap PROVE Grown(fileMap')
BY DEF Grown, TypeOK

\* The types of the frames follow from their part of the invariant.
LEMMA FramesTyped ==
    ASSUME FramesInv(frames, fileMap)
    PROVE  /\ frames \in Seq(ToSet(frames))
           /\ \A i \in DOMAIN frames :
                IsFrame(frames[i]) /\ frames[i].id \in DOMAIN fileMap /\ Len(frames[i].chain) <= MaxDepth
BY DEF FramesInv, Good

\* A step that yields a value for the node at hand.
LEMMA EmitKeeps ==
    ASSUME IInv, status = "running", frames # <<>>, Top.todo # <<>>,
           NEW val \in Scalars \union {None, Null}, NEW dir \in Dirs \union {None}, Emit(val, dir),
           UNCHANGED <<world, changes, options, status, expansions>>, Grown(fileMap'), CacheTyped',
           \A d \in DOMAIN cache : d \in DOMAIN cache' /\ cache'[d] = cache[d],
           dir # None => dir \in DOMAIN cache' /\ val = cache'[dir][Node.arg],
           \/ val # Null /\ UNCHANGED misses
           \/ Node.tag \notin MissTags /\ UNCHANGED misses
           \/ val = Null /\ Node.tag \in MissTags /\ Node.tag \in options.collect /\ Miss
    PROVE  IInv'
<1> USE DEF IInv
<1> DEFINE r == [id |-> Top.id, node |-> Node, val |-> val, dir |-> dir]
<1>1. OutStep(r) /\ frames' = Rest
    BY DEF Emit, OutStep
<1>2. From(fileMap, Top.id, Node)
  <2>1. Good(Top, fileMap)
      BY TopTyped DEF FramesInv
  <2> QED BY <2>1, NodeTyped DEF Good
<1>3. r \in OutSet
  <2>1. Top.id \in Nat /\ Node \in Nodes
      BY TopTyped, NodeTyped DEF IsFrame
  <2> QED BY <2>1 DEF OutSet
<1>4. r.id = Top.id /\ r.node = Node /\ r.val = val /\ r.dir = dir
    OBVIOUS
<1> HIDE DEF r
<1>5. Origins' /\ Cached'
    BY <1>1, <1>2, <1>3, <1>4, OutKeeps
<1>6. MissesAreTheHoles' /\ misses' \in [MissTags -> Seq([node : Nodes, file : Files])]
  <2>1. CASE UNCHANGED misses /\ (val # Null \/ Node.tag \notin MissTags)
    <3>1. MissesAreTheHoles'
        BY <1>1, <1>3, <1>4, <2>1, ValueKeepsHoles
    <3> QED BY <2>1, <3>1 DEF TypeOK
  <2>2. CASE val = Null /\ Node.tag \in MissTags /\ Node.tag \in options.collect /\ Miss
    <3>1. misses' = [misses EXCEPT ![r.node.tag] = Append(@, [node |-> r.node, file |-> fileMap[r.id].path])]
        BY <1>4, <2>2 DEF Miss, Requester
    <3> QED BY <1>1, <1>2, <1>3, <1>4, <2>2, <3>1, MissKeepsHoles
  <2> QED BY <2>1, <2>2
<1>7. FramesInv(frames, fileMap)'
    BY <1>1, RestIs, OnwardKeeps, GrownKeeps
<1>8. frames' # <<>>
  <2>1. Len(frames') = Len(frames) /\ Len(frames) # 0
      BY <1>1, RestIs, TopTyped DEF Onward
  <2> QED BY <2>1
<1>9. out' \in Seq(OutSet)
    BY <1>1, <1>3, OutIs
<1>10. TypeOK'
  <2>1. fileMap' \in Seq(ToSet(fileMap')) /\ \A i \in DOMAIN fileMap' : fileMap'[i].path \in Files \union Dirs
      BY DEF Grown
  <2>2. /\ frames' \in Seq(ToSet(frames'))
        /\ \A i \in DOMAIN frames' :
             IsFrame(frames'[i]) /\ frames'[i].id \in DOMAIN fileMap' /\ Len(frames'[i].chain) <= MaxDepth
      BY <1>7 DEF FramesInv, Good
  <2> QED BY <1>6, <1>8, <1>9, <2>1, <2>2 DEF TypeOK, OutSet
<1> QED BY <1>5, <1>6, <1>7, <1>10

\* A node that is no directive is taken over as it is.
LEMMA PlainKeeps == ASSUME IInv, Plain PROVE IInv'
<1>1. Node \in Nodes /\ TypeOK
    BY NodeTyped DEF Plain, IInv
<1>2. Node.arg \in Scalars \union {None} /\ Node.arg # Null
    BY <1>1, IncludeAssumption DEF Nodes
<1>3. Grown(fileMap') /\ CacheTyped'
    BY <1>1, SameMapGrown DEF Plain, IInv, CacheTyped
<1> QED BY <1>2, <1>3, EmitKeeps DEF Plain

\* A variable, what follows its name, or a miss.
LEMMA EnvVarKeeps == ASSUME IInv, EnvVar PROVE IInv'
<1> USE DEF IInv
<1>0. status = "running" /\ frames # <<>> /\ Top.todo # <<>> /\ Node.tag = "!env_var"
    BY DEF EnvVar, At
<1>1. Node \in Nodes /\ TypeOK
    BY <1>0, NodeTyped
<1>2. Grown(fileMap') /\ CacheTyped' /\ UNCHANGED <<world, changes, options, cache, expansions>>
    BY <1>1, SameMapGrown DEF EnvVar, CacheTyped
<1>3. CASE Node.arg \in DOMAIN world.env /\ Emit(world.env[Node.arg], None) /\ UNCHANGED <<misses, status>>
  <2>1. world.env[Node.arg] \in Scalars /\ world.env[Node.arg] # Null
      BY <1>1, <1>3, IncludeAssumption DEF TypeOK, IsWorld
  <2> QED BY <1>0, <1>2, <1>3, <2>1, EmitKeeps
<1>4. CASE Node.default # None /\ Emit(Node.default, None) /\ UNCHANGED <<misses, status>>
  <2>1. Node.default \in Scalars /\ Node.default # Null
      BY <1>1, <1>4, IncludeAssumption DEF Nodes
  <2> QED BY <1>0, <1>2, <1>4, <2>1, EmitKeeps
<1>5. CASE "!env_var" \in options.collect /\ Emit(Null, None) /\ Miss /\ UNCHANGED status
    BY <1>0, <1>2, <1>5, EmitKeeps DEF MissTags
<1>6. CASE status' = "env_var_undefined" /\ UNCHANGED <<misses, frames, out>>
  <2>1. Fail("env_var_undefined")
      BY <1>6 DEF EnvVar, Fail
  <2> QED BY <1>0, <2>1, FailKeeps DEF Kinds
<1> QED BY <1>3, <1>4, <1>5, <1>6 DEF EnvVar
-----------------------------------------------------------------------------
\* The nodes that are resolved are nodes of the text.
LEMMA TakenFrom ==
    ASSUME NEW docs \in Docs, docs \notin {Absent, Unreadable}, NEW loop
    PROVE  /\ Taken(loop, docs) \in Seq(Nodes)
           /\ \A k \in DOMAIN Taken(loop, docs) : Taken(loop, docs)[k] \in Sources(docs)
<1>1. FlattenSeq(docs) \in Seq(Nodes) /\ ToSet(FlattenSeq(docs)) = UNION {ToSet(docs[i]) : i \in DOMAIN docs}
    BY FlattenSeqElements DEF Docs
<1>2. CASE loop = "!include_dir_list"
    BY <1>1, <1>2 DEF Taken, Sources, ToSet
<1>3. CASE loop # "!include_dir_list" /\ docs = <<>>
    BY <1>3 DEF Taken
<1>4. CASE loop # "!include_dir_list" /\ docs # <<>>
  <2>1. 1 \in DOMAIN docs /\ docs[1] \in Seq(Nodes) /\ Taken(loop, docs) = docs[1]
      BY <1>4 DEF Docs, Taken
  <2>2. \A k \in DOMAIN docs[1] : docs[1][k] \in ToSet(docs[1])
      BY DEF ToSet
  <2>3. ToSet(docs[1]) \subseteq ToSet(FlattenSeq(docs))
      BY <1>1, <2>1
  <2> QED BY <2>1, <2>2, <2>3 DEF Sources
<1> QED BY <1>2, <1>3, <1>4

\* A chain without a file of its own gets one more file.
LEMMA ChainGrows ==
    ASSUME NEW chain \in Seq(Files), NEW path \in Files, path \notin ToSet(chain), IsInjective(chain)
    PROVE  IsInjective(Append(chain, path))
<1>1. \A i \in 1 .. Len(chain) : chain[i] # path
    BY DEF ToSet
<1>2. \A i \in DOMAIN Append(chain, path) : i = Len(chain) + 1 \/ i \in 1 .. Len(chain)
    OBVIOUS
<1>3. Append(chain, path)[Len(chain) + 1] = path /\ \A i \in 1 .. Len(chain) : Append(chain, path)[i] = chain[i]
    OBVIOUS
<1>4. \A i, j \in 1 .. Len(chain) : chain[i] = chain[j] => i = j
    BY DEF IsInjective
<1> QED BY <1>1, <1>2, <1>3, <1>4 DEF IsInjective

\* A file that is read: its nodes carry the id its text is kept for.
LEMMA OpenedKeeps ==
    ASSUME IInv, status = "running", frames # <<>>, NEW path, NEW loop, NEW before, Onward(before),
           Len(Top.chain) < MaxDepth, expansions < MaxExpansions, Readable(path),
           Straight(before, Len(before)) => path \notin ToSet(Top.chain),
           Opened(path, loop, before, Len(fileMap) + 1)
    PROVE  IInv'
<1> USE DEF IInv
<1> DEFINE docs == world.disk[path]
           id == Len(fileMap) + 1
           f == Frame(Taken(loop, docs), None, <<>>, id, Append(Top.chain, path))
<1>1. path \in Files /\ docs \in Docs /\ docs \notin {Absent, Unreadable}
    BY DEF Readable, TypeOK, IsWorld, Texts
<1>2. fileMap' = Append(fileMap, [path |-> path, source |-> docs]) /\ frames' = Append(before, f)
      /\ expansions' = expansions + 1 /\ UNCHANGED <<world, changes, options, status, cache, misses, warnings, out>>
    BY DEF Opened
<1>3. Grown(fileMap') /\ id \in DOMAIN fileMap' /\ fileMap'[id].path = path /\ fileMap'[id].source = docs
  <2> HIDE DEF docs, id
  <2> QED BY <1>1, <1>2, GrownMap DEF id
<1>4. Top.chain \in Seq(Files) /\ Len(Top.chain) \in Nat
    BY TopTyped DEF IsFrame
<1>5. Append(Top.chain, path) \in Seq(Files) /\ Len(Append(Top.chain, path)) = Len(Top.chain) + 1
    BY <1>1, <1>4
<1>6. Good(f, fileMap')
  <2>1. /\ f.todo = Taken(loop, docs) /\ f.loop = None /\ f.files = <<>> /\ f.id = id
        /\ f.chain = Append(Top.chain, path) /\ f.climb = None
      BY DEF Frame
  <2>2. id \in Nat
      BY DEF TypeOK
  <2>3. Taken(loop, docs) \in Seq(Nodes)
        /\ \A k \in DOMAIN Taken(loop, docs) : Taken(loop, docs)[k] \in Sources(docs)
      BY <1>1, TakenFrom
  <2>4. IsFrame(f)
    <3> HIDE DEF docs, id
    <3> QED BY <1>5, <2>2, <2>3 DEF IsFrame, Frame
  <2>5. Len(f.chain) <= MaxDepth
      BY <1>4, <1>5, <2>1, IncludeAssumption
  <2>6. \A k \in DOMAIN f.todo : From(fileMap', f.id, f.todo[k])
      BY <1>1, <1>3, <2>1, <2>3 DEF From
  <2> HIDE DEF f
  <2> QED BY <1>3, <2>1, <2>4, <2>5, <2>6 DEF Good
<1>7. FramesInv(before, fileMap')
    BY <1>3, OnwardKeeps, GrownKeeps
<1>8. Straight(before, Len(before)) /\ f.loop = None => IsInjective(f.chain)
  <2> SUFFICES ASSUME Straight(before, Len(before)) PROVE IsInjective(f.chain)
      OBVIOUS
  <2>1. Len(before) = Len(frames) /\ Len(frames) \in Nat \ {0} /\ before[Len(frames)].chain = Top.chain
      BY TopTyped DEF Onward
  <2>2. IsInjective(Top.chain)
    <3>1. FramesInv(before, fileMap) /\ Len(frames) \in DOMAIN before
        BY <2>1, OnwardKeeps DEF Onward
    <3> QED BY <2>1, <3>1 DEF FramesInv
  <2>3. IsInjective(Append(Top.chain, path))
      BY <1>1, <1>4, <2>2, ChainGrows
  <2> QED BY <2>3 DEF Frame
<1>9. FramesInv(frames', fileMap')
  <2> HIDE DEF f
  <2> QED BY <1>2, <1>6, <1>7, <1>8, PushKeeps
<1>10. Origins' /\ Cached'
    BY <1>2, <1>3, SameOutKeeps
<1>11. MissesAreTheHoles'
    BY <1>2, <1>3, ValueKeepsHoles
<1>12. TypeOK'
  <2>1. expansions' \in 0 .. MaxExpansions
      BY <1>2, IncludeAssumption DEF TypeOK
  <2>2. fileMap' \in Seq(ToSet(fileMap')) /\ \A i \in DOMAIN fileMap' : fileMap'[i].path \in Files \union Dirs
      BY <1>3 DEF Grown
  <2>3. /\ frames' \in Seq(ToSet(frames'))
        /\ \A i \in DOMAIN frames' :
             IsFrame(frames'[i]) /\ frames'[i].id \in DOMAIN fileMap' /\ Len(frames'[i].chain) <= MaxDepth
      BY <1>9 DEF FramesInv, Good
  <2>4. frames' # <<>>
    <3> HIDE DEF f
    <3>1. Len(frames') = Len(before) + 1 /\ Len(before) \in Nat
        BY <1>2, <1>7, AppendIs DEF FramesInv
    <3> QED BY <3>1
  <2> QED BY <1>2, <2>1, <2>2, <2>3, <2>4 DEF TypeOK
<1>13. CacheTyped'
    BY <1>2 DEF CacheTyped
<1> QED BY <1>9, <1>10, <1>11, <1>12, <1>13

\* Reading a file pushes its frame, under an id of its own.
LEMMA ReadKeeps ==
    ASSUME IInv, status = "running", frames # <<>>, NEW path, NEW loop, NEW before, Onward(before),
           Len(Top.chain) < MaxDepth, Read(path, loop, before),
           Straight(before, Len(before)) => path \notin ToSet(Top.chain)
    PROVE  IInv'
<1>1. CASE Fail("depth") \/ Fail("unreadable")
    BY <1>1, FailKeeps DEF Kinds
<1>2. CASE expansions < MaxExpansions /\ Readable(path) /\ Opened(path, loop, before, Len(fileMap) + 1)
    BY <1>2, OpenedKeeps
<1>3. ~(expansions >= MaxExpansions) => expansions < MaxExpansions
    BY IncludeAssumption DEF IInv, TypeOK
<1> QED BY <1>1, <1>2, <1>3 DEF Read

\* An !include names no file of its own chain.
LEMMA IncludeKeeps == ASSUME IInv, Include PROVE IInv'
<1>1. status = "running" /\ frames # <<>> /\ Top.todo # <<>> /\ TypeOK
    BY DEF Include, At, IInv
<1>2. CASE Refusal # "none" /\ Fail(Refusal)
    BY <1>1, <1>2, FailKeeps DEF Refusal, Kinds
<1>3. CASE Fail("circular")
    BY <1>1, <1>3, FailKeeps DEF Kinds
<1>4. CASE Refusal = "none" /\ Target \notin ToSet(Top.chain) /\ Read(Target, None, Rest)
  <2>1. Len(Top.chain) < MaxDepth
    <3>1. Len(Top.chain) \in Nat
        BY <1>1, TopTyped DEF IsFrame
    <3>2. ~(Len(Top.chain) >= MaxDepth)
        BY <1>4 DEF Refusal
    <3> QED BY <3>1, <3>2, IncludeAssumption
  <2> QED BY <1>1, <1>4, <2>1, RestIs, ReadKeeps
<1> QED BY <1>2, <1>3, <1>4 DEF Include

\* A directory begins within the limit, and its files count as listed.
LEMMA IncludeDirKeeps ==
    ASSUME IInv, NEW tag \in {"!include_dir_named", "!include_dir_list"}, IncludeDir(tag)
    PROVE  IInv'
<1>1. status = "running" /\ frames # <<>> /\ Top.todo # <<>> /\ TypeOK
    BY DEF IncludeDir, At, IInv
<1>2. CASE Refusal # "none" /\ Fail(Refusal)
    BY <1>1, <1>2, FailKeeps DEF Refusal, Kinds
<1>3. CASE /\ Refusal = "none" /\ frames' = Append(Rest, Frame(<<>>, tag, Listing(Target), Top.id, Top.chain))
           /\ UNCHANGED <<world, changes, options, status, fileMap, cache, expansions, misses, warnings, out>>
  <2> DEFINE f == Frame(<<>>, tag, Listing(Target), Top.id, Top.chain)
  <2>1. Top.chain \in Seq(Files) /\ Len(Top.chain) \in Nat /\ Top.id \in Nat
      BY <1>1, TopTyped DEF IsFrame
  <2>2. Len(Top.chain) < MaxDepth
    <3>1. ~(Len(Top.chain) >= MaxDepth)
        BY <1>3 DEF Refusal
    <3> QED BY <2>1, <3>1, IncludeAssumption
  <2>3. /\ f.todo = <<>> /\ f.loop = tag /\ f.id = Top.id /\ f.chain = Top.chain /\ f.climb = None
        /\ f = [todo |-> <<>>, loop |-> tag, files |-> f.files, id |-> Top.id, chain |-> Top.chain, climb |-> None]
      BY DEF Frame
  <2>4. tag # None
      BY IncludeAssumption
  <2> HIDE DEF f
  <2>5. IsFrame(f)
    <3>1. <<>> \in Seq(Nodes) /\ tag \in {None, "!include_dir_named", "!include_dir_list"}
        OBVIOUS
    <3>2. \A files : [todo |-> <<>>, loop |-> tag, files |-> files, id |-> Top.id, chain |-> Top.chain, climb |-> None]
              \in [todo : Seq(Nodes), loop : {None, "!include_dir_named", "!include_dir_list"}, files : {files},
                   id : Nat, chain : Seq(Files), climb : Dirs \union {None}]
        BY <2>1, <3>1
    <3> QED BY <2>3, <3>2 DEF IsFrame
  <2>6. Good(f, fileMap)
      BY <1>1, <2>2, <2>3, <2>4, <2>5, TopTyped, IncludeAssumption DEF Good
  <2>7. FramesInv(Rest, fileMap)
      BY <1>1, RestIs, OnwardKeeps
  <2>8. FramesInv(frames', fileMap') /\ frames' # <<>>
    <3>1. frames' = Append(Rest, f) /\ fileMap' = fileMap
        BY <1>3 DEF f
    <3>2. Len(frames') = Len(Rest) + 1 /\ Len(Rest) \in Nat
        BY <2>7, <3>1, AppendIs DEF FramesInv
    <3> QED BY <2>3, <2>4, <2>6, <2>7, <3>1, <3>2, PushKeeps
  <2>9. TypeOK'
    <3>1. /\ frames' \in Seq(ToSet(frames'))
          /\ \A i \in DOMAIN frames' :
               IsFrame(frames'[i]) /\ frames'[i].id \in DOMAIN fileMap' /\ Len(frames'[i].chain) <= MaxDepth
        BY <2>8 DEF FramesInv, Good
    <3> QED BY <1>1, <1>3, <2>8, <3>1 DEF TypeOK
  <2>10. Grown(fileMap')
      BY <1>1, <1>3, SameMapGrown
  <2>11. Origins' /\ Cached' /\ CacheTyped' /\ MissesAreTheHoles'
      BY <1>3, <2>10, SameOutKeeps, ValueKeepsHoles DEF IInv, CacheTyped
  <2> QED BY <2>8, <2>9, <2>11 DEF IInv
<1> QED BY <1>2, <1>3 DEF IncludeDir

\* The files of a directory are read with the chain of the directive.
LEMMA DirFileKeeps == ASSUME IInv, DirFile PROVE IInv'
<1> DEFINE n == Len(frames)
           f == [Top EXCEPT !.files = Tail(@)]
           before == [frames EXCEPT ![n] = f]
<1>1. status = "running" /\ frames # <<>> /\ Top.files # <<>> /\ TypeOK
    BY DEF DirFile, IInv
<1>2. n \in Nat \ {0} /\ DOMAIN frames = 1 .. n /\ Top = frames[n] /\ IsFrame(Top) /\ Good(Top, fileMap)
    BY <1>1, TopTyped DEF IInv, FramesInv
<1>3. Read(Head(Top.files), Top.loop, before)
    BY <1>2 DEF DirFile
<1>4. /\ f.loop = Top.loop /\ f.id = Top.id /\ f.chain = Top.chain /\ f.todo = Top.todo
      /\ f \in [todo : Seq(Nodes), loop : {None, "!include_dir_named", "!include_dir_list"}, files : {f.files},
                id : Nat, chain : Seq(Files), climb : Dirs \union {None}]
    BY <1>2 DEF IsFrame
<1>5. IsFrame(f)
    BY <1>4 DEF IsFrame
<1> HIDE DEF f
<1>6. Onward(before)
    BY <1>1, <1>4, <1>5, OnwardTop DEF ToSet
<1>7. Top.loop # None /\ Len(Top.chain) < MaxDepth
    BY <1>1, <1>2 DEF Good
<1> HIDE DEF before
<1>8. ~Straight(before, Len(before))
  <2>1. n \in 1 .. n /\ Len(before) = n /\ before[n].loop # None
      BY <1>2, <1>6, <1>7 DEF Onward
  <2> QED BY <2>1 DEF Straight
<1> QED BY <1>1, <1>3, <1>6, <1>7, <1>8, ReadKeeps

\* The frames below are what they were.
LEMMA ReturnKeeps == ASSUME IInv, Return PROVE IInv'
<1> USE DEF IInv
<1> DEFINE n == Len(frames)
<1>1. /\ n \in Nat \ {0} /\ DOMAIN frames = 1 .. n /\ TypeOK /\ status = "running"
      /\ frames' = Front(frames) /\ status' = IF n = 1 THEN "done" ELSE status
      /\ UNCHANGED <<world, changes, options, fileMap, cache, expansions, misses, warnings, out>>
    BY TopTyped DEF Return
<1>2. DOMAIN frames' = 1 .. n - 1 /\ \A i \in 1 .. n - 1 : frames'[i] = frames[i]
  <2>1. frames \in Seq(ToSet(frames))
      BY DEF TypeOK
  <2> QED BY <1>1, <2>1 DEF Front
<1>3. frames' \in Seq(ToSet(frames'))
  <2>1. \A i \in 1 .. n - 1 : frames'[i] \in ToSet(frames')
      BY <1>2 DEF ToSet
  <2>2. frames' = [i \in 1 .. n - 1 |-> frames'[i]]
      BY <1>1, <1>2 DEF Front
  <2> HIDE DEF n
  <2> QED BY <1>1, <2>1, <2>2
<1>4. frames' = <<>> <=> n = 1
    BY <1>1, <1>2, <1>3
<1>5. FramesInv(frames, fileMap)'
  <2>1. \A i \in 1 .. n - 1 : i \in 1 .. n /\ \A j \in 1 .. i : j \in 1 .. n - 1
      BY <1>1
  <2> HIDE DEF n
  <2>2. \A i \in 1 .. n - 1 : Straight(frames', i) => Straight(frames, i)
      BY <1>1, <1>2, <2>1 DEF Straight
  <2> QED BY <1>1, <1>2, <1>3, <2>1, <2>2 DEF FramesInv
<1>6. TypeOK'
  <2>1. \A i \in DOMAIN frames' :
            IsFrame(frames'[i]) /\ frames'[i].id \in DOMAIN fileMap' /\ Len(frames'[i].chain) <= MaxDepth
      BY <1>5 DEF FramesInv, Good
  <2> HIDE DEF n
  <2> QED BY <1>1, <1>3, <1>4, <2>1 DEF TypeOK, Kinds
<1>7. Grown(fileMap')
    BY <1>1, SameMapGrown
<1>8. Origins' /\ Cached' /\ CacheTyped' /\ MissesAreTheHoles'
    BY <1>1, <1>7, SameOutKeeps, ValueKeepsHoles DEF CacheTyped
<1> QED BY <1>5, <1>6, <1>8
-----------------------------------------------------------------------------
\* Where a secret is looked for, and what is known there.
LEMMA SearchTyped ==
    ASSUME IInv, frames # <<>>, Top.todo # <<>>
    PROVE  /\ Requester \in Files /\ Searched \in Dirs
           /\ world.secrets[Searched] \in Maps
<1>1. From(fileMap, Top.id, Node) /\ IsFrame(Top)
  <2>1. Good(Top, fileMap) /\ IsFrame(Top)
      BY TopTyped DEF IInv, FramesInv
  <2> QED BY <2>1, NodeTyped DEF Good, IInv
<1>2. Requester \in Files
    BY <1>1 DEF From, Requester
<1>3. Searched \in Dirs
    BY <1>1, <1>2, IncludeAssumption DEF Searched, Start, IsFrame
<1> QED BY <1>2, <1>3 DEF IInv, TypeOK, IsWorld

\* The secrets a lookup finds are scalars.
LEMMA LoadedTyped ==
    ASSUME IInv, frames # <<>>, Top.todo # <<>>,
           ~(Searched \notin DOMAIN cache /\ world.secrets[Searched] = Unreadable)
    PROVE  \A n \in DOMAIN Loaded(Searched) : Loaded(Searched)[n] \in Scalars
<1>1. CASE Searched \in DOMAIN cache
    BY <1>1 DEF IInv, CacheTyped, Loaded
<1>2. CASE Searched \notin DOMAIN cache /\ world.secrets[Searched] = Absent
    BY <1>2 DEF Loaded, Usable
<1>3. CASE Searched \notin DOMAIN cache /\ world.secrets[Searched] # Absent
  <2> DEFINE map == world.secrets[Searched]
  <2>1. map \subseteq Scalars \X Scalars
      BY <1>3, SearchTyped DEF Maps
  <2>2. Loaded(Searched) = Defined(map)
      BY <1>3 DEF Loaded, Usable
  <2> HIDE DEF map
  <2>3. ASSUME NEW n \in Names(map) PROVE (CHOOSE p \in map : p[1] = n)[2] \in Scalars
    <3>1. \E p \in map : p[1] = n
        BY <2>3 DEF Names
    <3> QED BY <2>1, <3>1
  <2> QED BY <2>2, <2>3 DEF Defined
<1> QED BY <1>1, <1>2, <1>3

\* A secret is found, missed, or looked for one directory up.
LEMMA SecretKeeps == ASSUME IInv, Secret PROVE IInv'
<1> DEFINE map == Loaded(Searched)
           found == Node.arg \in DOMAIN map
<1>1. status = "running" /\ frames # <<>> /\ Top.todo # <<>> /\ TypeOK /\ Node.tag = "!secret"
    BY DEF Secret, At, IInv
<1>2. CASE Fail("invalid") \/ Fail("secret_not_found")
    BY <1>1, <1>2, FailKeeps DEF Kinds
<1>3. CASE /\ ~(Searched \notin DOMAIN cache /\ world.secrets[Searched] = Unreadable)
           /\ ~(~found /\ Searched = Base /\ "!secret" \notin options.collect)
           /\ SecretStep(map, found, ~found /\ Searched = Base, ~found /\ Searched # Base)
  <2>1. Searched \in Dirs /\ \A n \in DOMAIN map : map[n] \in Scalars
      BY <1>1, <1>3, SearchTyped, LoadedTyped
  <2>2. cache' = [d \in DOMAIN cache \union {Searched} |-> IF d = Searched THEN map ELSE cache[d]]
      BY <1>3 DEF SecretStep
  <2>3. Searched \in DOMAIN cache => map = cache[Searched]
      BY DEF Loaded
  <2>4. UNCHANGED <<world, changes, options, status, expansions>>
      BY <1>3 DEF SecretStep
  <2>5. Grown(fileMap')
    <3>1. \/ fileMap' = fileMap
          \/ fileMap' = Append(fileMap, [path |-> Searched, source |-> world.secrets[Searched]])
        BY <1>3 DEF SecretStep
    <3>2. \A source : Grown(Append(fileMap, [path |-> Searched, source |-> source]))
        BY <1>1, <2>1, GrownMap
    <3> QED BY <1>1, <3>1, <3>2, SameMapGrown
  <2> HIDE DEF map
  <2>6. CacheTyped'
      BY <2>1, <2>2 DEF IInv, CacheTyped
  <2>7. \A d \in DOMAIN cache : d \in DOMAIN cache' /\ cache'[d] = cache[d]
      BY <2>2, <2>3
  <2>8. CASE found /\ Emit(map[Node.arg], Searched) /\ UNCHANGED misses
    <3>1. map[Node.arg] \in Scalars /\ map[Node.arg] # Null
        BY <2>1, <2>8, IncludeAssumption
    <3>2. Searched \in DOMAIN cache' /\ map[Node.arg] = cache'[Searched][Node.arg]
        BY <2>2
    <3> QED BY <1>1, <2>1, <2>4, <2>5, <2>6, <2>7, <2>8, <3>1, <3>2, EmitKeeps
  <2>9. CASE ~found /\ Searched = Base /\ Emit(Null, None) /\ Miss
    <3>1. "!secret" \in options.collect /\ Node.tag \in MissTags
        BY <1>1, <1>3, <2>9 DEF MissTags
    <3> QED BY <1>1, <2>4, <2>5, <2>6, <2>7, <2>9, <3>1, EmitKeeps
  <2>10. CASE /\ frames' = [frames EXCEPT ![Len(frames)].climb = Parent[Searched]]
              /\ UNCHANGED <<misses, out>>
    <3> DEFINE f == [Top EXCEPT !.climb = Parent[Searched]]
    <3>1. IsFrame(Top) /\ Top = frames[Len(frames)] /\ Len(frames) \in Nat \ {0} /\ Parent[Searched] \in Dirs
        BY <1>1, <2>1, TopTyped, IncludeAssumption
    <3>2. frames' = [frames EXCEPT ![Len(frames)] = f]
        BY <2>10, <3>1
    <3>3. f.loop = Top.loop /\ f.id = Top.id /\ f.chain = Top.chain /\ f.todo = Top.todo /\ f.files = Top.files
          /\ f \in [todo : Seq(Nodes), loop : {None, "!include_dir_named", "!include_dir_list"}, files : {f.files},
                    id : Nat, chain : Seq(Files), climb : Dirs \union {None}]
        BY <3>1 DEF IsFrame
    <3>4. IsFrame(f)
        BY <3>3 DEF IsFrame
    <3> HIDE DEF f
    <3>5. Onward(frames')
        BY <1>1, <3>2, <3>3, <3>4, OnwardTop DEF ToSet
    <3>6. FramesInv(frames, fileMap)' /\ frames' # <<>>
      <4>1. Len(frames') = Len(frames)
          BY <3>5 DEF Onward
      <4>2. FramesInv(frames', fileMap')
          BY <1>1, <2>5, <3>5, OnwardKeeps, GrownKeeps
      <4> QED BY <3>1, <4>1, <4>2
    <3>7. Origins' /\ Cached' /\ MissesAreTheHoles'
        BY <2>4, <2>5, <2>7, <2>10, SameOutKeeps, ValueKeepsHoles
    <3>8. TypeOK'
      <4>1. /\ frames' \in Seq(ToSet(frames'))
            /\ \A i \in DOMAIN frames' :
                 IsFrame(frames'[i]) /\ frames'[i].id \in DOMAIN fileMap' /\ Len(frames'[i].chain) <= MaxDepth
          BY <3>6 DEF FramesInv, Good
      <4>2. fileMap' \in Seq(ToSet(fileMap')) /\ \A i \in DOMAIN fileMap' : fileMap'[i].path \in Files \union Dirs
          BY <2>5 DEF Grown
      <4> QED BY <1>1, <2>4, <2>10, <3>6, <4>1, <4>2 DEF TypeOK
    <3> QED BY <2>6, <3>6, <3>7, <3>8 DEF IInv
  <2> QED BY <1>3, <2>8, <2>9, <2>10 DEF SecretStep
<1> QED BY <1>2, <1>3 DEF Secret

\* Another program changes what will be read, nothing that was.
LEMMA OtherWritesKeeps == ASSUME IInv, OtherWrites PROVE IInv'
<1> USE DEF IInv
<1>1. /\ changes < MaxChanges /\ changes' = changes + 1
      /\ UNCHANGED <<options, status, frames, fileMap, cache, expansions, misses, warnings, out>>
    BY DEF OtherWrites
<1>2. changes' \in 0 .. MaxChanges
    BY <1>1, IncludeAssumption DEF TypeOK
<1>3. IsWorld(world')
  <2>0. IsWorld(world)
      BY DEF TypeOK
  <2>1. PICK other \in Worlds :
            \/ \E f \in Files : world' = [world EXCEPT !.disk[f] = other.disk[f]]
            \/ \E d \in Dirs : world' = [world EXCEPT !.secrets[d] = other.secrets[d]]
      BY DEF OtherWrites
  <2>2. IsWorld(other)
      BY IncludeAssumption
  <2>3. ASSUME NEW f \in Files, world' = [world EXCEPT !.disk[f] = other.disk[f]] PROVE IsWorld(world')
    <3>1. other.disk[f] \in Texts
        BY <2>2 DEF IsWorld
    <3>2. [world.disk EXCEPT ![f] = other.disk[f]] \in [Files -> Texts]
        BY <2>0, <3>1 DEF IsWorld
    <3>3. world' = [world EXCEPT !.disk = [world.disk EXCEPT ![f] = other.disk[f]]]
        BY <2>0, <2>3 DEF IsWorld
    <3>4. world' \in [root : Docs, disk : [Files -> Texts], secrets : [Dirs -> Maps], env : {world.env}]
          /\ world'.env = world.env
        BY <2>0, <3>2, <3>3 DEF IsWorld
    <3> QED BY <2>0, <3>4 DEF IsWorld
  <2>4. ASSUME NEW d \in Dirs, world' = [world EXCEPT !.secrets[d] = other.secrets[d]] PROVE IsWorld(world')
    <3>1. other.secrets[d] \in Maps
        BY <2>2 DEF IsWorld
    <3>2. [world.secrets EXCEPT ![d] = other.secrets[d]] \in [Dirs -> Maps]
        BY <2>0, <3>1 DEF IsWorld
    <3>3. world' = [world EXCEPT !.secrets = [world.secrets EXCEPT ![d] = other.secrets[d]]]
        BY <2>0, <2>4 DEF IsWorld
    <3>4. world' \in [root : Docs, disk : [Files -> Texts], secrets : [Dirs -> Maps], env : {world.env}]
          /\ world'.env = world.env
        BY <2>0, <3>2, <3>3 DEF IsWorld
    <3> QED BY <2>0, <3>4 DEF IsWorld
  <2> QED BY <2>1, <2>3, <2>4
<1>4. TypeOK'
    BY <1>1, <1>2, <1>3 DEF TypeOK
<1>5. FramesInv(frames, fileMap)' /\ Origins' /\ Cached' /\ CacheTyped'
    BY <1>1 DEF Origins, Cached, CacheTyped
<1>6. MissesAreTheHoles'
    BY <1>1 DEF MissesAreTheHoles, Holes
<1> QED BY <1>4, <1>5, <1>6
-----------------------------------------------------------------------------
\* The invariant holds initially: the nodes are those of the root's text.
LEMMA InitIInv == Init => IInv
<1> SUFFICES ASSUME Init PROVE IInv
    OBVIOUS
<1> USE DEF Init
<1> DEFINE f == Frame(FlattenSeq(world.root), None, <<>>, 1, <<>>)
           file == [path |-> Root, source |-> world.root]
<1>1. IsWorld(world) /\ world.root \in Docs
    BY IncludeAssumption DEF IsWorld
<1>2. FlattenSeq(world.root) \in Seq(Nodes)
    BY <1>1, FlattenSeqElements DEF Docs
<1>3. file.path = Root /\ file.source = world.root /\ Root \in Files
    BY IncludeAssumption
<1>4. /\ f.todo = FlattenSeq(world.root) /\ f.loop = None /\ f.files = <<>> /\ f.id = 1
      /\ f.chain = <<>> /\ f.climb = None
      /\ f = [todo |-> FlattenSeq(world.root), loop |-> None, files |-> <<>>, id |-> 1, chain |-> <<>>, climb |-> None]
    BY DEF Frame
<1>5. fileMap = <<file>> /\ frames = <<f>>
    OBVIOUS
<1> HIDE DEF f, file
<1>6. /\ DOMAIN fileMap = {1} /\ fileMap[1] = file /\ fileMap \in Seq(ToSet(fileMap))
      /\ DOMAIN frames = {1} /\ frames[1] = f /\ frames \in Seq(ToSet(frames)) /\ frames # <<>>
    BY <1>5 DEF ToSet
<1>7. IsFrame(f)
  <2>1. <<>> \in Seq(Files)
      OBVIOUS
  <2> HIDE DEF Init
  <2> QED BY <1>2, <1>4, <2>1 DEF IsFrame
<1>8. Good(f, fileMap)
  <2>1. Len(f.chain) = 0 /\ 0 <= MaxDepth
      BY <1>4, IncludeAssumption
  <2>2. ASSUME NEW k \in DOMAIN f.todo PROVE From(fileMap, 1, f.todo[k])
    <3>1. world.root \notin {Absent, Unreadable} => f.todo[k] \in Sources(world.root)
        BY <1>4 DEF Sources, ToSet
    <3>2. world.root \notin {Absent, Unreadable}
        BY <1>1, IncludeAssumption
    <3> QED BY <1>3, <1>6, <3>1, <3>2 DEF From
  <2> QED BY <1>4, <1>6, <1>7, <2>1, <2>2 DEF Good
<1>9. FramesInv(frames, fileMap)
    BY <1>4, <1>6, <1>8 DEF FramesInv, IsInjective
<1>10. TypeOK
  <2>1. /\ \A i \in DOMAIN frames :
             IsFrame(frames[i]) /\ frames[i].id \in DOMAIN fileMap /\ Len(frames[i].chain) <= MaxDepth
        /\ \A i \in DOMAIN fileMap : fileMap[i].path \in Files \union Dirs
      BY <1>3, <1>6, <1>8 DEF Good
  <2>2. 0 \in 0 .. MaxChanges /\ 0 \in 0 .. MaxExpansions /\ <<>> \in Seq([node : Nodes, file : Files])
        /\ <<>> \in Seq([id : Nat, node : Nodes, val : Scalars \union {None, Null}, dir : Dirs \union {None}])
      BY IncludeAssumption
  <2> QED BY <1>1, <1>6, <2>1, <2>2 DEF TypeOK, Kinds
<1>11. Origins /\ Cached /\ CacheTyped
    BY DEF Origins, Cached, CacheTyped
<1>12. MissesAreTheHoles
    BY FS_EmptySet DEF MissesAreTheHoles, Holes
<1> QED BY <1>9, <1>10, <1>11, <1>12 DEF IInv

\* Every step keeps it.
LEMMA NextKeeps == IInv /\ [Next]_vars => IInv'
<1> SUFFICES ASSUME IInv, [Next]_vars PROVE IInv'
    OBVIOUS
<1>1. CASE UNCHANGED vars
  <2>1. UNCHANGED <<world, changes, options, status, frames, fileMap, cache, expansions, misses, warnings, out>>
      BY <1>1 DEF vars
  <2>2. TypeOK'
      BY <2>1 DEF IInv, TypeOK
  <2>3. FramesInv(frames, fileMap)' /\ Origins' /\ Cached' /\ CacheTyped'
      BY <2>1 DEF IInv, Origins, Cached, CacheTyped
  <2>4. MissesAreTheHoles'
      BY <2>1 DEF IInv, MissesAreTheHoles, Holes
  <2> QED BY <2>2, <2>3, <2>4 DEF IInv
<1>2. CASE Resolve
    BY <1>2, PlainKeeps, IncludeKeeps, DirFileKeeps, ReturnKeeps, SecretKeeps, EnvVarKeeps, IncludeDirKeeps
       DEF Resolve
<1>3. CASE OtherWrites
    BY <1>3, OtherWritesKeeps
<1> QED BY <1>1, <1>2, <1>3 DEF Next

\* The invariant holds in every state of a load.
THEOREM InductiveInvariant == Spec => []IInv
<1>1. Init => IInv
    BY InitIInv
<1>2. IInv /\ [Next]_vars => IInv'
    BY NextKeeps
<1> QED BY <1>1, <1>2, PTL DEF Spec

\* The resolver's state is well typed: every frame's file_id is one of the map, no
\* chain is longer than MAX_INCLUDE_DEPTH, no load reads more than
\* MAX_INCLUDE_EXPANSIONS files.
THEOREM IncludeTypeOK == Spec => []TypeOK
<1>1. IInv => TypeOK
    BY DEF IInv
<1> QED BY <1>1, InductiveInvariant, PTL

\* Each value of the result is in the text the map keeps for its file_id.
THEOREM IncludeOriginsAreSources == Spec => []OriginsAreSources
<1>1. IInv => OriginsAreSources
    BY DEF IInv, Origins, From, OriginsAreSources
<1> QED BY <1>1, InductiveInvariant, PTL

\* A secret found in one directory is the same everywhere in the result, though
\* secrets.yaml changes while the load runs.
THEOREM IncludeSecretsAgree == Spec => []SecretsAgree
<1>1. IInv => SecretsAgree
    BY DEF IInv, Cached, SecretsAgree
<1> QED BY <1>1, InductiveInvariant, PTL

\* The collected misses are the holes of the result, in document order.
THEOREM IncludeMissesAreTheHoles == Spec => []MissesAreTheHoles
<1>1. IInv => MissesAreTheHoles
    BY DEF IInv
<1> QED BY <1>1, InductiveInvariant, PTL

\* One !include after another that leads back to a file is called circular before
\* the depth limit can be: a load that stops at the limit, no directory listed on
\* the way, has a chain of different files.
THEOREM IncludeCyclesAreNamed == Spec => []CyclesAreNamed
<1>1. IInv => CyclesAreNamed
  <2> SUFFICES ASSUME IInv, status = "depth", \A i \in DOMAIN frames : frames[i].loop = None
               PROVE  IsInjective(Top.chain)
      BY DEF CyclesAreNamed
  <2>1. frames # <<>> /\ TypeOK
      BY DEF IInv, TypeOK
  <2>2. Len(frames) \in DOMAIN frames /\ Top = frames[Len(frames)] /\ DOMAIN frames = 1 .. Len(frames)
      BY <2>1, TopTyped
  <2>3. Straight(frames, Len(frames))
      BY <2>2 DEF Straight
  <2> QED BY <2>2, <2>3 DEF IInv, FramesInv
<1> QED BY <1>1, InductiveInvariant, PTL
=============================================================================

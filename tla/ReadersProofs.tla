---------------------------- MODULE ReadersProofs ----------------------------
(***************************************************************************)
(* Proofs about the two readers, for any names, directives and limit of the *)
(* depth, and for streams with any number of collections open.  A reader    *)
(* holds the names it has bound and those its open nodes were given.  The   *)
(* inductive invariant says that a reader holds no name but those of the    *)
(* text since the last document boundary; on a boundary it has not taken    *)
(* yet it may still hold the names of the document before.                  *)
(***************************************************************************)
EXTENDS Readers, SequenceLemmas

DocumentPoints == {"explicit", "implicit"}
NodePoints == {"node", "collected"}
\* The events that begin and end the scope of a name.
Marks == {"DocStart", "DocEnd"}

\* The points of a call in the code, and what a reader tells of an event.
InnerPoints == MappingPoints \union SequencePoints
                   \union {"entry", "block entry", "item node", "pair key", "pair value", "indentless", "level item"}
Points == DocumentPoints \union NodePoints \union InnerPoints
Words == {"scalar", "alias", "null", "mapping", "sequence", "end", "pair", "end pair", "anchor", "tag", "indentless tag"}

Calls == [at : Points, flow : BOOLEAN, place : {"other", "value", "bare key"},
          tag : {None, "core", "custom", "indentless"}, anchor : Names \union {None}]

Fields == {"stack", "ret", "taken", "failed", "anchors", "directives", "out", "document"}
IsReader(r) ==
    /\ Fields \subseteq DOMAIN r
    /\ r.stack \in Seq(Calls) /\ r.ret \in {"pending", "none", "node"}
    /\ r.taken \in BOOLEAN /\ r.failed \in BOOLEAN
    /\ r.anchors \subseteq Names /\ r.directives \subseteq Directives
    /\ r.out \in Seq(Words)

\* A reader in good shape: the call at the bottom is that of a document, and no
\* other is; its nodes are not too many.
Shaped(r) ==
    /\ IsReader(r)
    /\ \A i \in DOMAIN r.stack : r.stack[i].at # "stream" /\ (r.stack[i].at \in DocumentPoints <=> i = 1)
    /\ Nested(r) <= MaxDepth

Held(r) == r.anchors \union ({r.stack[i].anchor : i \in DOMAIN r.stack} \ {None})

Scope == IF ~dec.taken /\ event.tok \in Marks THEN Names ELSE named

DecoderInv ==
    /\ Shaped(dec) /\ {"mayDirect"} \subseteq DOMAIN dec
    /\ Held(dec) \subseteq Scope
    /\ dec.stack = <<>> => dec.anchors = {}
    /\ Contains(dec.out, "alias") => dec.taken /\ event.arg \in named

\* The properties that the composer has read and given to no node yet.
Own ==
    /\ {"tag", "anchor", "keepEmpty"} \subseteq DOMAIN com
    /\ com.tag \in {None, "core", "custom"} /\ com.anchor \in Names \union {None}

\* The composer clears its names where a document begins, so that between
\* documents it may hold any; an anchor it has read is for the node it is at.
ComposerScope == IF ~com.taken /\ event.tok \in Marks THEN Names ELSE named

ComposerInv ==
    /\ Shaped(com) /\ {"tag", "anchor", "keepEmpty"} \subseteq DOMAIN com
    /\ com.stack # <<>> => Held(com) \subseteq ComposerScope
    /\ ~com.failed => Own
    /\ ~com.failed /\ com.anchor # None => At(com, "node") /\ com.anchor \in ComposerScope
    /\ Contains(com.out, "alias") => com.taken /\ event.arg \in named

IInv ==
    /\ DecoderInv /\ ComposerInv
    /\ named \subseteq Names
    /\ event.tok \in {"Anchor", "Alias"} => event.arg \in Names
    /\ event.tok = "Anchor" => event.arg \in named
    /\ event.tok = "Directive" => event.arg \in Directives
-----------------------------------------------------------------------------
(***************************************************************************)
(* What one step of a reader keeps.  b is the reader before it, r what it   *)
(* has become so far.                                                       *)
(***************************************************************************)
Given == IF event.tok = "Anchor" THEN {event.arg} ELSE {}
Lasting == {"failed", "directives", "document", "mayDirect", "tag", "anchor", "keepEmpty"}

Same(b, r) ==
    /\ DOMAIN r = DOMAIN b /\ \A f \in DOMAIN b \intersect Lasting : r[f] = b[f]
    /\ Shaped(r)
    /\ Held(r) \subseteq Held(b) \union Given
    /\ r.taken => b.taken \/ event.tok \notin Marks
    /\ Contains(r.out, "alias") => Contains(b.out, "alias")

\* Inside a node of a document, and so not at the stream or a document.
Inside(r) == Len(r.stack) >= 2
Within(b, r) == Same(b, r) /\ Inside(r)

Fallen(r) == r.failed /\ r.taken /\ r.stack = <<>> /\ r.anchors = {} /\ r.out = <<>>
\* What a step inside a node comes to.
Outcome(b, r) == (Same(b, r) /\ r.stack # <<>>) \/ (DOMAIN r = DOMAIN b /\ Shaped(r) /\ Fallen(r))

\* The call on top tells how deep the reader is.
LEMMA TopIs ==
    ASSUME NEW r, Shaped(r)
    PROVE  /\ r.stack \in Seq(Calls) /\ Len(r.stack) \in Nat /\ DOMAIN r.stack = 1 .. Len(r.stack)
           /\ Top(r).at \notin DocumentPoints \union {"stream"} => Inside(r)
           /\ Top(r).at = "stream" => r.stack = <<>>
           /\ Top(r).at \in DocumentPoints => Len(r.stack) = 1
           /\ r.stack # <<>> => Top(r) = r.stack[Len(r.stack)] /\ Top(r) \in Calls /\ Len(r.stack) \in 1 .. Len(r.stack)
<1>1. r.stack \in Seq(Calls) /\ Len(r.stack) \in Nat /\ DOMAIN r.stack = 1 .. Len(r.stack)
    BY DEF Shaped, IsReader
<1>2. CASE r.stack = <<>>
  <2>1. Top(r).at = "stream"
      BY <1>2 DEF Top, Frame
  <2> QED BY <1>1, <1>2, <2>1 DEF DocumentPoints
<1>3. CASE r.stack # <<>>
  <2>1. Len(r.stack) \in 1 .. Len(r.stack) /\ Top(r) = r.stack[Len(r.stack)]
      BY <1>1, <1>3 DEF Top, Last
  <2>2. Top(r) \in Calls
      BY <1>1, <2>1, ElementOfSeq
  <2>3. Top(r).at # "stream" /\ (Top(r).at \in DocumentPoints <=> Len(r.stack) = 1)
      BY <1>1, <2>1 DEF Shaped
  <2>4. Len(r.stack) # 1 => Len(r.stack) >= 2
    <3>1. \A n \in Nat : n \in 1 .. n /\ n # 1 => n >= 2
        OBVIOUS
    <3>2. Len(r.stack) \in Nat
        BY <1>1
    <3> QED BY <2>1, <3>1, <3>2
  <2> QED BY <1>1, <2>1, <2>2, <2>3, <2>4 DEF Inside
<1> QED BY <1>2, <1>3

\* A reader whose nodes are among those of another is no deeper.
LEMMA Shallower ==
    ASSUME NEW r, Shaped(r), NEW s, s.stack \in Seq(Calls),
           \A i \in DOMAIN s.stack : s.stack[i].at \in NodePoints => i \in DOMAIN r.stack /\ r.stack[i].at \in NodePoints
    PROVE  Nested(s) <= MaxDepth
<1> DEFINE R == {i \in DOMAIN r.stack : r.stack[i].at \in NodePoints}
           S == {i \in DOMAIN s.stack : s.stack[i].at \in NodePoints}
<1>1. DOMAIN r.stack = 1 .. Len(r.stack) /\ Len(r.stack) \in Nat
    BY TopIs
<1>2. IsFiniteSet(DOMAIN r.stack)
    BY <1>1, FS_Interval
<1>3. R \in SUBSET (DOMAIN r.stack)
    OBVIOUS
<1>4. IsFiniteSet(R)
    BY <1>2, <1>3, FS_Subset
<1>5. S \in SUBSET R
    OBVIOUS
<1>6. IsFiniteSet(S) /\ Cardinality(S) <= Cardinality(R)
    BY <1>4, <1>5, FS_Subset
<1>7. Cardinality(R) \in Nat /\ Cardinality(S) \in Nat
    BY <1>4, <1>6, FS_CardinalityType
<1>8. Nested(r) = Cardinality(R) /\ Nested(s) = Cardinality(S)
    BY DEF Nested, NodePoints
<1>9. Nested(r) <= MaxDepth
    BY DEF Shaped
<1> HIDE DEF R, S
<1> QED BY <1>6, <1>7, <1>8, <1>9, FramesAssumption

\* A step that leaves the stack alone and binds no new name.
LEMMA StackKept ==
    ASSUME NEW b, NEW r, Same(b, r), NEW s, IsReader(s), s.stack = r.stack, DOMAIN s = DOMAIN r,
           \A f \in DOMAIN r \intersect Lasting : s[f] = r[f],
           s.anchors \subseteq Held(r),
           s.taken => r.taken \/ event.tok \notin Marks,
           Contains(s.out, "alias") => Contains(r.out, "alias")
    PROVE  Same(b, s) /\ (Inside(r) => Inside(s)) /\ Top(s) = Top(r)
<1>1. \A f \in DOMAIN b \intersect Lasting : s[f] = b[f]
    BY DEF Same
<1>2. Shaped(s)
    BY DEF Same, Shaped, Nested
<1>3. Held(s) \subseteq Held(r)
    BY DEF Held
<1>4. Top(s) = Top(r) /\ (Inside(r) => Inside(s))
    BY DEF Top, Inside
<1> QED BY <1>1, <1>2, <1>3, <1>4 DEF Same

LEMMA TakeKeeps ==
    ASSUME NEW b, NEW r, Same(b, r), event.tok \notin Marks
    PROVE  Same(b, Take(r)) /\ (Inside(r) => Inside(Take(r))) /\ Top(Take(r)) = Top(r) /\ Take(r).stack = r.stack
<1> DEFINE s == Take(r)
<1>1. s = [r EXCEPT !.taken = TRUE]
    BY DEF Take
<1>2. IsReader(r)
    BY DEF Same, Shaped
<1> HIDE DEF s
<1>3. DOMAIN s = DOMAIN r /\ \A f \in DOMAIN r : f # "taken" => s[f] = r[f]
    BY <1>1
<1>4. s.taken = TRUE
    BY <1>1, <1>2 DEF IsReader, Fields
<1>5. IsReader(s) /\ s.stack = r.stack /\ s.anchors = r.anchors /\ s.out = r.out
    BY <1>2, <1>3, <1>4 DEF IsReader, Fields
<1>6. \A f \in DOMAIN r \intersect Lasting : s[f] = r[f]
    BY <1>3 DEF Lasting
<1>7. Same(b, s) /\ (Inside(r) => Inside(s)) /\ Top(s) = Top(r)
    BY <1>3, <1>5, <1>6, StackKept DEF Held
<1> QED BY <1>5, <1>7 DEF s

\* What a reader makes of an event is told, and no name is bound by it.
LEMMA PutKeeps ==
    ASSUME NEW b, NEW r, Same(b, r), NEW x \in Words, x # "alias"
    PROVE  Same(b, Put(r, x)) /\ (Inside(r) => Inside(Put(r, x))) /\ Top(Put(r, x)) = Top(r) /\ Put(r, x).stack = r.stack
<1> DEFINE s == Put(r, x)
           o == Append(r.out, x)
<1>1. s = [r EXCEPT !.out = o]
    BY DEF Put
<1>2. IsReader(r)
    BY DEF Same, Shaped
<1>3. o \in Seq(Words) /\ (Contains(o, "alias") => Contains(r.out, "alias"))
  <2>1. r.out \in Seq(Words) /\ Len(r.out) \in Nat
      BY <1>2 DEF IsReader
  <2>2. /\ Len(o) = Len(r.out) + 1 /\ o[Len(r.out) + 1] = x /\ \A i \in 1 .. Len(r.out) : o[i] = r.out[i]
      BY <2>1, AppendIs
  <2>3. o \in Seq(Words)
      BY <2>1
  <2> HIDE DEF o
  <2>4. ASSUME NEW i \in 1 .. Len(o), o[i] = "alias" PROVE i \in 1 .. Len(r.out) /\ r.out[i] = "alias"
    <3>1. i \in 1 .. Len(r.out) + 1 /\ (i \in 1 .. Len(r.out) \/ i = Len(r.out) + 1)
        BY <2>1, <2>2
    <3> QED BY <2>2, <2>4, <3>1
  <2> QED BY <2>3, <2>4 DEF Contains
<1> HIDE DEF o, s
<1>4. DOMAIN s = DOMAIN r /\ \A f \in DOMAIN r : f # "out" => s[f] = r[f]
    BY <1>1
<1>5. s.out = o
    BY <1>1, <1>2 DEF IsReader, Fields
<1>6. IsReader(s) /\ s.stack = r.stack /\ s.anchors = r.anchors /\ s.taken = r.taken
    BY <1>2, <1>3, <1>4, <1>5 DEF IsReader, Fields
<1>7. \A f \in DOMAIN r \intersect Lasting : s[f] = r[f]
    BY <1>4 DEF Lasting
<1>8. s.anchors \subseteq Held(r) /\ (Contains(s.out, "alias") => Contains(r.out, "alias"))
    BY <1>3, <1>5, <1>6 DEF Held
<1>9. Same(b, s) /\ (Inside(r) => Inside(s)) /\ Top(s) = Top(r)
    BY <1>4, <1>6, <1>7, <1>8, StackKept
<1> QED BY <1>6, <1>9 DEF s

\* Null stands for a node that was not found.
LEMMA OrNullKeeps ==
    ASSUME NEW b, NEW r, Same(b, r)
    PROVE  Same(b, OrNull(r)) /\ (Inside(r) => Inside(OrNull(r))) /\ Top(OrNull(r)) = Top(r)
<1>1. Same(b, Put(r, "null")) /\ (Inside(r) => Inside(Put(r, "null"))) /\ Top(Put(r, "null")) = Top(r)
  <2>1. "null" \in Words /\ "null" # "alias"
      BY DEF Words
  <2> QED BY <2>1, PutKeeps
<1>2. OrNull(r) = Put(r, "null") \/ OrNull(r) = r
    BY DEF OrNull
<1> QED BY <1>1, <1>2

\* The call on top goes on to another point, or gets its properties.
Replaced(r, f, s) ==
    /\ DOMAIN s = DOMAIN r /\ \A g \in DOMAIN r : g \notin {"stack", "ret", "taken"} => s[g] = r[g]
    /\ s.stack = [r.stack EXCEPT ![Len(r.stack)] = f]
    /\ s.ret \in {"pending", "none", "node"} /\ s.taken \in BOOLEAN
    /\ s.taken => r.taken \/ event.tok \notin Marks

LEMMA ReplacedIs ==
    ASSUME NEW r, Shaped(r), Inside(r), NEW s, NEW f \in Calls, Replaced(r, f, s),
           f.at \notin DocumentPoints \union {"stream"}, f.at \in NodePoints => Top(r).at \in NodePoints
    PROVE  /\ Shaped(s) /\ Inside(s) /\ Top(s) = f /\ Len(s.stack) = Len(r.stack)
           /\ s.anchors = r.anchors /\ s.out = r.out
           /\ Held(s) \subseteq Held(r) \union ({f.anchor} \ {None})
<1> DEFINE n == Len(r.stack)
<1>1. r.stack \in Seq(Calls) /\ n \in Nat /\ DOMAIN r.stack = 1 .. n /\ n \in 1 .. n /\ Top(r) = r.stack[n]
  <2>1. r.stack # <<>>
      BY DEF Inside
  <2> QED BY <2>1, TopIs
<1>2. n >= 2 /\ IsReader(r)
    BY <1>1 DEF Inside, Shaped
<1> HIDE DEF n
<1>3. s.stack = [i \in 1 .. n |-> IF i = n THEN f ELSE r.stack[i]]
    BY <1>1 DEF Replaced, n
<1>4. s.stack \in Seq(Calls) /\ Len(s.stack) = n /\ DOMAIN s.stack = 1 .. n
  <2>1. \A i \in 1 .. n : r.stack[i] \in Calls
      BY <1>1, ElementOfSeq DEF n
  <2>2. s.stack \in [1 .. n -> Calls]
      BY <1>3, <2>1
  <2> HIDE DEF Calls
  <2> QED BY <1>1, <1>3, <2>2
<1>5. /\ s.stack[n] = f /\ \A i \in 1 .. n : i # n => s.stack[i] = r.stack[i]
    BY <1>1, <1>3
<1>6. IsReader(s)
    BY <1>2, <1>4 DEF IsReader, Fields, Replaced
<1>7. Nested(s) <= MaxDepth
  <2>1. \A i \in DOMAIN s.stack : s.stack[i].at \in NodePoints => i \in DOMAIN r.stack /\ r.stack[i].at \in NodePoints
      BY <1>1, <1>4, <1>5
  <2> QED BY <1>1, <1>4, <2>1, Shallower
<1>8. Shaped(s)
  <2>1. \A i \in 1 .. n : r.stack[i].at # "stream" /\ (r.stack[i].at \in DocumentPoints <=> i = 1)
      BY <1>1 DEF Shaped
  <2>2. \A i \in 1 .. n : s.stack[i].at # "stream" /\ (s.stack[i].at \in DocumentPoints <=> i = 1)
      BY <1>2, <1>5, <2>1
  <2> QED BY <1>4, <1>6, <1>7, <2>2 DEF Shaped
<1>9. Held(s) \subseteq Held(r) \union ({f.anchor} \ {None})
  <2>1. s.anchors = r.anchors
      BY <1>2 DEF Replaced, IsReader, Fields
  <2>2. \A i \in 1 .. n : s.stack[i].anchor = r.stack[i].anchor \/ s.stack[i].anchor = f.anchor
      BY <1>1, <1>5
  <2>3. \A i \in 1 .. n : s.stack[i].anchor = None \/ s.stack[i].anchor \in Held(r) \union ({f.anchor} \ {None})
      BY <1>1, <2>2 DEF Held
  <2> QED BY <1>4, <2>1, <2>3 DEF Held
<1>10. s.out = r.out /\ s.anchors = r.anchors
    BY <1>2 DEF Replaced, IsReader, Fields
<1>11. Top(s) = f /\ Inside(s)
  <2>1. Len(s.stack) = n
      BY <1>4
  <2>2. s.stack # <<>> /\ Inside(s)
      BY <1>2, <2>1 DEF Inside
  <2> QED BY <1>5, <2>1, <2>2 DEF Top, Last
<1> QED BY <1>4, <1>8, <1>9, <1>10, <1>11 DEF n

LEMMA ReplacedKeeps ==
    ASSUME NEW b, NEW r, Within(b, r), NEW s, NEW f \in Calls, Replaced(r, f, s),
           f.at \notin DocumentPoints \union {"stream"}, f.at \in NodePoints => Top(r).at \in NodePoints,
           f.anchor \in {None, Top(r).anchor} \union Given
    PROVE  Within(b, s) /\ Top(s) = f
<1>1. Shaped(r) /\ IsReader(r) /\ r.stack # <<>>
    BY DEF Within, Same, Inside, Shaped
<1>2. /\ Shaped(s) /\ Inside(s) /\ Top(s) = f /\ s.out = r.out
      /\ Held(s) \subseteq Held(r) \union ({f.anchor} \ {None})
    BY <1>1, ReplacedIs DEF Within
<1>3. Top(r) = r.stack[Len(r.stack)] /\ Len(r.stack) \in DOMAIN r.stack
    BY <1>1, TopIs
<1>4. Held(s) \subseteq Held(r) \union Given
    BY <1>2, <1>3 DEF Held
<1>5. \A g \in DOMAIN r \intersect Lasting : s[g] = r[g]
    BY DEF Replaced, Lasting
<1> QED BY <1>2, <1>4, <1>5 DEF Within, Same, Replaced

\* The points inside a collection are none of a document and none of a node.
LEMMA PointsApart ==
    /\ \A p \in InnerPoints : p \in Points /\ p \notin DocumentPoints \union NodePoints \union {"stream"}
    /\ \A p \in NodePoints : p \in Points /\ p \notin DocumentPoints \union {"stream"}
BY DEF Points, InnerPoints, MappingPoints, SequencePoints, NodePoints, DocumentPoints

\* A call goes on to another point.
LEMMA GoKeeps ==
    ASSUME NEW b, NEW r, Within(b, r), NEW point \in InnerPoints
    PROVE  Within(b, Go(r, point)) /\ Top(Go(r, point)).flow = Top(r).flow
<1> DEFINE s == Go(r, point)
           f == [Top(r) EXCEPT !.at = point]
           n == Len(r.stack)
<1>1. Shaped(r) /\ IsReader(r) /\ Top(r) = r.stack[n] /\ Top(r) \in Calls /\ n \in DOMAIN r.stack
  <2>1. Shaped(r) /\ r.stack # <<>>
      BY DEF Within, Same, Inside
  <2> QED BY <2>1, TopIs DEF Shaped
<1>2. f \in Calls /\ f.at = point /\ f.flow = Top(r).flow /\ f.anchor = Top(r).anchor
    BY <1>1, PointsApart DEF Calls
<1>3. Replaced(r, f, s)
  <2> DEFINE st == [r.stack EXCEPT ![n] = f]
  <2>1. [r.stack EXCEPT ![n].at = point] = st
      BY <1>1
  <2>2. s = [r EXCEPT !.stack = st, !.ret = "pending"]
      BY <2>1 DEF Go
  <2> HIDE DEF s, st, f
  <2>3. DOMAIN s = DOMAIN r /\ \A g \in DOMAIN r : g \notin {"stack", "ret"} => s[g] = r[g]
      BY <2>2
  <2>4. s.stack = st /\ s.ret = "pending"
      BY <1>1, <2>2 DEF IsReader, Fields
  <2>5. s.taken = r.taken /\ r.taken \in BOOLEAN
      BY <1>1, <2>3 DEF IsReader, Fields
  <2> QED BY <2>3, <2>4, <2>5 DEF Replaced, st
<1> HIDE DEF s, f, n
<1>4. Within(b, s) /\ Top(s) = f
    BY <1>2, <1>3, PointsApart, ReplacedKeeps
<1> QED BY <1>2, <1>4 DEF s

\* The call of a node becomes that of its collection.
LEMMA OpenedKeeps ==
    ASSUME NEW b, NEW r, Within(b, r), Top(r).at = "node"
    PROVE  Within(b, Opened(r))
<1> DEFINE s == Opened(r)
           t == Top(r).tag
           u == IF t = "core" THEN None ELSE t
           f == [at |-> "collected", flow |-> Top(r).flow, place |-> "other", tag |-> u, anchor |-> Top(r).anchor]
           n == Len(r.stack)
<1>1. Shaped(r) /\ IsReader(r) /\ Top(r) = r.stack[n] /\ Top(r) \in Calls /\ n \in DOMAIN r.stack
  <2>1. Shaped(r) /\ r.stack # <<>>
      BY DEF Within, Same, Inside
  <2> QED BY <2>1, TopIs DEF Shaped
<1>2. f \in Calls /\ f.at = "collected" /\ f.anchor = Top(r).anchor
  <2>1. "collected" \in Points /\ u \in {None, "core", "custom", "indentless"} /\ Top(r).flow \in BOOLEAN
        /\ Top(r).anchor \in Names \union {None}
      BY <1>1 DEF Calls, Points, NodePoints
  <2> HIDE DEF u
  <2> QED BY <2>1 DEF Calls
<1>3. Replaced(r, f, s)
  <2> DEFINE st == [r.stack EXCEPT ![n] = f]
  <2>1. s = [r EXCEPT !.stack = st]
    <3> DEFINE c == Top(r)
    <3>1. c \in Calls /\ r.stack[n] = c
        BY <1>1
    <3> HIDE DEF c
    <3>3. s = [r EXCEPT !.stack[n] = [at |-> "collected", flow |-> c.flow, place |-> "other",
                                      tag |-> IF c.tag = "core" THEN None ELSE c.tag, anchor |-> c.anchor]]
        BY <3>1 DEF Opened
    <3> QED BY <3>1, <3>3 DEF c
  <2> HIDE DEF s, st, f
  <2>3. DOMAIN s = DOMAIN r /\ \A g \in DOMAIN r : g \notin {"stack"} => s[g] = r[g]
      BY <2>1
  <2>4. s.stack = st
      BY <1>1, <2>1 DEF IsReader, Fields
  <2>5. s.taken = r.taken /\ r.taken \in BOOLEAN /\ s.ret = r.ret
      BY <1>1, <2>3 DEF IsReader, Fields
  <2> QED BY <1>1, <2>3, <2>4, <2>5 DEF Replaced, st, IsReader
<1> HIDE DEF s, f, n
<1>4. Within(b, s) /\ Top(s) = f
    BY <1>2, <1>3, ReplacedKeeps DEF NodePoints, DocumentPoints
<1> QED BY <1>4 DEF s

\* A call of a document is made at the stream, any other inside a document; one of
\* a node only if there may be one more.
LEMMA CallKeeps ==
    ASSUME NEW b, NEW r, Same(b, r), NEW f \in Calls, r.stack = <<>> <=> f.at \in DocumentPoints, f.anchor = None,
           f.at \in NodePoints => Nested(r) # MaxDepth
    PROVE  /\ Same(b, Call(r, f)) /\ Top(Call(r, f)) = f /\ Call(r, f).stack # <<>>
           /\ r.stack # <<>> => Inside(Call(r, f))
<1> DEFINE s == Call(r, f)
           n == Len(r.stack)
           st == Append(r.stack, f)
<1>1. Shaped(r) /\ IsReader(r) /\ r.stack \in Seq(Calls) /\ n \in Nat /\ DOMAIN r.stack = 1 .. n
  <2>1. Shaped(r)
      BY DEF Same
  <2> QED BY <2>1, TopIs DEF Shaped
<1>2. /\ st \in Seq(Calls) /\ Len(st) = n + 1 /\ DOMAIN st = 1 .. n + 1 /\ st[n + 1] = f
      /\ \A i \in 1 .. n : st[i] = r.stack[i]
  <2>1. st \in Seq(Calls)
      BY <1>1
  <2>2. \A S : \A q \in Seq(S) : \A x : /\ Len(Append(q, x)) = Len(q) + 1 /\ DOMAIN Append(q, x) = 1 .. Len(q) + 1
                                   /\ Append(q, x)[Len(q) + 1] = x /\ \A i \in 1 .. Len(q) : Append(q, x)[i] = q[i]
      BY AppendIs
  <2> QED BY <1>1, <2>1, <2>2
<1>3. s = [r EXCEPT !.stack = st, !.ret = "pending"]
    BY DEF Call
<1> HIDE DEF s, n, st
<1>4. DOMAIN s = DOMAIN r /\ \A g \in DOMAIN r : g \notin {"stack", "ret"} => s[g] = r[g]
    BY <1>3
<1>5. s.stack = st /\ s.ret = "pending"
    BY <1>1, <1>3 DEF IsReader, Fields
<1>6. IsReader(s) /\ s.anchors = r.anchors /\ s.taken = r.taken /\ s.out = r.out
    BY <1>1, <1>2, <1>4, <1>5 DEF IsReader, Fields
<1>7. \A i \in 1 .. n + 1 : i \in 1 .. n \/ i = n + 1
    BY <1>1
<1>8. Nested(s) <= MaxDepth
  <2>1. CASE f.at \notin NodePoints
    <3>1. \A i \in DOMAIN s.stack : s.stack[i].at \in NodePoints => i \in DOMAIN r.stack /\ r.stack[i].at \in NodePoints
        BY <1>1, <1>2, <1>5, <1>7, <2>1
    <3> QED BY <1>1, <1>2, <1>5, <3>1, Shallower
  <2>2. CASE f.at \in NodePoints
    <3> DEFINE R == {i \in DOMAIN r.stack : r.stack[i].at \in NodePoints}
               S == {i \in DOMAIN s.stack : s.stack[i].at \in NodePoints}
    <3>1. Nested(r) = Cardinality(R) /\ Nested(s) = Cardinality(S)
        BY DEF Nested, NodePoints
    <3>2. IsFiniteSet(R)
      <4>1. IsFiniteSet(DOMAIN r.stack)
          BY <1>1, FS_Interval
      <4>2. R \in SUBSET (DOMAIN r.stack)
          OBVIOUS
      <4> QED BY <4>1, <4>2, FS_Subset
    <3>3. S \in SUBSET (R \union {n + 1})
        BY <1>1, <1>2, <1>5, <1>7
    <3> HIDE DEF R, S
    <3>4. /\ IsFiniteSet(R \union {n + 1})
          /\ Cardinality(R \union {n + 1}) = Cardinality(R) \/ Cardinality(R \union {n + 1}) = Cardinality(R) + 1
        BY <3>2, FS_AddElement
    <3>5. IsFiniteSet(S) /\ Cardinality(S) <= Cardinality(R \union {n + 1})
        BY <3>3, <3>4, FS_Subset
    <3>6. Cardinality(R) \in Nat /\ Cardinality(S) \in Nat
        BY <3>2, <3>5, FS_CardinalityType
    <3>7. Cardinality(R) <= MaxDepth /\ Cardinality(R) # MaxDepth
        BY <1>1, <2>2, <3>1 DEF Shaped
    <3> QED BY <3>1, <3>4, <3>5, <3>6, <3>7, FramesAssumption
  <2> QED BY <2>1, <2>2
<1>9. Shaped(s)
  <2>1. \A i \in 1 .. n : r.stack[i].at # "stream" /\ (r.stack[i].at \in DocumentPoints <=> i = 1)
      BY <1>1 DEF Shaped
  <2>2. n + 1 = 1 <=> f.at \in DocumentPoints
    <3>1. n = 0 <=> r.stack = <<>>
        BY <1>1 DEF n
    <3> QED BY <1>1, <3>1
  <2>3. f.at # "stream"
      BY PointsApart DEF Calls, Points, DocumentPoints
  <2>4. \A i \in 1 .. n + 1 : st[i].at # "stream" /\ (st[i].at \in DocumentPoints <=> i = 1)
      BY <1>2, <1>7, <2>1, <2>2, <2>3
  <2> QED BY <1>2, <1>5, <1>6, <1>8, <2>4 DEF Shaped
<1>10. Held(s) \subseteq Held(r)
    BY <1>1, <1>2, <1>5, <1>6, <1>7 DEF Held
<1>11. Top(s) = f /\ s.stack # <<>>
  <2>1. n + 1 # 0
      BY <1>1
  <2>2. st # <<>>
      BY <1>2, <2>1
  <2> QED BY <1>2, <1>5, <2>2 DEF Top, Last
<1>12. r.stack # <<>> => Inside(s)
  <2>1. n = 0 => r.stack = <<>>
      BY <1>1 DEF n
  <2>2. n # 0 => n + 1 >= 2
      BY <1>1
  <2> QED BY <1>2, <1>5, <2>1, <2>2 DEF Inside
<1>13. \A g \in DOMAIN r \intersect Lasting : s[g] = r[g]
    BY <1>4 DEF Lasting
<1>14. Same(b, s)
    BY <1>4, <1>6, <1>9, <1>10, <1>13 DEF Same
<1> QED BY <1>11, <1>12, <1>14 DEF s

\* An error leaves a reader that holds nothing.
LEMMA FailedIs ==
    ASSUME NEW b, NEW r, Shaped(r), DOMAIN r = DOMAIN b
    PROVE  Outcome(b, Failed(r)) /\ Failed(r).failed /\ Fallen(Failed(r))
<1> DEFINE s == Failed(r)
<1>1. s = [r EXCEPT !.failed = TRUE, !.taken = TRUE, !.stack = <<>>, !.ret = "pending",
                    !.anchors = {}, !.directives = {}, !.out = <<>>, !.document = None]
    BY DEF Failed
<1>2. Fields \subseteq DOMAIN r
    BY DEF Shaped, IsReader
<1> HIDE DEF s
<1>3. DOMAIN s = DOMAIN r
    BY <1>1
<1>4. /\ s.failed = TRUE /\ s.taken = TRUE /\ s.stack = <<>> /\ s.ret = "pending"
      /\ s.anchors = {} /\ s.directives = {} /\ s.out = <<>>
    BY <1>1, <1>2 DEF Fields
<1>5. IsReader(s)
  <2>1. <<>> \in Seq(Calls) /\ <<>> \in Seq(Words)
      OBVIOUS
  <2>2. s.stack \in Seq(Calls) /\ s.out \in Seq(Words)
      BY <1>4, <2>1
  <2>3. s.anchors \subseteq Names /\ s.directives \subseteq Directives
      BY <1>4
  <2>4. s.taken \in BOOLEAN /\ s.failed \in BOOLEAN /\ s.ret \in {"pending", "none", "node"}
      BY <1>4
  <2> QED BY <1>2, <1>3, <2>2, <2>3, <2>4 DEF IsReader
<1>6. Nested(s) <= MaxDepth
  <2>1. s.stack \in Seq(Calls) /\ DOMAIN s.stack = {}
      BY <1>4
  <2> QED BY <2>1, Shallower
<1>7. Shaped(s)
    BY <1>4, <1>5, <1>6 DEF Shaped
<1> QED BY <1>3, <1>4, <1>7 DEF Outcome, Fallen, s

\* The calls a reader makes start without an anchor.
LEMMA FrameIs ==
    ASSUME NEW point \in Points, NEW flow \in BOOLEAN
    PROVE  Frame(point, flow) \in Calls /\ Frame(point, flow).at = point /\ Frame(point, flow).anchor = None
BY DEF Calls, Frame

LEMMA NodeIs ==
    ASSUME NEW place \in {"other", "value", "bare key"}
    PROVE  Node(place) \in Calls /\ Node(place).at = "node" /\ Node(place).anchor = None
<1> DEFINE c == Frame("node", FALSE)
<1>1. "node" \in Points /\ FALSE \in BOOLEAN
    BY DEF Points, NodePoints
<1>2. c \in Calls /\ c.at = "node" /\ c.anchor = None
    BY <1>1, FrameIs
<1> HIDE DEF c
<1>3. Node(place) = [c EXCEPT !.place = place]
    BY DEF Node, c
<1> QED BY <1>2, <1>3 DEF Calls

\* The call of a node is made within the limit, or fails.
LEMMA CallNodeKeeps ==
    ASSUME NEW b, NEW r, Same(b, r), r.stack # <<>>, NEW place \in {"other", "value", "bare key"}
    PROVE  Outcome(b, CallNode(r, place))
<1>1. CASE Nested(r) = MaxDepth
    BY <1>1, FailedIs DEF CallNode, Same
<1>2. CASE Nested(r) # MaxDepth
  <2>1. Node(place) \in Calls /\ Node(place).at \notin DocumentPoints /\ Node(place).anchor = None
      BY NodeIs DEF DocumentPoints
  <2>2. r.stack = <<>> <=> Node(place).at \in DocumentPoints
      BY <2>1
  <2>3. Same(b, Call(r, Node(place))) /\ Call(r, Node(place)).stack # <<>>
      BY <1>2, <2>1, <2>2, CallKeeps
  <2> QED BY <1>2, <2>3 DEF CallNode, Outcome
<1> QED BY <1>1, <1>2

\* A call inside a document returns to one of the document.
LEMMA ReturnKeeps ==
    ASSUME NEW b, NEW r, Within(b, r), NEW v \in {"pending", "none", "node"}
    PROVE  Same(b, Return(r, v)) /\ Return(r, v).stack # <<>>
<1> DEFINE s == Return(r, v)
           n == Len(r.stack)
           st == Front(r.stack)
<1>1. Shaped(r) /\ IsReader(r) /\ r.stack \in Seq(Calls) /\ n \in Nat /\ DOMAIN r.stack = 1 .. n /\ n >= 2
  <2>1. Shaped(r)
      BY DEF Within, Same
  <2> QED BY <2>1, TopIs DEF Shaped, Within, Inside
<1>2. /\ st \in Seq(Calls) /\ Len(st) = n - 1 /\ DOMAIN st = 1 .. n - 1
      /\ \A i \in 1 .. n - 1 : st[i] = r.stack[i]
  <2>1. r.stack # <<>>
      BY <1>1
  <2>2. \A S : \A q \in Seq(S) : q # <<>> => /\ Front(q) \in Seq(S) /\ Len(Front(q)) = Len(q) - 1
                                       /\ \A i \in 1 .. Len(q) - 1 : Front(q)[i] = q[i]
      BY FrontLast
  <2>3. st \in Seq(Calls) /\ Len(st) = n - 1 /\ \A i \in 1 .. n - 1 : st[i] = r.stack[i]
      BY <1>1, <2>1, <2>2
  <2> HIDE DEF st, n
  <2> QED BY <2>3
<1>3. s = [r EXCEPT !.stack = st, !.ret = v]
    BY DEF Return
<1> HIDE DEF s, n, st
<1>4. DOMAIN s = DOMAIN r /\ \A g \in DOMAIN r : g \notin {"stack", "ret"} => s[g] = r[g]
    BY <1>3
<1>5. s.stack = st /\ s.ret = v
    BY <1>1, <1>3 DEF IsReader, Fields
<1>6. IsReader(s) /\ s.anchors = r.anchors /\ s.taken = r.taken /\ s.out = r.out
    BY <1>1, <1>2, <1>4, <1>5 DEF IsReader, Fields
<1>7. \A i \in 1 .. n - 1 : i \in 1 .. n
    BY <1>1
<1>8. Nested(s) <= MaxDepth
  <2>1. \A i \in DOMAIN s.stack : s.stack[i].at \in NodePoints => i \in DOMAIN r.stack /\ r.stack[i].at \in NodePoints
      BY <1>1, <1>2, <1>5, <1>7
  <2> QED BY <1>1, <1>2, <1>5, <2>1, Shallower
<1>9. Shaped(s)
    BY <1>1, <1>2, <1>5, <1>6, <1>7, <1>8 DEF Shaped
<1>10. Held(s) \subseteq Held(r)
    BY <1>1, <1>2, <1>5, <1>6, <1>7 DEF Held
<1>11. s.stack # <<>>
  <2>1. n - 1 # 0
      BY <1>1
  <2> QED BY <1>2, <1>5, <2>1
<1>13. \A g \in DOMAIN r \intersect Lasting : s[g] = r[g]
    BY <1>4 DEF Lasting
<1>14. Same(b, s)
    BY <1>4, <1>6, <1>9, <1>10, <1>13 DEF Same, Within
<1> QED BY <1>11, <1>14 DEF s

\* The anchor of a node that is complete is bound.
LEMMA BoundKeeps ==
    ASSUME NEW b, NEW t, Within(b, t)
    PROVE  Within(b, Bound(t))
<1> DEFINE u == [t EXCEPT !.anchors = t.anchors \union {Top(t).anchor}]
<1>1. CASE Top(t).anchor = None
    BY <1>1 DEF Bound
<1>2. CASE Top(t).anchor # None
  <2>1. Shaped(t) /\ IsReader(t) /\ t.stack # <<>> /\ Same(b, t)
      BY DEF Within, Same, Inside, Shaped
  <2>2. /\ Top(t) = t.stack[Len(t.stack)] /\ Top(t) \in Calls /\ Len(t.stack) \in DOMAIN t.stack
      BY <2>1, TopIs
  <2>3. Top(t).anchor \in Names
      BY <1>2, <2>2 DEF Calls
  <2>4. DOMAIN u = DOMAIN t /\ \A g \in DOMAIN t : g # "anchors" => u[g] = t[g]
      OBVIOUS
  <2>5. u.anchors = t.anchors \union {Top(t).anchor}
      BY <2>1 DEF IsReader, Fields
  <2> HIDE DEF u
  <2>6. IsReader(u) /\ u.stack = t.stack /\ u.taken = t.taken /\ u.out = t.out
      BY <2>1, <2>3, <2>4, <2>5 DEF IsReader, Fields
  <2>7. u.anchors \subseteq Held(t)
      BY <1>2, <2>2, <2>5 DEF Held
  <2>8. \A g \in DOMAIN t \intersect Lasting : u[g] = t[g]
      BY <2>4 DEF Lasting
  <2>9. Same(b, u) /\ Inside(u)
      BY <2>1, <2>4, <2>6, <2>7, <2>8, StackKept DEF Within
  <2>10. "anchor" \in Words /\ "anchor" # "alias"
      BY DEF Words
  <2>11. Within(b, Put(u, "anchor"))
      BY <2>9, <2>10, PutKeeps DEF Within
  <2> QED BY <1>2, <2>11 DEF Bound, u
<1> QED BY <1>1, <1>2

\* Before that it gets its tag.
LEMMA BuiltKeeps ==
    ASSUME NEW b, NEW r, Within(b, r)
    PROVE  Same(b, Built(r)) /\ Built(r).stack # <<>>
<1> DEFINE t == Tagged(r)
<1>1. Within(b, t)
  <2>1. "tag" \in Words /\ "tag" # "alias"
      BY DEF Words
  <2>2. Within(b, Put(r, "tag"))
      BY <2>1, PutKeeps DEF Within
  <2> QED BY <2>2 DEF Tagged
<1> HIDE DEF t
<1>2. Within(b, Bound(t))
    BY <1>1, BoundKeeps
<1>3. Same(b, Return(Bound(t), "node")) /\ Return(Bound(t), "node").stack # <<>>
    BY <1>2, ReturnKeeps
<1> QED BY <1>3 DEF Built, t

LEMMA ComposedKeeps ==
    ASSUME NEW b, NEW r, Within(b, r)
    PROVE  Same(b, Composed(r)) /\ Composed(r).stack # <<>>
<1> DEFINE t == WithTag(r)
<1>1. Within(b, t)
  <2>1. \A x \in {"tag", "indentless tag"} : x \in Words /\ x # "alias"
      BY DEF Words
  <2>2. Within(b, Put(r, "tag")) /\ Within(b, Put(r, "indentless tag"))
      BY <2>1, PutKeeps DEF Within
  <2> QED BY <2>2 DEF WithTag
<1> HIDE DEF t
<1>2. Within(b, Recorded(t))
    BY <1>1, BoundKeeps DEF Bound, Recorded
<1>3. Same(b, Return(Recorded(t), "node")) /\ Return(Recorded(t), "node").stack # <<>>
    BY <1>2, ReturnKeeps
<1> QED BY <1>3 DEF Composed, t

\* Inside a node, there is a call on top.
LEMMA InsideOpen ==
    ASSUME NEW b, NEW r, Within(b, r)
    PROVE  r.stack # <<>> /\ Shaped(r) /\ Same(b, r)
BY DEF Within, Same, Inside

\* The reader at the start of a step inside a node.
LEMMA Begins ==
    ASSUME NEW r, Shaped(r), Top(r).at \in InnerPoints \union NodePoints
    PROVE  Within(r, r) /\ Top(r) \in Calls
<1>1. Inside(r)
    BY PointsApart, TopIs
<1>2. r.stack # <<>>
    BY <1>1 DEF Inside
<1>3. Top(r) \in Calls
    BY <1>2, TopIs
<1> QED BY <1>1, <1>3 DEF Within, Same

\* The call on top gets a property.
LEMMA PropertyKeeps ==
    ASSUME NEW b, NEW r, Within(b, r), NEW q, q = r \/ (q = Take(r) /\ event.tok \notin Marks),
           Top(r).at = "node", NEW f \in Calls, f.at = "node", f.anchor \in {None, Top(r).anchor} \union Given
    PROVE  LET s == [q EXCEPT !.stack[Len(r.stack)] = f] IN Within(b, s) /\ Top(s) = f
<1> DEFINE n == Len(r.stack)
           s == [q EXCEPT !.stack[n] = f]
           st == [r.stack EXCEPT ![n] = f]
<1>1. IsReader(r)
    BY DEF Within, Same, Shaped
<1>2. /\ DOMAIN q = DOMAIN r /\ q.stack = r.stack /\ q.ret = r.ret /\ q.taken \in BOOLEAN
      /\ \A g \in DOMAIN r : g # "taken" => q[g] = r[g]
      /\ q.taken => r.taken \/ event.tok \notin Marks
    BY <1>1 DEF Take, IsReader, Fields
<1>3. s = [q EXCEPT !.stack = st]
    BY <1>2
<1> HIDE DEF s, st
<1>4. DOMAIN s = DOMAIN r /\ \A g \in DOMAIN r : g # "stack" => s[g] = q[g]
    BY <1>2, <1>3
<1>5. s.stack = st
    BY <1>1, <1>2, <1>3 DEF IsReader, Fields
<1>6. s.ret = r.ret /\ s.taken = q.taken
    BY <1>1, <1>2, <1>4 DEF IsReader, Fields
<1>7. Replaced(r, f, s)
    BY <1>1, <1>2, <1>4, <1>5, <1>6 DEF Replaced, IsReader, st, n
<1> HIDE DEF n
<1>8. Within(b, s) /\ Top(s) = f
    BY <1>7, ReplacedKeeps DEF NodePoints, DocumentPoints
<1> QED BY <1>8 DEF s, n

\* A call goes on and reads a node.
LEMMA GoCallKeeps ==
    ASSUME NEW b, NEW r, Within(b, r), NEW point \in InnerPoints, NEW place \in {"other", "value", "bare key"}
    PROVE  Outcome(b, CallNode(Go(r, point), place))
<1> DEFINE s == Go(r, point)
<1>1. Within(b, s)
    BY GoKeeps
<1> HIDE DEF s
<1>2. s.stack # <<>>
    BY <1>1, InsideOpen
<1>3. Outcome(b, CallNode(s, place))
    BY <1>1, <1>2, CallNodeKeeps DEF Within
<1> QED BY <1>3 DEF s
-----------------------------------------------------------------------------
(***************************************************************************)
(* The steps of the decoder inside a node.                                  *)
(***************************************************************************)
EventOK ==
    /\ event.tok \in {"Anchor", "Alias"} => event.arg \in Names
    /\ event.tok = "Directive" => event.arg \in Directives

Collecting ==
    \/ DecodeTag \/ DecodeAnchor \/ DecodeCollectionKey \/ DecodeScalar
    \/ DecodeCollection \/ DecodeCollected \/ DecodeIndentless \/ DecodeEmpty
    \/ DecodeMappingEnd \/ DecodeMappingComma \/ DecodeKey \/ DecodeKeyDone
    \/ DecodeBareKey \/ DecodeBareKeyDone \/ DecodeValueDone
    \/ DecodeSequenceEnd \/ DecodeEntry \/ DecodeEntryDone \/ DecodeItem \/ DecodeItemDone
    \/ DecodePairKeyDone \/ DecodePairDone
    \/ DecodeIndentlessEntry \/ DecodeIndentlessItem \/ DecodeIndentlessItemDone

\* Such a step begins inside a node, so that dec is its own starting point.
LEMMA CollectingInside ==
    ASSUME Shaped(dec), Collecting \/ DecodeAlias
    PROVE  /\ Within(dec, dec) /\ Top(dec) \in Calls /\ dec.stack # <<>> /\ dec.ret \in {"pending", "none", "node"}
           /\ Top(dec) = dec.stack[Len(dec.stack)] /\ Len(dec.stack) \in DOMAIN dec.stack /\ IsReader(dec)
<1>1. Top(dec).at \in InnerPoints \union NodePoints
    BY DEF Collecting, At, Back, InnerPoints, MappingPoints, SequencePoints, NodePoints,
           DecodeTag, DecodeAnchor, DecodeCollectionKey, DecodeScalar, DecodeCollection, DecodeCollected,
           DecodeIndentless, DecodeEmpty, DecodeMappingEnd, DecodeMappingComma, DecodeKey, DecodeKeyDone,
           DecodeBareKey, DecodeBareKeyDone, DecodeValueDone, DecodeSequenceEnd, DecodeEntry, DecodeEntryDone,
           DecodeItem, DecodeItemDone, DecodePairKeyDone, DecodePairDone, DecodeIndentlessEntry,
           DecodeIndentlessItem, DecodeIndentlessItemDone, DecodeAlias
<1>2. Within(dec, dec) /\ Top(dec) \in Calls
    BY <1>1, Begins
<1>3. dec.stack # <<>>
    BY <1>2, InsideOpen
<1> QED BY <1>2, <1>3, TopIs DEF Shaped, IsReader

\* What a reader tells is a word, and no alias unless it is one.
LEMMA WordsAre ==
    \A x \in {"scalar", "null", "mapping", "sequence", "end", "pair", "end pair", "anchor", "tag", "indentless tag"} :
        x \in Words /\ x # "alias"
BY DEF Words

\* A property of the node on top is read: its tag,
LEMMA DecodeTagKeeps ==
    ASSUME Shaped(dec), DecodeTag
    PROVE  Outcome(dec, dec')
<1> DEFINE t == IF event.arg = "core" THEN "core" ELSE "custom"
           f == [Top(dec) EXCEPT !.tag = t]
           n == Len(dec.stack)
           s == [Take(dec) EXCEPT !.stack[n] = f]
<1>1. /\ Within(dec, dec) /\ Top(dec) \in Calls /\ dec.stack # <<>> /\ Top(dec) = dec.stack[n] /\ n \in DOMAIN dec.stack
      /\ Top(dec).at = "node" /\ event.tok \notin Marks /\ IsReader(dec)
    BY CollectingInside DEF Collecting, DecodeTag, At, Marks
<1>2. f \in Calls /\ f.at = "node" /\ f.anchor = Top(dec).anchor
  <2>1. t \in {None, "core", "custom", "indentless"}
      OBVIOUS
  <2> HIDE DEF t
  <2> QED BY <1>1, <2>1 DEF Calls
<1>3. Within(dec, s)
  <2> HIDE DEF f, n
  <2> QED BY <1>1, <1>2, PropertyKeeps DEF n
<1>4. Take(dec).stack = dec.stack
    BY <1>1 DEF Take, IsReader, Fields
<1>5. [Take(dec) EXCEPT !.stack[n].tag = t] = s
    BY <1>1, <1>4
<1>6. dec' = Failed(dec) \/ dec' = [Take(dec) EXCEPT !.stack[n].tag = t]
    BY DEF DecodeTag
<1> HIDE DEF s
<1> QED BY <1>3, <1>5, <1>6, FailedIs, InsideOpen DEF Outcome

\* or its anchor, which the text has given.
LEMMA DecodeAnchorKeeps ==
    ASSUME Shaped(dec), EventOK, DecodeAnchor
    PROVE  Outcome(dec, dec')
<1> DEFINE f == [Top(dec) EXCEPT !.anchor = event.arg]
           n == Len(dec.stack)
           s == [Take(dec) EXCEPT !.stack[n] = f]
<1>1. /\ Within(dec, dec) /\ Top(dec) \in Calls /\ dec.stack # <<>> /\ Top(dec) = dec.stack[n] /\ n \in DOMAIN dec.stack
      /\ Top(dec).at = "node" /\ event.tok = "Anchor" /\ event.tok \notin Marks /\ IsReader(dec)
    BY CollectingInside DEF Collecting, DecodeAnchor, At, Marks
<1>2. f \in Calls /\ f.at = "node" /\ f.anchor \in Given
  <2>1. event.arg \in Names
      BY <1>1 DEF EventOK
  <2> QED BY <1>1, <2>1 DEF Calls, Given
<1>3. Within(dec, s)
  <2> HIDE DEF f, n
  <2> QED BY <1>1, <1>2, PropertyKeeps DEF n
<1>4. Take(dec).stack = dec.stack
    BY <1>1 DEF Take, IsReader, Fields
<1>5. [Take(dec) EXCEPT !.stack[n].anchor = event.arg] = s
    BY <1>1, <1>4
<1>6. dec' = Failed(dec) \/ dec' = [Take(dec) EXCEPT !.stack[n].anchor = event.arg]
    BY DEF DecodeAnchor
<1> HIDE DEF s
<1> QED BY <1>3, <1>5, <1>6, FailedIs, InsideOpen DEF Outcome

\* A scalar is a node.
LEMMA DecodeScalarKeeps ==
    ASSUME Shaped(dec), DecodeScalar
    PROVE  Outcome(dec, dec')
<1> DEFINE r == Put(dec, "scalar")
           s == Built(r)
<1>1. Within(dec, dec) /\ event.tok \notin Marks
    BY CollectingInside DEF Collecting, DecodeScalar, Marks
<1>2. Within(dec, r)
    BY <1>1, WordsAre, PutKeeps DEF Within
<1>4. dec' = Take(s)
    BY DEF DecodeScalar
<1> HIDE DEF r
<1>3. Same(dec, s) /\ s.stack # <<>>
    BY <1>2, BuiltKeeps
<1> HIDE DEF s
<1> QED BY <1>1, <1>3, <1>4, TakeKeeps DEF Outcome

\* A collection begins: the call of its node stays below that of its entries.
LEMMA OpenCallKeeps ==
    ASSUME NEW b, NEW r, Within(b, r), Top(r).at = "node", NEW word \in {"mapping", "sequence"},
           NEW point \in InnerPoints, NEW flow \in BOOLEAN
    PROVE  LET c == Call(Opened(Put(r, word)), Frame(point, flow)) IN Same(b, c) /\ c.stack # <<>>
<1> DEFINE p == Put(r, word)
           o == Opened(p)
           c == Call(o, Frame(point, flow))
<1>1. Within(b, p) /\ Top(p).at = "node"
  <2>1. word \in Words /\ word # "alias" /\ Same(b, r) /\ Inside(r)
      BY WordsAre DEF Within
  <2>2. Same(b, p) /\ Inside(p) /\ Top(p) = Top(r)
      BY <2>1, PutKeeps
  <2> QED BY <2>2 DEF Within
<1> HIDE DEF p
<1>2. Within(b, o)
    BY <1>1, OpenedKeeps
<1> HIDE DEF o
<1>3. o.stack # <<>> /\ Same(b, o)
    BY <1>2, InsideOpen
<1>4. /\ Frame(point, flow) \in Calls /\ Frame(point, flow).at \notin DocumentPoints \union NodePoints
      /\ Frame(point, flow).anchor = None
    BY PointsApart, FrameIs
<1>5. Same(b, c) /\ c.stack # <<>>
    BY <1>3, <1>4, CallKeeps
<1> QED BY <1>5 DEF o, p

LEMMA DecodeCollectionKeeps ==
    ASSUME Shaped(dec), DecodeCollection
    PROVE  Outcome(dec, dec')
<1> DEFINE flow == event.tok \in FlowOpenings
           at == IF event.tok \in {"BlockMap", "FlowMap"} THEN "mapping" ELSE "sequence"
           c == Call(Opened(Put(dec, at)), Frame(at, flow))
<1>1. Within(dec, dec) /\ Top(dec).at = "node" /\ event.tok \notin Marks
    BY CollectingInside DEF Collecting, DecodeCollection, At, Marks, Openers, BlockOpeners, FlowOpenings
<1>2. at \in InnerPoints /\ at \in {"mapping", "sequence"} /\ flow \in BOOLEAN
    BY DEF InnerPoints, MappingPoints, SequencePoints
<1>3. dec' = Take(c)
    BY DEF DecodeCollection
<1> HIDE DEF at, flow
<1>4. Same(dec, c) /\ c.stack # <<>>
    BY <1>1, <1>2, OpenCallKeeps
<1> HIDE DEF c
<1> QED BY <1>1, <1>3, <1>4, TakeKeeps DEF Outcome

\* It ends: its node is complete.
LEMMA DecodeCollectedKeeps ==
    ASSUME Shaped(dec), DecodeCollected
    PROVE  Outcome(dec, dec')
<1>1. Within(dec, dec) /\ dec' = Built(dec)
    BY CollectingInside DEF Collecting, DecodeCollected
<1> QED BY <1>1, BuiltKeeps DEF Outcome

\* A sequence at the indent of its key begins without a token.
LEMMA DecodeIndentlessKeeps ==
    ASSUME Shaped(dec), DecodeIndentless
    PROVE  Outcome(dec, dec')
<1> DEFINE f == [Top(dec) EXCEPT !.tag = None]
           n == Len(dec.stack)
           q == [dec EXCEPT !.stack[n] = f]
           c == Call(Opened(Put(q, "sequence")), Frame("indentless", FALSE))
<1>1. /\ Within(dec, dec) /\ Top(dec) \in Calls /\ dec.stack # <<>> /\ Top(dec) = dec.stack[n] /\ n \in DOMAIN dec.stack
      /\ Top(dec).at = "node"
    BY CollectingInside DEF Collecting, DecodeIndentless, At
<1>2. f \in Calls /\ f.at = "node" /\ f.anchor = Top(dec).anchor
    BY <1>1 DEF Calls
<1>3. Within(dec, q) /\ Top(q).at = "node"
  <2> HIDE DEF f, n
  <2> QED BY <1>1, <1>2, PropertyKeeps DEF n
<1>4. [dec EXCEPT !.stack[n].tag = None] = q
    BY <1>1
<1>5. dec' = c
    BY <1>4 DEF DecodeIndentless
<1> HIDE DEF q
<1>6. "indentless" \in InnerPoints /\ FALSE \in BOOLEAN
    BY DEF InnerPoints
<1>7. Same(dec, c) /\ c.stack # <<>>
    BY <1>3, <1>6, OpenCallKeeps
<1> QED BY <1>5, <1>7 DEF Outcome

\* Nothing begins a node: none is there, or a property makes one of nothing.
LEMMA DecodeEmptyKeeps ==
    ASSUME Shaped(dec), DecodeEmpty
    PROVE  Outcome(dec, dec')
<1> DEFINE r == Put(dec, "null")
<1>1. Within(dec, dec)
    BY CollectingInside DEF Collecting
<1>2. Within(dec, r)
    BY <1>1, WordsAre, PutKeeps DEF Within
<1>3. dec' = Return(dec, "none") \/ dec' = Built(r)
    BY DEF DecodeEmpty
<1> HIDE DEF r
<1> QED BY <1>1, <1>2, <1>3, BuiltKeeps, ReturnKeeps DEF Outcome
-----------------------------------------------------------------------------
\* The points and tokens the code goes on with.
LEMMA PointsAre ==
    \A p \in {"mapping", "key", "value", "bare key", "bare scalar", "sequence", "item", "first item", "entry",
              "item node", "pair key", "pair value", "indentless", "level item"} : p \in InnerPoints
BY DEF InnerPoints, MappingPoints, SequencePoints

LEMMA NoMarks ==
    \A t \in {"Key", "KeyExplicit", "Value", "Entry", "FlowEntry", "FlowMapEnd", "FlowSeqEnd", "BlockEnd"} : t \notin Marks
BY DEF Marks

\* The end of a collection is told, and its token taken unless the document ends.
LEMMA EndKeeps ==
    ASSUME NEW b, NEW r, Within(b, r), NEW word \in {"end", "end pair", "null"}, NEW s,
           s = Return(Put(r, word), "node") \/ (s = Take(Return(Put(r, word), "node")) /\ event.tok \notin Marks)
    PROVE  Outcome(b, s)
<1> DEFINE p == Put(r, word)
           e == Return(p, "node")
<1>1. Within(b, p)
    BY WordsAre, PutKeeps DEF Within
<1> HIDE DEF p
<1>2. Same(b, e) /\ e.stack # <<>>
    BY <1>1, ReturnKeeps
<1>3. s = e \/ (s = Take(e) /\ event.tok \notin Marks)
    BY DEF p
<1> HIDE DEF e
<1> QED BY <1>2, <1>3, TakeKeeps DEF Outcome

\* A mapping: its end, a comma, a key.
LEMMA DecodeMappingKeeps ==
    ASSUME Shaped(dec), DecodeMappingEnd \/ DecodeMappingComma \/ DecodeKey
    PROVE  Outcome(dec, dec')
<1>1. Within(dec, dec) /\ Same(dec, dec) /\ dec.stack # <<>>
    BY CollectingInside, InsideOpen DEF Collecting
<1>2. CASE DecodeMappingEnd
  <2>1. dec' = Return(Put(dec, "end"), "node") \/ (dec' = Take(Return(Put(dec, "end"), "node")) /\ event.tok \notin Ends)
      BY <1>2 DEF DecodeMappingEnd
  <2>2. Marks \subseteq Ends
      BY DEF Marks, Ends
  <2> QED BY <1>1, <2>1, <2>2, EndKeeps
<1>3. CASE DecodeMappingComma
  <2>1. dec' = Take(dec) /\ event.tok \notin Marks
      BY <1>3, NoMarks DEF DecodeMappingComma
  <2> QED BY <1>1, <2>1, TakeKeeps DEF Outcome
<1>4. CASE DecodeKey
  <2> DEFINE t == Take(dec)
  <2>1. event.tok \notin Marks /\ dec' = CallNode(Go(t, "key"), "other")
      BY <1>4, NoMarks DEF DecodeKey, KeyMarks
  <2>2. Within(dec, t)
      BY <1>1, <2>1, TakeKeeps DEF Within
  <2> HIDE DEF t
  <2> QED BY <2>1, <2>2, PointsAre, GoCallKeeps
<1> QED BY <1>2, <1>3, <1>4

\* What may be taken is a ':'.
LEMMA ColonKeeps ==
    ASSUME NEW b, NEW r, Within(b, r)
    PROVE  Within(b, IF event.tok = "Value" THEN Take(r) ELSE r)
BY NoMarks, TakeKeeps DEF Within

\* A mapping: after a key, after a value, and a pair without a Key.
LEMMA DecodePairsKeep ==
    ASSUME Shaped(dec), DecodeKeyDone \/ DecodeValueDone \/ DecodeBareKey
    PROVE  Outcome(dec, dec')
<1> DEFINE r == OrNull(dec)
           v == IF event.tok = "Value" THEN Take(r) ELSE r
<1>1. Within(dec, dec)
    BY CollectingInside DEF Collecting
<1>2. Within(dec, r)
    BY <1>1, OrNullKeeps DEF Within
<1>3. CASE DecodeKeyDone
  <2>1. dec' = CallNode(Go(v, "value"), "value")
      BY <1>3 DEF DecodeKeyDone
  <2> HIDE DEF r
  <2>2. Within(dec, v)
      BY <1>2, ColonKeeps
  <2> HIDE DEF v
  <2> QED BY <2>1, <2>2, PointsAre, GoCallKeeps
<1>4. CASE DecodeValueDone
  <2>1. dec' = Go(r, "mapping")
      BY <1>4 DEF DecodeValueDone
  <2> HIDE DEF r
  <2>2. Within(dec, dec')
      BY <1>2, <2>1, PointsAre, GoKeeps
  <2> QED BY <2>2, InsideOpen DEF Outcome
<1>5. CASE DecodeBareKey
  <2>1. PICK p \in {"bare scalar", "bare key"}, place \in {"other", "bare key"} : dec' = CallNode(Go(dec, p), place)
      BY <1>5 DEF DecodeBareKey
  <2>2. p \in InnerPoints /\ place \in {"other", "value", "bare key"}
      BY PointsAre
  <2> QED BY <1>1, <2>1, <2>2, GoCallKeeps
<1> QED BY <1>3, <1>4, <1>5

LEMMA DecodeBareKeyDoneKeeps ==
    ASSUME Shaped(dec), DecodeBareKeyDone
    PROVE  Outcome(dec, dec')
<1> DEFINE r == OrNull(dec)
           t == Take(r)
           n == Put(r, "null")
<1>1. Within(dec, dec)
    BY CollectingInside DEF Collecting
<1>2. Within(dec, r)
    BY <1>1, OrNullKeeps DEF Within
<1>3. \/ event.tok = "Value" /\ dec' = CallNode(Go(t, "value"), "value")
      \/ dec' = Failed(dec)
      \/ dec' = Return(Put(n, "end"), "node")
      \/ dec' = Go(n, "mapping")
    BY DEF DecodeBareKeyDone
<1> HIDE DEF r
<1>4. Within(dec, n)
    BY <1>2, WordsAre, PutKeeps DEF Within
<1> HIDE DEF n
<1>5. CASE event.tok = "Value" /\ dec' = CallNode(Go(t, "value"), "value")
  <2>1. Within(dec, t)
      BY <1>2, <1>5, NoMarks, TakeKeeps DEF Within
  <2> HIDE DEF t
  <2> QED BY <1>5, <2>1, PointsAre, GoCallKeeps
<1>6. CASE dec' = Failed(dec)
    BY <1>6, FailedIs
<1>7. CASE dec' = Return(Put(n, "end"), "node")
    BY <1>4, <1>7, EndKeeps
<1>8. CASE dec' = Go(n, "mapping")
  <2>1. Within(dec, dec')
      BY <1>4, <1>8, PointsAre, GoKeeps
  <2> QED BY <2>1, InsideOpen DEF Outcome
<1> QED BY <1>3, <1>5, <1>6, <1>7, <1>8

\* A sequence: its end, an entry, and what follows an entry.
LEMMA DecodeSequenceKeeps ==
    ASSUME Shaped(dec), DecodeSequenceEnd \/ DecodeEntry \/ DecodeEntryDone
    PROVE  Outcome(dec, dec')
<1>1. Within(dec, dec) /\ Top(dec) \in Calls
    BY CollectingInside DEF Collecting
<1>2. CASE DecodeSequenceEnd
  <2>1. dec' = Return(Put(dec, "end"), "node") \/ (dec' = Take(Return(Put(dec, "end"), "node")) /\ event.tok \notin Ends)
      BY <1>2 DEF DecodeSequenceEnd
  <2>2. Marks \subseteq Ends
      BY DEF Marks, Ends
  <2> QED BY <1>1, <2>1, <2>2, EndKeeps
<1>3. CASE DecodeEntry
  <2> DEFINE marked == event.tok \in {"Entry", "FlowEntry"}
             p == IF marked THEN "item" ELSE "first item"
             g == Go(dec, p)
             f == Frame("entry", Top(dec).flow)
             c == Call(g, f)
  <2>1. (dec' = Take(c) /\ marked) \/ dec' = c
      BY <1>3 DEF DecodeEntry
  <2>2. p \in InnerPoints
      BY PointsAre
  <2>3. marked => event.tok \notin Marks
      BY NoMarks
  <2> HIDE DEF p, marked
  <2>4. Within(dec, g)
      BY <1>1, <2>2, GoKeeps
  <2> HIDE DEF g
  <2>5. Same(dec, g) /\ g.stack # <<>>
      BY <2>4, InsideOpen
  <2>6. "entry" \in InnerPoints /\ Top(dec).flow \in BOOLEAN
      BY <1>1, PointsAre DEF Calls
  <2>7. f \in Calls /\ f.at \notin DocumentPoints \union NodePoints /\ f.anchor = None
      BY <2>6, PointsApart, FrameIs
  <2> HIDE DEF f
  <2>8. Same(dec, c) /\ c.stack # <<>>
      BY <2>5, <2>7, CallKeeps
  <2> HIDE DEF c
  <2> QED BY <2>1, <2>3, <2>8, TakeKeeps DEF Outcome
<1>4. CASE DecodeEntryDone
  <2>1. dec' = Return(Put(dec, "end"), "node") \/ dec' = Go(dec, "sequence")
      BY <1>4 DEF DecodeEntryDone
  <2>2. dec' = Go(dec, "sequence") => Within(dec, dec')
      BY <1>1, PointsAre, GoKeeps
  <2> QED BY <1>1, <2>1, <2>2, EndKeeps, InsideOpen DEF Outcome
<1> QED BY <1>2, <1>3, <1>4

\* An entry of a sequence, which may be a mapping of one pair.
LEMMA DecodeItemKeeps ==
    ASSUME Shaped(dec), DecodeItem
    PROVE  Outcome(dec, dec')
<1> DEFINE t == Take(dec)
           n == Put(dec, "null")
           p == Put(n, "pair")
           u == Take(p)
<1>1. Within(dec, dec)
    BY CollectingInside DEF Collecting
<1>2. \/ dec' = Return(n, "node")
      \/ event.tok \in KeyMarks /\ dec' = CallNode(Go(t, "pair key"), "other")
      \/ event.tok = "Value" /\ dec' = CallNode(Go(u, "pair value"), "other")
      \/ dec' = CallNode(Go(dec, "item node"), "other")
    BY DEF DecodeItem
<1>3. CASE dec' = Return(n, "node")
    BY <1>1, <1>3, EndKeeps
<1>4. CASE event.tok \in KeyMarks /\ dec' = CallNode(Go(t, "pair key"), "other")
  <2>1. event.tok \notin Marks
      BY <1>4, NoMarks DEF KeyMarks
  <2>2. Within(dec, t)
      BY <1>1, <2>1, TakeKeeps DEF Within
  <2> HIDE DEF t
  <2> QED BY <1>4, <2>2, PointsAre, GoCallKeeps
<1>5. CASE event.tok = "Value" /\ dec' = CallNode(Go(u, "pair value"), "other")
  <2>1. Within(dec, n)
      BY <1>1, WordsAre, PutKeeps DEF Within
  <2> HIDE DEF n
  <2>2. Within(dec, p)
      BY <2>1, WordsAre, PutKeeps DEF Within
  <2> HIDE DEF p
  <2>3. Within(dec, u)
      BY <1>5, <2>2, NoMarks, TakeKeeps DEF Within
  <2> HIDE DEF u
  <2> QED BY <1>5, <2>3, PointsAre, GoCallKeeps
<1>6. CASE dec' = CallNode(Go(dec, "item node"), "other")
    BY <1>1, <1>6, PointsAre, GoCallKeeps
<1> QED BY <1>2, <1>3, <1>4, <1>5, <1>6

LEMMA DecodeItemDoneKeeps ==
    ASSUME Shaped(dec), DecodeItemDone
    PROVE  Outcome(dec, dec')
<1> DEFINE p == Put(dec, "pair")
           u == Take(p)
<1>1. Within(dec, dec) /\ dec.ret \in {"pending", "none", "node"}
    BY CollectingInside DEF Collecting
<1>2. \/ event.tok = "Value" /\ dec' = CallNode(Go(u, "pair value"), "other")
      \/ dec' = Return(dec, dec.ret)
    BY DEF DecodeItemDone
<1>3. Within(dec, p)
    BY <1>1, WordsAre, PutKeeps DEF Within
<1> HIDE DEF p
<1>4. event.tok = "Value" => Within(dec, u)
    BY <1>3, NoMarks, TakeKeeps DEF Within
<1> HIDE DEF u
<1>5. CASE event.tok = "Value" /\ dec' = CallNode(Go(u, "pair value"), "other")
    BY <1>4, <1>5, PointsAre, GoCallKeeps
<1>6. CASE dec' = Return(dec, dec.ret)
    BY <1>1, <1>6, ReturnKeeps DEF Outcome
<1> QED BY <1>2, <1>5, <1>6

\* The pair of such a mapping: after its key, and after its value.
LEMMA DecodePairKeeps ==
    ASSUME Shaped(dec), DecodePairKeyDone \/ DecodePairDone
    PROVE  Outcome(dec, dec')
<1> DEFINE r == OrNull(dec)
           p == Put(r, "pair")
           v == IF event.tok = "Value" THEN Take(p) ELSE p
<1>1. Within(dec, dec)
    BY CollectingInside DEF Collecting
<1>2. Within(dec, r)
    BY <1>1, OrNullKeeps DEF Within
<1>3. CASE DecodePairKeyDone
  <2>1. dec' = CallNode(Go(v, "pair value"), "other")
      BY <1>3 DEF DecodePairKeyDone
  <2> HIDE DEF r
  <2>2. Within(dec, p)
      BY <1>2, WordsAre, PutKeeps DEF Within
  <2> HIDE DEF p
  <2>3. Within(dec, v)
      BY <2>2, ColonKeeps
  <2> HIDE DEF v
  <2> QED BY <2>1, <2>3, PointsAre, GoCallKeeps
<1>4. CASE DecodePairDone
  <2>1. dec' = Return(Put(r, "end pair"), "node")
      BY <1>4 DEF DecodePairDone
  <2> HIDE DEF r
  <2> QED BY <1>2, <2>1, EndKeeps
<1> QED BY <1>3, <1>4

\* A sequence at the indent of its key.
LEMMA DecodeLevelKeeps ==
    ASSUME Shaped(dec), DecodeIndentlessEntry \/ DecodeIndentlessItem \/ DecodeIndentlessItemDone
    PROVE  Outcome(dec, dec')
<1> DEFINE t == Take(dec)
           n == Put(dec, "null")
           e == Return(Put(dec, "end"), "node")
<1>1. Within(dec, dec) /\ Same(dec, dec) /\ dec.stack # <<>>
    BY CollectingInside, InsideOpen DEF Collecting
<1>2. Within(dec, n)
    BY <1>1, WordsAre, PutKeeps DEF Within
<1>3. \/ event.tok = "Entry" /\ dec' = Go(t, "level item")
      \/ event.tok = "FlowMapEnd" /\ dec' = Take(e)
      \/ dec' = e
      \/ dec' = Go(n, "indentless")
      \/ dec' = CallNode(dec, "other")
      \/ dec' = Go(dec, "indentless")
    BY DEF DecodeIndentlessEntry, DecodeIndentlessItem, DecodeIndentlessItemDone, LevelEnds
<1> HIDE DEF n
<1>4. CASE event.tok = "Entry" /\ dec' = Go(t, "level item")
  <2>1. Within(dec, t)
      BY <1>1, <1>4, NoMarks, TakeKeeps DEF Within
  <2> HIDE DEF t
  <2>2. Within(dec, dec')
      BY <1>4, <2>1, PointsAre, GoKeeps
  <2> QED BY <2>2, InsideOpen DEF Outcome
<1>5. CASE (event.tok = "FlowMapEnd" /\ dec' = Take(e)) \/ dec' = e
    BY <1>1, <1>5, NoMarks, EndKeeps
<1>6. CASE dec' = Go(n, "indentless") \/ dec' = Go(dec, "indentless")
  <2>1. Within(dec, Go(n, "indentless"))
      BY <1>2, PointsAre, GoKeeps
  <2>2. Within(dec, Go(dec, "indentless"))
      BY <1>1, PointsAre, GoKeeps
  <2>3. Within(dec, dec')
      BY <1>6, <2>1, <2>2
  <2> QED BY <2>3, InsideOpen DEF Outcome
<1>7. CASE dec' = CallNode(dec, "other")
    BY <1>1, <1>7, CallNodeKeeps
<1> QED BY <1>3, <1>4, <1>5, <1>6, <1>7

\* Every step inside a node but that of an alias.
LEMMA CollectingKeeps ==
    ASSUME Shaped(dec), EventOK, Collecting
    PROVE  Outcome(dec, dec')
<1>1. DecodeCollectionKey => Outcome(dec, dec')
    BY FailedIs DEF DecodeCollectionKey
<1> QED BY <1>1, DecodeTagKeeps, DecodeAnchorKeeps, DecodeScalarKeeps, DecodeCollectionKeeps, DecodeCollectedKeeps,
       DecodeIndentlessKeeps, DecodeEmptyKeeps, DecodeMappingKeeps, DecodePairsKeep, DecodeBareKeyDoneKeeps,
       DecodeSequenceKeeps, DecodeItemKeeps, DecodeItemDoneKeeps, DecodePairKeeps, DecodeLevelKeeps DEF Collecting
-----------------------------------------------------------------------------
(***************************************************************************)
(* An alias, and the steps between documents.                               *)
(***************************************************************************)
\* A node that is an alias is told, and its event taken at once.
LEMMA AliasTold ==
    ASSUME NEW r, Within(r, r), event.tok = "Alias", NEW s, s = Take(Return(Put(r, "alias"), "node"))
    PROVE  /\ DOMAIN s = DOMAIN r /\ Shaped(s) /\ Held(s) \subseteq Held(r) \union Given
           /\ s.stack # <<>> /\ s.taken /\ \A g \in DOMAIN r \intersect Lasting : s[g] = r[g]
<1> DEFINE p == Put(r, "alias")
           e == Return(p, "node")
           o == Append(r.out, "alias")
<1>1. IsReader(r) /\ Shaped(r) /\ Inside(r)
    BY DEF Within, Same, Shaped
<1>2. p = [r EXCEPT !.out = o]
    BY DEF Put
<1>3. o \in Seq(Words)
  <2>1. r.out \in Seq(Words)
      BY <1>1 DEF IsReader
  <2>2. "alias" \in Words
      BY DEF Words
  <2> QED BY <2>1, <2>2
<1>4. s = Take(e)
    OBVIOUS
<1> HIDE DEF p, o
<1>5. DOMAIN p = DOMAIN r /\ \A g \in DOMAIN r : g # "out" => p[g] = r[g]
    BY <1>2
<1>6. p.out = o
    BY <1>1, <1>2 DEF IsReader, Fields
<1>7. IsReader(p) /\ p.stack = r.stack /\ p.anchors = r.anchors
    BY <1>1, <1>3, <1>5, <1>6 DEF IsReader, Fields
<1>8. Shaped(p) /\ Held(p) = Held(r) /\ Inside(p)
    BY <1>1, <1>7 DEF Shaped, Nested, Held, Inside
<1>9. Within(p, p)
    BY <1>8 DEF Within, Same
<1>10. Same(p, e) /\ e.stack # <<>>
    BY <1>9, ReturnKeeps
<1> HIDE DEF e
<1>11. event.tok \notin Marks
    BY DEF Marks
<1>12. Same(p, s) /\ s.stack # <<>>
    BY <1>4, <1>10, <1>11, TakeKeeps
<1>13. s.taken
  <2>1. "taken" \in DOMAIN e
      BY <1>10 DEF Same, Shaped, IsReader, Fields
  <2> QED BY <1>4, <2>1 DEF Take
<1>14. \A g \in DOMAIN r \intersect Lasting : s[g] = r[g]
    BY <1>5, <1>12 DEF Same, Lasting
<1> QED BY <1>5, <1>8, <1>12, <1>13, <1>14 DEF Same

\* The decoder tells one only if its name is bound.
LEMMA DecodeAliasKeeps ==
    ASSUME Shaped(dec), DecodeAlias
    PROVE  \/ Outcome(dec, dec') /\ Fallen(dec')
           \/ /\ DOMAIN dec' = DOMAIN dec /\ Shaped(dec') /\ Held(dec') \subseteq Held(dec) \union Given
              /\ dec'.stack # <<>> /\ dec'.taken /\ event.tok = "Alias" /\ event.arg \in dec.anchors
<1>1. Within(dec, dec)
    BY CollectingInside
<1>2. CASE dec' = Failed(dec)
    BY <1>2, FailedIs
<1>3. CASE event.tok = "Alias" /\ event.arg \in dec.anchors /\ dec' = Take(Return(Put(dec, "alias"), "node"))
  <2> DEFINE s == Take(Return(Put(dec, "alias"), "node"))
  <2>1. /\ DOMAIN s = DOMAIN dec /\ Shaped(s) /\ Held(s) \subseteq Held(dec) \union Given
        /\ s.stack # <<>> /\ s.taken
      BY <1>1, <1>3, AliasTold
  <2> HIDE DEF s
  <2> QED BY <1>3, <2>1 DEF s
<1> QED BY <1>2, <1>3 DEF DecodeAlias

\* Between documents the decoder holds nothing.
Idle(s) ==
    /\ IsReader(s) /\ DOMAIN s = DOMAIN dec /\ s.stack = <<>> /\ s.anchors = {}
    /\ Contains(s.out, "alias") => Contains(dec.out, "alias")

LEMMA IdleKeeps ==
    ASSUME NEW r, Idle(r), NEW s, DOMAIN s = DOMAIN r, s.taken \in BOOLEAN, s.directives \subseteq Directives,
           \A g \in DOMAIN r : g \notin {"taken", "directives", "document", "mayDirect"} => s[g] = r[g]
    PROVE  Idle(s)
BY DEF Idle, IsReader, Fields

LEMMA IdleShaped ==
    ASSUME NEW s, Idle(s)
    PROVE  Shaped(s) /\ Held(s) = {}
<1>1. s.stack \in Seq(Calls) /\ DOMAIN s.stack = {}
    BY DEF Idle, IsReader
<1>2. Nested(s) <= MaxDepth
  <2>1. Cardinality({}) = 0 /\ {i \in DOMAIN s.stack : s.stack[i].at \in {"node", "collected"}} = {}
      BY <1>1, FS_EmptySet
  <2> QED BY <2>1, FramesAssumption DEF Nested
<1> QED BY <1>1, <1>2 DEF Idle, Shaped, Held

LEMMA FallenHolds ==
    ASSUME NEW s, Fallen(s)
    PROVE  Held(s) = {} /\ ~Contains(s.out, "alias")
<1>1. s.stack = <<>> /\ s.anchors = {} /\ s.out = <<>>
    BY DEF Fallen
<1>2. DOMAIN <<>> = {} /\ 1 .. Len(<<>>) = {}
    OBVIOUS
<1>3. {s.stack[i].anchor : i \in DOMAIN s.stack} = {}
    BY <1>1, <1>2
<1> QED BY <1>1, <1>2, <1>3 DEF Held, Contains

\* A run of directives, and what stands between documents.
LEMMA DecodeBetweenKeeps ==
    ASSUME Shaped(dec), EventOK, dec.stack = <<>> => dec.anchors = {}, {"mayDirect"} \subseteq DOMAIN dec,
           DecodeBetween \/ DecodeDirective
    PROVE  Idle(dec')
<1> DEFINE t == Take(dec)
           u == [t EXCEPT !.mayDirect = t.mayDirect \/ event.tok = "DocEnd"]
           v == [t EXCEPT !.directives = t.directives \union {event.arg}]
<1>1. Top(dec).at = "stream" /\ IsReader(dec)
    BY DEF DecodeBetween, DecodeDirective, At, Shaped
<1>2. Idle(dec)
    BY <1>1, TopIs DEF Idle
<1>3. Idle(Failed(dec))
    BY FailedIs DEF Outcome, Fallen, Idle, Shaped, Contains
<1>4. /\ DOMAIN t = DOMAIN dec /\ \A g \in DOMAIN dec : g # "taken" => t[g] = dec[g]
      /\ t.taken = TRUE /\ t.directives = dec.directives
    BY <1>1 DEF Take, IsReader, Fields
<1>5. dec' = Failed(dec) \/ (DecodeBetween /\ dec' = u) \/ (DecodeDirective /\ dec' = v)
    BY DEF DecodeBetween, DecodeDirective
<1> HIDE DEF t
<1>6. CASE DecodeBetween /\ dec' = u
  <2>1. DOMAIN u = DOMAIN dec /\ \A g \in DOMAIN dec : g \notin {"taken", "mayDirect"} => u[g] = dec[g]
      BY <1>4
  <2>2. u.taken = TRUE /\ u.directives = dec.directives
      BY <1>1, <1>4 DEF IsReader, Fields
  <2> HIDE DEF u
  <2>3. Idle(u)
      BY <1>1, <1>2, <2>1, <2>2, IdleKeeps DEF IsReader
  <2> QED BY <1>6, <2>3
<1>7. CASE DecodeDirective /\ dec' = v
  <2>1. DOMAIN v = DOMAIN dec /\ \A g \in DOMAIN dec : g \notin {"taken", "directives"} => v[g] = dec[g]
      BY <1>4
  <2>2. v.taken = TRUE /\ v.directives = dec.directives \union {event.arg}
      BY <1>1, <1>4 DEF IsReader, Fields
  <2>3. event.arg \in Directives
      BY <1>7 DEF EventOK, DecodeDirective
  <2> HIDE DEF v
  <2>4. Idle(v)
      BY <1>1, <1>2, <2>1, <2>2, <2>3, IdleKeeps DEF IsReader
  <2> QED BY <1>7, <2>4
<1> QED BY <1>3, <1>5, <1>6, <1>7

\* A document begins with the call of its node, and no name bound.
LEMMA DocumentBegins ==
    ASSUME NEW q, IsReader(q), q.stack = <<>>, q.anchors = {}, NEW p \in DocumentPoints, NEW s,
           s = CallNode(Call(q, Frame(p, FALSE)), "other")
    PROVE  Outcome(q, s) /\ Held(q) = {} /\ (Held(s) \subseteq Given)
<1> DEFINE f == Frame(p, FALSE)
           c == Call(q, f)
<1>1. Shaped(q) /\ Held(q) = {}
  <2>1. q.stack \in Seq(Calls) /\ DOMAIN q.stack = {}
      BY DEF IsReader
  <2>2. Nested(q) <= MaxDepth
    <3>1. Cardinality({}) = 0 /\ {i \in DOMAIN q.stack : q.stack[i].at \in {"node", "collected"}} = {}
        BY <2>1, FS_EmptySet
    <3> QED BY <3>1, FramesAssumption DEF Nested
  <2> QED BY <2>1, <2>2 DEF Shaped, Held
<1>2. Same(q, q)
    BY <1>1 DEF Same
<1>3. f \in Calls /\ f.at = p /\ f.anchor = None /\ f.at \notin NodePoints
    BY FrameIs DEF Points, DocumentPoints, NodePoints
<1>4. s = CallNode(c, "other")
    OBVIOUS
<1> HIDE DEF f
<1>5. Same(q, c) /\ c.stack # <<>>
    BY <1>2, <1>3, CallKeeps
<1> HIDE DEF c
<1>6. Outcome(q, s)
    BY <1>4, <1>5, CallNodeKeeps
<1>7. Held(s) \subseteq Given
    BY <1>1, <1>6, FallenHolds DEF Outcome, Same
<1> QED BY <1>1, <1>6, <1>7

\* A document begins with no name bound.
LEMMA DecodeDocumentKeeps ==
    ASSUME Shaped(dec), dec.stack = <<>> => dec.anchors = {}, {"mayDirect"} \subseteq DOMAIN dec, DecodeDocument
    PROVE  /\ DOMAIN dec' = DOMAIN dec /\ Shaped(dec') /\ Held(dec') \subseteq Given
           /\ dec'.stack = <<>> => dec'.anchors = {}
           /\ Contains(dec'.out, "alias") => Contains(dec.out, "alias")
<1> DEFINE r == [dec EXCEPT !.mayDirect = FALSE]
           t == Take(r)
<1>1. Top(dec).at = "stream" /\ IsReader(dec)
    BY DEF DecodeDocument, At, Shaped
<1>2. Idle(dec)
    BY <1>1, TopIs DEF Idle
<1>3. \/ dec' = CallNode(Call(t, Frame("explicit", FALSE)), "other")
      \/ dec' = CallNode(Call(r, Frame("implicit", FALSE)), "other")
      \/ dec' = Failed(dec)
    BY DEF DecodeDocument
<1>4. Idle(r)
  <2>1. DOMAIN r = DOMAIN dec /\ \A g \in DOMAIN dec : g # "mayDirect" => r[g] = dec[g]
      OBVIOUS
  <2>2. r.taken = dec.taken /\ r.directives = dec.directives
      BY <1>1, <2>1 DEF IsReader, Fields
  <2> HIDE DEF r
  <2> QED BY <1>1, <1>2, <2>1, <2>2, IdleKeeps DEF IsReader
<1> HIDE DEF r
<1>5. Idle(t)
  <2>1. DOMAIN t = DOMAIN r /\ \A g \in DOMAIN r : g # "taken" => t[g] = r[g]
      BY DEF Take
  <2>2. t.taken = TRUE /\ t.directives = r.directives
      BY <1>4, <2>1 DEF Take, Idle, IsReader, Fields
  <2> HIDE DEF t
  <2>3. DOMAIN t = DOMAIN r /\ t.taken \in BOOLEAN /\ t.directives \subseteq Directives
      BY <1>4, <2>1, <2>2 DEF Idle, IsReader
  <2>4. \A g \in DOMAIN r : g \notin {"taken", "directives", "document", "mayDirect"} => t[g] = r[g]
      BY <2>1
  <2> QED BY <1>4, <2>3, <2>4, IdleKeeps
<1> HIDE DEF t
<1>6. ASSUME NEW q, Idle(q), NEW p \in DocumentPoints, dec' = CallNode(Call(q, Frame(p, FALSE)), "other")
      PROVE  /\ DOMAIN dec' = DOMAIN dec /\ Shaped(dec') /\ Held(dec') \subseteq Given
             /\ dec'.stack = <<>> => dec'.anchors = {}
             /\ Contains(dec'.out, "alias") => Contains(dec.out, "alias")
  <2>1. Outcome(q, dec') /\ Held(dec') \subseteq Given
      BY <1>6, DocumentBegins DEF Idle
  <2>2. CASE Same(q, dec') /\ dec'.stack # <<>>
      BY <1>6, <2>1, <2>2 DEF Same, Idle
  <2>3. CASE DOMAIN dec' = DOMAIN q /\ Shaped(dec') /\ Fallen(dec')
      BY <1>6, <2>3, FallenHolds DEF Idle, Fallen
  <2> QED BY <2>1, <2>2, <2>3 DEF Outcome
<1>7. CASE dec' = Failed(dec)
  <2>1. DOMAIN dec' = DOMAIN dec /\ Shaped(dec') /\ Fallen(dec')
      BY <1>7, FailedIs DEF Outcome, Fallen, Same
  <2> QED BY <2>1, FallenHolds DEF Fallen
<1> QED BY <1>3, <1>4, <1>5, <1>6, <1>7 DEF DocumentPoints

\* It ends, and its names with it.
LEMMA DecodeDocumentDoneKeeps ==
    ASSUME Shaped(dec), {"mayDirect"} \subseteq DOMAIN dec, DecodeDocumentDone
    PROVE  Idle(dec')
<1> DEFINE e == [dec EXCEPT !.document = <<dec.ret = "none", dec.directives>>]
<1>1. Top(dec).at \in DocumentPoints /\ IsReader(dec)
    BY DEF DecodeDocumentDone, Back, DocumentPoints, Shaped
<1>2. Len(dec.stack) = 1 /\ dec.stack \in Seq(Calls)
    BY <1>1, TopIs
<1>3. Front(dec.stack) = <<>>
  <2>1. dec.stack # <<>>
    <3>1. dec.stack = <<>> => Top(dec).at = "stream"
        BY DEF Top, Frame
    <3> QED BY <1>1, <3>1 DEF DocumentPoints
  <2>2. Len(Front(dec.stack)) = Len(dec.stack) - 1 /\ Front(dec.stack) \in Seq(Calls)
      BY <1>2, <2>1, FrontLast
  <2> QED BY <1>2, <2>2
<1>4. PICK d \in {dec, e} : LET r == Closing(Return(d, "pending"))
                            IN  dec' \in {Failed(dec), Take(r), [Take(r) EXCEPT !.mayDirect = TRUE], r}
    BY DEF DecodeDocumentDone, Skipped
<1>5. Idle(Failed(dec))
    BY FailedIs DEF Outcome, Fallen, Idle, Same, Shaped, Contains
<1> DEFINE q == Return(d, "pending")
           r == Closing(q)
           t == Take(r)
           u == [t EXCEPT !.mayDirect = TRUE]
<1>6. /\ IsReader(d) /\ DOMAIN d = DOMAIN dec /\ d.stack = dec.stack /\ d.out = dec.out
  <2>1. DOMAIN e = DOMAIN dec /\ \A g \in DOMAIN dec : g # "document" => e[g] = dec[g]
      OBVIOUS
  <2> HIDE DEF e
  <2> QED BY <1>1, <1>4, <2>1 DEF IsReader, Fields
<1>7. /\ DOMAIN q = DOMAIN d /\ \A g \in DOMAIN d : g \notin {"stack", "ret"} => q[g] = d[g]
      /\ q.stack = <<>> /\ q.ret = "pending"
    BY <1>3, <1>6 DEF Return, IsReader, Fields
<1> HIDE DEF q
<1>8. /\ DOMAIN r = DOMAIN q /\ \A g \in DOMAIN q : g \notin {"anchors", "directives"} => r[g] = q[g]
      /\ r.anchors = {} /\ r.directives = {}
    BY <1>6, <1>7 DEF Closing, IsReader, Fields
<1> HIDE DEF r
<1>9. Idle(r)
  <2>1. DOMAIN r = DOMAIN dec /\ Fields \subseteq DOMAIN dec
      BY <1>1, <1>6, <1>7, <1>8 DEF IsReader
  <2>2. r.stack = <<>> /\ r.ret = "pending" /\ r.taken = d.taken /\ r.failed = d.failed /\ r.out = d.out
      BY <1>6, <1>7, <1>8, <2>1 DEF Fields
  <2>3. r.stack \in Seq(Calls)
      BY <1>3, <2>2
  <2>4. IsReader(r)
      BY <1>6, <1>8, <2>1, <2>2, <2>3 DEF IsReader
  <2> QED BY <1>6, <1>8, <2>1, <2>2, <2>4 DEF Idle
<1>10. Idle(t)
  <2>1. DOMAIN t = DOMAIN r /\ \A g \in DOMAIN r : g # "taken" => t[g] = r[g]
      BY DEF Take
  <2>2. t.taken = TRUE /\ t.directives = r.directives
      BY <1>9, <2>1 DEF Take, Idle, IsReader, Fields
  <2> HIDE DEF t
  <2>3. DOMAIN t = DOMAIN r /\ t.taken \in BOOLEAN /\ t.directives \subseteq Directives
      BY <1>9, <2>1, <2>2 DEF Idle, IsReader
  <2>4. \A g \in DOMAIN r : g \notin {"taken", "directives", "document", "mayDirect"} => t[g] = r[g]
      BY <2>1
  <2> QED BY <1>9, <2>3, <2>4, IdleKeeps
<1> HIDE DEF t
<1>11. Idle(u)
  <2>1. DOMAIN u = DOMAIN t /\ \A g \in DOMAIN t : g # "mayDirect" => u[g] = t[g]
      OBVIOUS
  <2>2. u.taken = t.taken /\ u.directives = t.directives
      BY <1>10, <2>1 DEF Idle, IsReader, Fields
  <2> HIDE DEF u
  <2> QED BY <1>10, <2>1, <2>2, IdleKeeps DEF Idle, IsReader
<1> QED BY <1>4, <1>5, <1>9, <1>10, <1>11 DEF r, t, q
-----------------------------------------------------------------------------
(***************************************************************************)
(* The steps of the composer inside a node.  It keeps the properties read   *)
(* as its own, until the call of a node takes them (Owning).                *)
(***************************************************************************)
\* The node on top takes the properties.
LEMMA OwningIs ==
    ASSUME Shaped(com), Own, Top(com).at = "node"
    PROVE  LET o == Owning(com)
           IN  /\ Within(o, o) /\ Top(o) \in Calls /\ Top(o).at = "node" /\ Top(o).place = Top(com).place
               /\ Len(o.stack) = Len(com.stack) /\ o.stack # <<>> /\ Top(o) = o.stack[Len(com.stack)]
               /\ Len(com.stack) \in DOMAIN o.stack
               /\ DOMAIN o = DOMAIN com /\ o.taken = com.taken /\ o.failed = com.failed
               /\ o.out = com.out /\ o.anchors = com.anchors /\ o.tag = None /\ o.anchor = None
               /\ Held(o) \subseteq Held(com) \union ({com.anchor} \ {None})
               /\ o.stack = [com.stack EXCEPT ![Len(com.stack)] = Top(o)] /\ o.ret = com.ret
<1> DEFINE n == Len(com.stack)
           r == [com EXCEPT !.tag = None, !.anchor = None]
           f == [Top(com) EXCEPT !.tag = com.tag, !.anchor = com.anchor]
           st == [com.stack EXCEPT ![n] = f]
           o == [r EXCEPT !.stack = st]
<1>1. /\ Inside(com) /\ Top(com) \in Calls /\ Top(com) = com.stack[n] /\ n \in DOMAIN com.stack
      /\ IsReader(com) /\ com.stack # <<>>
  <2>1. Top(com).at \in InnerPoints \union NodePoints
      BY DEF NodePoints
  <2>2. Within(com, com) /\ Top(com) \in Calls
      BY <2>1, Begins
  <2>3. com.stack # <<>>
      BY <2>2, InsideOpen
  <2> QED BY <2>2, <2>3, TopIs DEF Within, Shaped
<1>2. f \in Calls /\ f.at = "node" /\ f.place = Top(com).place /\ f.anchor = com.anchor
    BY <1>1 DEF Calls, Own
<1>3. Owning(com) = o
  <2> DEFINE c == Top(com)
  <2>1. c \in Calls /\ com.stack[n] = c
      BY <1>1
  <2>2. [[com.stack EXCEPT ![n].tag = com.tag] EXCEPT ![n].anchor = com.anchor] = st
    <3> HIDE DEF c
    <3>1. f = [c EXCEPT !.tag = com.tag, !.anchor = com.anchor]
        BY DEF c
    <3>2. com.stack = [i \in DOMAIN com.stack |-> com.stack[i]]
        BY <1>1 DEF IsReader
    <3> HIDE DEF f
    <3> QED BY <1>1, <2>1, <3>1, <3>2
  <2>3. Owning(com) = [com EXCEPT !.stack = [[com.stack EXCEPT ![n].tag = com.tag] EXCEPT ![n].anchor = com.anchor],
                                  !.tag = None, !.anchor = None]
      BY <1>1 DEF Owning, IsReader, Fields
  <2> QED BY <1>1, <2>2, <2>3 DEF IsReader, Fields, Own
<1>4. /\ DOMAIN r = DOMAIN com /\ \A g \in DOMAIN com : g \notin {"tag", "anchor"} => r[g] = com[g]
      /\ r.tag = None /\ r.anchor = None
    BY DEF Own
<1> HIDE DEF f, r
<1>5. IsReader(r) /\ r.stack = com.stack /\ r.anchors = com.anchors /\ r.out = com.out
    BY <1>1, <1>4 DEF IsReader, Fields
<1>6. Shaped(r) /\ Inside(r) /\ Top(r) = Top(com) /\ Held(r) = Held(com)
    BY <1>1, <1>5 DEF Shaped, Nested, Inside, Top, Held
<1> HIDE DEF st
<1>7. DOMAIN o = DOMAIN r /\ \A g \in DOMAIN r : g # "stack" => o[g] = r[g]
    OBVIOUS
<1>8. o.stack = st
    BY <1>5 DEF IsReader, Fields
<1> HIDE DEF o
<1>9. /\ o.taken = com.taken /\ o.failed = com.failed /\ o.ret = com.ret
      /\ o.tag = None /\ o.anchor = None /\ r.taken = com.taken
    BY <1>1, <1>4, <1>7 DEF IsReader, Fields, Own
<1>10. Replaced(r, f, o)
    BY <1>1, <1>5, <1>7, <1>8, <1>9 DEF Replaced, IsReader, st, n
<1>11. /\ Shaped(o) /\ Inside(o) /\ Top(o) = f /\ Len(o.stack) = Len(r.stack)
       /\ o.anchors = r.anchors /\ o.out = r.out /\ Held(o) \subseteq Held(r) \union ({f.anchor} \ {None})
    BY <1>2, <1>6, <1>10, ReplacedIs DEF DocumentPoints, NodePoints
<1>12. Within(o, o) /\ o.stack # <<>>
    BY <1>11 DEF Within, Same, Inside
<1>13. Top(o) = o.stack[Len(o.stack)] /\ Len(o.stack) \in DOMAIN o.stack
    BY <1>11, <1>12, TopIs
<1>14. o.stack = [com.stack EXCEPT ![Len(com.stack)] = Top(o)]
    BY <1>8, <1>11 DEF st
<1> QED BY <1>2, <1>3, <1>4, <1>5, <1>6, <1>7, <1>9, <1>11, <1>12, <1>13, <1>14

\* The steps inside a node, but those that only read a property or an alias.
AtNode == ComposeScalar \/ ComposeCollection \/ ComposeIndentless \/ ComposeEmpty
InCollection ==
    \/ ComposeCollected \/ ComposeMappingEnd \/ ComposeMappingComma \/ ComposeKey \/ ComposeKeyDone
    \/ ComposeBareKey \/ ComposeBareKeyDone \/ ComposeValueDone
    \/ ComposeSequenceEnd \/ ComposeEntry \/ ComposeEntryDone
    \/ ComposeBlockEntry \/ ComposeBlockEntryDone \/ ComposeItem \/ ComposeItemDone
    \/ ComposePairKeyDone \/ ComposePairDone \/ ComposeIndentlessEntry \/ ComposeIndentlessDone

LEMMA InCollectionInside ==
    ASSUME Shaped(com), InCollection
    PROVE  /\ Within(com, com) /\ Top(com) \in Calls /\ com.stack # <<>> /\ com.ret \in {"pending", "none", "node"}
           /\ ~At(com, "node")
<1>1. Top(com).at \in InnerPoints \union NodePoints /\ Top(com).at # "node"
    BY DEF InCollection, At, Back, InnerPoints, MappingPoints, SequencePoints, NodePoints,
           ComposeCollected, ComposeMappingEnd, ComposeMappingComma, ComposeKey, ComposeKeyDone,
           ComposeBareKey, ComposeBareKeyDone, ComposeValueDone, ComposeSequenceEnd, ComposeEntry, ComposeEntryDone,
           ComposeBlockEntry, ComposeBlockEntryDone, ComposeItem, ComposeItemDone, ComposePairKeyDone,
           ComposePairDone, ComposeIndentlessEntry, ComposeIndentlessDone
<1>2. Within(com, com) /\ Top(com) \in Calls
    BY <1>1, Begins
<1>3. com.stack # <<>>
    BY <1>2, InsideOpen
<1> QED BY <1>1, <1>2, <1>3 DEF Shaped, IsReader, At

\* A node: a scalar, a collection, or nothing.
LEMMA ComposeNodeKeeps ==
    ASSUME Shaped(com), Own, AtNode
    PROVE  Outcome(Owning(com), com')
<1> DEFINE o == Owning(com)
           n == Len(com.stack)
<1>1. /\ Within(o, o) /\ Top(o) \in Calls /\ Top(o).at = "node" /\ o.stack # <<>> /\ Top(o) = o.stack[n]
      /\ Len(o.stack) = n /\ n \in DOMAIN o.stack /\ IsReader(o)
    BY OwningIs DEF AtNode, ComposeScalar, ComposeCollection, ComposeIndentless, ComposeEmpty, At, Within, Same, Shaped
<1>2. CASE ComposeScalar
  <2> DEFINE p == Put(o, "scalar")
             s == Composed(p)
  <2>1. com' = Take(s) /\ event.tok \notin Marks
      BY <1>2 DEF ComposeScalar, Marks
  <2> HIDE DEF o
  <2>2. Within(o, p)
      BY <1>1, WordsAre, PutKeeps DEF Within
  <2> HIDE DEF p
  <2>3. Same(o, s) /\ s.stack # <<>>
      BY <2>2, ComposedKeeps
  <2> HIDE DEF s
  <2>4. Outcome(o, com')
      BY <2>1, <2>3, TakeKeeps DEF Outcome
  <2> QED BY <2>4 DEF o
<1>3. CASE ComposeCollection
  <2> DEFINE flow == event.tok \in FlowOpenings
             at == IF event.tok \in {"BlockMap", "FlowMap"} THEN "mapping" ELSE "sequence"
             c == Call(Opened(Put(o, at)), Frame(at, flow))
  <2>1. com' = Take(c) /\ event.tok \notin Marks
      BY <1>3 DEF ComposeCollection, Marks, Openers, BlockOpeners, FlowOpenings
  <2>2. at \in InnerPoints /\ at \in {"mapping", "sequence"} /\ flow \in BOOLEAN
      BY DEF InnerPoints, MappingPoints, SequencePoints
  <2> HIDE DEF at, flow, o
  <2>3. Same(o, c) /\ c.stack # <<>>
      BY <1>1, <2>2, OpenCallKeeps
  <2> HIDE DEF c
  <2>4. Outcome(o, com')
      BY <2>1, <2>3, TakeKeeps DEF Outcome
  <2> QED BY <2>4 DEF o
<1>4. CASE ComposeIndentless
  <2> DEFINE t == IF com.tag = "custom" THEN "indentless" ELSE com.tag
             f == [Top(o) EXCEPT !.tag = t]
             q == [o EXCEPT !.stack[n] = f]
             c == Call(Opened(Put(q, "sequence")), Frame("indentless", FALSE))
  <2>1. com' = Call(Opened(Put([o EXCEPT !.stack[n].tag = t], "sequence")), Frame("indentless", FALSE))
      BY <1>4 DEF ComposeIndentless
  <2>2. t \in {None, "core", "custom", "indentless"}
      BY DEF Own
  <2> HIDE DEF t, o
  <2>3. f \in Calls /\ f.at = "node" /\ f.anchor = Top(o).anchor
      BY <1>1, <2>2 DEF Calls
  <2>4. [o EXCEPT !.stack[n].tag = t] = q
      BY <1>1
  <2>5. Within(o, q) /\ Top(q).at = "node"
    <3> HIDE DEF f, n
    <3> QED BY <1>1, <2>3, PropertyKeeps DEF n
  <2> HIDE DEF q
  <2>6. "indentless" \in InnerPoints /\ FALSE \in BOOLEAN
      BY DEF InnerPoints
  <2>7. Same(o, c) /\ c.stack # <<>>
      BY <2>5, <2>6, OpenCallKeeps
  <2>8. Outcome(o, com')
      BY <2>1, <2>4, <2>7 DEF Outcome
  <2> QED BY <2>8 DEF o
<1>5. CASE ComposeEmpty
  <2> DEFINE p == Put(o, "null")
  <2>1. com' = Return(o, "none") \/ com' = Composed(p)
      BY <1>5 DEF ComposeEmpty
  <2> HIDE DEF o
  <2>2. Within(o, p)
      BY <1>1, WordsAre, PutKeeps DEF Within
  <2> HIDE DEF p
  <2>3. Outcome(o, com')
      BY <1>1, <2>1, <2>2, ComposedKeeps, ReturnKeeps DEF Outcome
  <2> QED BY <2>3 DEF o
<1> QED BY <1>2, <1>3, <1>4, <1>5 DEF AtNode

\* A mapping: its end, a comma, a key.
LEMMA ComposeMappingKeeps ==
    ASSUME Shaped(com), ComposeMappingEnd \/ ComposeMappingComma \/ ComposeKey
    PROVE  Outcome(com, com')
<1>1. Within(com, com) /\ Same(com, com) /\ com.stack # <<>>
    BY InCollectionInside, InsideOpen DEF InCollection
<1>2. CASE ComposeMappingEnd
  <2>1. \/ com' = Return(Put(com, "end"), "node")
        \/ com' = Take(Return(Put(com, "end"), "node")) /\ event.tok \notin DocumentEnds
      BY <1>2 DEF ComposeMappingEnd
  <2>2. Marks \subseteq DocumentEnds
      BY DEF Marks, DocumentEnds
  <2> QED BY <1>1, <2>1, <2>2, EndKeeps
<1>3. CASE ComposeMappingComma
  <2>1. com' = Take(com) /\ event.tok \notin Marks
      BY <1>3, NoMarks DEF ComposeMappingComma
  <2> QED BY <1>1, <2>1, TakeKeeps DEF Outcome
<1>4. CASE ComposeKey
  <2> DEFINE t == Take(com)
  <2>1. event.tok \notin Marks /\ com' = CallNode(Go(t, "key"), "other")
      BY <1>4, NoMarks DEF ComposeKey, KeyEvents
  <2>2. Within(com, t)
      BY <1>1, <2>1, TakeKeeps DEF Within
  <2> HIDE DEF t
  <2> QED BY <2>1, <2>2, PointsAre, GoCallKeeps
<1> QED BY <1>2, <1>3, <1>4

\* A mapping: after a key, after a value, and a pair without a Key.
LEMMA ComposePairsKeep ==
    ASSUME Shaped(com), ComposeKeyDone \/ ComposeValueDone \/ ComposeBareKey
    PROVE  Outcome(com, com')
<1> DEFINE r == OrNull(com)
           v == IF event.tok = "Value" THEN Take(r) ELSE r
<1>1. Within(com, com)
    BY InCollectionInside DEF InCollection
<1>2. Within(com, r)
    BY <1>1, OrNullKeeps DEF Within
<1>3. CASE ComposeKeyDone
  <2>1. com' = CallNode(Go(v, "value"), "value")
      BY <1>3 DEF ComposeKeyDone
  <2> HIDE DEF r
  <2>2. Within(com, v)
      BY <1>2, ColonKeeps
  <2> HIDE DEF v
  <2> QED BY <2>1, <2>2, PointsAre, GoCallKeeps
<1>4. CASE ComposeValueDone
  <2>1. com' = Go(r, "mapping")
      BY <1>4 DEF ComposeValueDone
  <2> HIDE DEF r
  <2>2. Within(com, com')
      BY <1>2, <2>1, PointsAre, GoKeeps
  <2> QED BY <2>2, InsideOpen DEF Outcome
<1>5. CASE ComposeBareKey
  <2>1. PICK p \in {"bare scalar", "bare key"}, place \in {"other", "bare key"} : com' = CallNode(Go(com, p), place)
      BY <1>5 DEF ComposeBareKey
  <2>2. p \in InnerPoints /\ place \in {"other", "value", "bare key"}
      BY PointsAre
  <2> QED BY <1>1, <2>1, <2>2, GoCallKeeps
<1> QED BY <1>3, <1>4, <1>5

LEMMA ComposeBareKeyDoneKeeps ==
    ASSUME Shaped(com), ComposeBareKeyDone
    PROVE  Outcome(com, com')
<1> DEFINE r == OrNull(com)
           t == Take(r)
           n == Put(r, "null")
<1>1. Within(com, com)
    BY InCollectionInside DEF InCollection
<1>2. Within(com, r)
    BY <1>1, OrNullKeeps DEF Within
<1>3. \/ event.tok = "Value" /\ com' = CallNode(Go(t, "value"), "value")
      \/ com' = Failed(com)
      \/ com' = Return(Put(n, "end"), "node")
      \/ com' = Go(n, "mapping")
    BY DEF ComposeBareKeyDone
<1> HIDE DEF r
<1>4. Within(com, n)
    BY <1>2, WordsAre, PutKeeps DEF Within
<1> HIDE DEF n
<1>5. CASE event.tok = "Value" /\ com' = CallNode(Go(t, "value"), "value")
  <2>1. Within(com, t)
      BY <1>2, <1>5, NoMarks, TakeKeeps DEF Within
  <2> HIDE DEF t
  <2> QED BY <1>5, <2>1, PointsAre, GoCallKeeps
<1>6. CASE com' = Failed(com)
    BY <1>6, FailedIs
<1>7. CASE com' = Return(Put(n, "end"), "node")
    BY <1>4, <1>7, EndKeeps
<1>8. CASE com' = Go(n, "mapping")
  <2>1. Within(com, com')
      BY <1>4, <1>8, PointsAre, GoKeeps
  <2> QED BY <2>1, InsideOpen DEF Outcome
<1> QED BY <1>3, <1>5, <1>6, <1>7, <1>8

\* A call goes on and reads an entry.
LEMMA GoEntryKeeps ==
    ASSUME NEW b, NEW r, Within(b, r), NEW point \in InnerPoints, NEW to \in {"entry", "block entry"}, NEW flow \in BOOLEAN
    PROVE  LET c == Call(Go(r, point), Frame(to, flow)) IN Same(b, c) /\ c.stack # <<>>
<1> DEFINE g == Go(r, point)
           f == Frame(to, flow)
<1>1. Within(b, g)
    BY GoKeeps
<1> HIDE DEF g
<1>2. Same(b, g) /\ g.stack # <<>>
    BY <1>1, InsideOpen
<1>3. to \in InnerPoints
    BY DEF InnerPoints
<1>4. f \in Calls /\ f.at \notin DocumentPoints \union NodePoints /\ f.anchor = None
    BY <1>3, PointsApart, FrameIs
<1>5. (g.stack = <<>> <=> f.at \in DocumentPoints) /\ (f.at \in NodePoints => Nested(g) # MaxDepth)
    BY <1>2, <1>4
<1> HIDE DEF f
<1>6. Same(b, Call(g, f)) /\ Call(g, f).stack # <<>>
    BY <1>2, <1>4, <1>5, CallKeeps
<1> QED BY <1>6 DEF g, f

\* A sequence: its end, an entry, and what follows an entry.
LEMMA ComposeSequenceKeeps ==
    ASSUME Shaped(com), ComposeSequenceEnd \/ ComposeEntry \/ ComposeEntryDone
    PROVE  Outcome(com, com')
<1>1. Within(com, com) /\ Top(com) \in Calls
    BY InCollectionInside DEF InCollection
<1>2. CASE ComposeSequenceEnd
  <2>1. \/ com' = Return(Put(com, "end"), "node")
        \/ com' = Take(Return(Put(com, "end"), "node")) /\ event.tok \notin DocumentEnds
      BY <1>2 DEF ComposeSequenceEnd
  <2>2. Marks \subseteq DocumentEnds
      BY DEF Marks, DocumentEnds
  <2> QED BY <1>1, <2>1, <2>2, EndKeeps
<1>3. CASE ComposeEntry
  <2> DEFINE t == Take(com)
             flow == Top(com).flow
  <2>1. \/ event.tok = "Entry" /\ com' = Call(Go(t, "item"), Frame("block entry", FALSE))
        \/ event.tok = "FlowEntry" /\ com' = Call(Go(t, "item"), Frame("entry", flow))
        \/ com' = Call(Go(com, "first item"), Frame("entry", flow))
      BY <1>3 DEF ComposeEntry
  <2>2. flow \in BOOLEAN
      BY <1>1 DEF Calls
  <2>3. event.tok \in {"Entry", "FlowEntry"} => Within(com, t)
      BY <1>1, NoMarks, TakeKeeps DEF Within
  <2> HIDE DEF t, flow
  <2> QED BY <1>1, <2>1, <2>2, <2>3, PointsAre, GoEntryKeeps DEF Outcome
<1>4. CASE ComposeEntryDone
  <2>1. com' = Return(Put(com, "end"), "node") \/ com' = Go(com, "sequence")
      BY <1>4 DEF ComposeEntryDone
  <2>2. com' = Go(com, "sequence") => Within(com, com')
      BY <1>1, PointsAre, GoKeeps
  <2> QED BY <1>1, <2>1, <2>2, EndKeeps, InsideOpen DEF Outcome
<1> QED BY <1>2, <1>3, <1>4

\* The entry after a "-".
LEMMA ComposeBlockEntryKeeps ==
    ASSUME Shaped(com), ComposeBlockEntry \/ ComposeBlockEntryDone
    PROVE  Outcome(com, com')
<1>1. Within(com, com) /\ Same(com, com) /\ com.stack # <<>> /\ com.ret \in {"pending", "none", "node"}
    BY InCollectionInside, InsideOpen DEF InCollection
<1>2. com' = Return(Put(com, "null"), "node") \/ com' = CallNode(com, "other") \/ com' = Return(com, com.ret)
    BY DEF ComposeBlockEntry, ComposeBlockEntryDone
<1>3. com' = Return(com, com.ret) => Same(com, com') /\ com'.stack # <<>>
    BY <1>1, ReturnKeeps
<1>4. com' = CallNode(com, "other") => Outcome(com, com')
    BY <1>1, CallNodeKeeps
<1> QED BY <1>1, <1>2, <1>3, <1>4, EndKeeps DEF Outcome

\* An entry of a sequence, which may be a mapping of one pair.
LEMMA ComposeItemKeeps ==
    ASSUME Shaped(com), ComposeItem \/ ComposeItemDone
    PROVE  Outcome(com, com')
<1> DEFINE t == Take(com)
           n == Put(com, "null")
           p == Put(n, "pair")
           u == Take(p)
           q == Put(com, "pair")
           w == Take(q)
<1>1. Within(com, com) /\ com.ret \in {"pending", "none", "node"}
    BY InCollectionInside DEF InCollection
<1>2. \/ event.tok \in KeyEvents /\ com' = CallNode(Go(t, "pair key"), "other")
      \/ event.tok = "Value" /\ com' = CallNode(Go(u, "pair value"), "other")
      \/ event.tok = "Value" /\ com' = CallNode(Go(w, "pair value"), "other")
      \/ com' = CallNode(Go(com, "item node"), "other")
      \/ com' = Return(com, com.ret)
    BY DEF ComposeItem, ComposeItemDone
<1>3. CASE com' = Return(com, com.ret)
    BY <1>1, <1>3, ReturnKeeps DEF Outcome
<1>4. CASE event.tok \in KeyEvents /\ com' = CallNode(Go(t, "pair key"), "other")
  <2>1. event.tok \notin Marks
      BY <1>4, NoMarks DEF KeyEvents
  <2>2. Within(com, t)
      BY <1>1, <2>1, TakeKeeps DEF Within
  <2> HIDE DEF t
  <2> QED BY <1>4, <2>2, PointsAre, GoCallKeeps
<1>5. CASE event.tok = "Value" /\ com' = CallNode(Go(u, "pair value"), "other")
  <2>1. Within(com, n)
      BY <1>1, WordsAre, PutKeeps DEF Within
  <2> HIDE DEF n
  <2>2. Within(com, p)
      BY <2>1, WordsAre, PutKeeps DEF Within
  <2> HIDE DEF p
  <2>3. Within(com, u)
      BY <1>5, <2>2, NoMarks, TakeKeeps DEF Within
  <2> HIDE DEF u
  <2> QED BY <1>5, <2>3, PointsAre, GoCallKeeps
<1>6. CASE event.tok = "Value" /\ com' = CallNode(Go(w, "pair value"), "other")
  <2>1. Within(com, q)
      BY <1>1, WordsAre, PutKeeps DEF Within
  <2> HIDE DEF q
  <2>2. Within(com, w)
      BY <1>6, <2>1, NoMarks, TakeKeeps DEF Within
  <2> HIDE DEF w
  <2> QED BY <1>6, <2>2, PointsAre, GoCallKeeps
<1>7. CASE com' = CallNode(Go(com, "item node"), "other")
    BY <1>1, <1>7, PointsAre, GoCallKeeps
<1> QED BY <1>2, <1>3, <1>4, <1>5, <1>6, <1>7

\* The pair of such a mapping: after its key, and after its value.
LEMMA ComposePairKeeps ==
    ASSUME Shaped(com), ComposePairKeyDone \/ ComposePairDone
    PROVE  Outcome(com, com')
<1> DEFINE r == OrNull(com)
           p == Put(r, "pair")
           v == IF event.tok = "Value" THEN Take(p) ELSE p
<1>1. Within(com, com)
    BY InCollectionInside DEF InCollection
<1>2. Within(com, r)
    BY <1>1, OrNullKeeps DEF Within
<1>3. CASE ComposePairKeyDone
  <2>1. com' = CallNode(Go(v, "pair value"), "other")
      BY <1>3 DEF ComposePairKeyDone
  <2> HIDE DEF r
  <2>2. Within(com, p)
      BY <1>2, WordsAre, PutKeeps DEF Within
  <2> HIDE DEF p
  <2>3. Within(com, v)
      BY <2>2, ColonKeeps
  <2> HIDE DEF v
  <2> QED BY <2>1, <2>3, PointsAre, GoCallKeeps
<1>4. CASE ComposePairDone
  <2>1. com' = Return(Put(r, "end pair"), "node")
      BY <1>4 DEF ComposePairDone
  <2> HIDE DEF r
  <2> QED BY <1>2, <2>1, EndKeeps
<1> QED BY <1>3, <1>4

\* A sequence at the indent of its key.
LEMMA ComposeLevelKeeps ==
    ASSUME Shaped(com), ComposeIndentlessEntry \/ ComposeIndentlessDone
    PROVE  Outcome(com, com')
<1> DEFINE t == Take(com)
           e == Return(Put(com, "end"), "node")
<1>1. Within(com, com)
    BY InCollectionInside DEF InCollection
<1>2. \/ event.tok = "Entry" /\ com' = Call(Go(t, "level item"), Frame("block entry", FALSE))
      \/ event.tok = "FlowMapEnd" /\ com' = Take(e)
      \/ com' = e
      \/ com' = Go(com, "indentless")
    BY DEF ComposeIndentlessEntry, ComposeIndentlessDone
<1>3. CASE event.tok = "Entry" /\ com' = Call(Go(t, "level item"), Frame("block entry", FALSE))
  <2>1. Within(com, t)
      BY <1>1, <1>3, NoMarks, TakeKeeps DEF Within
  <2> HIDE DEF t
  <2> QED BY <1>3, <2>1, PointsAre, GoEntryKeeps DEF Outcome
<1>4. CASE (event.tok = "FlowMapEnd" /\ com' = Take(e)) \/ com' = e
    BY <1>1, <1>4, NoMarks, EndKeeps
<1>5. CASE com' = Go(com, "indentless")
  <2>1. Within(com, com')
      BY <1>1, <1>5, PointsAre, GoKeeps
  <2> QED BY <2>1, InsideOpen DEF Outcome
<1> QED BY <1>2, <1>3, <1>4, <1>5

\* Every step inside a collection.
LEMMA InCollectionKeeps ==
    ASSUME Shaped(com), InCollection
    PROVE  Outcome(com, com')
<1>1. CASE ComposeCollected
  <2>1. Within(com, com) /\ com' = Composed(com)
      BY <1>1, InCollectionInside DEF InCollection, ComposeCollected
  <2> QED BY <2>1, ComposedKeeps DEF Outcome
<1> QED BY <1>1, ComposeMappingKeeps, ComposePairsKeep, ComposeBareKeyDoneKeeps, ComposeSequenceKeeps,
       ComposeBlockEntryKeeps, ComposeItemKeeps, ComposePairKeeps, ComposeLevelKeeps DEF InCollection
-----------------------------------------------------------------------------
(***************************************************************************)
(* The other steps of the composer.                                         *)
(***************************************************************************)
\* A property is read: nothing but the composer's own changes.
LEMMA ReadKeeps ==
    ASSUME Shaped(com), Own, NEW s, DOMAIN s = DOMAIN com, s.taken = TRUE,
           \A g \in DOMAIN com : g \notin {"taken", "tag", "anchor"} => s[g] = com[g]
    PROVE  /\ Shaped(s) /\ Held(s) = Held(com) /\ s.stack = com.stack /\ Top(s) = Top(com)
           /\ s.ret = com.ret /\ s.failed = com.failed /\ s.out = com.out
<1>1. IsReader(com)
    BY DEF Shaped
<1>2. IsReader(s) /\ s.stack = com.stack /\ s.anchors = com.anchors /\ s.ret = com.ret /\ s.failed = com.failed /\ s.out = com.out
    BY <1>1 DEF IsReader, Fields
<1> QED BY <1>2 DEF Shaped, Nested, Held, Top

LEMMA ComposePropertyKeeps ==
    ASSUME Shaped(com), Own, EventOK, ComposeTag \/ ComposeAnchor
    PROVE  \/ com' = Failed(com)
           \/ /\ Shaped(com') /\ Held(com') = Held(com) /\ com'.stack = com.stack /\ At(com', "node")
              /\ DOMAIN com' = DOMAIN com /\ com'.failed = com.failed /\ com'.out = com.out /\ com'.taken = TRUE
              /\ com'.tag \in {None, "core", "custom"} /\ com'.anchor \in {com.anchor} \union Given
              /\ event.tok \notin Marks
<1> DEFINE t == Take(com)
           u == [t EXCEPT !.tag = IF event.arg = "core" THEN "core" ELSE "custom"]
           v == [t EXCEPT !.anchor = event.arg]
<1>1. /\ At(com, "node") /\ event.tok \notin Marks /\ IsReader(com)
      /\ com' = Failed(com) \/ com' = u \/ (event.tok = "Anchor" /\ com' = v)
    BY DEF ComposeTag, ComposeAnchor, Marks, Shaped
<1>2. /\ DOMAIN t = DOMAIN com /\ \A g \in DOMAIN com : g # "taken" => t[g] = com[g]
      /\ t.taken = TRUE
    BY <1>1 DEF Take, IsReader, Fields
<1> HIDE DEF t
<1>3. CASE com' = u
  <2>1. DOMAIN u = DOMAIN com /\ \A g \in DOMAIN com : g \notin {"taken", "tag"} => u[g] = com[g]
      BY <1>2
  <2>2. u.taken = TRUE /\ u.tag \in {"core", "custom"} /\ u.anchor = com.anchor
      BY <1>1, <1>2 DEF IsReader, Fields, Own
  <2> HIDE DEF u
  <2>3. /\ Shaped(u) /\ Held(u) = Held(com) /\ u.stack = com.stack /\ Top(u) = Top(com)
        /\ u.ret = com.ret /\ u.failed = com.failed /\ u.out = com.out
      BY <2>1, <2>2, ReadKeeps
  <2> QED BY <1>1, <1>3, <2>1, <2>2, <2>3 DEF At
<1>4. CASE event.tok = "Anchor" /\ com' = v
  <2>1. DOMAIN v = DOMAIN com /\ \A g \in DOMAIN com : g \notin {"taken", "anchor"} => v[g] = com[g]
      BY <1>2
  <2>2. v.taken = TRUE /\ v.tag = com.tag /\ v.anchor = event.arg
      BY <1>1, <1>2 DEF IsReader, Fields, Own
  <2> HIDE DEF v
  <2>3. /\ Shaped(v) /\ Held(v) = Held(com) /\ v.stack = com.stack /\ Top(v) = Top(com)
        /\ v.ret = com.ret /\ v.failed = com.failed /\ v.out = com.out
      BY <2>1, <2>2, ReadKeeps
  <2> QED BY <1>1, <1>4, <2>1, <2>2, <2>3 DEF At, Own, Given
<1> QED BY <1>1, <1>3, <1>4

\* The composer tells an alias only if its name is bound.
LEMMA ComposeAliasKeeps ==
    ASSUME Shaped(com), Own, ComposeAlias
    PROVE  LET o == Owning(com)
           IN  \/ Outcome(o, com')
               \/ /\ DOMAIN com' = DOMAIN o /\ Shaped(com') /\ Held(com') \subseteq Held(o) \union Given
                  /\ com'.taken /\ \A g \in DOMAIN o \intersect Lasting : com'[g] = o[g]
                  /\ event.tok = "Alias" /\ event.arg \in com.anchors
<1> DEFINE o == Owning(com)
<1>1. Within(o, o)
    BY OwningIs DEF ComposeAlias, At
<1>2. Shaped(o)
    BY <1>1 DEF Within, Same
<1>3. \/ com' = Failed(o)
      \/ event.tok = "Alias" /\ event.arg \in com.anchors /\ com' = Take(Return(Put(o, "alias"), "node"))
    BY DEF ComposeAlias
<1> HIDE DEF o
<1>4. CASE com' = Failed(o)
    BY <1>2, <1>4, FailedIs DEF o
<1>5. CASE event.tok = "Alias" /\ event.arg \in com.anchors /\ com' = Take(Return(Put(o, "alias"), "node"))
  <2> DEFINE s == Take(Return(Put(o, "alias"), "node"))
  <2>1. /\ DOMAIN s = DOMAIN o /\ Shaped(s) /\ Held(s) \subseteq Held(o) \union Given
        /\ s.taken /\ \A g \in DOMAIN o \intersect Lasting : s[g] = o[g]
      BY <1>1, <1>5, AliasTold
  <2> HIDE DEF s
  <2>2. com' = s
      BY <1>5 DEF s
  <2> QED BY <1>5, <2>1, <2>2 DEF o
<1> QED BY <1>3, <1>4, <1>5

\* Between documents the composer is in no call; what it still holds of the
\* document before is cleared when the next begins.
Resting(s) ==
    /\ Shaped(s) /\ DOMAIN s = DOMAIN com /\ s.stack = <<>> /\ s.failed = com.failed
    /\ s.tag = com.tag /\ s.anchor = com.anchor /\ s.out = com.out

LEMMA RestingKeeps ==
    ASSUME Own, NEW s, DOMAIN s = DOMAIN com, IsReader(com), s.stack = <<>>, s.ret \in {"pending", "none", "node"},
           s.taken \in BOOLEAN, s.directives \subseteq Directives, s.anchors \subseteq Names,
           \A g \in DOMAIN com : g \notin {"stack", "ret", "taken", "directives", "document", "anchors"} => s[g] = com[g]
    PROVE  Resting(s)
<1>1. s.failed = com.failed /\ s.tag = com.tag /\ s.anchor = com.anchor /\ s.out = com.out
    BY DEF IsReader, Fields, Own
<1>2. s.stack \in Seq(Calls) /\ DOMAIN s.stack = {}
  <2>1. <<>> \in Seq(Calls) /\ DOMAIN <<>> = {}
      OBVIOUS
  <2> QED BY <2>1
<1>3. IsReader(s)
    BY <1>1, <1>2 DEF IsReader
<1>4. Nested(s) <= MaxDepth
  <2>1. Cardinality({}) = 0 /\ {i \in DOMAIN s.stack : s.stack[i].at \in {"node", "collected"}} = {}
      BY <1>2, FS_EmptySet
  <2> QED BY <2>1, FramesAssumption DEF Nested
<1> QED BY <1>1, <1>2, <1>3, <1>4 DEF Resting, Shaped

LEMMA ComposeBetweenKeeps ==
    ASSUME Shaped(com), Own, EventOK, ComposeBetween \/ ComposeDirective
    PROVE  Resting(com')
<1> DEFINE t == Take(com)
           v == [t EXCEPT !.directives = t.directives \union {event.arg}]
<1>1. Top(com).at = "stream" /\ IsReader(com)
    BY DEF ComposeBetween, ComposeDirective, At, Shaped
<1>2. com.stack = <<>>
    BY <1>1, TopIs
<1>3. /\ DOMAIN t = DOMAIN com /\ \A g \in DOMAIN com : g # "taken" => t[g] = com[g]
      /\ t.taken = TRUE /\ t.stack = <<>> /\ t.ret = com.ret /\ t.directives = com.directives /\ t.anchors = com.anchors
    BY <1>1, <1>2 DEF Take, IsReader, Fields
<1>4. com' = t \/ (event.tok = "Directive" /\ com' = v)
    BY DEF ComposeBetween, ComposeDirective
<1> HIDE DEF t
<1>5. CASE com' = t
  <2>1. t.taken \in BOOLEAN /\ \A g \in DOMAIN com : g \notin {"stack", "ret", "taken", "directives", "document", "anchors"} => t[g] = com[g]
      BY <1>3
  <2>2. Resting(t)
      BY <1>1, <1>3, <2>1, RestingKeeps DEF IsReader
  <2> QED BY <1>5, <2>2
<1>6. CASE event.tok = "Directive" /\ com' = v
  <2>1. /\ DOMAIN v = DOMAIN com
        /\ \A g \in DOMAIN com : g \notin {"taken", "directives"} => v[g] = com[g]
      BY <1>3
  <2>2. v.taken = TRUE /\ v.directives = com.directives \union {event.arg} /\ v.stack = <<>> /\ v.ret = com.ret /\ v.anchors = com.anchors
      BY <1>1, <1>3 DEF IsReader, Fields
  <2>3. event.arg \in Directives
      BY <1>6 DEF EventOK
  <2> HIDE DEF v
  <2>4. v.taken \in BOOLEAN /\ \A g \in DOMAIN com : g \notin {"stack", "ret", "taken", "directives", "document", "anchors"} => v[g] = com[g]
      BY <2>1, <2>2
  <2>5. Resting(v)
      BY <1>1, <2>1, <2>2, <2>3, <2>4, RestingKeeps DEF IsReader
  <2> QED BY <1>6, <2>5
<1> QED BY <1>4, <1>5, <1>6

LEMMA ComposeDocumentKeeps ==
    ASSUME Shaped(com), Own, ComposeDocument
    PROVE  \E q : Resting(q) /\ Outcome(q, com') /\ Held(com') \subseteq Given
<1> DEFINE r == [com EXCEPT !.anchors = {}]
           t == Take(r)
<1>1. Top(com).at = "stream" /\ IsReader(com)
    BY DEF ComposeDocument, At, Shaped
<1>2. com.stack = <<>>
    BY <1>1, TopIs
<1>3. /\ DOMAIN r = DOMAIN com /\ \A g \in DOMAIN com : g # "anchors" => r[g] = com[g]
      /\ r.anchors = {} /\ r.stack = <<>> /\ r.ret = com.ret /\ r.taken = com.taken /\ r.directives = com.directives
    BY <1>1, <1>2 DEF IsReader, Fields
<1>4. \/ com' = CallNode(Call(t, Frame("explicit", FALSE)), "other")
      \/ com' = CallNode(Call(r, Frame("implicit", FALSE)), "other")
    BY DEF ComposeDocument
<1> HIDE DEF r
<1>5. /\ DOMAIN t = DOMAIN com /\ \A g \in DOMAIN com : g \notin {"anchors", "taken"} => t[g] = com[g]
      /\ t.anchors = {} /\ t.stack = <<>> /\ t.ret = com.ret /\ t.taken = TRUE /\ t.directives = com.directives
    BY <1>1, <1>3 DEF Take, IsReader, Fields
<1> HIDE DEF t
<1>6. Resting(r) /\ Resting(t)
  <2>1. /\ \A g \in DOMAIN com : g \notin {"stack", "ret", "taken", "directives", "document", "anchors"} => r[g] = com[g]
        /\ \A g \in DOMAIN com : g \notin {"stack", "ret", "taken", "directives", "document", "anchors"} => t[g] = com[g]
      BY <1>3, <1>5
  <2>2. Resting(r)
      BY <1>1, <1>3, <2>1, RestingKeeps DEF IsReader
  <2>3. Resting(t)
      BY <1>1, <1>5, <2>1, RestingKeeps DEF IsReader
  <2> QED BY <2>2, <2>3
<1>7. ASSUME NEW q, Resting(q), q.anchors = {}, NEW p \in DocumentPoints, com' = CallNode(Call(q, Frame(p, FALSE)), "other")
      PROVE  Outcome(q, com') /\ Held(com') \subseteq Given
    BY <1>7, DocumentBegins DEF Resting, Shaped
<1> QED BY <1>3, <1>4, <1>5, <1>6, <1>7 DEF DocumentPoints

LEMMA ComposeDocumentDoneKeeps ==
    ASSUME Shaped(com), Own, ComposeDocumentDone
    PROVE  Resting(com')
<1> DEFINE e == [com EXCEPT !.document = <<com.ret = "none", com.directives>>, !.directives = {}]
           d == [com EXCEPT !.directives = {}]
<1>1. Top(com).at \in DocumentPoints /\ IsReader(com)
    BY DEF ComposeDocumentDone, Back, DocumentPoints, Shaped
<1>2. Len(com.stack) = 1 /\ com.stack \in Seq(Calls)
    BY <1>1, TopIs
<1>3. Front(com.stack) = <<>>
  <2>1. com.stack # <<>>
    <3>1. com.stack = <<>> => Top(com).at = "stream"
        BY DEF Top, Frame
    <3> QED BY <1>1, <3>1 DEF DocumentPoints
  <2>2. Len(Front(com.stack)) = Len(com.stack) - 1 /\ Front(com.stack) \in Seq(Calls)
      BY <1>2, <2>1, FrontLast
  <2> QED BY <1>2, <2>2
<1>4. PICK r \in {e, d, com} : com' \in {Take(Return(r, "pending")), Return(r, "pending")}
    BY DEF ComposeDocumentDone, Dropped
<1> DEFINE q == Return(r, "pending")
           t == Take(q)
<1>5. /\ DOMAIN r = DOMAIN com /\ \A g \in DOMAIN com : g \notin {"document", "directives"} => r[g] = com[g]
      /\ r.directives \subseteq Directives
  <2>1. /\ DOMAIN e = DOMAIN com /\ \A g \in DOMAIN com : g \notin {"document", "directives"} => e[g] = com[g]
        /\ e.directives = {}
      BY <1>1 DEF IsReader, Fields
  <2>2. /\ DOMAIN d = DOMAIN com /\ \A g \in DOMAIN com : g \notin {"document", "directives"} => d[g] = com[g]
        /\ d.directives = {}
      BY <1>1 DEF IsReader, Fields
  <2> HIDE DEF e, d
  <2> QED BY <1>1, <1>4, <2>1, <2>2 DEF IsReader
<1> HIDE DEF e, d
<1>6. /\ DOMAIN q = DOMAIN com /\ \A g \in DOMAIN com : g \notin {"stack", "ret", "document", "directives"} => q[g] = com[g]
      /\ q.stack = <<>> /\ q.ret = "pending" /\ q.taken = com.taken /\ q.directives \subseteq Directives
      /\ q.anchors = com.anchors
  <2>1. r.stack = com.stack
      BY <1>1, <1>5 DEF IsReader, Fields
  <2> QED BY <1>1, <1>3, <1>5, <2>1 DEF Return, IsReader, Fields
<1> HIDE DEF q
<1>7. /\ DOMAIN t = DOMAIN com /\ \A g \in DOMAIN com : g \notin {"stack", "ret", "document", "directives", "taken"} => t[g] = com[g]
      /\ t.stack = <<>> /\ t.ret = "pending" /\ t.taken = TRUE /\ t.directives \subseteq Directives
      /\ t.anchors = com.anchors
    BY <1>1, <1>6 DEF Take, IsReader, Fields
<1> HIDE DEF t
<1>8. Resting(q)
  <2>1. \A g \in DOMAIN com : g \notin {"stack", "ret", "taken", "directives", "document", "anchors"} => q[g] = com[g]
      BY <1>6
  <2> QED BY <1>1, <1>6, <2>1, RestingKeeps DEF IsReader
<1>9. Resting(t)
  <2>1. \A g \in DOMAIN com : g \notin {"stack", "ret", "taken", "directives", "document", "anchors"} => t[g] = com[g]
      BY <1>7
  <2> QED BY <1>1, <1>7, <2>1, RestingKeeps DEF IsReader
<1> QED BY <1>4, <1>8, <1>9 DEF t, q
-----------------------------------------------------------------------------
(***************************************************************************)
(* Every step keeps the invariant.                                          *)
(***************************************************************************)
\* What the decoder may hold of an event: on a boundary it has not taken, all
\* names it held before; otherwise those of the text.
LEMMA ScopeKept ==
    ASSUME IInv, ~dec.taken, UNCHANGED <<event, named>>, NEW H,
           \/ H \subseteq Given
           \/ H \subseteq Held(dec) \union Given /\ (dec'.taken => event.tok \notin Marks)
    PROVE  H \subseteq Scope'
<1>1. event' = event /\ named' = named
    OBVIOUS
<1>2. Given \subseteq named
  <2>1. event.tok = "Anchor" => event.arg \in named
      BY DEF IInv
  <2> QED BY <2>1 DEF Given
<1>3. named \subseteq Names
    BY DEF IInv
<1>4. Scope' = IF ~dec'.taken /\ event.tok \in Marks THEN Names ELSE named
    BY <1>1 DEF Scope
<1>5. Held(dec) \subseteq (IF event.tok \in Marks THEN Names ELSE named)
    BY DEF IInv, DecoderInv, Scope
<1> QED BY <1>2, <1>3, <1>4, <1>5

LEMMA DecodeKeeps ==
    ASSUME IInv, Decode, UNCHANGED <<event, named, com>>
    PROVE  IInv'
<1>1. /\ Shaped(dec) /\ {"mayDirect"} \subseteq DOMAIN dec /\ (dec.stack = <<>> => dec.anchors = {})
      /\ Contains(dec.out, "alias") => dec.taken
    BY DEF IInv, DecoderInv
<1>2. EventOK
    BY DEF IInv, EventOK
<1>3. ~dec.taken /\ ~Contains(dec.out, "alias")
    BY <1>1 DEF Decode, Looks
<1>4. event' = event /\ named' = named /\ ComposerInv'
    BY DEF IInv, ComposerInv, ComposerScope, Own
<1>5. ASSUME DOMAIN dec' = DOMAIN dec, Shaped(dec'), Held(dec') \subseteq Scope', dec'.stack = <<>> => dec'.anchors = {},
             Contains(dec'.out, "alias") => dec'.taken /\ event.arg \in named
      PROVE  IInv'
  <2>1. DecoderInv'
      BY <1>1, <1>4, <1>5 DEF DecoderInv
  <2> QED BY <1>4, <2>1 DEF IInv
<1>6. ASSUME Shaped(dec'), Fallen(dec'), DOMAIN dec' = DOMAIN dec
      PROVE  IInv'
    BY <1>5, <1>6, FallenHolds DEF Fallen
<1>7. ASSUME Outcome(dec, dec')
      PROVE  IInv'
  <2>1. CASE Same(dec, dec') /\ dec'.stack # <<>>
    <3>1. Held(dec') \subseteq Held(dec) \union Given /\ (dec'.taken => event.tok \notin Marks)
        BY <1>3, <2>1 DEF Same
    <3>2. Held(dec') \subseteq Scope'
        BY <1>3, <3>1, ScopeKept
    <3> QED BY <1>3, <1>5, <2>1, <3>2 DEF Same
  <2>2. CASE DOMAIN dec' = DOMAIN dec /\ Shaped(dec') /\ Fallen(dec')
      BY <1>6, <2>2
  <2> QED BY <1>7, <2>1, <2>2 DEF Outcome
<1>8. ASSUME Idle(dec')
      PROVE  IInv'
  <2>1. Shaped(dec') /\ Held(dec') = {}
      BY <1>8, IdleShaped
  <2> QED BY <1>3, <1>5, <1>8, <2>1 DEF Idle
<1>9. CASE Collecting
    BY <1>1, <1>2, <1>7, <1>9, CollectingKeeps
<1>10. CASE DecodeBetween \/ DecodeDirective
    BY <1>1, <1>2, <1>8, <1>10, DecodeBetweenKeeps
<1>11. CASE DecodeDocumentDone
    BY <1>1, <1>8, <1>11, DecodeDocumentDoneKeeps
<1>12. CASE DecodeDocument
  <2>1. /\ DOMAIN dec' = DOMAIN dec /\ Shaped(dec') /\ Held(dec') \subseteq Given
        /\ dec'.stack = <<>> => dec'.anchors = {}
        /\ Contains(dec'.out, "alias") => Contains(dec.out, "alias")
      BY <1>1, <1>12, DecodeDocumentKeeps
  <2>2. Held(dec') \subseteq Scope'
      BY <1>3, <2>1, ScopeKept
  <2> QED BY <1>3, <1>5, <2>1, <2>2
<1>13. CASE DecodeAlias
  <2>1. CASE Outcome(dec, dec')
      BY <1>7, <2>1
  <2>2. CASE /\ DOMAIN dec' = DOMAIN dec /\ Shaped(dec') /\ Held(dec') \subseteq Held(dec) \union Given
             /\ dec'.stack # <<>> /\ dec'.taken /\ event.tok = "Alias" /\ event.arg \in dec.anchors
    <3>1. event.tok \notin Marks
        BY <2>2 DEF Marks
    <3>2. Held(dec') \subseteq Scope'
        BY <1>3, <2>2, <3>1, ScopeKept
    <3>3. event.arg \in named
        BY <2>2, <3>1 DEF IInv, DecoderInv, Held, Scope
    <3> QED BY <1>5, <2>2, <3>2, <3>3
  <2> QED BY <1>1, <1>13, <2>1, <2>2, DecodeAliasKeeps
<1> QED BY <1>9, <1>10, <1>11, <1>12, <1>13 DEF Decode, Collecting

\* The same for the composer.
LEMMA ComposerScopeKept ==
    ASSUME IInv, ~com.taken, UNCHANGED <<event, named>>, NEW H, NEW L,
           com.stack # <<>> \/ L \subseteq {com.anchor} \ {None}, ~com.failed,
           L \subseteq Held(com) \union ({com.anchor} \ {None}),
           \/ H \subseteq Given
           \/ H \subseteq L \union Given /\ (com'.taken => event.tok \notin Marks)
    PROVE  H \subseteq ComposerScope'
<1>1. event' = event /\ named' = named
    OBVIOUS
<1>2. Given \subseteq named
  <2>1. event.tok = "Anchor" => event.arg \in named
      BY DEF IInv
  <2> QED BY <2>1 DEF Given
<1>3. named \subseteq Names
    BY DEF IInv
<1>4. ComposerScope' = IF ~com'.taken /\ event.tok \in Marks THEN Names ELSE named
    BY <1>1 DEF ComposerScope
<1>5. L \subseteq (IF event.tok \in Marks THEN Names ELSE named)
    BY DEF IInv, ComposerInv, ComposerScope
<1> QED BY <1>2, <1>3, <1>4, <1>5

LEMMA ComposeKeeps ==
    ASSUME IInv, Compose, UNCHANGED <<event, named, dec>>
    PROVE  IInv'
<1>1. ~com.taken /\ ~com.failed /\ Shaped(com) /\ Own /\ ~Contains(com.out, "alias") /\ IsReader(com)
    BY DEF IInv, ComposerInv, Compose, Shaped
<1>2. EventOK
    BY DEF IInv, EventOK
<1>3. event' = event /\ named' = named /\ DecoderInv'
    BY DEF IInv, DecoderInv, Scope
<1>4. com.anchor # None => At(com, "node") /\ com.stack # <<>>
  <2>1. com.anchor # None => At(com, "node")
      BY <1>1 DEF IInv, ComposerInv
  <2>2. At(com, "node") => com.stack # <<>>
      BY DEF At, Top, Frame
  <2> QED BY <2>1, <2>2
<1>5. ASSUME DOMAIN com' = DOMAIN com, Shaped(com'), com'.stack # <<>> => Held(com') \subseteq ComposerScope',
             ~com'.failed => /\ com'.tag \in {None, "core", "custom"} /\ com'.anchor \in Names \union {None}
                             /\ com'.anchor # None => At(com', "node") /\ com'.anchor \in ComposerScope',
             Contains(com'.out, "alias") => com'.taken /\ event.arg \in named
      PROVE  IInv'
  <2>1. ComposerInv'
      BY <1>1, <1>3, <1>5 DEF ComposerInv, Own
  <2> QED BY <1>3, <2>1 DEF IInv
<1>6. ASSUME Shaped(com'), Fallen(com'), DOMAIN com' = DOMAIN com
      PROVE  IInv'
    BY <1>5, <1>6, FallenHolds DEF Fallen
<1>7. ASSUME NEW o, Outcome(o, com'), DOMAIN o = DOMAIN com, o.taken = com.taken, o.failed = com.failed, o.out = com.out,
             o.tag \in {None, "core", "custom"}, o.anchor = None, com.stack # <<>>,
             Held(o) \subseteq Held(com) \union ({com.anchor} \ {None})
      PROVE  IInv'
  <2>1. CASE Same(o, com') /\ com'.stack # <<>>
    <3>1. Held(com') \subseteq Held(o) \union Given /\ (com'.taken => event.tok \notin Marks)
        BY <1>1, <1>7, <2>1 DEF Same
    <3>2. Held(com') \subseteq ComposerScope'
        BY <1>1, <1>7, <3>1, ComposerScopeKept
    <3>3. com'.tag = o.tag /\ com'.anchor = None
        BY <1>1, <1>7, <2>1 DEF Same, Lasting, Own
    <3>4. DOMAIN com' = DOMAIN com /\ Shaped(com') /\ ~Contains(com'.out, "alias")
        BY <1>1, <1>7, <2>1 DEF Same
    <3> QED BY <1>5, <1>7, <3>2, <3>3, <3>4
  <2>2. CASE DOMAIN com' = DOMAIN o /\ Shaped(com') /\ Fallen(com')
      BY <1>6, <1>7, <2>2
  <2> QED BY <1>7, <2>1, <2>2 DEF Outcome
<1>8. ASSUME Resting(com'), com.anchor = None
      PROVE  IInv'
    BY <1>1, <1>5, <1>8 DEF Resting, Own
<1>9. CASE AtNode
  <2> DEFINE o == Owning(com)
  <2>1. At(com, "node")
      BY <1>9 DEF AtNode, ComposeScalar, ComposeCollection, ComposeIndentless, ComposeEmpty
  <2>2. /\ DOMAIN o = DOMAIN com /\ o.taken = com.taken /\ o.failed = com.failed
        /\ o.out = com.out /\ o.tag = None /\ o.anchor = None
        /\ Held(o) \subseteq Held(com) \union ({com.anchor} \ {None})
      BY <1>1, <2>1, OwningIs DEF At
  <2>3. Outcome(o, com')
      BY <1>1, <1>9, ComposeNodeKeeps
  <2>4. com.stack # <<>>
      BY <2>1 DEF At, Top, Frame
  <2> HIDE DEF o
  <2> QED BY <1>7, <2>2, <2>3, <2>4
<1>10. CASE InCollection
  <2>1. com.stack # <<>> /\ ~At(com, "node")
      BY <1>1, <1>10, InCollectionInside
  <2>2. com.anchor = None
      BY <1>4, <2>1
  <2>3. Outcome(com, com')
      BY <1>1, <1>10, InCollectionKeeps
  <2> QED BY <1>1, <1>7, <2>1, <2>2, <2>3 DEF Own
<1>11. CASE ComposeBetween \/ ComposeDirective \/ ComposeDocumentDone
  <2>1. ~At(com, "node")
      BY <1>11 DEF ComposeBetween, ComposeDirective, ComposeDocumentDone, At, Back
  <2>2. com.anchor = None
      BY <1>4, <2>1
  <2>3. Resting(com')
      BY <1>1, <1>2, <1>11, ComposeBetweenKeeps, ComposeDocumentDoneKeeps
  <2> QED BY <1>8, <2>2, <2>3
<1>12. CASE ComposeDocument
  <2>1. com.anchor = None
      BY <1>4, <1>12 DEF ComposeDocument, At
  <2>2. PICK q : Resting(q) /\ Outcome(q, com') /\ Held(com') \subseteq Given
      BY <1>1, <1>12, ComposeDocumentKeeps
  <2>3. CASE Same(q, com') /\ com'.stack # <<>>
    <3>1. Held(com') \subseteq ComposerScope'
        BY <1>1, <2>2, ComposerScopeKept
    <3>2. DOMAIN com' = DOMAIN com /\ Shaped(com') /\ ~Contains(com'.out, "alias")
        BY <1>1, <2>2, <2>3 DEF Same, Resting
    <3>3. com'.tag = com.tag /\ com'.anchor = com.anchor
        BY <1>1, <2>2, <2>3 DEF Same, Resting, Lasting, Own
    <3> QED BY <1>1, <1>5, <2>1, <3>1, <3>2, <3>3 DEF Own
  <2>4. CASE DOMAIN com' = DOMAIN q /\ Shaped(com') /\ Fallen(com')
      BY <1>6, <2>2, <2>4 DEF Resting
  <2> QED BY <2>2, <2>3, <2>4 DEF Outcome
<1>13. CASE ComposeTag \/ ComposeAnchor
  <2>1. CASE com' = Failed(com)
      BY <1>1, <1>6, <2>1, FailedIs DEF Outcome, Same, Fallen
  <2>2. CASE /\ Shaped(com') /\ Held(com') = Held(com) /\ com'.stack = com.stack /\ At(com', "node")
             /\ DOMAIN com' = DOMAIN com /\ com'.failed = com.failed /\ com'.out = com.out /\ com'.taken = TRUE
             /\ com'.tag \in {None, "core", "custom"} /\ com'.anchor \in {com.anchor} \union Given
             /\ event.tok \notin Marks
    <3>1. com.stack # <<>>
        BY <2>2 DEF At, Top, Frame
    <3>2. Held(com') \subseteq ComposerScope' /\ (com'.anchor # None => com'.anchor \in ComposerScope')
      <4>1. Held(com') \subseteq Held(com) \union Given /\ {com'.anchor} \ {None} \subseteq ({com.anchor} \ {None}) \union Given
          BY <2>2
      <4>2. Held(com') \subseteq ComposerScope'
          BY <1>1, <2>2, <3>1, <4>1, ComposerScopeKept
      <4>3. {com'.anchor} \ {None} \subseteq ComposerScope'
          BY <1>1, <2>2, <3>1, <4>1, ComposerScopeKept
      <4> QED BY <4>2, <4>3
    <3>3. com'.anchor \in Names \union {None}
        BY <1>1, <1>2, <2>2 DEF Own, EventOK, Given
    <3> QED BY <1>1, <1>5, <2>2, <3>2, <3>3
  <2> QED BY <1>1, <1>2, <1>13, <2>1, <2>2, ComposePropertyKeeps
<1>14. CASE ComposeBlockKey
  <2>1. com' = Failed(com)
      BY <1>14 DEF ComposeBlockKey
  <2> QED BY <1>1, <1>6, <2>1, FailedIs DEF Outcome, Same, Fallen
<1>15. CASE ComposeAlias
  <2> DEFINE o == Owning(com)
  <2>1. At(com, "node")
      BY <1>15 DEF ComposeAlias
  <2>2. /\ DOMAIN o = DOMAIN com /\ o.taken = com.taken /\ o.failed = com.failed
        /\ o.out = com.out /\ o.tag = None /\ o.anchor = None
        /\ Held(o) \subseteq Held(com) \union ({com.anchor} \ {None})
      BY <1>1, <2>1, OwningIs DEF At
  <2>3. com.stack # <<>>
      BY <2>1 DEF At, Top, Frame
  <2>4. \/ Outcome(o, com')
        \/ /\ DOMAIN com' = DOMAIN o /\ Shaped(com') /\ Held(com') \subseteq Held(o) \union Given
           /\ com'.taken /\ \A g \in DOMAIN o \intersect Lasting : com'[g] = o[g]
           /\ event.tok = "Alias" /\ event.arg \in com.anchors
      BY <1>1, <1>15, ComposeAliasKeeps
  <2> HIDE DEF o
  <2>5. CASE Outcome(o, com')
      BY <1>7, <2>2, <2>3, <2>5
  <2>6. CASE /\ DOMAIN com' = DOMAIN o /\ Shaped(com') /\ Held(com') \subseteq Held(o) \union Given
             /\ com'.taken /\ \A g \in DOMAIN o \intersect Lasting : com'[g] = o[g]
             /\ event.tok = "Alias" /\ event.arg \in com.anchors
    <3>1. event.tok \notin Marks
        BY <2>6 DEF Marks
    <3>2. Held(com') \subseteq ComposerScope'
        BY <1>1, <2>2, <2>3, <2>6, <3>1, ComposerScopeKept
    <3>3. com'.tag = None /\ com'.anchor = None
        BY <1>1, <2>2, <2>6 DEF Lasting, Own
    <3>4. event.arg \in named
        BY <2>3, <2>6, <3>1 DEF IInv, ComposerInv, Held, ComposerScope
    <3> QED BY <1>5, <2>2, <2>6, <3>2, <3>3, <3>4
  <2> QED BY <2>4, <2>5, <2>6
<1> QED BY <1>9, <1>10, <1>11, <1>12, <1>13, <1>14, <1>15 DEF Compose, AtNode, InCollection

\* At the beginning both hold nothing.
LEMMA InitKeeps ==
    ASSUME Init
    PROVE  IInv
<1>1. ASSUME NEW r, NEW own, own \intersect Fields = {}, DOMAIN r = Fields \union own, r.stack = <<>>, r.ret = "pending",
             r.taken = TRUE, r.failed = FALSE, r.anchors = {}, r.directives = {}, r.out = <<>>
      PROVE  Shaped(r) /\ Held(r) = {} /\ ~Contains(r.out, "alias")
  <2>1. <<>> \in Seq(Calls) /\ <<>> \in Seq(Words) /\ DOMAIN <<>> = {} /\ 1 .. Len(<<>>) = {}
      OBVIOUS
  <2>2. IsReader(r) /\ DOMAIN r.stack = {}
      BY <1>1, <2>1 DEF IsReader
  <2>3. Nested(r) <= MaxDepth
    <3>1. Cardinality({}) = 0 /\ {i \in DOMAIN r.stack : r.stack[i].at \in {"node", "collected"}} = {}
        BY <2>2, FS_EmptySet
    <3> QED BY <3>1, FramesAssumption DEF Nested
  <2> QED BY <1>1, <2>1, <2>2, <2>3 DEF Shaped, Held, Contains
<1>2. /\ dec.stack = <<>> /\ dec.ret = "pending" /\ dec.taken = TRUE /\ dec.failed = FALSE /\ dec.anchors = {}
      /\ dec.directives = {} /\ dec.out = <<>> /\ DOMAIN dec = Fields \union {"mayDirect"}
    BY DEF Init, DecoderInit, Reader, ReaderWith, Fields
<1>3. /\ com.stack = <<>> /\ com.ret = "pending" /\ com.taken = TRUE /\ com.failed = FALSE /\ com.anchors = {}
      /\ com.directives = {} /\ com.out = <<>> /\ DOMAIN com = Fields \union {"tag", "anchor", "keepEmpty"}
      /\ com.tag = None /\ com.anchor = None
    BY DEF Init, ComposerInit, Reader, ReaderWith, Fields
<1>4. DecoderInv
  <2>1. {"mayDirect"} \intersect Fields = {}
      BY DEF Fields
  <2> QED BY <1>1, <1>2, <2>1 DEF DecoderInv
<1>5. ComposerInv
  <2>1. {"tag", "anchor", "keepEmpty"} \intersect Fields = {}
      BY DEF Fields
  <2>2. Shaped(com) /\ ~Contains(com.out, "alias")
      BY <1>1, <1>3, <2>1
  <2> QED BY <1>3, <2>2 DEF ComposerInv, Own
<1>6. event.tok = "none" /\ named = {}
    BY DEF Init
<1> QED BY <1>4, <1>5, <1>6 DEF IInv

\* A reader is given the next event.
Afresh(r, s) ==
    /\ DOMAIN s = DOMAIN r /\ \A g \in DOMAIN r : g \notin {"taken", "out", "document"} => s[g] = r[g]
    /\ s.taken = FALSE /\ s.out = <<>> /\ s.stack = r.stack /\ s.anchors = r.anchors /\ s.ret = r.ret
    /\ Shaped(s) /\ Held(s) = Held(r) /\ Top(s) = Top(r) /\ ~Contains(s.out, "alias")

\* A new event: names are added to those of the text before a reader sees
\* them, and those of a document before are out of scope once it took its end.
LEMMA AdvanceKeeps ==
    ASSUME IInv, Advance
    PROVE  IInv'
<1> DEFINE Renewed(r) == [r EXCEPT !.taken = FALSE, !.out = <<>>, !.document = None]
<1>1. PICK t \in Tokens, arg \in Names \union Directives \union {None, "core", "custom", "named"} :
          /\ arg \in Arguments(t) /\ event' = [tok |-> t, arg |-> arg]
          /\ named' = CASE t = "Anchor" -> named \union {arg}
                        [] t \in {"DocStart", "DocEnd"} -> {}
                        [] OTHER -> named
    BY DEF Advance
<1>2. /\ dec.taken /\ dec' = Renewed(dec)
      /\ \/ com.taken /\ com' = Renewed(com)
         \/ com' = Failed(com)
    BY DEF Advance, BothDone
<1>3. /\ Shaped(dec) /\ Held(dec) \subseteq named /\ named \subseteq Names
      /\ Shaped(com) /\ {"tag", "anchor", "keepEmpty"} \subseteq DOMAIN com
    BY <1>2 DEF IInv, DecoderInv, ComposerInv, Scope
<1>4. ASSUME NEW r, Shaped(r), NEW s, s = Renewed(r)
      PROVE  Afresh(r, s)
  <2>1. IsReader(r)
      BY <1>4 DEF Shaped
  <2>2. /\ DOMAIN s = DOMAIN r /\ \A g \in DOMAIN r : g \notin {"taken", "out", "document"} => s[g] = r[g]
        /\ s.taken = FALSE /\ s.out = <<>>
      BY <1>4, <2>1 DEF IsReader, Fields
  <2>3. s.stack = r.stack /\ s.anchors = r.anchors /\ s.ret = r.ret
      BY <2>1, <2>2 DEF IsReader, Fields
  <2>4. <<>> \in Seq(Words) /\ 1 .. Len(<<>>) = {}
      OBVIOUS
  <2>5. IsReader(s)
      BY <2>1, <2>2, <2>4 DEF IsReader, Fields
  <2> QED BY <1>4, <2>2, <2>3, <2>4, <2>5 DEF Afresh, Shaped, Nested, Held, Top, Contains
<1> HIDE DEF Renewed
<1>5. /\ t \in {"Anchor", "Alias"} => arg \in Names
      /\ t = "Directive" => arg \in Directives
    BY <1>1 DEF Arguments
<1>6. event'.tok = t /\ event'.arg = arg
    BY <1>1
<1>7. /\ named' \subseteq Names /\ (t = "Anchor" => arg \in named')
      /\ named \subseteq IF t \in Marks THEN Names ELSE named'
    BY <1>1, <1>3, <1>5 DEF Marks
<1>8. DecoderInv'
  <2>1. /\ DOMAIN dec' = DOMAIN dec /\ dec'.taken = FALSE /\ dec'.stack = dec.stack /\ dec'.anchors = dec.anchors
        /\ Shaped(dec') /\ Held(dec') = Held(dec) /\ ~Contains(dec'.out, "alias")
    <3>1. Afresh(dec, dec')
        BY <1>2, <1>3, <1>4
    <3> QED BY <3>1 DEF Afresh
  <2>2. Held(dec') \subseteq Scope'
      BY <1>3, <1>6, <1>7, <2>1 DEF Scope
  <2> QED BY <2>1, <2>2 DEF DecoderInv, IInv
<1>9. ComposerInv'
  <2>1. CASE com.taken /\ com' = Renewed(com)
    <3>1. /\ DOMAIN com' = DOMAIN com /\ \A g \in DOMAIN com : g \notin {"taken", "out", "document"} => com'[g] = com[g]
          /\ com'.taken = FALSE /\ com'.stack = com.stack /\ com'.ret = com.ret /\ Top(com') = Top(com)
          /\ Shaped(com') /\ Held(com') = Held(com) /\ ~Contains(com'.out, "alias")
      <4>1. Afresh(com, com')
          BY <1>3, <1>4, <2>1
      <4> QED BY <4>1 DEF Afresh
    <3>2. "failed" \in DOMAIN com
        BY <1>3 DEF Shaped, IsReader, Fields
    <3>3. com'.failed = com.failed /\ com'.tag = com.tag /\ com'.anchor = com.anchor
        BY <1>3, <3>1, <3>2
    <3>4. /\ com.stack # <<>> => Held(com) \subseteq named
          /\ ~com.failed => Own
          /\ ~com.failed /\ com.anchor # None => At(com, "node") /\ com.anchor \in named
        BY <2>1 DEF IInv, ComposerInv, ComposerScope
    <3>5. ComposerScope' = IF t \in Marks THEN Names ELSE named'
        BY <1>6, <3>1 DEF ComposerScope
    <3>6. named \subseteq ComposerScope'
        BY <1>7, <3>5
    <3>7. ~com'.failed => Own'
        BY <3>1, <3>3, <3>4 DEF Own
    <3>8. ~com'.failed /\ com'.anchor # None => At(com', "node") /\ com'.anchor \in ComposerScope'
        BY <3>1, <3>3, <3>4, <3>6 DEF At
    <3>9. com'.stack # <<>> => Held(com') \subseteq ComposerScope'
        BY <3>1, <3>4, <3>6
    <3> QED BY <1>3, <3>1, <3>7, <3>8, <3>9 DEF ComposerInv
  <2>2. CASE com' = Failed(com)
    <3>1. DOMAIN com' = DOMAIN com /\ Shaped(com') /\ Fallen(com')
        BY <1>3, <2>2, FailedIs DEF Outcome, Same, Fallen
    <3> QED BY <1>3, <3>1, FallenHolds DEF ComposerInv, Fallen
  <2> QED BY <1>2, <2>1, <2>2
<1> QED BY <1>5, <1>6, <1>7, <1>8, <1>9 DEF IInv

\* Both readers and their nodes keep their shape, they hold no name but those of
\* their document, and what they tell of an alias is of one of them: in every
\* reachable state of both (decode_stream, decode_document, decode_node;
\* compose_stream, compose_document, compose_node).
THEOREM ReadersInvariant == Spec => []IInv
<1>1. Init => IInv
    BY InitKeeps
<1>2. IInv /\ [Next]_vars => IInv'
  <2> SUFFICES ASSUME IInv, [Next]_vars PROVE IInv'
      OBVIOUS
  <2>1. CASE Advance
      BY <2>1, AdvanceKeeps
  <2>2. CASE Decoding
    <3>1. Decode /\ UNCHANGED <<event, named, com>>
        BY <2>2 DEF Decoding
    <3> QED BY <3>1, DecodeKeeps
  <2>3. CASE Composing
    <3>1. Compose /\ UNCHANGED <<event, named, dec>>
        BY <2>3 DEF Composing
    <3> QED BY <3>1, ComposeKeeps
  <2>4. CASE UNCHANGED vars
      BY <2>4 DEF vars, IInv, DecoderInv, ComposerInv, Scope, ComposerScope, Own
  <2> QED BY <2>1, <2>2, <2>3, <2>4 DEF Next
<1> QED BY <1>1, <1>2, PTL DEF Spec

\* An alias that decode_node or compose_node accepts names an anchor of its own
\* document, never one of a document before it: decode_stream has cleared those
\* when their document ended, compose_stream when the next began.
THEOREM ReadersAliasesStayInDocument == Spec => []AliasesStayInDocument
<1>1. IInv => AliasesStayInDocument
    BY DEF IInv, DecoderInv, ComposerInv, AliasesStayInDocument
<1> QED BY <1>1, ReadersInvariant, PTL

\* No path of calls gets past MAX_DEPTH, of the decoder or of the composer, however
\* it goes in and out of nodes: the limit is looked at where a node is called, and
\* a node that became a collection still counts.
THEOREM ReadersDepthBounded == Spec => [](Nested(dec) <= MaxDepth /\ Nested(com) <= MaxDepth)
<1>1. IInv => Nested(dec) <= MaxDepth /\ Nested(com) <= MaxDepth
    BY DEF IInv, DecoderInv, ComposerInv, Shaped
<1> QED BY <1>1, ReadersInvariant, PTL

Seen == differ \in BOOLEAN /\ apart \in BOOLEAN /\ looks \in Nat

\* The calls, names and directives of both readers are ones the text can give them.
THEOREM ReadersTypeOK == Spec => []TypeOK
<1>1. Init => Seen
  <2> SUFFICES ASSUME Init PROVE Seen
      OBVIOUS
  <2>1. differ = FALSE /\ apart = FALSE /\ looks = 0
      BY Zenon DEF Init
  <2>2. differ \in BOOLEAN /\ apart \in BOOLEAN
      BY <2>1, Zenon
  <2>3. looks \in Nat
      BY <2>1
  <2> QED BY <2>2, <2>3, Zenon DEF Seen
<1>2. Seen /\ [Next]_vars => Seen'
  <2> SUFFICES ASSUME Seen, [Next]_vars PROVE Seen'
      OBVIOUS
  <2>1. CASE Advance
    <3>1. \E a, b : differ' = (~a /\ b)
        BY <2>1 DEF Advance
    <3>2. \E a, b : apart' = (~a /\ b)
        BY <2>1 DEF Advance
    <3>3. looks' = 0
        BY <2>1 DEF Advance
    <3>4. \A a, b : (~a /\ b) \in BOOLEAN
        OBVIOUS
    <3> QED BY <3>1, <3>2, <3>3, <3>4 DEF Seen
  <2>2. CASE Decoding \/ Composing
      BY <2>2 DEF Decoding, Composing, Seen
  <2>3. CASE UNCHANGED vars
      BY <2>3 DEF vars, Seen
  <2> QED BY <2>1, <2>2, <2>3 DEF Next
<1>3. ASSUME NEW r, Shaped(r) PROVE ReaderType(r)
  <2>1. IsReader(r) /\ DOMAIN r.stack = 1 .. Len(r.stack)
      BY <1>3, TopIs DEF Shaped
  <2>2. \A i \in DOMAIN r.stack : r.stack[i] \in Calls
      BY <2>1, ElementOfSeq DEF IsReader
  <2> QED BY <2>1, <2>2 DEF ReaderType, IsReader, Calls
<1>4. IInv /\ Seen => TypeOK
    BY <1>3 DEF IInv, DecoderInv, ComposerInv, TypeOK, Seen
<1> QED BY <1>1, <1>2, <1>4, ReadersInvariant, PTL DEF Spec
-----------------------------------------------------------------------------
(***************************************************************************)
(* How often the readers look at an event.  The looks that are left to a    *)
(* reader are at most a number that every step lowers: ten for each open    *)
(* collection, and a price for the point the reader is at.  That it is      *)
(* lowered rests on how the calls nest: a collection is read in the call of *)
(* its node, an item in that of its sequence (Chained).                     *)
(***************************************************************************)
\* The point of the call k below the top, and the collections being read.
Tip(q, k) == IF k < Len(q) THEN q[Len(q) - k].at ELSE "stream"
Filled(q) == Cardinality({i \in DOMAIN q : q[i].at = "collected"})

\* A collection is read in the call of its node, an item in that of a sequence.
CollectionPoints == MappingPoints \union SequencePoints \union {"indentless", "level item"}
EntryPoints == {"entry", "block entry", "item node", "pair key", "pair value"}
ItemPoints == {"item", "first item", "level item"}
Fits(u, t) ==
    /\ t \in CollectionPoints => u = "collected"
    /\ t \in EntryPoints => u \in ItemPoints
Chained(q) == \A i \in DOMAIN q : i # 1 => Fits(q[i - 1].at, q[i].at)

\* The price of a point once its node is back, once there was none (u is the point
\* below), and before; "owns": the node was given properties.
Found(t) ==
    CASE t = "collected" -> 1
      [] t = "level item" -> 3
      [] t \in {"explicit", "implicit"} -> 4
      [] t \in {"value", "bare key", "bare scalar"} -> 5
      [] t \in {"key", "item", "first item"} -> 7
      [] t \in {"item node", "pair value", "block entry"} -> 8
      [] OTHER -> 10
Missing(t, u) ==
    CASE t = "implicit" -> 1
      [] t \in {"bare key", "bare scalar", "first item"} -> 2
      [] t = "item node" /\ u = "first item" -> 3
      [] OTHER -> Found(t)
Starting(t, u, tok) ==
    CASE t = "indentless" -> 2
      [] t = "stream" -> 3
      [] t = "mapping" -> 4
      [] t = "level item" -> 5
      [] t = "entry" /\ u = "first item" /\ ~NothingHere(tok) -> 5
      [] t = "sequence" -> 6
      [] OTHER -> 10

\* The composer keeps no properties but at a node.
Bare(r) == \A f \in DOMAIN r \intersect {"tag", "anchor"} : r[f] = None
Owns(r) == Top(r).tag # None \/ Top(r).anchor # None \/ ~Bare(r)
Price(r, tok) ==
    IF r.ret = "node" THEN Found(Tip(r.stack, 0))
    ELSE IF r.ret = "none" THEN Missing(Tip(r.stack, 0), Tip(r.stack, 1))
    ELSE IF ~At(r, "node") THEN Starting(Tip(r.stack, 0), Tip(r.stack, 1), tok)
    ELSE IF Owns(r) THEN 1 + Found(Tip(r.stack, 1))
    ELSE 1 + Missing(Tip(r.stack, 1), Tip(r.stack, 2))

\* The looks r may still have at an event.
Ahead(r, tok) ==
    IF r.taken THEN 0
    ELSE IF At(r, "indentless") /\ tok = "Entry" THEN 1
    ELSE 10 * Filled(r.stack) + Price(r, tok)
Settled(r) == Chained(r.stack) /\ (r.failed \/ Bare(r) \/ At(r, "node"))

LEMMA FilledIs ==
    ASSUME NEW q \in Seq(Calls)
    PROVE  IsFiniteSet({i \in DOMAIN q : q[i].at = "collected"}) /\ Filled(q) \in Nat
<1>1. DOMAIN q = 1 .. Len(q) /\ Len(q) \in Nat
    OBVIOUS
<1>2. IsFiniteSet(DOMAIN q)
    BY <1>1, FS_Interval
<1>3. {i \in DOMAIN q : q[i].at = "collected"} \in SUBSET DOMAIN q
    OBVIOUS
<1>4. IsFiniteSet({i \in DOMAIN q : q[i].at = "collected"})
    BY <1>2, <1>3, FS_Subset
<1> QED BY <1>4, FS_CardinalityType DEF Filled

\* The collections of a stack are those of another with the same.
LEMMA FilledSame ==
    ASSUME NEW q, NEW s, {i \in DOMAIN s : s[i].at = "collected"} = {i \in DOMAIN q : q[i].at = "collected"}
    PROVE  Filled(s) = Filled(q)
BY DEF Filled

\* The call on top becomes another.
LEMMA TopChanged ==
    ASSUME NEW q \in Seq(Calls), q # <<>>, NEW f \in Calls, NEW s, s = [q EXCEPT ![Len(q)] = f]
    PROVE  /\ s \in Seq(Calls) /\ s # <<>> /\ s[Len(s)] = f
           /\ Tip(s, 0) = f.at /\ Tip(s, 1) = Tip(q, 1) /\ Tip(s, 2) = Tip(q, 2)
           /\ Chained(q) /\ Fits(Tip(q, 1), f.at) => Chained(s)
           /\ f.at # "collected" /\ Tip(q, 0) # "collected" => Filled(s) = Filled(q)
<1> DEFINE n == Len(q)
<1>1. n \in Nat /\ DOMAIN q = 1 .. n /\ n # 0
    OBVIOUS
<1>2. n \in 1 .. n
  <2>1. \A k \in Nat : k # 0 => k \in 1 .. k
      OBVIOUS
  <2> QED BY <1>1, <2>1, Zenon
<1>3. DOMAIN s = 1 .. n /\ s[n] = f /\ \A i \in 1 .. n : i # n => s[i] = q[i]
    BY <1>1, <1>2
<1>4. \A i \in 1 .. n : q[i] \in Calls
    BY ElementOfSeq
<1>5. s \in Seq(Calls) /\ Len(s) = n
  <2>1. s \in [1 .. n -> Calls]
    <3>1. s = [i \in 1 .. n |-> IF i = n THEN f ELSE q[i]]
        BY <1>1, <1>2
    <3> HIDE DEF n, Calls
    <3> QED BY <1>3, <1>4, <3>1
  <2> HIDE DEF Calls, n
  <2> QED BY <1>1, <1>3, <2>1
<1>0. n = Len(q)
    OBVIOUS
<1> HIDE DEF n
<1>6. s # <<>>
    BY <1>1, <1>5
<1>7. Tip(s, 0) = f.at /\ Tip(q, 0) = q[n].at
  <2>1. 0 < n /\ n - 0 = n
      BY <1>1
  <2> QED BY <1>0, <1>1, <1>3, <1>5, <2>1 DEF Tip
<1>8. Tip(s, 1) = Tip(q, 1) /\ Tip(s, 2) = Tip(q, 2)
  <2>1. \A k \in {1, 2} : k < n => n - k \in 1 .. n /\ n - k # n
      BY <1>1
  <2> QED BY <1>0, <1>3, <1>5, <2>1 DEF Tip
<1>9. ASSUME Chained(q), Fits(Tip(q, 1), f.at) PROVE Chained(s)
  <2> SUFFICES ASSUME NEW i \in 1 .. n, i # 1 PROVE Fits(s[i - 1].at, s[i].at)
      BY <1>3 DEF Chained
  <2>1. i - 1 \in 1 .. n /\ i - 1 # n
      BY <1>1
  <2>2. s[i - 1] = q[i - 1]
      BY <1>3, <2>1
  <2>3. CASE i = n
    <3>1. 1 < n
        BY <1>1, <2>3
    <3>2. Tip(q, 1) = q[n - 1].at
        BY <1>0, <3>1 DEF Tip
    <3> QED BY <1>3, <1>9, <2>2, <2>3, <3>2
  <2>4. CASE i # n
      BY <1>1, <1>3, <1>9, <2>2, <2>4 DEF Chained
  <2> QED BY <2>3, <2>4
<1>10. ASSUME f.at # "collected", Tip(q, 0) # "collected" PROVE Filled(s) = Filled(q)
  <2>1. \A i \in 1 .. n : s[i].at = "collected" <=> q[i].at = "collected"
      BY <1>2, <1>3, <1>7, <1>10
  <2>2. {i \in DOMAIN s : s[i].at = "collected"} = {i \in DOMAIN q : q[i].at = "collected"}
      BY <1>1, <1>3, <2>1
  <2> QED BY <2>2, FilledSame
<1> QED BY <1>3, <1>5, <1>6, <1>7, <1>8, <1>9, <1>10

\* A call is made.
Grown(q, f, s) ==
    /\ s \in Seq(Calls) /\ s # <<>> /\ s[Len(s)] = f
    /\ Tip(s, 0) = f.at /\ Tip(s, 1) = Tip(q, 0) /\ Tip(s, 2) = Tip(q, 1)
    /\ Chained(q) /\ Fits(Tip(q, 0), f.at) => Chained(s)
    /\ f.at # "collected" => Filled(s) = Filled(q)

LEMMA Pushed ==
    ASSUME NEW q \in Seq(Calls), NEW f \in Calls
    PROVE  Grown(q, f, Append(q, f))
<1> DEFINE n == Len(q)
           s == Append(q, f)
<1>1. n \in Nat /\ DOMAIN q = 1 .. n /\ s \in Seq(Calls)
    OBVIOUS
<1>2. Len(s) = n + 1 /\ DOMAIN s = 1 .. n + 1 /\ s[n + 1] = f /\ \A i \in 1 .. n : s[i] = q[i]
    BY AppendIs
<1>0. n = Len(q)
    OBVIOUS
<1> HIDE DEF n, s
<1>3. s # <<>>
    BY <1>1, <1>2
<1>4. Tip(s, 0) = f.at
    BY <1>1, <1>2 DEF Tip
<1>5. Tip(s, 1) = Tip(q, 0) /\ Tip(s, 2) = Tip(q, 1)
  <2>1. /\ 1 < n + 1 <=> 0 < n
        /\ 2 < n + 1 <=> 1 < n
        /\ n + 1 - 1 = n - 0 /\ n + 1 - 2 = n - 1
        /\ 0 < n => n - 0 \in 1 .. n
        /\ 1 < n => n - 1 \in 1 .. n
      BY <1>1
  <2> QED BY <1>0, <1>2, <2>1 DEF Tip
<1>6. ASSUME Chained(q), Fits(Tip(q, 0), f.at) PROVE Chained(s)
  <2> SUFFICES ASSUME NEW i \in 1 .. n + 1, i # 1 PROVE Fits(s[i - 1].at, s[i].at)
      BY <1>2 DEF Chained
  <2>1. i - 1 \in 1 .. n /\ (i = n + 1 \/ i \in 1 .. n)
      BY <1>1
  <2>2. s[i - 1] = q[i - 1]
      BY <1>2, <2>1
  <2>3. CASE i = n + 1
    <3>1. Tip(q, 0) = q[i - 1].at
        BY <1>0, <1>1, <2>1, <2>3 DEF Tip
    <3> QED BY <1>2, <1>6, <2>2, <2>3, <3>1
  <2>4. CASE i \in 1 .. n
      BY <1>1, <1>2, <1>6, <2>2, <2>4 DEF Chained
  <2> QED BY <2>1, <2>3, <2>4
<1>7. ASSUME f.at # "collected" PROVE Filled(s) = Filled(q)
  <2>1. \A i : i \in 1 .. n + 1 <=> i \in 1 .. n \/ i = n + 1
      BY <1>1
  <2>2. {i \in DOMAIN s : s[i].at = "collected"} = {i \in DOMAIN q : q[i].at = "collected"}
      BY <1>1, <1>2, <1>7, <2>1
  <2> QED BY <2>2, FilledSame
<1> QED BY <1>1, <1>2, <1>3, <1>4, <1>5, <1>6, <1>7 DEF Grown, s

\* A call returns.
LEMMA Popped ==
    ASSUME NEW q \in Seq(Calls), q # <<>>, NEW s, s = Front(q)
    PROVE  /\ s \in Seq(Calls) /\ Tip(s, 0) = Tip(q, 1) /\ Tip(s, 1) = Tip(q, 2)
           /\ Chained(q) => Chained(s)
           /\ Tip(q, 0) # "collected" => Filled(s) = Filled(q)
           /\ Tip(q, 0) = "collected" => Filled(s) + 1 = Filled(q)
<1> DEFINE n == Len(q)
<1>1. n \in Nat /\ DOMAIN q = 1 .. n /\ n # 0 /\ n \in 1 .. n
  <2>1. n \in Nat /\ DOMAIN q = 1 .. n /\ n # 0
      OBVIOUS
  <2> QED BY <2>1
<1>2. s \in Seq(Calls) /\ Len(s) = n - 1 /\ \A i \in 1 .. n - 1 : s[i] = q[i]
    BY FrontLast
<1>3. DOMAIN s = 1 .. n - 1
    BY <1>2
<1>0. n = Len(q)
    OBVIOUS
<1> HIDE DEF n
<1>4. Tip(s, 0) = Tip(q, 1) /\ Tip(s, 1) = Tip(q, 2)
  <2>1. /\ 0 < n - 1 <=> 1 < n
        /\ 1 < n - 1 <=> 2 < n
        /\ n - 1 - 0 = n - 1 /\ n - 1 - 1 = n - 2
        /\ 1 < n => n - 1 \in 1 .. n - 1
        /\ 2 < n => n - 2 \in 1 .. n - 1
      BY <1>1
  <2> QED BY <1>0, <1>2, <2>1 DEF Tip
<1>5. \A i : i \in 1 .. n <=> i \in 1 .. n - 1 \/ i = n
    BY <1>1
<1>6. Chained(q) => Chained(s)
  <2>1. \A i \in 1 .. n - 1 : i # 1 => i - 1 \in 1 .. n - 1 /\ i \in 1 .. n
      BY <1>1
  <2> QED BY <1>1, <1>2, <1>3, <2>1 DEF Chained
<1>7. Tip(q, 0) = q[n].at
    BY <1>0, <1>1 DEF Tip
<1> DEFINE Q == {i \in DOMAIN q : q[i].at = "collected"}
           S == {i \in DOMAIN s : s[i].at = "collected"}
<1>8. Tip(q, 0) # "collected" => S = Q
    BY <1>1, <1>2, <1>3, <1>5, <1>7
<1>9. Tip(q, 0) = "collected" => Q = S \union {n} /\ n \notin S
  <2>1. n \notin 1 .. n - 1
      BY <1>1
  <2> QED BY <1>1, <1>2, <1>3, <1>5, <1>7, <2>1
<1>10. IsFiniteSet(S)
    BY <1>2, FilledIs
<1>11. Filled(s) = Cardinality(S) /\ Filled(q) = Cardinality(Q)
    BY DEF Filled
<1> HIDE DEF S, Q
<1>12. Tip(q, 0) = "collected" => Filled(s) + 1 = Filled(q)
    BY <1>9, <1>10, <1>11, FS_AddElement
<1> QED BY <1>2, <1>4, <1>6, <1>8, <1>11, <1>12
-----------------------------------------------------------------------------
\* The reader is at point t, in a call at u, and that in one at v.
Poised(r, t, u, v) ==
    /\ {"stack", "ret", "taken", "failed"} \subseteq DOMAIN r
    /\ r.stack \in Seq(Calls) /\ Chained(r.stack)
    /\ Tip(r.stack, 0) = t /\ Tip(r.stack, 1) = u /\ Tip(r.stack, 2) = v

\* What a part of a step keeps that takes no event and closes no collection.
Like(r, s) == s.taken = r.taken /\ Filled(s.stack) = Filled(r.stack) /\ (Bare(r) => Bare(s))

LEMMA PoisedTop ==
    ASSUME NEW r, NEW t, NEW u, NEW v, Poised(r, t, u, v)
    PROVE  /\ Top(r).at = t /\ (r.stack = <<>> <=> t = "stream") /\ Filled(r.stack) \in Nat
           /\ r.stack # <<>> => Top(r) = r.stack[Len(r.stack)] /\ Top(r) \in Calls /\ Len(r.stack) \in DOMAIN r.stack
<1>1. r.stack \in Seq(Calls) /\ Len(r.stack) \in Nat /\ DOMAIN r.stack = 1 .. Len(r.stack)
    BY DEF Poised
<1>2. CASE r.stack = <<>>
  <2>1. Len(r.stack) = 0 /\ Top(r).at = "stream" /\ Filled(r.stack) \in Nat
      BY <1>1, <1>2, FilledIs DEF Top, Frame
  <2>2. Tip(r.stack, 0) = "stream"
      BY <2>1 DEF Tip
  <2> QED BY <1>2, <2>1, <2>2 DEF Poised
<1>3. CASE r.stack # <<>>
  <2>1. Len(r.stack) \in 1 .. Len(r.stack) /\ Top(r) = r.stack[Len(r.stack)]
      BY <1>1, <1>3 DEF Top, Last
  <2>2. Top(r) \in Calls
      BY <1>1, <2>1, ElementOfSeq
  <2>3. 0 < Len(r.stack) /\ Len(r.stack) - 0 = Len(r.stack)
      BY <1>1, <2>1
  <2>4. Top(r).at = t
      BY <2>1, <2>3 DEF Poised, Tip
  <2>5. t # "stream"
      BY <2>2, <2>4, PointsApart DEF Calls, Points, DocumentPoints
  <2> QED BY <1>1, <1>3, <2>1, <2>2, <2>4, <2>5, FilledIs
<1> QED BY <1>2, <1>3

LEMMA StackAlike ==
    ASSUME NEW r, NEW t, NEW u, NEW v, Poised(r, t, u, v), NEW s, DOMAIN s = DOMAIN r,
           \A g \in DOMAIN r : g \notin {"out", "anchors", "taken"} => s[g] = r[g]
    PROVE  /\ Poised(s, t, u, v) /\ s.ret = r.ret /\ s.stack = r.stack
           /\ Filled(s.stack) = Filled(r.stack) /\ (Bare(r) => Bare(s))
<1>1. s.stack = r.stack /\ s.ret = r.ret
    BY DEF Poised
<1> QED BY <1>1 DEF Poised, Bare

LEMMA PutPoised ==
    ASSUME NEW r, NEW t, NEW u, NEW v, Poised(r, t, u, v), NEW x
    PROVE  Poised(Put(r, x), t, u, v) /\ Put(r, x).ret = r.ret /\ Like(r, Put(r, x)) /\ Put(r, x).stack = r.stack
<1> DEFINE s == Put(r, x)
<1>1. DOMAIN s = DOMAIN r /\ \A g \in DOMAIN r : g # "out" => s[g] = r[g]
    BY DEF Put
<1> HIDE DEF s
<1>2. s.taken = r.taken
    BY <1>1 DEF Poised
<1> QED BY <1>1, <1>2, StackAlike DEF Like, s

LEMMA TakePoised ==
    ASSUME NEW r, NEW t, NEW u, NEW v, Poised(r, t, u, v)
    PROVE  /\ Poised(Take(r), t, u, v) /\ Take(r).ret = r.ret /\ Take(r).taken = TRUE /\ Take(r).stack = r.stack
           /\ Filled(Take(r).stack) = Filled(r.stack) /\ (Bare(r) => Bare(Take(r)))
<1> DEFINE s == Take(r)
<1>1. DOMAIN s = DOMAIN r /\ \A g \in DOMAIN r : g # "taken" => s[g] = r[g]
    BY DEF Take
<1>2. s.taken = TRUE
    BY DEF Take, Poised
<1> HIDE DEF s
<1> QED BY <1>1, <1>2, StackAlike DEF s

LEMMA OrNullPoised ==
    ASSUME NEW r, NEW t, NEW u, NEW v, Poised(r, t, u, v)
    PROVE  Poised(OrNull(r), t, u, v) /\ OrNull(r).ret = r.ret /\ Like(r, OrNull(r)) /\ OrNull(r).stack = r.stack
<1>1. Poised(Put(r, "null"), t, u, v) /\ Put(r, "null").ret = r.ret /\ Like(r, Put(r, "null")) /\ Put(r, "null").stack = r.stack
    BY PutPoised
<1>2. OrNull(r) = Put(r, "null") \/ OrNull(r) = r
    BY DEF OrNull
<1> QED BY <1>1, <1>2 DEF Like

\* Another stack, and what the last call returned.
Restacked(r, s, st, value) ==
    /\ DOMAIN s = DOMAIN r /\ s.stack = st /\ s.ret = value /\ s.taken = r.taken /\ (Bare(r) => Bare(s))

LEMMA RestackedIs ==
    ASSUME NEW r, NEW t, NEW u, NEW v, Poised(r, t, u, v), NEW st, NEW value
    PROVE  /\ Restacked(r, [r EXCEPT !.stack = st, !.ret = value], st, value)
           /\ Restacked(r, [r EXCEPT !.stack = st], st, r.ret)
<1> DEFINE a == [r EXCEPT !.stack = st, !.ret = value]
           b == [r EXCEPT !.stack = st]
<1>1. /\ DOMAIN a = DOMAIN r /\ DOMAIN b = DOMAIN r
      /\ \A g \in DOMAIN r : g \notin {"stack", "ret"} => a[g] = r[g] /\ b[g] = r[g]
    OBVIOUS
<1>2. a.stack = st /\ a.ret = value /\ b.stack = st /\ b.ret = r.ret
    BY DEF Poised
<1> HIDE DEF a, b
<1>3. a.taken = r.taken /\ b.taken = r.taken
    BY <1>1 DEF Poised
<1>4. Bare(r) => Bare(a) /\ Bare(b)
    BY <1>1 DEF Bare
<1> QED BY <1>1, <1>2, <1>3, <1>4 DEF Restacked, a, b

LEMMA GoPoised ==
    ASSUME NEW r, NEW t, NEW u, NEW v, Poised(r, t, u, v), t \notin {"stream", "collected"},
           NEW x \in InnerPoints, Fits(u, x)
    PROVE  Poised(Go(r, x), x, u, v) /\ Go(r, x).ret = "pending" /\ Like(r, Go(r, x))
<1> DEFINE n == Len(r.stack)
           f == [Top(r) EXCEPT !.at = x]
           st == [r.stack EXCEPT ![n] = f]
           s == Go(r, x)
<1>1. /\ r.stack \in Seq(Calls) /\ r.stack # <<>> /\ Top(r) = r.stack[n] /\ Top(r) \in Calls /\ n \in DOMAIN r.stack
    BY PoisedTop DEF Poised
<1>2. f \in Calls /\ f.at = x /\ f.at # "collected"
    BY <1>1, PointsApart DEF Calls, NodePoints
<1>3. s = [r EXCEPT !.stack = st, !.ret = "pending"]
    BY <1>1 DEF Go
<1> HIDE DEF f, s
<1>4. /\ st \in Seq(Calls) /\ Tip(st, 0) = x /\ Tip(st, 1) = u /\ Tip(st, 2) = v
      /\ Chained(st) /\ Filled(st) = Filled(r.stack)
    BY <1>1, <1>2, TopChanged DEF Poised
<1> HIDE DEF st, n
<1>5. Restacked(r, s, st, "pending")
    BY <1>3, RestackedIs
<1> QED BY <1>4, <1>5 DEF Restacked, Poised, Like, s

LEMMA CallPoised ==
    ASSUME NEW r, NEW t, NEW u, NEW v, Poised(r, t, u, v), NEW f \in Calls, f.at # "collected", Fits(t, f.at)
    PROVE  /\ Poised(Call(r, f), f.at, t, u) /\ Call(r, f).ret = "pending" /\ Like(r, Call(r, f))
           /\ Top(Call(r, f)) = f
<1> DEFINE s == Call(r, f)
<1>0. PICK st : st = Append(r.stack, f)
    OBVIOUS
<1>1. r.stack \in Seq(Calls) /\ Chained(r.stack) /\ Tip(r.stack, 0) = t /\ Tip(r.stack, 1) = u
    BY DEF Poised
<1>2. s = [r EXCEPT !.stack = st, !.ret = "pending"]
    BY <1>0 DEF Call
<1> HIDE DEF s
<1>3. /\ st \in Seq(Calls) /\ Tip(st, 0) = f.at /\ Tip(st, 1) = t /\ Tip(st, 2) = u
      /\ Chained(st) /\ Filled(st) = Filled(r.stack) /\ st # <<>> /\ st[Len(st)] = f
  <2>1. Grown(r.stack, f, st)
      BY <1>0, <1>1, Pushed
  <2> QED BY <1>1, <2>1 DEF Grown
<1>4. Restacked(r, s, st, "pending")
    BY <1>2, RestackedIs
<1>5. Top(s) = f
    BY <1>3, <1>4 DEF Top, Last, Restacked
<1> QED BY <1>3, <1>4, <1>5 DEF Restacked, Poised, Like, s

\* The call on top, at t, has returned.
Returned(r, t, u, v, value, s) ==
    /\ Poised(s, u, v, Tip(s.stack, 2)) /\ s.ret = value /\ s.taken = r.taken /\ (Bare(r) => Bare(s))
    /\ t # "collected" => Filled(s.stack) = Filled(r.stack)
    /\ t = "collected" => Filled(s.stack) + 1 = Filled(r.stack)

LEMMA ReturnPoised ==
    ASSUME NEW r, NEW t, NEW u, NEW v, Poised(r, t, u, v), t # "stream", NEW value
    PROVE  Returned(r, t, u, v, value, Return(r, value))
<1> DEFINE st == Front(r.stack)
           s == Return(r, value)
<1>1. r.stack \in Seq(Calls) /\ r.stack # <<>>
    BY PoisedTop DEF Poised
<1>2. s = [r EXCEPT !.stack = st, !.ret = value]
    BY DEF Return
<1>3. /\ st \in Seq(Calls) /\ Tip(st, 0) = u /\ Tip(st, 1) = v /\ Chained(st)
      /\ t # "collected" => Filled(st) = Filled(r.stack)
      /\ t = "collected" => Filled(st) + 1 = Filled(r.stack)
    BY <1>1, Popped DEF Poised
<1> HIDE DEF st, s
<1>4. Restacked(r, s, st, value)
  <2>1. Restacked(r, [r EXCEPT !.stack = st, !.ret = value], st, value)
      BY RestackedIs
  <2> QED BY <1>2, <2>1
<1> QED BY <1>3, <1>4 DEF Restacked, Poised, Returned, s

\* A node becomes a collection.
LEMMA OpenedPoised ==
    ASSUME NEW r, NEW u, NEW v, Poised(r, "node", u, v), NEW s, s = Opened(r)
    PROVE  Poised(s, "collected", u, v) /\ s.ret = r.ret /\ s.taken = r.taken /\ (Bare(r) => Bare(s))
<1> DEFINE n == Len(r.stack)
           c == Top(r)
           w == IF c.tag = "core" THEN None ELSE c.tag
           f == [at |-> "collected", flow |-> c.flow, place |-> "other", tag |-> w, anchor |-> c.anchor]
           st == [r.stack EXCEPT ![n] = f]
<1>1. /\ r.stack \in Seq(Calls) /\ r.stack # <<>> /\ c = r.stack[n] /\ c \in Calls /\ n \in DOMAIN r.stack
    BY PoisedTop DEF Poised
<1>2. f \in Calls /\ f.at = "collected"
  <2>1. "collected" \in Points /\ w \in {None, "core", "custom", "indentless"} /\ c.flow \in BOOLEAN
        /\ c.anchor \in Names \union {None}
      BY <1>1 DEF Calls, Points, NodePoints
  <2> HIDE DEF w, c
  <2> QED BY <2>1 DEF Calls
<1>3. s = [r EXCEPT !.stack = st]
  <2> HIDE DEF c
  <2>1. s = [r EXCEPT !.stack[n] = [at |-> "collected", flow |-> c.flow, place |-> "other",
                                    tag |-> IF c.tag = "core" THEN None ELSE c.tag, anchor |-> c.anchor]]
      BY <1>1 DEF Opened
  <2> QED BY <2>1
<1> HIDE DEF f
<1>4. Fits(u, "collected")
    BY DEF Fits, CollectionPoints, EntryPoints, MappingPoints, SequencePoints
<1>5. st \in Seq(Calls) /\ Tip(st, 0) = "collected" /\ Tip(st, 1) = u /\ Tip(st, 2) = v /\ Chained(st)
    BY <1>1, <1>2, <1>4, TopChanged DEF Poised
<1> HIDE DEF st, n, c
<1>6. Restacked(r, s, st, r.ret)
    BY <1>3, RestackedIs
<1> QED BY <1>5, <1>6 DEF Restacked, Poised

\* A node is told with its tag and anchor before it returns.
LEMMA BoundPoised ==
    ASSUME NEW r, NEW t, NEW u, NEW v, Poised(r, t, u, v)
    PROVE  Poised(Bound(r), t, u, v) /\ Like(r, Bound(r))
<1> DEFINE a == [r EXCEPT !.anchors = r.anchors \union {Top(r).anchor}]
<1>1. DOMAIN a = DOMAIN r /\ \A g \in DOMAIN r : g # "anchors" => a[g] = r[g]
    OBVIOUS
<1>2. Bound(r) = r \/ Bound(r) = Put(a, "anchor")
    BY DEF Bound
<1> HIDE DEF a
<1>3. a.taken = r.taken
    BY <1>1 DEF Poised
<1>4. Poised(a, t, u, v) /\ Like(r, a)
    BY <1>1, <1>3, StackAlike DEF Like
<1>5. Poised(Put(a, "anchor"), t, u, v) /\ Like(a, Put(a, "anchor"))
    BY <1>4, PutPoised
<1> QED BY <1>2, <1>4, <1>5 DEF Like

LEMMA BuiltPoised ==
    ASSUME NEW r, NEW t, NEW u, NEW v, Poised(r, t, u, v), t # "stream", NEW s, s = Built(r) \/ s = Composed(r)
    PROVE  Returned(r, t, u, v, "node", s)
<1>1. PICK a \in {r, Put(r, "tag"), Put(r, "indentless tag")} : s = Return(Bound(a), "node")
    BY DEF Built, Tagged, Composed, WithTag, Bound, Recorded
<1>2. Poised(a, t, u, v) /\ Like(r, a)
  <2>1. \A x : Poised(Put(r, x), t, u, v) /\ Like(r, Put(r, x))
      BY PutPoised
  <2>2. Like(r, r)
      BY DEF Like
  <2> QED BY <2>1, <2>2
<1>3. Poised(Bound(a), t, u, v) /\ Like(r, Bound(a))
    BY <1>2, BoundPoised DEF Like
<1> DEFINE b == Bound(a)
<1> HIDE DEF b
<1>4. Poised(b, t, u, v) /\ Like(r, b) /\ s = Return(b, "node")
    BY <1>1, <1>3 DEF b
<1>5. Returned(b, t, u, v, "node", s)
    BY <1>4, ReturnPoised
<1> QED BY <1>4, <1>5 DEF Like, Returned
-----------------------------------------------------------------------------
\* A step that leaves fewer looks than m, and the calls nested as they are to be.
Lower(m, s) == Settled(s) /\ Ahead(s, event.tok) < m

LEMMA Prices ==
    /\ Found("collected") = 1 /\ Found("level item") = 3
    /\ \A t \in DocumentPoints : Found(t) = 4
    /\ \A t \in {"value", "bare key", "bare scalar"} : Found(t) = 5
    /\ \A t \in {"key", "item", "first item"} : Found(t) = 7
    /\ \A t \in {"item node", "pair value", "block entry"} : Found(t) = 8
    /\ Found("pair key") = 10
    /\ \A t : Found(t) \in 1 .. 10
BY DEF Found, DocumentPoints

LEMMA PricesMissing ==
    /\ \A u : Missing("implicit", u) = 1
    /\ \A u : \A t \in {"bare key", "bare scalar", "first item"} : Missing(t, u) = 2
    /\ \A u : Missing("item node", u) = IF u = "first item" THEN 3 ELSE 8
    /\ \A u : Missing("level item", u) = 3 /\ Missing("explicit", u) = 4 /\ Missing("value", u) = 5
    /\ \A u : \A t \in {"key", "item"} : Missing(t, u) = 7
    /\ \A u : \A t \in {"pair value", "block entry"} : Missing(t, u) = 8
    /\ \A u : Missing("pair key", u) = 10
    /\ \A t, u : Missing(t, u) \in 1 .. 10
BY DEF Missing, Found

LEMMA PricesStarting ==
    /\ \A u, tok : /\ Starting("indentless", u, tok) = 2 /\ Starting("stream", u, tok) = 3
                   /\ Starting("mapping", u, tok) = 4 /\ Starting("level item", u, tok) = 5
                   /\ Starting("sequence", u, tok) = 6 /\ Starting("block entry", u, tok) = 10
    /\ \A u, tok : Starting("entry", u, tok) = IF u = "first item" /\ ~NothingHere(tok) THEN 5 ELSE 10
    /\ \A t, u, tok : Starting(t, u, tok) \in 1 .. 10
BY DEF Starting

\* The price of the point a step arrives at.
Arrives(s, t, u, v) ==
    IF s.ret = "node" THEN Found(t)
    ELSE IF s.ret = "none" THEN Missing(t, u)
    ELSE IF s.ret = "pending" /\ t = "node" THEN 1 + Missing(u, v)
    ELSE Starting(t, u, event.tok)

LEMMA IsLower ==
    ASSUME NEW s, NEW t, NEW u, NEW v, Poised(s, t, u, v), Bare(s), NEW m \in Nat, m > 0,
           s.taken = TRUE \/ 10 * Filled(s.stack) + Arrives(s, t, u, v) < m,
           t = "node" => Top(s).tag = None /\ Top(s).anchor = None,
           t = "indentless" => s.taken = TRUE \/ m > 1
    PROVE  Lower(m, s)
<1>1. Settled(s)
    BY DEF Settled, Poised
<1>2. CASE s.taken = TRUE
    BY <1>1, <1>2 DEF Lower, Ahead
<1>3. CASE s.taken # TRUE
  <2>1. Price(s, event.tok) = Arrives(s, t, u, v)
    <3>1. ~Owns(s) \/ t # "node"
        BY DEF Owns
    <3>2. At(s, "node") <=> s.ret = "pending" /\ t = "node"
        BY PoisedTop DEF At
    <3> QED BY <3>1, <3>2 DEF Price, Arrives, Poised
  <2>2. At(s, "indentless") => m > 1
      BY <1>3, PoisedTop DEF At
  <2>3. Ahead(s, event.tok) \in {0, 1, 10 * Filled(s.stack) + Price(s, event.tok)}
      BY DEF Ahead
  <2>4. Ahead(s, event.tok) = 1 => m > 1 \/ 10 * Filled(s.stack) + Price(s, event.tok) = 1
      BY <2>2 DEF Ahead
  <2> QED BY <1>1, <1>3, <2>1, <2>3, <2>4 DEF Lower
<1> QED BY <1>2, <1>3

\* A step that takes the event.
LEMMA TakenLower ==
    ASSUME NEW s, NEW t, NEW u, NEW v, Poised(s, t, u, v), Bare(s), NEW m \in Nat, m > 0
    PROVE  Lower(m, Take(s))
<1> DEFINE r == Take(s)
<1>1. Poised(r, t, u, v) /\ r.taken = TRUE /\ Bare(r)
    BY TakePoised
<1> HIDE DEF r
<1>2. Settled(r)
    BY <1>1 DEF Settled, Poised
<1> QED BY <1>1, <1>2 DEF Lower, Ahead, r

LEMMA FailedLower ==
    ASSUME NEW r, {"stack", "ret", "taken", "failed"} \subseteq DOMAIN r, NEW m \in Nat, m > 0
    PROVE  Lower(m, Failed(r)) /\ Chained(Failed(r).stack)
<1> DEFINE s == Failed(r)
<1>1. s.stack = <<>> /\ s.taken = TRUE /\ s.failed = TRUE
    BY DEF Failed
<1> HIDE DEF s
<1>2. DOMAIN s.stack = {}
    BY <1>1
<1> QED BY <1>1, <1>2 DEF Lower, Ahead, Settled, Chained, s

\* The kinds of step.  A call goes on to another point,
LEMMA GoLower ==
    ASSUME NEW r, NEW t, NEW u, NEW v, Poised(r, t, u, v), t \notin {"stream", "collected"}, Bare(r),
           NEW x \in InnerPoints, Fits(u, x), NEW m \in Nat, m > 0,
           r.taken = TRUE \/ 10 * Filled(r.stack) + Starting(x, u, event.tok) < m,
           x = "indentless" => r.taken = TRUE \/ m > 1
    PROVE  Lower(m, Go(r, x))
<1> DEFINE s == Go(r, x)
<1>1. Poised(s, x, u, v) /\ s.ret = "pending" /\ Like(r, s)
    BY GoPoised
<1> HIDE DEF s
<1>2. x # "node"
    BY PointsApart DEF NodePoints
<1>3. Bare(s) /\ s.taken = r.taken /\ Filled(s.stack) = Filled(r.stack)
    BY <1>1 DEF Like
<1>4. Arrives(s, x, u, v) = Starting(x, u, event.tok)
    BY <1>1, <1>2 DEF Arrives
<1>5. s.taken = TRUE \/ 10 * Filled(s.stack) + Arrives(s, x, u, v) < m
    BY <1>3, <1>4
<1>6. x = "indentless" => s.taken = TRUE \/ m > 1
    BY <1>3
<1>7. Lower(m, s)
    BY <1>1, <1>2, <1>3, <1>5, <1>6, IsLower
<1> QED BY <1>7 DEF s

\* calls a node,
Places == {"other", "value", "bare key"}
LEMMA NodeLower ==
    ASSUME NEW r, NEW t, NEW u, NEW v, Poised(r, t, u, v), Bare(r), NEW place \in Places,
           NEW m \in Nat, m > 0, r.taken = TRUE \/ 10 * Filled(r.stack) + 1 + Missing(t, u) < m
    PROVE  Lower(m, CallNode(r, place))
<1>1. CASE Nested(r) = MaxDepth
    BY <1>1, FailedLower DEF CallNode, Poised
<1>2. CASE Nested(r) # MaxDepth
  <2> DEFINE f == Node(place)
             s == Call(r, f)
  <2>1. f \in Calls /\ f.at = "node" /\ f.tag = None /\ f.anchor = None
      BY NodeIs DEF Places, Node, Frame
  <2> HIDE DEF f
  <2>2. Fits(t, f.at)
      BY <2>1 DEF Fits, CollectionPoints, EntryPoints, MappingPoints, SequencePoints
  <2>3. Poised(s, "node", t, u) /\ s.ret = "pending" /\ Like(r, s) /\ Top(s) = f
      BY <2>1, <2>2, CallPoised
  <2> HIDE DEF s
  <2>4. Bare(s) /\ s.taken = r.taken /\ Filled(s.stack) = Filled(r.stack) /\ Filled(r.stack) \in Nat
      BY <2>3, PoisedTop DEF Like
  <2>5. Arrives(s, "node", t, u) = 1 + Missing(t, u)
      BY <2>3 DEF Arrives
  <2>6. Missing(t, u) \in 1 .. 10
      BY PricesMissing
  <2>7. s.taken = TRUE \/ 10 * Filled(s.stack) + Arrives(s, "node", t, u) < m
    <3>1. 10 * Filled(s.stack) + Arrives(s, "node", t, u) = 10 * Filled(r.stack) + 1 + Missing(t, u)
        BY <2>4, <2>5, <2>6
    <3> QED BY <2>4, <3>1
  <2>8. Lower(m, s)
      BY <2>1, <2>3, <2>4, <2>7, IsLower
  <2> QED BY <1>2, <2>8 DEF CallNode, s, f
<1> QED BY <1>1, <1>2

LEMMA GoNodeLower ==
    ASSUME NEW r, NEW t, NEW u, NEW v, Poised(r, t, u, v), t \notin {"stream", "collected"}, Bare(r),
           NEW x \in InnerPoints, Fits(u, x), NEW place \in Places, NEW m \in Nat, m > 0,
           r.taken = TRUE \/ 10 * Filled(r.stack) + 1 + Missing(x, u) < m
    PROVE  Lower(m, CallNode(Go(r, x), place))
<1> DEFINE s == Go(r, x)
<1>1. Poised(s, x, u, v) /\ Like(r, s)
    BY GoPoised
<1> HIDE DEF s
<1>2. Bare(s) /\ s.taken = r.taken /\ Filled(s.stack) = Filled(r.stack)
    BY <1>1 DEF Like
<1>3. s.taken = TRUE \/ 10 * Filled(s.stack) + 1 + Missing(x, u) < m
    BY <1>2
<1>4. Lower(m, CallNode(s, place))
    BY <1>1, <1>2, <1>3, NodeLower
<1> QED BY <1>4 DEF s

\* or an entry,
Entered(r, s, to, x, u) ==
    /\ Poised(s, to, x, u) /\ s.ret = "pending" /\ Bare(s)
    /\ s.taken = r.taken /\ Filled(s.stack) = Filled(r.stack)

LEMMA GoEntryPoised ==
    ASSUME NEW r, NEW t, NEW u, NEW v, Poised(r, t, u, v), t \notin {"stream", "collected"}, Bare(r),
           NEW x \in ItemPoints, Fits(u, x), NEW to \in {"entry", "block entry"}, NEW flow \in BOOLEAN
    PROVE  Entered(r, Call(Go(r, x), Frame(to, flow)), to, x, u)
<1> DEFINE g == Go(r, x)
           f == Frame(to, flow)
           s == Call(g, f)
<1>1. x \in InnerPoints /\ to \in InnerPoints
    BY DEF InnerPoints, ItemPoints, SequencePoints
<1>2. Poised(g, x, u, v) /\ Like(r, g)
    BY <1>1, GoPoised
<1> HIDE DEF g
<1>3. f \in Calls /\ f.at = to /\ f.at # "collected"
    BY <1>1, FrameIs, PointsApart DEF NodePoints
<1> HIDE DEF f
<1>4. Fits(x, to)
    BY DEF Fits, CollectionPoints, EntryPoints, MappingPoints, SequencePoints
<1>5. Poised(s, to, x, u) /\ s.ret = "pending" /\ Like(g, s)
    BY <1>2, <1>3, <1>4, CallPoised
<1> HIDE DEF s
<1>6. Bare(s) /\ s.taken = r.taken /\ Filled(s.stack) = Filled(r.stack)
    BY <1>2, <1>5 DEF Like
<1> QED BY <1>5, <1>6 DEF Entered, s, f, g

LEMMA GoEntryLower ==
    ASSUME NEW r, NEW t, NEW u, NEW v, Poised(r, t, u, v), t \notin {"stream", "collected"}, Bare(r),
           NEW x \in ItemPoints, Fits(u, x), NEW to \in {"entry", "block entry"}, NEW flow \in BOOLEAN, NEW m \in Nat, m > 0,
           r.taken = TRUE \/ 10 * Filled(r.stack) + Starting(to, x, event.tok) < m
    PROVE  Lower(m, Call(Go(r, x), Frame(to, flow)))
<1> DEFINE s == Call(Go(r, x), Frame(to, flow))
<1>0. Entered(r, s, to, x, u)
    BY GoEntryPoised
<1> HIDE DEF s
<1>1. /\ Poised(s, to, x, u) /\ s.ret = "pending" /\ Bare(s)
      /\ s.taken = r.taken /\ Filled(s.stack) = Filled(r.stack)
    BY <1>0 DEF Entered
<1>2. to # "node" /\ to # "indentless"
    OBVIOUS
<1>3. Arrives(s, to, x, u) = Starting(to, x, event.tok)
    BY <1>1, <1>2 DEF Arrives
<1>4. s.taken = TRUE \/ 10 * Filled(s.stack) + Arrives(s, to, x, u) < m
    BY <1>1, <1>3
<1>5. Lower(m, s)
    BY <1>1, <1>2, <1>4, IsLower
<1> QED BY <1>5 DEF s

\* or returns.
LEMMA ReturnedLower ==
    ASSUME NEW r, NEW t, NEW u, NEW v, Poised(r, t, u, v), Bare(r),
           NEW value \in {"node", "none"}, NEW s, Returned(r, t, u, v, value, s), NEW m \in Nat, m > 0,
           LET price == IF value = "node" THEN Found(u) ELSE Missing(u, v)
           IN  \/ r.taken = TRUE
               \/ t # "collected" /\ 10 * Filled(r.stack) + price < m
               \/ t = "collected" /\ 10 * Filled(r.stack) < m
    PROVE  Lower(m, s)
<1> DEFINE price == IF value = "node" THEN Found(u) ELSE Missing(u, v)
           w == Tip(s.stack, 2)
<1>1. Poised(s, u, v, w) /\ s.ret = value /\ Bare(s) /\ s.taken = r.taken
    BY DEF Returned
<1>2. Filled(s.stack) \in Nat /\ Filled(r.stack) \in Nat /\ price \in 1 .. 10
    BY <1>1, PoisedTop, Prices, PricesMissing
<1>3. 10 * Filled(s.stack) + price < m \/ s.taken = TRUE
  <2> HIDE DEF price
  <2>1. CASE t # "collected" /\ 10 * Filled(r.stack) + price < m
      BY <1>2, <2>1 DEF Returned
  <2>2. CASE t = "collected" /\ 10 * Filled(r.stack) < m
    <3>1. Filled(s.stack) + 1 = Filled(r.stack)
        BY <2>2 DEF Returned
    <3> QED BY <1>2, <2>2, <3>1
  <2> QED BY <1>1, <2>1, <2>2 DEF price
<1>4. Arrives(s, u, v, w) = price
    BY <1>1 DEF Arrives
<1> HIDE DEF price, w
<1>5. s.taken = TRUE \/ 10 * Filled(s.stack) + Arrives(s, u, v, w) < m
    BY <1>3, <1>4
<1>6. Settled(s)
    BY <1>1 DEF Settled, Poised
<1>7. Price(s, event.tok) = price
  <2>1. CASE value = "node"
      BY <1>1, <2>1 DEF Price, Poised, price
  <2>2. CASE value = "none"
    <3>1. s.ret = "none" /\ "none" # "node" /\ Tip(s.stack, 0) = u /\ Tip(s.stack, 1) = v
        BY <1>1, <2>2 DEF Poised
    <3>2. Price(s, event.tok) = Missing(u, v)
        BY <3>1 DEF Price
    <3> QED BY <2>2, <3>2 DEF price
  <2> QED BY <2>1, <2>2
<1>8. ~At(s, "indentless")
    BY <1>1 DEF At
<1> QED BY <1>1, <1>3, <1>6, <1>7, <1>8 DEF Lower, Ahead
-----------------------------------------------------------------------------
(***************************************************************************)
(* The steps both readers make alike.                                       *)
(***************************************************************************)
Ready(r) == Shaped(r) /\ Chained(r.stack) /\ Bare(r) /\ r.taken = FALSE

\* r, which still stands on the event, has become a: it is where it was.
Told(r, a, t, u, v) == Poised(a, t, u, v) /\ Bare(a) /\ a.ret = r.ret /\ Filled(a.stack) = Filled(r.stack)

LEMMA Tells ==
    ASSUME NEW r, NEW a, NEW t, NEW u, NEW v, Told(r, a, t, u, v)
    PROVE  /\ \A x : Told(r, Put(a, x), t, u, v)
           /\ Told(r, OrNull(a), t, u, v)
           /\ Told(r, Take(a), t, u, v) /\ Take(a).taken = TRUE
<1>1. Poised(a, t, u, v) /\ Bare(a)
    BY DEF Told
<1>2. \A x : Poised(Put(a, x), t, u, v) /\ Put(a, x).ret = a.ret /\ Like(a, Put(a, x))
    BY <1>1, PutPoised
<1>3. Poised(OrNull(a), t, u, v) /\ OrNull(a).ret = a.ret /\ Like(a, OrNull(a))
    BY <1>1, OrNullPoised
<1>4. /\ Poised(Take(a), t, u, v) /\ Take(a).ret = a.ret /\ Take(a).taken = TRUE /\ Bare(Take(a))
      /\ Filled(Take(a).stack) = Filled(a.stack)
    BY <1>1, TakePoised
<1> QED BY <1>1, <1>2, <1>3, <1>4 DEF Told, Like

Below(r) == Tip(r.stack, 1)
Under(r) == Tip(r.stack, 2)

\* Where a step begins.
LEMMA Standing ==
    ASSUME NEW r, Ready(r)
    PROVE  LET t == Top(r).at
           IN  /\ Told(r, r, t, Below(r), Under(r)) /\ Filled(r.stack) \in Nat /\ Fits(Below(r), t)
               /\ {"stack", "ret", "taken", "failed"} \subseteq DOMAIN r /\ r.ret \in {"pending", "none", "node"}
               /\ t \in DocumentPoints => Below(r) = "stream"
<1>1. r.stack \in Seq(Calls) /\ Len(r.stack) \in Nat /\ DOMAIN r.stack = 1 .. Len(r.stack) /\ IsReader(r)
    BY TopIs DEF Ready, Shaped
<1>2. Poised(r, Tip(r.stack, 0), Below(r), Under(r))
    BY <1>1 DEF Poised, Ready, Below, Under, IsReader, Fields
<1>3. Top(r).at = Tip(r.stack, 0) /\ Filled(r.stack) \in Nat
    BY <1>2, PoisedTop
<1>4. Top(r).at \in DocumentPoints => Below(r) = "stream"
  <2>1. Top(r).at \in DocumentPoints => Len(r.stack) = 1
      BY TopIs DEF Ready
  <2>2. ~(1 < 1)
      OBVIOUS
  <2> QED BY <2>1, <2>2 DEF Below, Tip
<1>5. Fits(Below(r), Top(r).at)
  <2>1. CASE Len(r.stack) > 1
    <3> DEFINE n == Len(r.stack)
    <3>1. n \in 1 .. n /\ n # 1 /\ 1 < n /\ r.stack # <<>>
      <4>1. r.stack # <<>>
          BY <2>1
      <4>2. \A i \in Nat : i > 1 => i \in 1 .. i /\ i # 1 /\ 1 < i
          OBVIOUS
      <4> QED BY <1>1, <2>1, <4>1, <4>2
    <3>2. Fits(r.stack[n - 1].at, r.stack[n].at)
        BY <1>1, <3>1 DEF Ready, Chained
    <3>3. Top(r) = r.stack[n]
        BY <3>1, TopIs DEF Ready
    <3> QED BY <3>1, <3>2, <3>3 DEF Below, Tip
  <2>2. CASE Len(r.stack) <= 1
    <3>1. ~Inside(r)
        BY <1>1, <2>2 DEF Inside
    <3>2. Top(r).at \in DocumentPoints \union {"stream"}
        BY <3>1, TopIs DEF Ready
    <3> QED BY <3>2 DEF Fits, DocumentPoints, CollectionPoints, EntryPoints, MappingPoints, SequencePoints
  <2> QED BY <1>1, <2>1, <2>2
<1> QED BY <1>1, <1>2, <1>3, <1>4, <1>5 DEF Told, Ready, IsReader, Fields

\* How many looks are left where it does.
LEMMA AheadIs ==
    ASSUME NEW r, Ready(r)
    PROVE  LET t == Top(r).at
               m == Ahead(r, event.tok)
               c == 10 * Filled(r.stack)
           IN  /\ m \in Nat /\ m > 0
               /\ r.ret = "node" => m = c + Found(t)
               /\ r.ret = "none" => m = c + Missing(t, Below(r))
               /\ At(r, "node") => m = c + 1 + (IF Owns(r) THEN Found(Below(r)) ELSE Missing(Below(r), Under(r)))
               /\ r.ret = "pending" /\ t # "node" /\ ~(t = "indentless" /\ event.tok = "Entry")
                     => m = c + Starting(t, Below(r), event.tok)
<1> DEFINE t == Top(r).at
           m == Ahead(r, event.tok)
           c == 10 * Filled(r.stack)
           p == Price(r, event.tok)
<1>1. /\ Poised(r, t, Below(r), Under(r)) /\ Filled(r.stack) \in Nat /\ r.ret \in {"pending", "none", "node"}
    BY Standing DEF Told
<1>2. t = Tip(r.stack, 0)
    BY <1>1 DEF Poised
<1>3. r.ret = "node" => p = Found(t)
    BY <1>2 DEF Price
<1>4. r.ret = "none" => p = Missing(t, Below(r))
    BY <1>2 DEF Price, Below
<1>5. At(r, "node") => p = 1 + (IF Owns(r) THEN Found(Below(r)) ELSE Missing(Below(r), Under(r)))
    BY DEF Price, Below, Under, At
<1>6. r.ret = "pending" /\ t # "node" => p = Starting(t, Below(r), event.tok)
    BY <1>2 DEF Price, Below, At
<1>7. p \in Nat /\ p > 0
  <2>1. \A a, b, d : Found(a) \in Nat \ {0} /\ Missing(a, b) \in Nat \ {0} /\ Starting(a, b, d) \in Nat \ {0}
    <3>1. \A a, b, d : Found(a) \in 1 .. 10 /\ Missing(a, b) \in 1 .. 10 /\ Starting(a, b, d) \in 1 .. 10
        BY Prices, PricesMissing, PricesStarting
    <3> QED BY <3>1
  <2>2. \A a, b : Found(a) \in Nat \ {0} /\ Missing(a, b) \in Nat \ {0}
      BY <2>1
  <2>3. At(r, "node") => p \in Nat /\ p > 0
    <3>1. \A n \in Nat \ {0} : 1 + n \in Nat /\ 1 + n > 0
        OBVIOUS
    <3> QED BY <1>5, <2>2, <3>1
  <2>4. \A n \in Nat \ {0} : n \in Nat /\ n > 0
      OBVIOUS
  <2>5. At(r, "node") <=> r.ret = "pending" /\ t = "node"
      BY DEF At
  <2> HIDE DEF p, t
  <2> QED BY <1>1, <1>3, <1>4, <1>6, <2>1, <2>3, <2>4, <2>5
<1>8. m = IF At(r, "indentless") /\ event.tok = "Entry" THEN 1 ELSE c + p
    BY DEF Ahead, Ready
<1>9. c \in Nat
    BY <1>1
<1> HIDE DEF p, c, m
<1>10. m \in Nat /\ m > 0
    BY <1>7, <1>8, <1>9
<1>11. r.ret # "pending" \/ t # "indentless" \/ event.tok # "Entry" => m = c + p
    BY <1>8 DEF At
<1>12. At(r, "node") => m = c + p
    BY <1>11 DEF At
<1>13. At(r, "node") => m = c + 1 + (IF Owns(r) THEN Found(Below(r)) ELSE Missing(Below(r), Under(r)))
  <2> SUFFICES ASSUME At(r, "node")
               PROVE  m = c + 1 + (IF Owns(r) THEN Found(Below(r)) ELSE Missing(Below(r), Under(r)))
      OBVIOUS
  <2> DEFINE q == IF Owns(r) THEN Found(Below(r)) ELSE Missing(Below(r), Under(r))
  <2>1. q \in 1 .. 10
      BY Prices, PricesMissing
  <2>2. m = c + p /\ p = 1 + q
      BY <1>5, <1>12
  <2> HIDE DEF q
  <2>3. m = c + 1 + q
      BY <1>9, <2>1, <2>2
  <2> QED BY <2>3 DEF q
<1> QED BY <1>3, <1>4, <1>6, <1>10, <1>11, <1>13 DEF m, c
-----------------------------------------------------------------------------
LEMMA InnerAre ==
    \A x \in {"mapping", "key", "bare key", "bare scalar", "value", "sequence", "item", "first item", "indentless", "level item"} :
        x \in InnerPoints /\ Fits("collected", x) /\ x \notin {"stream", "collected"}
BY DEF InnerPoints, MappingPoints, SequencePoints, Fits, EntryPoints

\* A collection is read in the call of its node.
LEMMA InNode ==
    ASSUME NEW r, Ready(r), Top(r).at \in CollectionPoints
    PROVE  /\ Below(r) = "collected" /\ Told(r, r, Top(r).at, "collected", Under(r)) /\ Filled(r.stack) \in Nat
           /\ Top(r).at \notin {"stream", "collected"}
<1>1. Below(r) = "collected"
    BY Standing DEF Fits
<1>2. Told(r, r, Top(r).at, Below(r), Under(r)) /\ Filled(r.stack) \in Nat
    BY Standing
<1> QED BY <1>1, <1>2 DEF Fits, CollectionPoints, MappingPoints, SequencePoints

\* An entry is read in a sequence.
LEMMA InItem ==
    ASSUME NEW r, Ready(r), Top(r).at \in EntryPoints
    PROVE  /\ Below(r) \in ItemPoints /\ Told(r, r, Top(r).at, Below(r), Under(r)) /\ Filled(r.stack) \in Nat
           /\ \A x \in EntryPoints : x \in InnerPoints /\ Fits(Below(r), x)
           /\ Found(Below(r)) \in 1 .. 7 /\ Missing(Below(r), Under(r)) \in 1 .. 7
           /\ Top(r).at \notin {"stream", "collected"}
<1>1. Below(r) \in ItemPoints
    BY Standing DEF Fits
<1>2. Told(r, r, Top(r).at, Below(r), Under(r)) /\ Filled(r.stack) \in Nat
    BY Standing
<1>3. \A x \in EntryPoints : x \in InnerPoints /\ x \notin CollectionPoints
    BY DEF EntryPoints, InnerPoints, CollectionPoints, MappingPoints, SequencePoints
<1>4. Found(Below(r)) \in 1 .. 7 /\ Missing(Below(r), Under(r)) \in 1 .. 7
  <2>1. /\ Found(Below(r)) \in {3, 7}
        /\ Missing(Below(r), Under(r)) \in {2, 3, 7}
      BY <1>1, Prices, PricesMissing DEF ItemPoints
  <2> QED BY <2>1
<1>5. Top(r).at \notin {"stream", "collected"}
    BY DEF EntryPoints
<1> QED BY <1>1, <1>2, <1>3, <1>4, <1>5 DEF Fits

\* A call that has taken the event goes on and calls a node.
LEMMA TakenNodeLower ==
    ASSUME NEW r, Ready(r), NEW a, NEW t, NEW u, NEW v, Told(r, a, t, u, v), a.taken = TRUE,
           t \notin {"stream", "collected"}, NEW x \in InnerPoints, Fits(u, x), NEW place \in Places
    PROVE  Lower(Ahead(r, event.tok), CallNode(Go(a, x), place))
<1> DEFINE m == Ahead(r, event.tok)
<1>1. m \in Nat /\ m > 0
    BY AheadIs
<1> HIDE DEF m
<1>2. Poised(a, t, u, v) /\ Bare(a)
    BY DEF Told
<1>3. Lower(m, CallNode(Go(a, x), place))
    BY <1>1, <1>2, GoNodeLower
<1> QED BY <1>3 DEF m

\* The end of a collection.
LEMMA EndLower ==
    ASSUME NEW r, Ready(r), NEW t \in {"mapping", "sequence", "indentless"}, At(r, t),
           t = "indentless" => event.tok # "Entry", NEW x, NEW s, s = Return(Put(r, x), "node"), NEW q \in {s, Take(s)}
    PROVE  Lower(Ahead(r, event.tok), q)
<1> DEFINE m == Ahead(r, event.tok)
           c == Filled(r.stack)
           p == Put(r, x)
           v == Under(r)
<1>1. Told(r, r, t, "collected", v) /\ c \in Nat
    BY InNode DEF At, CollectionPoints, MappingPoints, SequencePoints
<1>2. m \in Nat /\ m > 0 /\ m = 10 * c + Starting(t, Below(r), event.tok)
    BY AheadIs DEF At
<1>3. Starting(t, Below(r), event.tok) \in {2, 4, 6}
    BY PricesStarting
<1>4. Told(r, p, t, "collected", v)
    BY <1>1, Tells
<1> HIDE DEF m, c, p
<1>5. Poised(p, t, "collected", v) /\ Bare(p) /\ Filled(p.stack) = c
    BY <1>4 DEF Told, c
<1>6. Returned(p, t, "collected", v, "node", s)
    BY <1>5, ReturnPoised DEF p
<1>7. t # "collected" /\ 10 * Filled(p.stack) + Found("collected") < m
  <2>1. Found("collected") = 1
      BY Prices
  <2>2. 10 * c + 1 < m
      BY <1>1, <1>2, <1>3
  <2> QED BY <1>5, <2>1, <2>2
<1>8. Lower(m, s)
    BY <1>2, <1>5, <1>6, <1>7, ReturnedLower
<1>9. Lower(m, Take(s))
  <2>1. Poised(s, "collected", v, Tip(s.stack, 2)) /\ Bare(s)
      BY <1>5, <1>6 DEF Returned
  <2> QED BY <1>2, <2>1, TakenLower
<1> QED BY <1>8, <1>9 DEF m

\* A mapping: a comma, a Key, and a pair without one.
LEMMA PairLower ==
    ASSUME NEW r, Ready(r), NEW t \in {"mapping"}, At(r, t)
    PROVE  /\ Lower(Ahead(r, event.tok), Take(r))
           /\ Lower(Ahead(r, event.tok), CallNode(Go(Take(r), "key"), "other"))
           /\ \A x \in {"bare scalar", "bare key"}, place \in Places : Lower(Ahead(r, event.tok), CallNode(Go(r, x), place))
<1> DEFINE m == Ahead(r, event.tok)
           c == Filled(r.stack)
           v == Under(r)
           q == Take(r)
<1>1. Told(r, r, t, "collected", v) /\ c \in Nat
    BY InNode DEF At, CollectionPoints, MappingPoints
<1>2. "key" \in InnerPoints /\ Fits("collected", "key")
    BY InnerAre
<1>3. "other" \in Places
    BY DEF Places
<1>4. m \in Nat /\ m > 0 /\ m = 10 * c + Starting(t, Below(r), event.tok)
    BY AheadIs DEF At
<1>5. 10 * c + 1 + 2 < m
  <2>1. Starting(t, Below(r), event.tok) = 4
      BY PricesStarting
  <2> HIDE DEF m, c
  <2> QED BY <1>1, <1>4, <2>1
<1>6. Poised(r, t, "collected", v) /\ Bare(r)
    BY <1>1 DEF Told
<1>7. Lower(m, q)
    BY <1>4, <1>6, TakenLower
<1>8. Told(r, q, t, "collected", v) /\ q.taken = TRUE
    BY <1>1, Tells
<1> HIDE DEF q, m, c
<1>9. Lower(m, CallNode(Go(q, "key"), "other"))
    BY <1>1, <1>2, <1>3, <1>8, TakenNodeLower DEF m
<1>10. ASSUME NEW x \in {"bare scalar", "bare key"}, NEW place \in Places PROVE Lower(m, CallNode(Go(r, x), place))
  <2>1. x \in InnerPoints /\ Fits("collected", x)
      BY InnerAre
  <2>2. Missing(x, "collected") = 2
      BY PricesMissing
  <2>3. 10 * Filled(r.stack) + 1 + Missing(x, "collected") < m
      BY <1>5, <2>2 DEF c
  <2> QED BY <1>4, <1>6, <2>1, <2>3, GoNodeLower
<1> QED BY <1>7, <1>9, <1>10 DEF m, q

\* After a key, with or without the ':' of its value, and after the value.
LEMMA KeyDoneLower ==
    ASSUME NEW r, Ready(r), NEW t \in {"key"}, Back(r, t), NEW o, o = OrNull(r), NEW a \in {o, Take(o)}
    PROVE  Lower(Ahead(r, event.tok), CallNode(Go(a, "value"), "value"))
<1> DEFINE m == Ahead(r, event.tok)
           c == Filled(r.stack)
           v == Under(r)
<1>1. Told(r, r, t, "collected", v) /\ c \in Nat
    BY InNode DEF Back, CollectionPoints, MappingPoints
<1>2. "value" \in InnerPoints /\ Fits("collected", "value") /\ "value" \in Places
    BY InnerAre DEF Places
<1>3. m \in Nat /\ m > 0 /\ m = 10 * c + 7
  <2>1. Found(t) = 7 /\ Missing(t, Below(r)) = 7
      BY Prices, PricesMissing
  <2>2. r.ret \in {"none", "node"}
      BY Standing DEF Back
  <2> QED BY <2>1, <2>2, AheadIs DEF Back
<1>4. Told(r, o, t, "collected", v)
    BY <1>1, Tells
<1>5. Told(r, a, t, "collected", v)
    BY <1>4, Tells
<1>6. Poised(a, t, "collected", v) /\ Bare(a) /\ Filled(a.stack) = c
    BY <1>5 DEF Told
<1> HIDE DEF m, c
<1>7. 10 * Filled(a.stack) + 1 + Missing("value", "collected") < m
  <2>1. Missing("value", "collected") = 5
      BY PricesMissing
  <2> QED BY <1>1, <1>3, <1>6, <2>1
<1>8. Lower(m, CallNode(Go(a, "value"), "value"))
    BY <1>2, <1>3, <1>6, <1>7, GoNodeLower
<1> QED BY <1>8 DEF m

LEMMA ValueDoneLower ==
    ASSUME NEW r, Ready(r), NEW t \in {"value"}, Back(r, t)
    PROVE  Lower(Ahead(r, event.tok), Go(OrNull(r), "mapping"))
<1> DEFINE m == Ahead(r, event.tok)
           c == Filled(r.stack)
           v == Under(r)
           o == OrNull(r)
<1>1. Told(r, r, t, "collected", v) /\ c \in Nat
    BY InNode DEF Back, CollectionPoints, MappingPoints
<1>2. "mapping" \in InnerPoints /\ Fits("collected", "mapping")
    BY InnerAre
<1>3. m \in Nat /\ m > 0 /\ m = 10 * c + 5
  <2>1. Found(t) = 5 /\ Missing(t, Below(r)) = 5
      BY Prices, PricesMissing
  <2>2. r.ret \in {"none", "node"}
      BY Standing DEF Back
  <2> QED BY <2>1, <2>2, AheadIs DEF Back
<1>4. Told(r, o, t, "collected", v)
    BY <1>1, Tells
<1> HIDE DEF o
<1>5. Poised(o, t, "collected", v) /\ Bare(o) /\ Filled(o.stack) = c
    BY <1>4 DEF Told
<1> HIDE DEF m, c
<1>6. 10 * Filled(o.stack) + Starting("mapping", "collected", event.tok) < m
  <2>1. Starting("mapping", "collected", event.tok) = 4
      BY PricesStarting
  <2> QED BY <1>1, <1>3, <1>5, <2>1
<1>7. Lower(m, Go(o, "mapping"))
    BY <1>2, <1>3, <1>5, <1>6, GoLower
<1> QED BY <1>7 DEF m, o

\* After a key without a Key: a ':', nothing at all, or no value.
BarePoints == {"bare scalar", "bare key"}
LEMMA BareKeyDoneLower ==
    ASSUME NEW r, Ready(r), NEW t \in BarePoints, Back(r, t), NEW o, o = OrNull(r), NEW n, n = Put(o, "null")
    PROVE  /\ Lower(Ahead(r, event.tok), CallNode(Go(Take(o), "value"), "value"))
           /\ r.ret = "none" => Lower(Ahead(r, event.tok), Return(Put(n, "end"), "node"))
           /\ r.ret # "none" => Lower(Ahead(r, event.tok), Go(n, "mapping"))
<1> DEFINE m == Ahead(r, event.tok)
           c == Filled(r.stack)
           v == Under(r)
           k == Take(o)
           e == Put(n, "end")
           s == Return(e, "node")
<1>1. Told(r, r, t, "collected", v) /\ c \in Nat
    BY InNode DEF Back, BarePoints, CollectionPoints, MappingPoints
<1>2. \A x \in {"mapping", "value"} : x \in InnerPoints /\ Fits("collected", x)
    BY InnerAre
<1>3. m \in Nat /\ m > 0 /\ (r.ret = "none" => m = 10 * c + 2) /\ (r.ret # "none" => m = 10 * c + 5)
  <2>1. Found(t) = 5 /\ Missing(t, Below(r)) = 2
      BY Prices, PricesMissing DEF BarePoints
  <2>2. r.ret \in {"none", "node"}
      BY Standing DEF Back
  <2> QED BY <2>1, <2>2, AheadIs DEF Back
<1>4. Told(r, o, t, "collected", v)
    BY <1>1, Tells
<1>5. Told(r, k, t, "collected", v) /\ k.taken = TRUE /\ Told(r, n, t, "collected", v)
    BY <1>4, Tells
<1>6. Told(r, e, t, "collected", v)
    BY <1>5, Tells
<1> HIDE DEF m, c, k, e, s
<1>7. Lower(m, CallNode(Go(k, "value"), "value"))
    BY <1>2, <1>5, TakenNodeLower DEF m, Places, BarePoints
<1>8. Poised(n, t, "collected", v) /\ Bare(n) /\ Filled(n.stack) = c
    BY <1>5 DEF Told, c
<1>9. Poised(e, t, "collected", v) /\ Bare(e) /\ Filled(e.stack) = c
    BY <1>6 DEF Told, c
<1>10. ASSUME r.ret = "none" PROVE Lower(m, s)
  <2>1. 10 * Filled(e.stack) + Found("collected") < m
    <3>1. Found("collected") = 1
        BY Prices
    <3> QED BY <1>1, <1>3, <1>9, <1>10, <3>1
  <2>2. t # "collected" /\ t # "stream"
      BY DEF BarePoints
  <2>3. Returned(e, t, "collected", v, "node", s)
      BY <1>9, <2>2, ReturnPoised DEF s
  <2> QED BY <1>3, <1>9, <2>1, <2>2, <2>3, ReturnedLower
<1>11. ASSUME r.ret # "none" PROVE Lower(m, Go(n, "mapping"))
  <2>1. 10 * Filled(n.stack) + Starting("mapping", "collected", event.tok) < m
    <3>1. Starting("mapping", "collected", event.tok) = 4
        BY PricesStarting
    <3> QED BY <1>1, <1>3, <1>8, <1>11, <3>1
  <2> QED BY <1>2, <1>3, <1>8, <2>1, GoLower DEF BarePoints
<1> QED BY <1>7, <1>10, <1>11 DEF m, k, e, s
-----------------------------------------------------------------------------
\* A call that has told something goes on, calls a node or returns.
LEMMA GoneLower ==
    ASSUME NEW r, Ready(r), NEW a, NEW t, NEW u, NEW v, Told(r, a, t, u, v), t \notin {"stream", "collected"},
           NEW x \in InnerPoints, Fits(u, x),
           10 * Filled(r.stack) + Starting(x, u, event.tok) < Ahead(r, event.tok),
           x = "indentless" => Ahead(r, event.tok) > 1
    PROVE  Lower(Ahead(r, event.tok), Go(a, x))
<1> DEFINE m == Ahead(r, event.tok)
<1>1. m \in Nat /\ m > 0
    BY AheadIs
<1>2. Poised(a, t, u, v) /\ Bare(a) /\ Filled(a.stack) = Filled(r.stack)
    BY DEF Told
<1>3. 10 * Filled(a.stack) + Starting(x, u, event.tok) < m /\ (x = "indentless" => m > 1)
    BY <1>2
<1> HIDE DEF m
<1>4. Lower(m, Go(a, x))
    BY <1>1, <1>2, <1>3, GoLower
<1> QED BY <1>4 DEF m

LEMMA GoneNodeLower ==
    ASSUME NEW r, Ready(r), NEW a, NEW t, NEW u, NEW v, Told(r, a, t, u, v), t \notin {"stream", "collected"},
           NEW x \in InnerPoints, Fits(u, x), NEW place \in Places,
           10 * Filled(r.stack) + 1 + Missing(x, u) < Ahead(r, event.tok)
    PROVE  Lower(Ahead(r, event.tok), CallNode(Go(a, x), place))
<1> DEFINE m == Ahead(r, event.tok)
<1>1. m \in Nat /\ m > 0
    BY AheadIs
<1>2. Poised(a, t, u, v) /\ Bare(a) /\ Filled(a.stack) = Filled(r.stack)
    BY DEF Told
<1>3. 10 * Filled(a.stack) + 1 + Missing(x, u) < m
    BY <1>2
<1> HIDE DEF m
<1>4. Lower(m, CallNode(Go(a, x), place))
    BY <1>1, <1>2, <1>3, GoNodeLower
<1> QED BY <1>4 DEF m

LEMMA GivenBackLower ==
    ASSUME NEW r, Ready(r), NEW a, NEW t, NEW u, NEW v, Told(r, a, t, u, v), t \notin {"stream", "collected"},
           NEW s, NEW value, s = Return(a, value),
           \/ value = "node" /\ 10 * Filled(r.stack) + Found(u) < Ahead(r, event.tok)
           \/ value = "none" /\ 10 * Filled(r.stack) + Missing(u, v) < Ahead(r, event.tok)
    PROVE  Lower(Ahead(r, event.tok), s)
<1> DEFINE m == Ahead(r, event.tok)
<1>1. m \in Nat /\ m > 0
    BY AheadIs
<1>2. Poised(a, t, u, v) /\ Bare(a) /\ Filled(a.stack) = Filled(r.stack)
    BY DEF Told
<1>3. Returned(a, t, u, v, value, s)
    BY <1>2, ReturnPoised
<1>4. \/ value = "node" /\ 10 * Filled(a.stack) + Found(u) < m
      \/ value = "none" /\ 10 * Filled(a.stack) + Missing(u, v) < m
    BY <1>2
<1> HIDE DEF m
<1>5. Lower(m, s)
    BY <1>1, <1>2, <1>3, <1>4, ReturnedLower
<1> QED BY <1>5 DEF m

\* The sequence: the next entry, with its mark or without,
LEMMA EntryLower ==
    ASSUME NEW r, Ready(r), NEW t \in {"sequence"}, At(r, t), NEW flow \in BOOLEAN
    PROVE  /\ \A to \in {"entry", "block entry"} : Lower(Ahead(r, event.tok), Call(Go(Take(r), "item"), Frame(to, flow)))
           /\ Lower(Ahead(r, event.tok), Take(Call(Go(r, "item"), Frame("entry", flow))))
           /\ ~NothingHere(event.tok) => Lower(Ahead(r, event.tok), Call(Go(r, "first item"), Frame("entry", flow)))
<1> DEFINE m == Ahead(r, event.tok)
           c == Filled(r.stack)
           v == Under(r)
           q == Take(r)
<1>1. Told(r, r, t, "collected", v) /\ c \in Nat
    BY InNode DEF At, CollectionPoints, SequencePoints
<1>2. "item" \in ItemPoints /\ "first item" \in ItemPoints /\ Fits("collected", "item") /\ Fits("collected", "first item")
    BY InnerAre DEF ItemPoints
<1>3. m \in Nat /\ m > 0 /\ m = 10 * c + 6
  <2>1. Starting(t, Below(r), event.tok) = 6
      BY PricesStarting
  <2> QED BY <2>1, AheadIs DEF At
<1>4. Told(r, q, t, "collected", v) /\ q.taken = TRUE
    BY <1>1, Tells
<1>5. Poised(r, t, "collected", v) /\ Bare(r) /\ Poised(q, t, "collected", v) /\ Bare(q)
    BY <1>1, <1>4 DEF Told
<1> HIDE DEF q
<1>6. ASSUME NEW to \in {"entry", "block entry"} PROVE Lower(m, Call(Go(q, "item"), Frame(to, flow)))
  <2> HIDE DEF m, c
  <2> QED BY <1>2, <1>3, <1>4, <1>5, GoEntryLower
<1>7. Lower(m, Take(Call(Go(r, "item"), Frame("entry", flow))))
  <2> DEFINE s == Call(Go(r, "item"), Frame("entry", flow))
  <2> HIDE DEF m, c
  <2>1. Entered(r, s, "entry", "item", "collected")
      BY <1>2, <1>5, GoEntryPoised
  <2>2. Poised(s, "entry", "item", "collected") /\ Bare(s)
      BY <2>1 DEF Entered
  <2> HIDE DEF s
  <2>3. Lower(m, Take(s))
      BY <1>3, <2>2, TakenLower
  <2> QED BY <2>3 DEF s
<1>8. ASSUME ~NothingHere(event.tok) PROVE Lower(m, Call(Go(r, "first item"), Frame("entry", flow)))
  <2>1. Starting("entry", "first item", event.tok) = 5
      BY <1>8, PricesStarting
  <2>2. \A p : p = 5 => 10 * c + p < m
    <3>1. c \in Nat /\ m = 10 * c + 6
        BY <1>1, <1>3
    <3> HIDE DEF m, c
    <3> QED BY <3>1
  <2>3. 10 * Filled(r.stack) + Starting("entry", "first item", event.tok) < m
      BY <2>1, <2>2
  <2> HIDE DEF m, c
  <2> QED BY <1>2, <1>3, <1>5, <2>3, GoEntryLower
<1> QED BY <1>6, <1>7, <1>8 DEF m, q

\* and what follows it.
ItemMarks == {"item", "first item"}
LEMMA EntryDoneLower ==
    ASSUME NEW r, Ready(r), NEW t \in ItemMarks, Back(r, t)
    PROVE  /\ r.ret = "none" /\ t = "first item" => Lower(Ahead(r, event.tok), Return(Put(r, "end"), "node"))
           /\ ~(r.ret = "none" /\ t = "first item") => Lower(Ahead(r, event.tok), Go(r, "sequence"))
<1> DEFINE m == Ahead(r, event.tok)
           c == Filled(r.stack)
           v == Under(r)
<1>1. Told(r, r, t, "collected", v) /\ c \in Nat /\ t \notin {"stream", "collected"}
    BY InNode DEF Back, ItemMarks, CollectionPoints, SequencePoints
<1>2. "sequence" \in InnerPoints /\ Fits("collected", "sequence") /\ "sequence" # "indentless"
    BY InnerAre
<1>3. /\ m \in Nat /\ m > 0
      /\ r.ret = "none" /\ t = "first item" => m = 10 * c + 2
      /\ ~(r.ret = "none" /\ t = "first item") => m = 10 * c + 7
  <2>1. Found(t) = 7 /\ Missing(t, Below(r)) = IF t = "first item" THEN 2 ELSE 7
      BY Prices, PricesMissing DEF ItemMarks
  <2>2. r.ret \in {"none", "node"}
      BY Standing DEF Back
  <2> QED BY <2>1, <2>2, AheadIs DEF Back
<1>4. Told(r, Put(r, "end"), t, "collected", v)
    BY <1>1, Tells
<1>5. ASSUME r.ret = "none", t = "first item" PROVE Lower(m, Return(Put(r, "end"), "node"))
  <2>1. 10 * c + Found("collected") < m
    <3>1. Found("collected") = 1
        BY Prices
    <3>2. c \in Nat /\ m = 10 * c + 2
        BY <1>1, <1>3, <1>5
    <3>3. \A p : p = 1 => 10 * c + p < m
      <4> HIDE DEF m, c
      <4> QED BY <3>2
    <3> QED BY <3>1, <3>3
  <2> QED BY <1>1, <1>4, <2>1, GivenBackLower
<1>6. ASSUME ~(r.ret = "none" /\ t = "first item") PROVE Lower(m, Go(r, "sequence"))
  <2>1. 10 * c + Starting("sequence", "collected", event.tok) < m
    <3>1. Starting("sequence", "collected", event.tok) = 6
        BY PricesStarting
    <3>2. c \in Nat /\ m = 10 * c + 7
        BY <1>1, <1>3, <1>6
    <3>3. \A p : p = 6 => 10 * c + p < m
      <4> HIDE DEF m, c
      <4> QED BY <3>2
    <3> QED BY <3>1, <3>3
  <2> QED BY <1>1, <1>2, <2>1, GoneLower
<1> QED BY <1>5, <1>6
-----------------------------------------------------------------------------
\* The sums of the prices below.
LEMMA Sums ==
    \A c \in Nat : \A m :
        /\ m = 10 * c + 10 => 10 * c + 1 + 8 < m /\ 10 * c + 1 + 3 < m /\ \A q \in 1 .. 7 : 10 * c + q < m
        /\ m = 10 * c + 8 => \A q \in 1 .. 7 : 10 * c + q < m
        /\ m = 10 * c + 5 => 10 * c + 1 + 3 < m /\ 10 * c + 2 < m /\ 1 < m
        /\ m = 10 * c + 3 => 10 * c + 2 < m /\ 1 < m
        /\ m = 10 * c + 1 => 10 * c < m
OBVIOUS

\* The entry of a sequence: nothing, a pair of a flow sequence, or a node,
LEMMA ItemLower ==
    ASSUME NEW r, Ready(r), NEW t \in {"entry"}, At(r, t)
    PROVE  /\ NothingHere(event.tok) => Lower(Ahead(r, event.tok), Return(Put(r, "null"), "node"))
           /\ Lower(Ahead(r, event.tok), CallNode(Go(Take(r), "pair key"), "other"))
           /\ Lower(Ahead(r, event.tok), CallNode(Go(Take(Put(Put(r, "null"), "pair")), "pair value"), "other"))
           /\ Lower(Ahead(r, event.tok), CallNode(Go(r, "item node"), "other"))
<1> DEFINE m == Ahead(r, event.tok)
           c == Filled(r.stack)
           u == Below(r)
           v == Under(r)
           n == Put(r, "null")
           p == Put(n, "pair")
<1>1. /\ Told(r, r, t, u, v) /\ u \in ItemPoints
      /\ \A x \in EntryPoints : x \in InnerPoints /\ Fits(u, x)
    BY InItem DEF At, EntryPoints
<1>2. c \in Nat /\ Found(u) \in 1 .. 7
    BY InItem DEF At, EntryPoints
<1>3. \A x \in {"pair key", "pair value", "item node"} : x \in InnerPoints /\ Fits(u, x)
    BY <1>1 DEF EntryPoints
<1>4. m = 10 * c + (IF u = "first item" /\ ~NothingHere(event.tok) THEN 5 ELSE 10)
  <2>1. Starting(t, u, event.tok) = IF u = "first item" /\ ~NothingHere(event.tok) THEN 5 ELSE 10
      BY PricesStarting
  <2> QED BY <2>1, AheadIs DEF At
<1>5. Told(r, n, t, u, v)
    BY <1>1, Tells
<1>6. Told(r, p, t, u, v)
    BY <1>5, Tells
<1>7. Told(r, Take(r), t, u, v) /\ Take(r).taken = TRUE /\ Told(r, Take(p), t, u, v) /\ Take(p).taken = TRUE
    BY <1>1, <1>6, Tells
<1>8. t \notin {"stream", "collected"} /\ "other" \in Places
    BY DEF Places
<1>9. ASSUME NothingHere(event.tok) PROVE Lower(m, Return(n, "node"))
  <2>1. m = 10 * c + 10
      BY <1>4, <1>9
  <2>2. \A q \in 1 .. 7 : 10 * c + q < m
    <3> HIDE DEF m, c
    <3> QED BY <1>2, <2>1, Sums, Zenon
  <2>3. 10 * c + Found(u) < m
      BY <1>2, <2>2
  <2> QED BY <1>5, <1>8, <2>3, GivenBackLower
<1>10. Lower(m, CallNode(Go(Take(r), "pair key"), "other"))
    BY <1>3, <1>7, <1>8, TakenNodeLower
<1>11. Lower(m, CallNode(Go(Take(p), "pair value"), "other"))
    BY <1>3, <1>7, <1>8, TakenNodeLower
<1>12. Lower(m, CallNode(Go(r, "item node"), "other"))
  <2>1. 10 * c + 1 + Missing("item node", u) < m
    <3>1. Missing("item node", u) = IF u = "first item" THEN 3 ELSE 8
        BY PricesMissing
    <3>2. CASE u = "first item" /\ ~NothingHere(event.tok)
      <4>1. m = 10 * c + 5
          BY <1>4, <3>2
      <4>2. 10 * c + 1 + 3 < m
        <5> HIDE DEF m, c
        <5> QED BY <1>2, <4>1, Sums, Zenon
      <4> QED BY <3>1, <3>2, <4>2
    <3>3. CASE ~(u = "first item" /\ ~NothingHere(event.tok))
      <4>1. m = 10 * c + 10
          BY <1>4, <3>3
      <4>2. 10 * c + 1 + 3 < m /\ 10 * c + 1 + 8 < m
        <5> HIDE DEF m, c
        <5> QED BY <1>2, <4>1, Sums, Zenon
      <4> QED BY <3>1, <4>2
    <3> QED BY <3>2, <3>3
  <2> QED BY <1>1, <1>3, <1>8, <2>1, GoneNodeLower
<1> QED BY <1>9, <1>10, <1>11, <1>12

\* what follows the node,
LEMMA ItemDoneLower ==
    ASSUME NEW r, Ready(r), NEW t \in {"item node"}, Back(r, t)
    PROVE  /\ Lower(Ahead(r, event.tok), CallNode(Go(Take(Put(r, "pair")), "pair value"), "other"))
           /\ Lower(Ahead(r, event.tok), Return(r, r.ret))
<1> DEFINE m == Ahead(r, event.tok)
           c == Filled(r.stack)
           u == Below(r)
           v == Under(r)
           p == Put(r, "pair")
<1>1. /\ Told(r, r, t, u, v) /\ u \in ItemPoints
      /\ \A x \in EntryPoints : x \in InnerPoints /\ Fits(u, x)
    BY InItem DEF Back, EntryPoints
<1>2. c \in Nat /\ Found(u) \in 1 .. 7 /\ Missing(u, v) \in 1 .. 7
    BY InItem DEF Back, EntryPoints
<1>3. "pair value" \in InnerPoints /\ Fits(u, "pair value") /\ "other" \in Places
    BY <1>1 DEF EntryPoints, Places
<1>4. t \notin {"stream", "collected"} /\ r.ret \in {"none", "node"}
    BY Standing DEF Back
<1>5. /\ r.ret = "node" => m = 10 * c + 8
      /\ r.ret = "none" => m = 10 * c + (IF u = "first item" THEN 3 ELSE 8)
  <2>1. Found(t) = 8 /\ Missing(t, u) = IF u = "first item" THEN 3 ELSE 8
      BY Prices, PricesMissing
  <2> QED BY <2>1, AheadIs DEF Back
<1>6. Told(r, p, t, u, v)
    BY <1>1, Tells
<1>7. Told(r, Take(p), t, u, v) /\ Take(p).taken = TRUE
    BY <1>6, Tells
<1>8. Lower(m, CallNode(Go(Take(p), "pair value"), "other"))
    BY <1>3, <1>4, <1>7, TakenNodeLower
<1>9. CASE r.ret = "node"
  <2>1. m = 10 * c + 8
      BY <1>5, <1>9
  <2>2. \A q \in 1 .. 7 : 10 * c + q < m
    <3> HIDE DEF m, c
    <3> QED BY <1>2, <2>1, Sums, Zenon
  <2>3. 10 * c + Found(u) < m
      BY <1>2, <2>2
  <2>4. Lower(m, Return(r, r.ret))
      BY <1>1, <1>4, <1>9, <2>3, GivenBackLower
  <2> QED BY <1>8, <2>4
<1>10. CASE r.ret = "none"
  <2>1. 10 * c + Missing(u, v) < m
    <3>1. CASE u = "first item"
      <4>1. Missing(u, v) = 2
          BY <3>1, PricesMissing
      <4>2. m = 10 * c + 3
          BY <1>5, <1>10, <3>1
      <4>3. 10 * c + 2 < m
        <5> HIDE DEF m, c
        <5> QED BY <1>2, <4>2, Sums, Zenon
      <4> QED BY <4>1, <4>3
    <3>2. CASE u # "first item"
      <4>1. m = 10 * c + 8
          BY <1>5, <1>10, <3>2
      <4>2. \A q \in 1 .. 7 : 10 * c + q < m
        <5> HIDE DEF m, c
        <5> QED BY <1>2, <4>1, Sums, Zenon
      <4> QED BY <1>2, <4>2
    <3> QED BY <3>1, <3>2
  <2>2. Lower(m, Return(r, r.ret))
      BY <1>1, <1>4, <1>10, <2>1, GivenBackLower
  <2> QED BY <1>8, <2>2
<1> QED BY <1>4, <1>9, <1>10

\* and the two halves of a pair.
LEMMA PairKeyDoneLower ==
    ASSUME NEW r, Ready(r), NEW t \in {"pair key"}, Back(r, t), NEW o, o = Put(OrNull(r), "pair"), NEW a \in {o, Take(o)}
    PROVE  Lower(Ahead(r, event.tok), CallNode(Go(a, "pair value"), "other"))
<1> DEFINE m == Ahead(r, event.tok)
           c == Filled(r.stack)
           u == Below(r)
           v == Under(r)
<1>1. /\ Told(r, r, t, u, v) /\ u \in ItemPoints /\ c \in Nat
      /\ \A x \in EntryPoints : x \in InnerPoints /\ Fits(u, x)
    BY InItem DEF Back, EntryPoints
<1>2. "pair value" \in InnerPoints /\ Fits(u, "pair value") /\ "other" \in Places /\ t \notin {"stream", "collected"}
    BY <1>1 DEF EntryPoints, Places
<1>3. m = 10 * c + 10
  <2>1. Found(t) = 10 /\ Missing(t, u) = 10
      BY Prices, PricesMissing
  <2>2. r.ret \in {"none", "node"}
      BY Standing DEF Back
  <2> QED BY <2>1, <2>2, AheadIs DEF Back
<1>4. Told(r, OrNull(r), t, u, v)
    BY <1>1, Tells
<1>5. Told(r, o, t, u, v)
    BY <1>4, Tells
<1>6. Told(r, a, t, u, v)
    BY <1>5, Tells
<1>7. 10 * c + 1 + Missing("pair value", u) < m
  <2>1. Missing("pair value", u) = 8
      BY PricesMissing
  <2>2. c \in Nat
      BY <1>1
  <2>3. 10 * c + 1 + 8 < m
    <3> HIDE DEF m, c
    <3> QED BY <1>3, <2>2, Sums, Zenon
  <2> QED BY <2>1, <2>3
<1> QED BY <1>2, <1>6, <1>7, GoneNodeLower

LEMMA PairDoneLower ==
    ASSUME NEW r, Ready(r), NEW t \in {"pair value"}, Back(r, t)
    PROVE  Lower(Ahead(r, event.tok), Return(Put(OrNull(r), "end pair"), "node"))
<1> DEFINE m == Ahead(r, event.tok)
           c == Filled(r.stack)
           u == Below(r)
           v == Under(r)
           o == OrNull(r)
           e == Put(o, "end pair")
<1>1. Told(r, r, t, u, v) /\ t \notin {"stream", "collected"}
    BY InItem DEF Back, EntryPoints
<1>2. c \in Nat /\ Found(u) \in 1 .. 7
    BY InItem DEF Back, EntryPoints
<1>3. m = 10 * c + 8
  <2>1. Found(t) = 8 /\ Missing(t, u) = 8
      BY Prices, PricesMissing
  <2>2. r.ret \in {"none", "node"}
      BY Standing DEF Back
  <2> QED BY <2>1, <2>2, AheadIs DEF Back
<1>4. Told(r, o, t, u, v)
    BY <1>1, Tells
<1>5. Told(r, e, t, u, v)
    BY <1>4, Tells
<1>6. \A q \in 1 .. 7 : 10 * c + q < m
  <2> HIDE DEF m, c
  <2> QED BY <1>2, <1>3, Sums, Zenon
<1>7. 10 * c + Found(u) < m
    BY <1>2, <1>6
<1> QED BY <1>1, <1>5, <1>7, GivenBackLower
-----------------------------------------------------------------------------
\* The sequence without an indent of its own: an entry is taken,
LEMMA LevelEntryLower ==
    ASSUME NEW r, Ready(r), NEW t \in {"indentless"}, At(r, t)
    PROVE  /\ Lower(Ahead(r, event.tok), Go(Take(r), "level item"))
           /\ Lower(Ahead(r, event.tok), Call(Go(Take(r), "level item"), Frame("block entry", FALSE)))
<1> DEFINE m == Ahead(r, event.tok)
           v == Under(r)
           q == Take(r)
<1>1. Told(r, r, t, "collected", v) /\ t \notin {"stream", "collected"}
    BY InNode DEF At, CollectionPoints
<1>2. "level item" \in ItemPoints /\ "level item" \in InnerPoints /\ Fits("collected", "level item")
    BY InnerAre DEF ItemPoints
<1>3. m \in Nat /\ m > 0
    BY AheadIs
<1>4. Told(r, q, t, "collected", v) /\ q.taken = TRUE
    BY <1>1, Tells
<1> HIDE DEF q, m
<1>5. Poised(q, t, "collected", v) /\ Bare(q)
    BY <1>4 DEF Told
<1>6. Lower(m, Go(q, "level item"))
    BY <1>1, <1>2, <1>3, <1>4, <1>5, GoLower
<1>7. Lower(m, Call(Go(q, "level item"), Frame("block entry", FALSE)))
    BY <1>1, <1>2, <1>3, <1>4, <1>5, GoEntryLower
<1> QED BY <1>6, <1>7 DEF m, q

\* is nothing or a node,
LEMMA LevelItemLower ==
    ASSUME NEW r, Ready(r), NEW t \in {"level item"}, At(r, t)
    PROVE  /\ Lower(Ahead(r, event.tok), Go(Put(r, "null"), "indentless"))
           /\ Lower(Ahead(r, event.tok), CallNode(r, "other"))
<1> DEFINE m == Ahead(r, event.tok)
           c == Filled(r.stack)
           v == Under(r)
           n == Put(r, "null")
<1>1. Told(r, r, t, "collected", v) /\ t \notin {"stream", "collected"} /\ c \in Nat
    BY InNode DEF At, CollectionPoints
<1>2. "indentless" \in InnerPoints /\ Fits("collected", "indentless") /\ "other" \in Places
    BY InnerAre DEF Places
<1>3. m = 10 * c + 5
  <2>1. Starting(t, Below(r), event.tok) = 5
      BY PricesStarting
  <2> QED BY <2>1, AheadIs DEF At
<1>4. m \in Nat /\ m > 0
    BY AheadIs
<1>5. 10 * c + 1 + 3 < m /\ 10 * c + 2 < m /\ 1 < m
  <2> HIDE DEF m, c
  <2> QED BY <1>1, <1>3, Sums, Zenon
<1>6. Lower(m, Go(n, "indentless"))
  <2>1. Told(r, n, t, "collected", v)
      BY <1>1, Tells
  <2>2. Starting("indentless", "collected", event.tok) = 2
      BY PricesStarting
  <2>3. 10 * c + Starting("indentless", "collected", event.tok) < m /\ m > 1
    <3>1. 1 < m => m > 1
        BY <1>4
    <3> QED BY <1>5, <2>2, <3>1
  <2> QED BY <1>1, <1>2, <2>1, <2>3, GoneLower
<1>7. Lower(m, CallNode(r, "other"))
  <2>1. Poised(r, t, "collected", v) /\ Bare(r)
      BY <1>1 DEF Told
  <2>2. Missing(t, "collected") = 3
      BY PricesMissing
  <2>3. 10 * Filled(r.stack) + 1 + Missing(t, "collected") < m
      BY <1>5, <2>2
  <2> HIDE DEF m
  <2> QED BY <1>2, <1>4, <2>1, <2>3, NodeLower
<1> QED BY <1>6, <1>7

\* and the next may come.
LEMMA LevelItemDoneLower ==
    ASSUME NEW r, Ready(r), NEW t \in {"level item"}, Back(r, t)
    PROVE  Lower(Ahead(r, event.tok), Go(r, "indentless"))
<1> DEFINE m == Ahead(r, event.tok)
           c == Filled(r.stack)
           v == Under(r)
<1>1. Told(r, r, t, "collected", v) /\ t \notin {"stream", "collected"} /\ c \in Nat
    BY InNode DEF Back, CollectionPoints
<1>2. "indentless" \in InnerPoints /\ Fits("collected", "indentless")
    BY InnerAre
<1>3. m = 10 * c + 3
  <2>1. Found(t) = 3 /\ Missing(t, Below(r)) = 3
      BY Prices, PricesMissing
  <2>2. r.ret \in {"none", "node"}
      BY Standing DEF Back
  <2> QED BY <2>1, <2>2, AheadIs DEF Back
<1>4. m \in Nat /\ m > 0
    BY AheadIs
<1>5. 10 * c + 2 < m /\ 1 < m
  <2> HIDE DEF m, c
  <2> QED BY <1>1, <1>3, Sums, Zenon
<1>6. Starting("indentless", "collected", event.tok) = 2
    BY PricesStarting
<1>7. 10 * c + Starting("indentless", "collected", event.tok) < m /\ m > 1
  <2>1. 1 < m => m > 1
      BY <1>4
  <2> QED BY <1>5, <1>6, <2>1
<1> QED BY <1>1, <1>2, <1>7, GoneLower

\* The composer's entry of a block sequence.
LEMMA BlockEntryLower ==
    ASSUME NEW r, Ready(r), NEW t \in {"block entry"}, At(r, t)
    PROVE  /\ Lower(Ahead(r, event.tok), Return(Put(r, "null"), "node"))
           /\ Lower(Ahead(r, event.tok), CallNode(r, "other"))
<1> DEFINE m == Ahead(r, event.tok)
           c == Filled(r.stack)
           u == Below(r)
           v == Under(r)
           n == Put(r, "null")
<1>1. Told(r, r, t, u, v) /\ t \notin {"stream", "collected"} /\ "other" \in Places
    BY InItem DEF At, EntryPoints, Places
<1>2. c \in Nat /\ Found(u) \in 1 .. 7
    BY InItem DEF At, EntryPoints
<1>3. m = 10 * c + 10
  <2>1. Starting(t, u, event.tok) = 10
      BY PricesStarting
  <2> QED BY <2>1, AheadIs DEF At
<1>4. m \in Nat /\ m > 0
    BY AheadIs
<1>5. 10 * c + 1 + 8 < m /\ \A q \in 1 .. 7 : 10 * c + q < m
  <2> HIDE DEF m, c
  <2> QED BY <1>2, <1>3, Sums, Zenon
<1>6. Lower(m, Return(n, "node"))
  <2>1. Told(r, n, t, u, v)
      BY <1>1, Tells
  <2>2. 10 * c + Found(u) < m
      BY <1>2, <1>5
  <2> QED BY <1>1, <2>1, <2>2, GivenBackLower
<1>7. Lower(m, CallNode(r, "other"))
  <2>1. Poised(r, t, u, v) /\ Bare(r)
      BY <1>1 DEF Told
  <2>2. Missing(t, u) = 8
      BY PricesMissing
  <2>3. 10 * Filled(r.stack) + 1 + Missing(t, u) < m
      BY <1>5, <2>2
  <2> HIDE DEF m
  <2> QED BY <1>1, <1>4, <2>1, <2>3, NodeLower
<1> QED BY <1>6, <1>7

LEMMA BlockEntryDoneLower ==
    ASSUME NEW r, Ready(r), NEW t \in {"block entry"}, Back(r, t)
    PROVE  Lower(Ahead(r, event.tok), Return(r, r.ret))
<1> DEFINE m == Ahead(r, event.tok)
           c == Filled(r.stack)
           u == Below(r)
           v == Under(r)
<1>1. Told(r, r, t, u, v) /\ t \notin {"stream", "collected"}
    BY InItem DEF Back, EntryPoints
<1>2. c \in Nat /\ Found(u) \in 1 .. 7 /\ Missing(u, v) \in 1 .. 7
    BY InItem DEF Back, EntryPoints
<1>3. r.ret \in {"none", "node"}
    BY Standing DEF Back
<1>4. m = 10 * c + 8
  <2>1. Found(t) = 8 /\ Missing(t, u) = 8
      BY Prices, PricesMissing
  <2> QED BY <1>3, <2>1, AheadIs DEF Back
<1>5. \A q \in 1 .. 7 : 10 * c + q < m
  <2> HIDE DEF m, c
  <2> QED BY <1>2, <1>4, Sums, Zenon
<1>6. 10 * c + Found(u) < m /\ 10 * c + Missing(u, v) < m
    BY <1>2, <1>5
<1> QED BY <1>1, <1>3, <1>6, GivenBackLower

\* A collection is complete.
LEMMA CollectedLower ==
    ASSUME NEW r, Ready(r), NEW t \in {"collected"}, Back(r, t), NEW s, s = Built(r) \/ s = Composed(r)
    PROVE  Lower(Ahead(r, event.tok), s)
<1> DEFINE m == Ahead(r, event.tok)
           c == Filled(r.stack)
           u == Below(r)
           v == Under(r)
<1>1. Told(r, r, t, u, v) /\ c \in Nat
    BY Standing DEF Back
<1>2. m = 10 * c + 1
  <2>1. Found(t) = 1 /\ Missing(t, u) = 1
      BY Prices DEF Missing
  <2>2. r.ret \in {"none", "node"}
      BY Standing DEF Back
  <2> QED BY <2>1, <2>2, AheadIs DEF Back
<1>3. m \in Nat /\ m > 0
    BY AheadIs
<1>4. 10 * c < m
  <2> HIDE DEF m, c
  <2> QED BY <1>1, <1>2, Sums, Zenon
<1>5. Poised(r, t, u, v) /\ Bare(r)
    BY <1>1 DEF Told
<1>6. Returned(r, t, u, v, "node", s)
    BY <1>5, BuiltPoised
<1>7. 10 * Filled(r.stack) < m
    BY <1>4
<1> HIDE DEF m, c
<1>8. Lower(m, s)
    BY <1>3, <1>5, <1>6, <1>7, ReturnedLower
<1> QED BY <1>8 DEF m
-----------------------------------------------------------------------------
(***************************************************************************)
(* The steps at a node.  Unlike the others they may find the composer with  *)
(* properties read; w is the reader once the node has taken them.           *)
(***************************************************************************)
Holds(r, w, u, v) ==
    /\ Poised(w, "node", u, v) /\ Bare(w)
    /\ w.taken = r.taken /\ w.ret = r.ret /\ Filled(w.stack) = Filled(r.stack)

\* What remains at a node: there is more to look at than once it is read.
LEMMA NodeAhead ==
    ASSUME NEW r, Shaped(r), Chained(r.stack), r.taken = FALSE, At(r, "node")
    PROVE  LET m == Ahead(r, event.tok)
               c == 10 * Filled(r.stack)
           IN  /\ Poised(r, "node", Below(r), Under(r)) /\ Filled(r.stack) \in Nat
               /\ m \in Nat /\ m > 1
               /\ c + Missing(Below(r), Under(r)) < m
               /\ Owns(r) => c + Found(Below(r)) < m
<1> DEFINE m == Ahead(r, event.tok)
           f == Filled(r.stack)
           u == Below(r)
           v == Under(r)
<1>1. r.stack \in Seq(Calls) /\ IsReader(r) /\ r.ret = "pending" /\ Top(r).at = "node"
    BY TopIs DEF Shaped, At
<1>2. Poised(r, Tip(r.stack, 0), u, v)
    BY <1>1 DEF Poised, Below, Under, IsReader, Fields
<1>3. Top(r).at = Tip(r.stack, 0) /\ f \in Nat
    BY <1>2, PoisedTop
<1>4. m = 10 * f + (IF Owns(r) THEN 1 + Found(u) ELSE 1 + Missing(u, v))
    BY <1>1 DEF Ahead, Price, At, Below, Under
<1>5. Found(u) \in 1 .. 10 /\ Missing(u, v) \in 1 .. 10 /\ Missing(u, v) <= Found(u)
  <2>1. Found(u) \in 1 .. 10 /\ Missing(u, v) \in 1 .. 10
      BY Prices, PricesMissing
  <2>2. Missing(u, v) = Found(u) \/ (Missing(u, v) = 1 /\ Found(u) = 4)
        \/ (Missing(u, v) = 2 /\ Found(u) \in {5, 7}) \/ (Missing(u, v) = 3 /\ Found(u) = 8)
      BY DEF Missing, Found
  <2> HIDE DEF u, v
  <2>3. \A a, b \in 1 .. 10 : a = b \/ (a = 1 /\ b = 4) \/ (a = 2 /\ b \in {5, 7}) \/ (a = 3 /\ b = 8) => a <= b
      OBVIOUS
  <2> QED BY <2>1, <2>2, <2>3
<1>6. \A n \in Nat, a, b \in 1 .. 10 : \A k, o :
         a <= b /\ k = 10 * n + (IF o THEN 1 + b ELSE 1 + a)
            => k \in Nat /\ k > 1 /\ 10 * n + a < k /\ (o => 10 * n + b < k)
    OBVIOUS
<1>7. m \in Nat /\ m > 1 /\ 10 * f + Missing(u, v) < m /\ (Owns(r) => 10 * f + Found(u) < m)
  <2> HIDE DEF m, f, u, v
  <2> QED BY <1>3, <1>4, <1>5, <1>6
<1> QED BY <1>1, <1>2, <1>3, <1>7

\* The node's tag or anchor is set.
Assigned(w, n, x, s) ==
    \/ x \in {None, "core", "custom", "indentless"} /\ s = [w EXCEPT !.stack[n].tag = x]
    \/ x \in Names \union {None} /\ s = [w EXCEPT !.stack[n].anchor = x]

LEMMA GivenPoised ==
    ASSUME NEW w, NEW u, NEW v, Poised(w, "node", u, v), NEW x, NEW s, NEW n, n = Len(w.stack), Assigned(w, n, x, s)
    PROVE  Poised(s, "node", u, v) /\ s.ret = w.ret /\ s.taken = w.taken /\ Filled(s.stack) = Filled(w.stack)
           /\ (Bare(w) => Bare(s))
<1> DEFINE c == Top(w)
<1>1. /\ w.stack \in Seq(Calls) /\ w.stack # <<>> /\ c = w.stack[n] /\ c \in Calls /\ n \in DOMAIN w.stack /\ c.at = "node"
    BY PoisedTop DEF Poised
<1>2. PICK f \in Calls : f.at = "node" /\ s = [w EXCEPT !.stack = [w.stack EXCEPT ![n] = f]]
  <2> HIDE DEF c
  <2>1. CASE x \in {None, "core", "custom", "indentless"} /\ s = [w EXCEPT !.stack[n].tag = x]
    <3> DEFINE f == [c EXCEPT !.tag = x]
    <3>1. f \in Calls /\ f.at = "node"
        BY <1>1, <2>1 DEF Calls
    <3>2. s = [w EXCEPT !.stack = [w.stack EXCEPT ![n] = f]]
        BY <1>1, <2>1
    <3> QED BY <3>1, <3>2
  <2>2. CASE x \in Names \union {None} /\ s = [w EXCEPT !.stack[n].anchor = x]
    <3> DEFINE f == [c EXCEPT !.anchor = x]
    <3>1. f \in Calls /\ f.at = "node"
        BY <1>1, <2>2 DEF Calls
    <3>2. s = [w EXCEPT !.stack = [w.stack EXCEPT ![n] = f]]
        BY <1>1, <2>2
    <3> QED BY <3>1, <3>2
  <2> QED BY <2>1, <2>2 DEF Assigned
<1> DEFINE st == [w.stack EXCEPT ![n] = f]
<1>3. Fits(u, "node")
    BY DEF Fits, CollectionPoints, EntryPoints, MappingPoints, SequencePoints
<1>4. /\ st \in Seq(Calls) /\ Tip(st, 0) = "node" /\ Tip(st, 1) = u /\ Tip(st, 2) = v
      /\ Chained(st) /\ Filled(st) = Filled(w.stack)
    BY <1>1, <1>2, <1>3, TopChanged DEF Poised
<1> HIDE DEF st
<1>5. Restacked(w, s, st, w.ret)
  <2>1. s = [w EXCEPT !.stack = st]
      BY <1>2 DEF st
  <2> QED BY <2>1, RestackedIs
<1> QED BY <1>4, <1>5 DEF Restacked, Poised

\* A scalar or an alias is read, a collection opened.
LEMMA ReadLower ==
    ASSUME NEW r, NEW w, NEW u, NEW v, Holds(r, w, u, v), NEW m \in Nat, m > 0
    PROVE  /\ \A x : Lower(m, Take(Built(Put(w, x)))) /\ Lower(m, Take(Composed(Put(w, x))))
           /\ \A x : Lower(m, Take(Return(Put(w, x), "node")))
           /\ \A x, at \in {"mapping", "sequence"}, flow \in BOOLEAN :
                 Lower(m, Take(Call(Opened(Put(w, x)), Frame(at, flow))))
<1> SUFFICES ASSUME NEW x
             PROVE  /\ Lower(m, Take(Built(Put(w, x)))) /\ Lower(m, Take(Composed(Put(w, x))))
                    /\ Lower(m, Take(Return(Put(w, x), "node")))
                    /\ \A at \in {"mapping", "sequence"}, flow \in BOOLEAN :
                          Lower(m, Take(Call(Opened(Put(w, x)), Frame(at, flow))))
    OBVIOUS
<1> DEFINE p == Put(w, x)
<1>1. Poised(p, "node", u, v) /\ Bare(p)
    BY PutPoised DEF Holds, Like
<1> HIDE DEF p
<1>2. ASSUME NEW s, Returned(p, "node", u, v, "node", s) PROVE Lower(m, Take(s))
  <2>1. Poised(s, u, v, Tip(s.stack, 2)) /\ Bare(s)
      BY <1>1, <1>2 DEF Returned
  <2> QED BY <2>1, TakenLower
<1>3. Lower(m, Take(Built(p))) /\ Lower(m, Take(Composed(p)))
    BY <1>1, <1>2, BuiltPoised
<1>4. Lower(m, Take(Return(p, "node")))
    BY <1>1, <1>2, ReturnPoised
<1>5. ASSUME NEW at \in {"mapping", "sequence"}, NEW flow \in BOOLEAN PROVE Lower(m, Take(Call(Opened(p), Frame(at, flow))))
  <2>1. PICK o : o = Opened(p)
      OBVIOUS
  <2>2. Poised(o, "collected", u, v) /\ Bare(o)
      BY <1>1, <2>1, OpenedPoised
  <2>3. PICK f : f = Frame(at, flow)
      OBVIOUS
  <2>4. at \in InnerPoints /\ Fits("collected", at)
      BY InnerAre
  <2>5. f \in Calls /\ f.at = at /\ f.at # "collected"
      BY <2>3, <2>4, FrameIs, PointsApart DEF NodePoints
  <2>6. Poised(Call(o, f), f.at, "collected", u) /\ Like(o, Call(o, f))
      BY <2>2, <2>4, <2>5, CallPoised
  <2>7. PICK s : s = Call(o, f)
      OBVIOUS
  <2>8. Poised(s, at, "collected", u) /\ Bare(s)
      BY <2>2, <2>5, <2>6, <2>7 DEF Like
  <2>9. Lower(m, Take(s))
      BY <2>8, TakenLower
  <2> QED BY <2>1, <2>3, <2>7, <2>9
<1> QED BY <1>3, <1>4, <1>5 DEF p

\* A sequence begins that has no token of its own: its first entry is taken next.
LEMMA LevelOpens ==
    ASSUME NEW r, NEW w, NEW u, NEW v, Holds(r, w, u, v), w.taken = FALSE, NEW x, event.tok = "Entry", NEW m \in Nat, m > 1
    PROVE  Lower(m, Call(Opened(Put(w, x)), Frame("indentless", FALSE)))
<1> DEFINE p == Put(w, x)
<1>1. Poised(p, "node", u, v) /\ Bare(p) /\ p.taken = FALSE
    BY PutPoised DEF Holds, Like
<1> HIDE DEF p
<1>2. PICK o : o = Opened(p)
    OBVIOUS
<1>3. Poised(o, "collected", u, v) /\ Bare(o) /\ o.taken = FALSE
    BY <1>1, <1>2, OpenedPoised
<1>4. PICK f : f = Frame("indentless", FALSE)
    OBVIOUS
<1>5. "indentless" \in InnerPoints /\ Fits("collected", "indentless")
    BY InnerAre
<1>6. f \in Calls /\ f.at = "indentless" /\ f.at # "collected"
    BY <1>4, <1>5, FrameIs, PointsApart DEF NodePoints
<1>7. /\ Poised(Call(o, f), f.at, "collected", u) /\ Like(o, Call(o, f)) /\ Call(o, f).ret = "pending"
      /\ Top(Call(o, f)) = f
    BY <1>3, <1>5, <1>6, CallPoised
<1>8. PICK s : s = Call(o, f)
    OBVIOUS
<1>9. Settled(s) /\ Ahead(s, event.tok) = 1
  <2>1. Poised(s, "indentless", "collected", u) /\ Bare(s) /\ s.taken = FALSE /\ At(s, "indentless")
      BY <1>3, <1>6, <1>7, <1>8 DEF Like, At
  <2> QED BY <2>1 DEF Settled, Poised, Ahead
<1>10. Lower(m, s)
  <2>1. \A a : a = 1 => a < m
      OBVIOUS
  <2> QED BY <1>9, <2>1 DEF Lower
<1> QED BY <1>2, <1>4, <1>8, <1>10 DEF p

\* A node is given back, or none.
LEMMA BackLower ==
    ASSUME NEW r, NEW t, NEW u, NEW v, Poised(r, t, u, v), Bare(r), NEW value, NEW s, Returned(r, t, u, v, value, s),
           NEW m \in Nat, m > 0, t # "collected",
           \/ value = "node" /\ 10 * Filled(r.stack) + Found(u) < m
           \/ value = "none" /\ 10 * Filled(r.stack) + Missing(u, v) < m
    PROVE  Lower(m, s)
<1>1. value \in {"node", "none"}
    OBVIOUS
<1>2. LET price == IF value = "node" THEN Found(u) ELSE Missing(u, v)
      IN  \/ r.taken = TRUE
          \/ t # "collected" /\ 10 * Filled(r.stack) + price < m
          \/ t = "collected" /\ 10 * Filled(r.stack) < m
    OBVIOUS
<1> QED BY <1>1, <1>2, ReturnedLower

\* There is no node: null if it has properties, nothing without.
LEMMA EmptyLower ==
    ASSUME NEW r, Shaped(r), Chained(r.stack), r.taken = FALSE, At(r, "node"),
           NEW w, Holds(r, w, Below(r), Under(r)), NEW x
    PROVE  /\ Lower(Ahead(r, event.tok), Return(w, "none"))
           /\ Owns(r) => Lower(Ahead(r, event.tok), Built(Put(w, x))) /\ Lower(Ahead(r, event.tok), Composed(Put(w, x)))
<1> DEFINE m == Ahead(r, event.tok)
           u == Below(r)
           v == Under(r)
           c == Filled(r.stack)
           p == Put(w, x)
<1>1. m \in Nat /\ m > 1 /\ 10 * c + Missing(u, v) < m /\ (Owns(r) => 10 * c + Found(u) < m)
    BY NodeAhead
<1>2. m > 0
    BY <1>1
<1>3. Filled(w.stack) = c /\ Poised(w, "node", u, v) /\ Bare(w)
    BY DEF Holds
<1>4. Poised(p, "node", u, v) /\ Bare(p) /\ Filled(p.stack) = c
    BY <1>3, PutPoised DEF Like
<1>5. Lower(m, Return(w, "none"))
  <2>1. PICK value, s : value = "none" /\ s = Return(w, value)
      OBVIOUS
  <2>2. Returned(w, "node", u, v, value, s)
      BY <1>3, <2>1, ReturnPoised
  <2>3. 10 * Filled(w.stack) + Missing(u, v) < m
      BY <1>1, <1>3
  <2> HIDE DEF m, u, v, c
  <2>4. Lower(m, s)
      BY <1>1, <1>2, <1>3, <2>1, <2>2, <2>3, BackLower
  <2> QED BY <2>1, <2>4
<1>6. ASSUME Owns(r), NEW s, s = Built(p) \/ s = Composed(p) PROVE Lower(m, s)
  <2> HIDE DEF p
  <2>1. Returned(p, "node", u, v, "node", s)
      BY <1>4, <1>6, BuiltPoised
  <2>2. 10 * Filled(p.stack) + Found(u) < m
      BY <1>1, <1>4, <1>6
  <2> HIDE DEF m, u, v, c
  <2> QED BY <1>1, <1>2, <1>4, <2>1, <2>2, BackLower
<1> QED BY <1>5, <1>6
-----------------------------------------------------------------------------
(***************************************************************************)
(* The steps between documents.                                             *)
(***************************************************************************)
\* s differs from q in what is told of the document only.
Beside(q, s) ==
    /\ DOMAIN s = DOMAIN q /\ s.stack = q.stack /\ s.ret = q.ret
    /\ \A g \in DOMAIN q \intersect {"tag", "anchor"} : s[g] = q[g]

LEMMA BesidePoised ==
    ASSUME NEW q, NEW t, NEW u, NEW v, Poised(q, t, u, v), Bare(q), NEW s, Beside(q, s)
    PROVE  Poised(s, t, u, v) /\ Bare(s) /\ s.ret = q.ret /\ Filled(s.stack) = Filled(q.stack)
BY DEF Beside, Poised, Bare

\* Nothing but the event is taken.
LEMMA PassedLower ==
    ASSUME NEW r, Ready(r), NEW s, Beside(r, s), s.taken = TRUE
    PROVE  Lower(Ahead(r, event.tok), s)
<1>1. Ahead(r, event.tok) \in Nat /\ Ahead(r, event.tok) > 0
    BY AheadIs
<1>2. Poised(r, Top(r).at, Below(r), Under(r)) /\ Bare(r)
    BY Standing DEF Told
<1>3. Poised(s, Top(r).at, Below(r), Under(r)) /\ Bare(s)
    BY <1>2, BesidePoised
<1>4. Settled(s) /\ Ahead(s, event.tok) = 0
    BY <1>3 DEF Settled, Poised, Ahead
<1> QED BY <1>1, <1>4 DEF Lower

LEMMA Brief ==
    \A c \in Nat : \A m : (m = 10 * c + 3 => 10 * c + 1 + 1 < m) /\ (m = 10 * c + 4 => 10 * c + 3 < m)
OBVIOUS

\* A document begins.
LEMMA DocumentLower ==
    ASSUME NEW r, Ready(r), NEW t \in {"stream"}, At(r, t), NEW q, Beside(r, q), NEW p \in DocumentPoints,
           q.taken = TRUE \/ p = "implicit"
    PROVE  Lower(Ahead(r, event.tok), CallNode(Call(q, Frame(p, FALSE)), "other"))
<1> DEFINE m == Ahead(r, event.tok)
           c == Filled(r.stack)
           u == Below(r)
           v == Under(r)
<1>1. Poised(r, t, u, v) /\ Bare(r) /\ c \in Nat
    BY Standing DEF At, Told
<1>2. Poised(q, t, u, v) /\ Bare(q) /\ Filled(q.stack) = c
    BY <1>1, BesidePoised
<1>3. m = 10 * c + 3
  <2>1. Starting(t, u, event.tok) = 3
      BY PricesStarting
  <2> QED BY <2>1, AheadIs DEF At
<1>4. PICK f : f = Frame(p, FALSE)
    OBVIOUS
<1>5. f \in Calls /\ f.at = p /\ f.at # "collected"
    BY <1>4, FrameIs DEF Points, DocumentPoints
<1>6. Fits(t, f.at)
    BY <1>5 DEF Fits, DocumentPoints, CollectionPoints, EntryPoints, MappingPoints, SequencePoints
<1>7. Poised(Call(q, f), p, t, u) /\ Like(q, Call(q, f))
    BY <1>2, <1>5, <1>6, CallPoised
<1>8. PICK s : s = Call(q, f)
    OBVIOUS
<1>9. Poised(s, p, t, u) /\ Bare(s) /\ s.taken = q.taken /\ Filled(s.stack) = c
    BY <1>2, <1>7, <1>8 DEF Like
<1>10. s.taken = TRUE \/ 10 * Filled(s.stack) + 1 + Missing(p, t) < m
  <2>1. 10 * c + 1 + 1 < m
    <3>1. c \in Nat
        BY <1>1
    <3> HIDE DEF m, c
    <3> QED BY <1>3, <3>1, Brief, Zenon
  <2>2. p = "implicit" => Missing(p, t) = 1
      BY PricesMissing
  <2> QED BY <1>9, <2>1, <2>2
<1>11. m \in Nat /\ m > 0 /\ "other" \in Places
    BY AheadIs DEF Places
<1> HIDE DEF m
<1>12. Lower(m, CallNode(s, "other"))
    BY <1>9, <1>10, <1>11, NodeLower
<1> QED BY <1>4, <1>8, <1>12 DEF m

\* A document is done.
LEMMA DocumentDoneLower ==
    ASSUME NEW r, Ready(r), NEW t \in DocumentPoints, Back(r, t), NEW q, Beside(r, q),
           NEW s, Beside(Return(q, "pending"), s), s.taken = TRUE \/ t = "explicit" \/ r.ret = "node"
    PROVE  Lower(Ahead(r, event.tok), s)
<1> DEFINE m == Ahead(r, event.tok)
           c == Filled(r.stack)
           u == Below(r)
           v == Under(r)
           w == Tip(s.stack, 2)
<1>1. Poised(r, t, u, v) /\ Bare(r) /\ c \in Nat /\ u = "stream"
    BY Standing DEF Back, Told
<1>2. Poised(q, t, u, v) /\ Bare(q) /\ Filled(q.stack) = c
    BY <1>1, BesidePoised
<1>3. t # "collected" /\ t # "stream" /\ r.ret \in {"none", "node"} /\ Top(r).at = t
    BY Standing DEF Back, DocumentPoints
<1>4. s.taken = TRUE \/ m = 10 * c + 4
  <2>1. Found(t) = 4 /\ Missing("explicit", u) = 4
      BY Prices, PricesMissing
  <2>2. CASE t = "explicit"
      BY <1>3, <2>1, <2>2, AheadIs
  <2>3. CASE r.ret = "node"
      BY <1>3, <2>1, <2>3, AheadIs
  <2> QED BY <2>2, <2>3
<1>5. PICK a : a = Return(q, "pending")
    OBVIOUS
<1>6. Returned(q, t, u, v, "pending", a)
    BY <1>2, <1>3, <1>5, ReturnPoised
<1>7. Poised(a, u, v, Tip(a.stack, 2)) /\ Bare(a) /\ a.ret = "pending" /\ Filled(a.stack) = c
    BY <1>2, <1>3, <1>6 DEF Returned
<1>8. Poised(s, u, v, Tip(a.stack, 2)) /\ Bare(s) /\ s.ret = "pending" /\ Filled(s.stack) = c
    BY <1>5, <1>7, BesidePoised
<1>9. Arrives(s, u, v, Tip(a.stack, 2)) = 3
  <2>1. Starting(u, v, event.tok) = 3
      BY <1>1, PricesStarting
  <2> QED BY <1>1, <1>8, <2>1 DEF Arrives
<1>10. s.taken = TRUE \/ 10 * Filled(s.stack) + Arrives(s, u, v, Tip(a.stack, 2)) < m
  <2>1. CASE m = 10 * c + 4
    <3>1. 10 * c + 3 < m
      <4>1. c \in Nat
          BY <1>1
      <4> HIDE DEF m, c
      <4> QED BY <2>1, <4>1, Brief, Zenon
    <3> QED BY <1>8, <1>9, <3>1
  <2> QED BY <1>4, <2>1
<1>11. m \in Nat /\ m > 0 /\ u # "node" /\ u # "indentless"
    BY <1>1, AheadIs
<1> HIDE DEF m
<1>12. Lower(m, s)
    BY <1>8, <1>10, <1>11, IsLower
<1> QED BY <1>12 DEF m
-----------------------------------------------------------------------------
(***************************************************************************)
(* Every step of the decoder, and of the composer, leaves it fewer looks.   *)
(***************************************************************************)
LEMMA DecodeFields ==
    ASSUME IInv, Decode
    PROVE  DOMAIN dec' = DOMAIN dec
<1>1. /\ Shaped(dec) /\ {"mayDirect"} \subseteq DOMAIN dec /\ (dec.stack = <<>> => dec.anchors = {}) /\ EventOK
    BY DEF IInv, DecoderInv, EventOK
<1>2. CASE Collecting
    BY <1>1, <1>2, CollectingKeeps DEF Outcome, Same
<1>3. CASE DecodeBetween \/ DecodeDirective
    BY <1>1, <1>3, DecodeBetweenKeeps DEF Idle
<1>4. CASE DecodeDocumentDone
    BY <1>1, <1>4, DecodeDocumentDoneKeeps DEF Idle
<1>5. CASE DecodeDocument
    BY <1>1, <1>5, DecodeDocumentKeeps
<1>6. CASE DecodeAlias
    BY <1>1, <1>6, DecodeAliasKeeps DEF Outcome, Same
<1> QED BY <1>2, <1>3, <1>4, <1>5, <1>6 DEF Decode, Collecting

\* The decoder at a node.
LEMMA DecodeNodeLower ==
    ASSUME Ready(dec), At(dec, "node"), EventOK,
           \/ DecodeTag \/ DecodeAnchor \/ DecodeCollectionKey \/ DecodeScalar \/ DecodeAlias
           \/ DecodeCollection \/ DecodeIndentless \/ DecodeEmpty
    PROVE  Lower(Ahead(dec, event.tok), dec')
<1> DEFINE m == Ahead(dec, event.tok)
           u == Below(dec)
           v == Under(dec)
<1>1. m \in Nat /\ m > 1 /\ m > 0 /\ Poised(dec, "node", u, v)
  <2>1. \A k \in Nat : k > 1 => k > 0
      OBVIOUS
  <2> QED BY <2>1, NodeAhead DEF Ready
<1>2. Holds(dec, dec, u, v)
    BY <1>1 DEF Holds, Ready
<1> SUFFICES Lower(m, dec')
    OBVIOUS
<1> HIDE DEF m, u, v
<1>3. Lower(m, Failed(dec))
    BY <1>1, FailedLower DEF Poised
<1>4. CASE DecodeTag
  <2> DEFINE x == IF event.arg = "core" THEN "core" ELSE "custom"
             q == Take(dec)
             s == [q EXCEPT !.stack[Len(dec.stack)].tag = x]
  <2>1. x \in {None, "core", "custom", "indentless"}
      OBVIOUS
  <2>2. Poised(q, "node", u, v) /\ q.stack = dec.stack /\ q.taken = TRUE /\ Bare(q)
      BY <1>1, TakePoised DEF Ready
  <2> HIDE DEF x, q
  <2>3. Poised(s, "node", u, v) /\ s.taken = TRUE /\ Bare(s)
    <3>1. Assigned(q, Len(dec.stack), x, s) /\ Len(dec.stack) = Len(q.stack)
        BY <2>1, <2>2 DEF Assigned
    <3> HIDE DEF s
    <3> QED BY <2>2, <3>1, GivenPoised
  <2>4. Lower(m, s)
      BY <1>1, <2>3 DEF Lower, Settled, Poised, Ahead
  <2>5. dec' = Failed(dec) \/ dec' = s
      BY <1>4 DEF DecodeTag, x, q
  <2> QED BY <1>3, <2>4, <2>5
<1>5. CASE DecodeAnchor
  <2> DEFINE q == Take(dec)
             s == [q EXCEPT !.stack[Len(dec.stack)].anchor = event.arg]
  <2>1. event.arg \in Names \union {None}
      BY <1>5 DEF DecodeAnchor, EventOK
  <2>2. Poised(q, "node", u, v) /\ q.stack = dec.stack /\ q.taken = TRUE /\ Bare(q)
      BY <1>1, TakePoised DEF Ready
  <2> HIDE DEF q
  <2>3. Poised(s, "node", u, v) /\ s.taken = TRUE /\ Bare(s)
    <3>1. Assigned(q, Len(dec.stack), event.arg, s) /\ Len(dec.stack) = Len(q.stack)
        BY <2>1, <2>2 DEF Assigned
    <3> HIDE DEF s
    <3> QED BY <2>2, <3>1, GivenPoised
  <2>4. Lower(m, s)
      BY <1>1, <2>3 DEF Lower, Settled, Poised, Ahead
  <2>5. dec' = Failed(dec) \/ dec' = s
      BY <1>5 DEF DecodeAnchor, q
  <2> QED BY <1>3, <2>4, <2>5
<1>6. CASE DecodeCollectionKey
    BY <1>3, <1>6 DEF DecodeCollectionKey
<1>7. CASE DecodeScalar
    BY <1>1, <1>2, <1>7, ReadLower DEF DecodeScalar
<1>8. CASE DecodeAlias
  <2>1. dec' = Failed(dec) \/ dec' = Take(Return(Put(dec, "alias"), "node"))
      BY <1>8 DEF DecodeAlias
  <2> QED BY <1>1, <1>2, <1>3, <2>1, ReadLower
<1>9. CASE DecodeCollection
  <2> DEFINE flow == event.tok \in FlowOpenings
             at == IF event.tok \in {"BlockMap", "FlowMap"} THEN "mapping" ELSE "sequence"
  <2>1. dec' = Take(Call(Opened(Put(dec, at)), Frame(at, flow))) /\ at \in {"mapping", "sequence"} /\ flow \in BOOLEAN
      BY <1>9 DEF DecodeCollection
  <2> HIDE DEF at, flow
  <2> QED BY <1>1, <1>2, <2>1, ReadLower
<1>10. CASE DecodeIndentless
  <2> DEFINE s == [dec EXCEPT !.stack[Len(dec.stack)].tag = None]
  <2>1. Poised(s, "node", u, v) /\ s.ret = dec.ret /\ s.taken = dec.taken /\ Filled(s.stack) = Filled(dec.stack) /\ Bare(s)
    <3>1. Assigned(dec, Len(dec.stack), None, s)
        BY DEF Assigned
    <3> HIDE DEF s
    <3> QED BY <1>1, <3>1, GivenPoised DEF Ready
  <2>2. Holds(dec, s, u, v) /\ s.taken = FALSE
      BY <2>1 DEF Holds, Ready
  <2>3. event.tok = "Entry" /\ dec' = Call(Opened(Put(s, "sequence")), Frame("indentless", FALSE))
      BY <1>10 DEF DecodeIndentless, Indentless
  <2> HIDE DEF s
  <2> QED BY <1>1, <2>2, <2>3, LevelOpens
<1>11. CASE DecodeEmpty
  <2>1. CASE Top(dec).tag = None /\ Top(dec).anchor = None
    <3>1. dec' = Return(dec, "none")
        BY <1>11, <2>1 DEF DecodeEmpty
    <3> QED BY <1>2, <3>1, EmptyLower DEF Ready, m, u, v
  <2>2. CASE ~(Top(dec).tag = None /\ Top(dec).anchor = None)
    <3>1. dec' = Built(Put(dec, "null"))
        BY <1>11, <2>2 DEF DecodeEmpty
    <3>2. Owns(dec)
        BY <2>2 DEF Owns
    <3> QED BY <1>2, <3>1, <3>2, EmptyLower DEF Ready, m, u, v
  <2> QED BY <2>1, <2>2
<1> QED BY <1>4, <1>5, <1>6, <1>7, <1>8, <1>9, <1>10, <1>11

\* The decoder in a mapping.
LEMMA DecodeMappingLower ==
    ASSUME Ready(dec),
           \/ DecodeMappingEnd \/ DecodeMappingComma \/ DecodeKey \/ DecodeKeyDone
           \/ DecodeBareKey \/ DecodeBareKeyDone \/ DecodeValueDone
    PROVE  Lower(Ahead(dec, event.tok), dec')
<1> DEFINE m == Ahead(dec, event.tok)
<1>1. CASE DecodeMappingEnd
  <2>1. At(dec, "mapping") /\ dec' \in {Return(Put(dec, "end"), "node"), Take(Return(Put(dec, "end"), "node"))}
      BY <1>1 DEF DecodeMappingEnd
  <2>2. PICK s : s = Return(Put(dec, "end"), "node")
      OBVIOUS
  <2>3. dec' \in {s, Take(s)}
      BY <2>1, <2>2
  <2>4. PICK t \in {"mapping", "sequence", "indentless"} : t = "mapping"
      OBVIOUS
  <2>5. At(dec, t) /\ (t = "indentless" => event.tok # "Entry")
      BY <2>1, <2>4
  <2> QED BY <2>2, <2>3, <2>5, EndLower
<1>2. CASE DecodeMappingComma
    BY <1>2, PairLower DEF DecodeMappingComma
<1>3. CASE DecodeKey
    BY <1>3, PairLower DEF DecodeKey
<1>4. CASE DecodeKeyDone
  <2>1. PICK o : o = OrNull(dec)
      OBVIOUS
  <2>2. PICK a \in {o, Take(o)} : dec' = CallNode(Go(a, "value"), "value")
      BY <1>4, <2>1 DEF DecodeKeyDone
  <2>3. Back(dec, "key")
      BY <1>4 DEF DecodeKeyDone
  <2> QED BY <2>1, <2>2, <2>3, KeyDoneLower
<1>5. CASE DecodeBareKey
  <2>1. PICK x \in {"bare scalar", "bare key"}, place \in Places : dec' = CallNode(Go(dec, x), place)
      BY <1>5 DEF DecodeBareKey, Places
  <2>2. At(dec, "mapping")
      BY <1>5 DEF DecodeBareKey
  <2> QED BY <2>1, <2>2, PairLower
<1>6. CASE DecodeBareKeyDone
  <2>1. PICK t \in BarePoints : Back(dec, t)
      BY <1>6 DEF DecodeBareKeyDone, BarePoints
  <2>2. PICK o : o = OrNull(dec)
      OBVIOUS
  <2>3. PICK n : n = Put(o, "null")
      OBVIOUS
  <2>4. /\ Lower(m, CallNode(Go(Take(o), "value"), "value"))
        /\ dec.ret = "none" => Lower(m, Return(Put(n, "end"), "node"))
        /\ dec.ret # "none" => Lower(m, Go(n, "mapping"))
      BY <2>1, <2>2, <2>3, BareKeyDoneLower
  <2>5. Lower(m, Failed(dec))
      BY AheadIs, Standing, FailedLower
  <2>6. \/ dec' = CallNode(Go(Take(o), "value"), "value") \/ dec' = Failed(dec)
        \/ dec.ret = "none" /\ dec' = Return(Put(n, "end"), "node")
        \/ dec.ret # "none" /\ dec' = Go(n, "mapping")
      BY <1>6, <2>2, <2>3 DEF DecodeBareKeyDone
  <2> HIDE DEF m
  <2>7. Lower(m, dec')
      BY <2>4, <2>5, <2>6
  <2> QED BY <2>7 DEF m
<1>7. CASE DecodeValueDone
    BY <1>7, ValueDoneLower DEF DecodeValueDone
<1> QED BY <1>1, <1>2, <1>3, <1>4, <1>5, <1>6, <1>7

\* The decoder in a sequence.
LEMMA DecodeSequenceLower ==
    ASSUME Ready(dec), DecodeSequenceEnd \/ DecodeEntry \/ DecodeEntryDone
    PROVE  Lower(Ahead(dec, event.tok), dec')
<1> DEFINE m == Ahead(dec, event.tok)
<1>1. CASE DecodeSequenceEnd
  <2>1. At(dec, "sequence") /\ dec' \in {Return(Put(dec, "end"), "node"), Take(Return(Put(dec, "end"), "node"))}
      BY <1>1 DEF DecodeSequenceEnd
  <2>2. PICK s : s = Return(Put(dec, "end"), "node")
      OBVIOUS
  <2>3. dec' \in {s, Take(s)}
      BY <2>1, <2>2
  <2>4. PICK t \in {"mapping", "sequence", "indentless"} : t = "sequence"
      OBVIOUS
  <2>5. At(dec, t) /\ (t = "indentless" => event.tok # "Entry")
      BY <2>1, <2>4
  <2> QED BY <2>2, <2>3, <2>5, EndLower
<1>2. CASE DecodeEntry
  <2> DEFINE flow == Top(dec).flow
  <2>1. At(dec, "sequence") /\ event.tok \notin Closers
      BY <1>2 DEF DecodeEntry
  <2>2. flow \in BOOLEAN
    <3>1. Top(dec) \in Calls
      <4>1. Top(dec).at = "sequence" /\ Shaped(dec)
          BY <2>1 DEF At, Ready
      <4>2. dec.stack # <<>>
          BY <4>1 DEF Top, Frame
      <4> QED BY <4>1, <4>2, TopIs
    <3> QED BY <3>1 DEF Calls
  <2> HIDE DEF flow
  <2>3. CASE event.tok \in {"Entry", "FlowEntry"}
    <3>1. dec' = Take(Call(Go(dec, "item"), Frame("entry", flow)))
        BY <1>2, <2>3 DEF DecodeEntry, flow
    <3> QED BY <2>1, <2>2, <3>1, EntryLower
  <2>4. CASE event.tok \notin {"Entry", "FlowEntry"}
    <3>1. dec' = Call(Go(dec, "first item"), Frame("entry", flow))
        BY <1>2, <2>4 DEF DecodeEntry, flow
    <3>2. ~NothingHere(event.tok)
        BY <2>1, <2>4 DEF NothingHere
    <3> QED BY <2>1, <2>2, <3>1, <3>2, EntryLower
  <2> QED BY <2>3, <2>4
<1>3. CASE DecodeEntryDone
  <2>1. PICK t \in ItemMarks : Back(dec, t) /\ t = Top(dec).at
      BY <1>3 DEF DecodeEntryDone, ItemMarks, Back
  <2>2. /\ dec.ret = "none" /\ t = "first item" => Lower(m, Return(Put(dec, "end"), "node"))
        /\ ~(dec.ret = "none" /\ t = "first item") => Lower(m, Go(dec, "sequence"))
      BY <2>1, EntryDoneLower
  <2>3. dec' = IF dec.ret = "none" /\ t = "first item" THEN Return(Put(dec, "end"), "node") ELSE Go(dec, "sequence")
      BY <1>3, <2>1 DEF DecodeEntryDone
  <2> HIDE DEF m
  <2>4. Lower(m, dec')
      BY <2>2, <2>3
  <2> QED BY <2>4 DEF m
<1> QED BY <1>1, <1>2, <1>3

LEMMA DecodeItemLower ==
    ASSUME Ready(dec), DecodeItem \/ DecodeItemDone \/ DecodePairKeyDone \/ DecodePairDone
    PROVE  Lower(Ahead(dec, event.tok), dec')
<1> DEFINE m == Ahead(dec, event.tok)
<1>1. CASE DecodeItem
  <2>1. At(dec, "entry")
      BY <1>1 DEF DecodeItem
  <2>2. /\ NothingHere(event.tok) => Lower(m, Return(Put(dec, "null"), "node"))
        /\ Lower(m, CallNode(Go(Take(dec), "pair key"), "other"))
        /\ Lower(m, CallNode(Go(Take(Put(Put(dec, "null"), "pair")), "pair value"), "other"))
        /\ Lower(m, CallNode(Go(dec, "item node"), "other"))
      BY <2>1, ItemLower
  <2>3. \/ NothingHere(event.tok) /\ dec' = Return(Put(dec, "null"), "node")
        \/ dec' = CallNode(Go(Take(dec), "pair key"), "other")
        \/ dec' = CallNode(Go(Take(Put(Put(dec, "null"), "pair")), "pair value"), "other")
        \/ dec' = CallNode(Go(dec, "item node"), "other")
      BY <1>1 DEF DecodeItem
  <2> HIDE DEF m
  <2>4. Lower(m, dec')
      BY <2>2, <2>3
  <2> QED BY <2>4 DEF m
<1>2. CASE DecodeItemDone
  <2>1. Back(dec, "item node")
      BY <1>2 DEF DecodeItemDone
  <2>2. dec' = CallNode(Go(Take(Put(dec, "pair")), "pair value"), "other") \/ dec' = Return(dec, dec.ret)
      BY <1>2 DEF DecodeItemDone
  <2> QED BY <2>1, <2>2, ItemDoneLower
<1>3. CASE DecodePairKeyDone
  <2>1. PICK o : o = Put(OrNull(dec), "pair")
      OBVIOUS
  <2>2. PICK a \in {o, Take(o)} : dec' = CallNode(Go(a, "pair value"), "other")
      BY <1>3, <2>1 DEF DecodePairKeyDone
  <2>3. Back(dec, "pair key")
      BY <1>3 DEF DecodePairKeyDone
  <2> QED BY <2>1, <2>2, <2>3, PairKeyDoneLower
<1>4. CASE DecodePairDone
    BY <1>4, PairDoneLower DEF DecodePairDone
<1> QED BY <1>1, <1>2, <1>3, <1>4

LEMMA DecodeLevelLower ==
    ASSUME Ready(dec), DecodeIndentlessEntry \/ DecodeIndentlessItem \/ DecodeIndentlessItemDone \/ DecodeCollected
    PROVE  Lower(Ahead(dec, event.tok), dec')
<1>1. CASE DecodeIndentlessEntry
  <2>1. At(dec, "indentless")
      BY <1>1 DEF DecodeIndentlessEntry
  <2>2. CASE event.tok = "Entry"
    <3>1. dec' = Go(Take(dec), "level item")
        BY <1>1, <2>2 DEF DecodeIndentlessEntry
    <3> QED BY <2>1, <3>1, LevelEntryLower
  <2>3. CASE event.tok # "Entry"
    <3>1. PICK s : s = Return(Put(dec, "end"), "node")
        OBVIOUS
    <3>2. dec' \in {s, Take(s)}
        BY <1>1, <2>3, <3>1 DEF DecodeIndentlessEntry
    <3>3. PICK t \in {"mapping", "sequence", "indentless"} : t = "indentless"
        OBVIOUS
    <3>4. At(dec, t) /\ (t = "indentless" => event.tok # "Entry")
        BY <2>1, <2>3, <3>3
    <3> QED BY <3>1, <3>2, <3>4, EndLower
  <2> QED BY <2>2, <2>3
<1>2. CASE DecodeIndentlessItem
  <2>1. At(dec, "level item") /\ dec' \in {Go(Put(dec, "null"), "indentless"), CallNode(dec, "other")}
      BY <1>2 DEF DecodeIndentlessItem
  <2> QED BY <2>1, LevelItemLower
<1>3. CASE DecodeIndentlessItemDone
    BY <1>3, LevelItemDoneLower DEF DecodeIndentlessItemDone
<1>4. CASE DecodeCollected
  <2>1. PICK s : s = Built(dec)
      OBVIOUS
  <2>2. Back(dec, "collected") /\ dec' = s
      BY <1>4, <2>1 DEF DecodeCollected
  <2>3. Lower(Ahead(dec, event.tok), s)
      BY <2>1, <2>2, CollectedLower
  <2> QED BY <2>2, <2>3
<1> QED BY <1>1, <1>2, <1>3, <1>4

LEMMA DecodeStreamLower ==
    ASSUME Ready(dec), {"mayDirect"} \subseteq DOMAIN dec,
           DecodeBetween \/ DecodeDirective \/ DecodeDocument \/ DecodeDocumentDone
    PROVE  Lower(Ahead(dec, event.tok), dec')
<1> DEFINE m == Ahead(dec, event.tok)
           t == Take(dec)
<1>1. Lower(m, Failed(dec))
    BY AheadIs, Standing, FailedLower
<1>2. IsReader(dec)
    BY DEF Ready, Shaped
<1>3. DOMAIN t = DOMAIN dec /\ t.taken = TRUE /\ \A g \in DOMAIN dec : g # "taken" => t[g] = dec[g]
    BY <1>2 DEF Take, IsReader, Fields
<1> HIDE DEF t
<1>4. CASE DecodeBetween \/ DecodeDirective
  <2> DEFINE a == [t EXCEPT !.mayDirect = t.mayDirect \/ event.tok = "DocEnd"]
             b == [t EXCEPT !.directives = t.directives \union {event.arg}]
  <2>1. /\ DOMAIN a = DOMAIN t /\ \A g \in DOMAIN t : g # "mayDirect" => a[g] = t[g]
        /\ DOMAIN b = DOMAIN t /\ \A g \in DOMAIN t : g # "directives" => b[g] = t[g]
      OBVIOUS
  <2>2. dec' = Failed(dec) \/ dec' = a \/ dec' = b
      BY <1>4 DEF DecodeBetween, DecodeDirective, t
  <2> HIDE DEF a, b
  <2>3. Beside(dec, a) /\ a.taken = TRUE /\ Beside(dec, b) /\ b.taken = TRUE
      BY <1>2, <1>3, <2>1 DEF Beside, IsReader, Fields
  <2> QED BY <1>1, <2>2, <2>3, PassedLower
<1>5. CASE DecodeDocument
  <2> DEFINE r == [dec EXCEPT !.mayDirect = FALSE]
             q == Take(r)
  <2>1. DOMAIN r = DOMAIN dec /\ \A g \in DOMAIN dec : g # "mayDirect" => r[g] = dec[g]
      OBVIOUS
  <2>2. At(dec, "stream")
      BY <1>5 DEF DecodeDocument
  <2>3. \/ dec' = CallNode(Call(q, Frame("explicit", FALSE)), "other")
        \/ dec' = Failed(dec)
        \/ dec' = CallNode(Call(r, Frame("implicit", FALSE)), "other")
      BY <1>5 DEF DecodeDocument
  <2> HIDE DEF r
  <2>4. DOMAIN q = DOMAIN r /\ q.taken = TRUE /\ \A g \in DOMAIN r : g # "taken" => q[g] = r[g]
      BY <1>2, <2>1 DEF Take, IsReader, Fields
  <2> HIDE DEF q
  <2>5. Beside(dec, r) /\ Beside(dec, q)
      BY <1>2, <2>1, <2>4 DEF Beside, IsReader, Fields
  <2>6. "explicit" \in DocumentPoints /\ "implicit" \in DocumentPoints
      BY DEF DocumentPoints
  <2>7. Lower(m, CallNode(Call(q, Frame("explicit", FALSE)), "other"))
      BY <2>2, <2>4, <2>5, <2>6, DocumentLower
  <2>8. Lower(m, CallNode(Call(r, Frame("implicit", FALSE)), "other"))
      BY <2>2, <2>5, <2>6, DocumentLower
  <2> QED BY <1>1, <2>3, <2>7, <2>8
<1>6. CASE DecodeDocumentDone
  <2> DEFINE e == [dec EXCEPT !.document = <<dec.ret = "none", dec.directives>>]
  <2>1. PICK p \in DocumentPoints : Back(dec, p) /\ p = Top(dec).at
      BY <1>6 DEF DecodeDocumentDone, DocumentPoints, Back
  <2>2. PICK q \in {dec, e} :
           LET r == Closing(Return(q, "pending"))
           IN  \/ dec' = Failed(dec)
               \/ dec' = Take(r)
               \/ dec' = [Take(r) EXCEPT !.mayDirect = TRUE]
               \/ dec' = r /\ (p = "explicit" \/ dec.ret = "node")
      BY <1>6, <2>1 DEF DecodeDocumentDone, Skipped
  <2>3. DOMAIN e = DOMAIN dec /\ \A g \in DOMAIN dec : g # "document" => e[g] = dec[g]
      OBVIOUS
  <2> HIDE DEF e
  <2>4. Beside(dec, q) /\ DOMAIN q = DOMAIN dec
      BY <1>2, <2>3 DEF Beside, IsReader, Fields
  <2> DEFINE a == Return(q, "pending")
             r == Closing(a)
             k == Take(r)
             d == [k EXCEPT !.mayDirect = TRUE]
  <2>5. DOMAIN a = DOMAIN dec
      BY <2>4 DEF Return
  <2> HIDE DEF a
  <2>6. DOMAIN r = DOMAIN dec /\ \A g \in DOMAIN dec : g \notin {"anchors", "directives"} => r[g] = a[g]
      BY <2>5 DEF Closing
  <2> HIDE DEF r
  <2>7. DOMAIN k = DOMAIN dec /\ k.taken = TRUE /\ \A g \in DOMAIN dec : g # "taken" => k[g] = r[g]
      BY <1>2, <2>6 DEF Take, IsReader, Fields
  <2> HIDE DEF k
  <2>8. DOMAIN d = DOMAIN dec /\ \A g \in DOMAIN dec : g # "mayDirect" => d[g] = k[g]
      BY <2>7
  <2> HIDE DEF d
  <2>9. d.taken = TRUE
      BY <1>2, <2>7, <2>8 DEF IsReader, Fields
  <2>10. Beside(a, r) /\ Beside(a, k) /\ Beside(a, d)
      BY <1>2, <2>5, <2>6, <2>7, <2>8 DEF Beside, IsReader, Fields
  <2>11. \A s : Beside(a, s) /\ (s.taken = TRUE \/ p = "explicit" \/ dec.ret = "node") => Lower(m, s)
      BY <2>1, <2>4, DocumentDoneLower DEF a
  <2>12. dec' = Failed(dec) \/ dec' = k \/ dec' = d \/ (dec' = r /\ (p = "explicit" \/ dec.ret = "node"))
      BY <2>2 DEF a, r, k, d
  <2> QED BY <1>1, <2>7, <2>9, <2>10, <2>11, <2>12
<1> QED BY <1>4, <1>5, <1>6

LEMMA DecodeLower ==
    ASSUME Ready(dec), {"mayDirect"} \subseteq DOMAIN dec, EventOK, Decode
    PROVE  Lower(Ahead(dec, event.tok), dec')
<1>1. CASE \/ DecodeTag \/ DecodeAnchor \/ DecodeCollectionKey \/ DecodeScalar \/ DecodeAlias
           \/ DecodeCollection \/ DecodeIndentless \/ DecodeEmpty
  <2>1. At(dec, "node")
      BY <1>1 DEF DecodeTag, DecodeAnchor, DecodeCollectionKey, DecodeScalar, DecodeAlias, DecodeCollection,
                  DecodeIndentless, DecodeEmpty
  <2> QED BY <1>1, <2>1, DecodeNodeLower
<1> QED BY <1>1, DecodeMappingLower, DecodeSequenceLower, DecodeItemLower, DecodeLevelLower, DecodeStreamLower DEF Decode

\* The composer's node takes its properties.
LEMMA OwningHolds ==
    ASSUME Shaped(com), Own, Chained(com.stack), At(com, "node")
    PROVE  Holds(com, Owning(com), Below(com), Under(com))
<1> DEFINE n == Len(com.stack)
           o == Owning(com)
           f == Top(o)
           st == [com.stack EXCEPT ![n] = f]
<1>1. /\ f \in Calls /\ f.at = "node" /\ o.stack = st /\ o.ret = com.ret /\ o.taken = com.taken
      /\ o.tag = None /\ o.anchor = None /\ DOMAIN o = DOMAIN com
    BY OwningIs DEF At
<1>2. IsReader(com) /\ com.stack \in Seq(Calls) /\ Top(com).at = "node"
    BY DEF Shaped, IsReader, At
<1>3. Poised(com, Tip(com.stack, 0), Below(com), Under(com))
    BY <1>2 DEF Poised, Below, Under, IsReader, Fields
<1>4. Tip(com.stack, 0) = "node" /\ com.stack # <<>>
    BY <1>2, <1>3, PoisedTop
<1> HIDE DEF f, o
<1>5. Fits(Tip(com.stack, 1), "node")
    BY DEF Fits, CollectionPoints, EntryPoints, MappingPoints, SequencePoints
<1>6. /\ st \in Seq(Calls) /\ Tip(st, 0) = "node" /\ Tip(st, 1) = Tip(com.stack, 1) /\ Tip(st, 2) = Tip(com.stack, 2)
      /\ Chained(st) /\ Filled(st) = Filled(com.stack)
    BY <1>1, <1>2, <1>4, <1>5, TopChanged
<1> HIDE DEF st
<1>7. Poised(o, "node", Below(com), Under(com)) /\ Filled(o.stack) = Filled(com.stack)
    BY <1>1, <1>2, <1>6 DEF Poised, Below, Under, IsReader, Fields
<1>8. Bare(o)
    BY <1>1 DEF Bare
<1> QED BY <1>1, <1>7, <1>8 DEF Holds, o

\* The composer at a node.
LEMMA ComposeNodeLower ==
    ASSUME Shaped(com), Own, Chained(com.stack), com.taken = FALSE, At(com, "node"), EventOK,
           \/ ComposeTag \/ ComposeAnchor \/ ComposeBlockKey \/ ComposeScalar \/ ComposeAlias
           \/ ComposeCollection \/ ComposeIndentless \/ ComposeEmpty
    PROVE  Lower(Ahead(com, event.tok), com')
<1> DEFINE m == Ahead(com, event.tok)
           u == Below(com)
           v == Under(com)
           w == Owning(com)
<1>1. m \in Nat /\ m > 1 /\ m > 0 /\ Poised(com, "node", u, v)
  <2>1. \A k \in Nat : k > 1 => k > 0
      OBVIOUS
  <2> QED BY <2>1, NodeAhead
<1>2. Holds(com, w, u, v)
    BY OwningHolds
<1> SUFFICES Lower(m, com')
    OBVIOUS
<1> HIDE DEF m, u, v, w
<1>3. Lower(m, Failed(com)) /\ Lower(m, Failed(w))
    BY <1>1, <1>2, FailedLower DEF Poised, Holds
<1>4. CASE ComposeTag \/ ComposeAnchor
  <2>1. CASE com' = Failed(com)
      BY <1>3, <2>1
  <2>2. CASE com'.stack = com.stack /\ At(com', "node") /\ com'.taken = TRUE
    <3>1. Settled(com') /\ Ahead(com', event.tok) = 0
        BY <2>2 DEF Settled, Ahead
    <3> QED BY <1>1, <3>1 DEF Lower
  <2> QED BY <1>4, <2>1, <2>2, ComposePropertyKeeps
<1>5. CASE ComposeBlockKey
    BY <1>3, <1>5 DEF ComposeBlockKey
<1>6. CASE ComposeScalar
  <2>1. com' = Take(Composed(Put(w, "scalar")))
      BY <1>6 DEF ComposeScalar, w
  <2> QED BY <1>1, <1>2, <2>1, ReadLower
<1>7. CASE ComposeAlias
  <2>1. com' = Failed(w) \/ com' = Take(Return(Put(w, "alias"), "node"))
      BY <1>7 DEF ComposeAlias, w
  <2> QED BY <1>1, <1>2, <1>3, <2>1, ReadLower
<1>8. CASE ComposeCollection
  <2> DEFINE flow == event.tok \in FlowOpenings
             at == IF event.tok \in {"BlockMap", "FlowMap"} THEN "mapping" ELSE "sequence"
  <2>1. com' = Take(Call(Opened(Put(w, at)), Frame(at, flow))) /\ at \in {"mapping", "sequence"} /\ flow \in BOOLEAN
      BY <1>8 DEF ComposeCollection, w
  <2> HIDE DEF at, flow
  <2> QED BY <1>1, <1>2, <2>1, ReadLower
<1>9. CASE ComposeIndentless
  <2> DEFINE x == IF com.tag = "custom" THEN "indentless" ELSE com.tag
             s == [w EXCEPT !.stack[Len(com.stack)].tag = x]
  <2>1. Poised(s, "node", u, v) /\ s.ret = w.ret /\ s.taken = w.taken /\ Filled(s.stack) = Filled(w.stack) /\ Bare(s)
    <3>1. x \in {None, "core", "custom", "indentless"}
        BY DEF Own
    <3>2. Len(com.stack) = Len(w.stack)
        BY OwningIs DEF At, w
    <3> HIDE DEF x
    <3>3. Assigned(w, Len(com.stack), x, s)
        BY <3>1 DEF Assigned
    <3> HIDE DEF s
    <3> QED BY <1>2, <3>2, <3>3, GivenPoised DEF Holds
  <2>2. event.tok = "Entry" /\ com' = Call(Opened(Put(s, "sequence")), Frame("indentless", FALSE))
      BY <1>9 DEF ComposeIndentless, IndentlessHere, w
  <2> HIDE DEF s
  <2>3. Holds(com, s, u, v) /\ s.taken = FALSE
      BY <1>2, <2>1 DEF Holds
  <2> QED BY <1>1, <2>2, <2>3, LevelOpens
<1>10. CASE ComposeEmpty
  <2>1. CASE com.tag = None /\ com.anchor = None
    <3>1. com' = Return(w, "none")
        BY <1>10, <2>1 DEF ComposeEmpty, w
    <3> QED BY <1>2, <3>1, EmptyLower DEF m, u, v
  <2>2. CASE ~(com.tag = None /\ com.anchor = None)
    <3>1. com' = Composed(Put(w, "null"))
        BY <1>10, <2>2 DEF ComposeEmpty, w
    <3>2. Owns(com)
        BY <2>2 DEF Owns, Bare, Own
    <3> QED BY <1>2, <3>1, <3>2, EmptyLower DEF m, u, v
  <2> QED BY <2>1, <2>2
<1> QED BY <1>4, <1>5, <1>6, <1>7, <1>8, <1>9, <1>10

\* The composer in a mapping.
LEMMA ComposeMappingLower ==
    ASSUME Ready(com),
           \/ ComposeMappingEnd \/ ComposeMappingComma \/ ComposeKey \/ ComposeKeyDone
           \/ ComposeBareKey \/ ComposeBareKeyDone \/ ComposeValueDone
    PROVE  Lower(Ahead(com, event.tok), com')
<1> DEFINE m == Ahead(com, event.tok)
<1>1. CASE ComposeMappingEnd
  <2>1. At(com, "mapping") /\ com' \in {Return(Put(com, "end"), "node"), Take(Return(Put(com, "end"), "node"))}
      BY <1>1 DEF ComposeMappingEnd
  <2>2. PICK s : s = Return(Put(com, "end"), "node")
      OBVIOUS
  <2>3. com' \in {s, Take(s)}
      BY <2>1, <2>2
  <2>4. PICK t \in {"mapping", "sequence", "indentless"} : t = "mapping"
      OBVIOUS
  <2>5. At(com, t) /\ (t = "indentless" => event.tok # "Entry")
      BY <2>1, <2>4
  <2> QED BY <2>2, <2>3, <2>5, EndLower
<1>2. CASE ComposeMappingComma
    BY <1>2, PairLower DEF ComposeMappingComma
<1>3. CASE ComposeKey
    BY <1>3, PairLower DEF ComposeKey
<1>4. CASE ComposeKeyDone
  <2>1. PICK o : o = OrNull(com)
      OBVIOUS
  <2>2. PICK a \in {o, Take(o)} : com' = CallNode(Go(a, "value"), "value")
      BY <1>4, <2>1 DEF ComposeKeyDone
  <2>3. Back(com, "key")
      BY <1>4 DEF ComposeKeyDone
  <2> QED BY <2>1, <2>2, <2>3, KeyDoneLower
<1>5. CASE ComposeBareKey
  <2>1. PICK x \in {"bare scalar", "bare key"}, place \in Places : com' = CallNode(Go(com, x), place)
      BY <1>5 DEF ComposeBareKey, Places
  <2>2. At(com, "mapping")
      BY <1>5 DEF ComposeBareKey
  <2> QED BY <2>1, <2>2, PairLower
<1>6. CASE ComposeBareKeyDone
  <2>1. PICK t \in BarePoints : Back(com, t)
      BY <1>6 DEF ComposeBareKeyDone, BarePoints
  <2>2. PICK o : o = OrNull(com)
      OBVIOUS
  <2>3. PICK n : n = Put(o, "null")
      OBVIOUS
  <2>4. /\ Lower(m, CallNode(Go(Take(o), "value"), "value"))
        /\ com.ret = "none" => Lower(m, Return(Put(n, "end"), "node"))
        /\ com.ret # "none" => Lower(m, Go(n, "mapping"))
      BY <2>1, <2>2, <2>3, BareKeyDoneLower
  <2>5. Lower(m, Failed(com))
      BY AheadIs, Standing, FailedLower
  <2>6. \/ com' = CallNode(Go(Take(o), "value"), "value") \/ com' = Failed(com)
        \/ com.ret = "none" /\ com' = Return(Put(n, "end"), "node")
        \/ com.ret # "none" /\ com' = Go(n, "mapping")
      BY <1>6, <2>2, <2>3 DEF ComposeBareKeyDone
  <2> HIDE DEF m
  <2>7. Lower(m, com')
      BY <2>4, <2>5, <2>6
  <2> QED BY <2>7 DEF m
<1>7. CASE ComposeValueDone
    BY <1>7, ValueDoneLower DEF ComposeValueDone
<1> QED BY <1>1, <1>2, <1>3, <1>4, <1>5, <1>6, <1>7

\* The composer in a sequence.
LEMMA ComposeSequenceLower ==
    ASSUME Ready(com), ComposeSequenceEnd \/ ComposeEntry \/ ComposeEntryDone
    PROVE  Lower(Ahead(com, event.tok), com')
<1> DEFINE m == Ahead(com, event.tok)
<1>1. CASE ComposeSequenceEnd
  <2>1. At(com, "sequence") /\ com' \in {Return(Put(com, "end"), "node"), Take(Return(Put(com, "end"), "node"))}
      BY <1>1 DEF ComposeSequenceEnd
  <2>2. PICK s : s = Return(Put(com, "end"), "node")
      OBVIOUS
  <2>3. com' \in {s, Take(s)}
      BY <2>1, <2>2
  <2>4. PICK t \in {"mapping", "sequence", "indentless"} : t = "sequence"
      OBVIOUS
  <2>5. At(com, t) /\ (t = "indentless" => event.tok # "Entry")
      BY <2>1, <2>4
  <2> QED BY <2>2, <2>3, <2>5, EndLower
<1>2. CASE ComposeEntry
  <2> DEFINE flow == Top(com).flow
  <2>1. At(com, "sequence") /\ event.tok \notin Closers
      BY <1>2 DEF ComposeEntry
  <2>2. flow \in BOOLEAN
    <3>1. Top(com) \in Calls
      <4>1. Top(com).at = "sequence" /\ Shaped(com)
          BY <2>1 DEF At, Ready
      <4>2. com.stack # <<>>
          BY <4>1 DEF Top, Frame
      <4> QED BY <4>1, <4>2, TopIs
    <3> QED BY <3>1 DEF Calls
  <2> HIDE DEF flow
  <2>3. CASE event.tok \in {"Entry", "FlowEntry"}
    <3>1. PICK to \in {"entry", "block entry"}, f \in BOOLEAN : com' = Call(Go(Take(com), "item"), Frame(to, f))
      <4>1. com' = Call(Go(Take(com), "item"), Frame("block entry", FALSE)) \/ com' = Call(Go(Take(com), "item"), Frame("entry", flow))
          BY <1>2, <2>3 DEF ComposeEntry, flow
      <4> QED BY <2>2, <4>1
    <3> QED BY <2>1, <3>1, EntryLower
  <2>4. CASE event.tok \notin {"Entry", "FlowEntry"}
    <3>1. com' = Call(Go(com, "first item"), Frame("entry", flow))
        BY <1>2, <2>4 DEF ComposeEntry, flow
    <3>2. ~NothingHere(event.tok)
        BY <2>1, <2>4 DEF NothingHere
    <3> QED BY <2>1, <2>2, <3>1, <3>2, EntryLower
  <2> QED BY <2>3, <2>4
<1>3. CASE ComposeEntryDone
  <2>1. PICK t \in ItemMarks : Back(com, t) /\ t = Top(com).at
      BY <1>3 DEF ComposeEntryDone, ItemMarks, Back
  <2>2. /\ com.ret = "none" /\ t = "first item" => Lower(m, Return(Put(com, "end"), "node"))
        /\ ~(com.ret = "none" /\ t = "first item") => Lower(m, Go(com, "sequence"))
      BY <2>1, EntryDoneLower
  <2>3. com' = IF com.ret = "none" /\ t = "first item" THEN Return(Put(com, "end"), "node") ELSE Go(com, "sequence")
      BY <1>3, <2>1 DEF ComposeEntryDone
  <2> HIDE DEF m
  <2>4. Lower(m, com')
      BY <2>2, <2>3
  <2> QED BY <2>4 DEF m
<1> QED BY <1>1, <1>2, <1>3

LEMMA ComposeItemLower ==
    ASSUME Ready(com), ComposeItem \/ ComposeItemDone \/ ComposePairKeyDone \/ ComposePairDone
    PROVE  Lower(Ahead(com, event.tok), com')
<1> DEFINE m == Ahead(com, event.tok)
<1>1. CASE ComposeItem
  <2>1. At(com, "entry")
      BY <1>1 DEF ComposeItem
  <2>2. /\ Lower(m, CallNode(Go(Take(com), "pair key"), "other"))
        /\ Lower(m, CallNode(Go(Take(Put(Put(com, "null"), "pair")), "pair value"), "other"))
        /\ Lower(m, CallNode(Go(com, "item node"), "other"))
      BY <2>1, ItemLower
  <2>3. \/ com' = CallNode(Go(Take(com), "pair key"), "other")
        \/ com' = CallNode(Go(Take(Put(Put(com, "null"), "pair")), "pair value"), "other")
        \/ com' = CallNode(Go(com, "item node"), "other")
      BY <1>1 DEF ComposeItem
  <2> HIDE DEF m
  <2>4. Lower(m, com')
      BY <2>2, <2>3
  <2> QED BY <2>4 DEF m
<1>2. CASE ComposeItemDone
  <2>1. Back(com, "item node")
      BY <1>2 DEF ComposeItemDone
  <2>2. com' = CallNode(Go(Take(Put(com, "pair")), "pair value"), "other") \/ com' = Return(com, com.ret)
      BY <1>2 DEF ComposeItemDone
  <2> QED BY <2>1, <2>2, ItemDoneLower
<1>3. CASE ComposePairKeyDone
  <2>1. PICK o : o = Put(OrNull(com), "pair")
      OBVIOUS
  <2>2. PICK a \in {o, Take(o)} : com' = CallNode(Go(a, "pair value"), "other")
      BY <1>3, <2>1 DEF ComposePairKeyDone
  <2>3. Back(com, "pair key")
      BY <1>3 DEF ComposePairKeyDone
  <2> QED BY <2>1, <2>2, <2>3, PairKeyDoneLower
<1>4. CASE ComposePairDone
    BY <1>4, PairDoneLower DEF ComposePairDone
<1> QED BY <1>1, <1>2, <1>3, <1>4

LEMMA ComposeLevelLower ==
    ASSUME Ready(com),
           \/ ComposeIndentlessEntry \/ ComposeIndentlessDone \/ ComposeCollected
           \/ ComposeBlockEntry \/ ComposeBlockEntryDone
    PROVE  Lower(Ahead(com, event.tok), com')
<1>1. CASE ComposeIndentlessEntry
  <2>1. At(com, "indentless")
      BY <1>1 DEF ComposeIndentlessEntry
  <2>2. CASE event.tok = "Entry"
    <3>1. com' = Call(Go(Take(com), "level item"), Frame("block entry", FALSE))
        BY <1>1, <2>2 DEF ComposeIndentlessEntry
    <3> QED BY <2>1, <3>1, LevelEntryLower
  <2>3. CASE event.tok # "Entry"
    <3>1. PICK s : s = Return(Put(com, "end"), "node")
        OBVIOUS
    <3>2. com' \in {s, Take(s)}
        BY <1>1, <2>3, <3>1 DEF ComposeIndentlessEntry
    <3>3. PICK t \in {"mapping", "sequence", "indentless"} : t = "indentless"
        OBVIOUS
    <3>4. At(com, t) /\ (t = "indentless" => event.tok # "Entry")
        BY <2>1, <2>3, <3>3
    <3> QED BY <3>1, <3>2, <3>4, EndLower
  <2> QED BY <2>2, <2>3
<1>2. CASE ComposeBlockEntry
  <2>1. At(com, "block entry") /\ com' \in {Return(Put(com, "null"), "node"), CallNode(com, "other")}
      BY <1>2 DEF ComposeBlockEntry
  <2> QED BY <2>1, BlockEntryLower
<1>3. CASE ComposeIndentlessDone
    BY <1>3, LevelItemDoneLower DEF ComposeIndentlessDone
<1>4. CASE ComposeCollected
  <2>1. PICK s : s = Composed(com)
      OBVIOUS
  <2>2. Back(com, "collected") /\ com' = s
      BY <1>4, <2>1 DEF ComposeCollected
  <2>3. Lower(Ahead(com, event.tok), s)
      BY <2>1, <2>2, CollectedLower
  <2> QED BY <2>2, <2>3
<1>5. CASE ComposeBlockEntryDone
    BY <1>5, BlockEntryDoneLower DEF ComposeBlockEntryDone
<1> QED BY <1>1, <1>2, <1>3, <1>4, <1>5

LEMMA ComposeStreamLower ==
    ASSUME Ready(com), Own, ComposeBetween \/ ComposeDirective \/ ComposeDocument \/ ComposeDocumentDone
    PROVE  Lower(Ahead(com, event.tok), com')
<1> DEFINE m == Ahead(com, event.tok)
           t == Take(com)
<1>1. IsReader(com)
    BY DEF Ready, Shaped
<1>2. DOMAIN t = DOMAIN com /\ t.taken = TRUE /\ \A g \in DOMAIN com : g # "taken" => t[g] = com[g]
    BY <1>1 DEF Take, IsReader, Fields
<1> HIDE DEF t
<1>3. CASE ComposeBetween \/ ComposeDirective
  <2> DEFINE b == [t EXCEPT !.directives = t.directives \union {event.arg}]
  <2>1. DOMAIN b = DOMAIN t /\ \A g \in DOMAIN t : g # "directives" => b[g] = t[g]
      OBVIOUS
  <2>2. com' = t \/ com' = b
      BY <1>3 DEF ComposeBetween, ComposeDirective, t
  <2> HIDE DEF b
  <2>3. Beside(com, t) /\ Beside(com, b) /\ b.taken = TRUE
      BY <1>1, <1>2, <2>1 DEF Beside, IsReader, Fields
  <2> QED BY <1>2, <2>2, <2>3, PassedLower
<1>4. CASE ComposeDocument
  <2> DEFINE r == [com EXCEPT !.anchors = {}]
             q == Take(r)
  <2>1. DOMAIN r = DOMAIN com /\ \A g \in DOMAIN com : g # "anchors" => r[g] = com[g]
      OBVIOUS
  <2>2. At(com, "stream")
      BY <1>4 DEF ComposeDocument
  <2>3. \/ com' = CallNode(Call(q, Frame("explicit", FALSE)), "other")
        \/ com' = CallNode(Call(r, Frame("implicit", FALSE)), "other")
      BY <1>4 DEF ComposeDocument
  <2> HIDE DEF r
  <2>4. DOMAIN q = DOMAIN r /\ q.taken = TRUE /\ \A g \in DOMAIN r : g # "taken" => q[g] = r[g]
      BY <1>1, <2>1 DEF Take, IsReader, Fields
  <2> HIDE DEF q
  <2>5. Beside(com, r) /\ Beside(com, q)
      BY <1>1, <2>1, <2>4 DEF Beside, IsReader, Fields
  <2>6. "explicit" \in DocumentPoints /\ "implicit" \in DocumentPoints
      BY DEF DocumentPoints
  <2>7. Lower(m, CallNode(Call(q, Frame("explicit", FALSE)), "other"))
      BY <2>2, <2>4, <2>5, <2>6, DocumentLower
  <2>8. Lower(m, CallNode(Call(r, Frame("implicit", FALSE)), "other"))
      BY <2>2, <2>5, <2>6, DocumentLower
  <2> QED BY <2>3, <2>7, <2>8
<1>5. CASE ComposeDocumentDone
  <2> DEFINE e == [com EXCEPT !.document = <<com.ret = "none", com.directives>>, !.directives = {}]
             d == [com EXCEPT !.directives = {}]
  <2>1. PICK p \in DocumentPoints : Back(com, p) /\ p = Top(com).at
      BY <1>5 DEF ComposeDocumentDone, DocumentPoints, Back
  <2>2. PICK q \in {com, e, d} :
           LET a == Return(q, "pending")
           IN  com' = Take(a) \/ (com' = a /\ (p = "explicit" \/ com.ret = "node"))
      BY <1>5, <2>1 DEF ComposeDocumentDone, Dropped
  <2>3. /\ DOMAIN e = DOMAIN com /\ \A g \in DOMAIN com : g \notin {"document", "directives"} => e[g] = com[g]
        /\ DOMAIN d = DOMAIN com /\ \A g \in DOMAIN com : g # "directives" => d[g] = com[g]
      OBVIOUS
  <2> HIDE DEF e, d
  <2>4. Beside(com, q) /\ DOMAIN q = DOMAIN com
      BY <1>1, <2>3 DEF Beside, IsReader, Fields
  <2> DEFINE a == Return(q, "pending")
             k == Take(a)
  <2>5. DOMAIN a = DOMAIN com
      BY <2>4 DEF Return
  <2> HIDE DEF a
  <2>6. DOMAIN k = DOMAIN com /\ k.taken = TRUE /\ \A g \in DOMAIN com : g # "taken" => k[g] = a[g]
      BY <1>1, <2>5 DEF Take, IsReader, Fields
  <2> HIDE DEF k
  <2>7. Beside(a, a) /\ Beside(a, k)
      BY <1>1, <2>5, <2>6 DEF Beside, IsReader, Fields
  <2>8. \A s : Beside(a, s) /\ (s.taken = TRUE \/ p = "explicit" \/ com.ret = "node") => Lower(m, s)
      BY <2>1, <2>4, DocumentDoneLower DEF a
  <2>9. com' = k \/ (com' = a /\ (p = "explicit" \/ com.ret = "node"))
      BY <2>2 DEF a, k
  <2> QED BY <2>6, <2>7, <2>8, <2>9
<1> QED BY <1>3, <1>4, <1>5

LEMMA ComposeLower ==
    ASSUME Shaped(com), Own, Settled(com), ~com.failed, com.taken = FALSE, EventOK, Compose
    PROVE  Lower(Ahead(com, event.tok), com')
<1>1. Chained(com.stack) /\ (Bare(com) \/ At(com, "node"))
    BY DEF Settled
<1>2. CASE \/ ComposeTag \/ ComposeAnchor \/ ComposeBlockKey \/ ComposeScalar \/ ComposeAlias
           \/ ComposeCollection \/ ComposeIndentless \/ ComposeEmpty
  <2>1. At(com, "node")
      BY <1>2 DEF ComposeTag, ComposeAnchor, ComposeBlockKey, ComposeScalar, ComposeAlias, ComposeCollection,
                  ComposeIndentless, ComposeEmpty
  <2> QED BY <1>1, <1>2, <2>1, ComposeNodeLower
<1>3. CASE InCollection
  <2>1. Ready(com)
      BY <1>1, <1>3, InCollectionInside DEF Ready
  <2> QED BY <1>3, <2>1, ComposeMappingLower, ComposeSequenceLower, ComposeItemLower, ComposeLevelLower DEF InCollection
<1>4. CASE ComposeBetween \/ ComposeDirective \/ ComposeDocument \/ ComposeDocumentDone
  <2>1. ~At(com, "node")
      BY <1>4 DEF ComposeBetween, ComposeDirective, ComposeDocument, ComposeDocumentDone, At, Back
  <2>2. Ready(com)
      BY <1>1, <2>1 DEF Ready
  <2> QED BY <1>4, <2>2, ComposeStreamLower
<1> QED BY <1>2, <1>3, <1>4 DEF Compose, InCollection
-----------------------------------------------------------------------------
\* The looks a reader has left are never more than this.
LEMMA AheadBounded ==
    ASSUME NEW r, Shaped(r), NEW tok
    PROVE  Ahead(r, tok) \in 0 .. 10 * MaxDepth + 11
<1> DEFINE C == {i \in DOMAIN r.stack : r.stack[i].at = "collected"}
           N == {i \in DOMAIN r.stack : r.stack[i].at \in NodePoints}
<1>1. DOMAIN r.stack = 1 .. Len(r.stack) /\ Len(r.stack) \in Nat
    BY TopIs
<1>2. IsFiniteSet(DOMAIN r.stack) /\ N \in SUBSET (DOMAIN r.stack) /\ C \in SUBSET N
  <2>1. IsFiniteSet(DOMAIN r.stack)
      BY <1>1, FS_Interval
  <2>2. "collected" \in NodePoints
      BY DEF NodePoints
  <2> QED BY <2>1, <2>2
<1>3. IsFiniteSet(N)
    BY <1>2, FS_Subset
<1>4. IsFiniteSet(C) /\ Cardinality(C) <= Cardinality(N)
    BY <1>2, <1>3, FS_Subset
<1>5. Cardinality(C) \in Nat /\ Cardinality(N) \in Nat
    BY <1>3, <1>4, FS_CardinalityType
<1>6. Filled(r.stack) = Cardinality(C) /\ Nested(r) = Cardinality(N)
    BY DEF Filled, Nested, NodePoints
<1> HIDE DEF C, N
<1>7. Filled(r.stack) \in 0 .. MaxDepth
    BY <1>4, <1>5, <1>6, FramesAssumption DEF Shaped
<1>8. Price(r, tok) \in 1 .. 11
  <2>1. \A t, u : Found(t) \in 1 .. 10 /\ Missing(t, u) \in 1 .. 10 /\ Starting(t, u, tok) \in 1 .. 10
      BY Prices, PricesMissing, PricesStarting
  <2> QED BY <2>1 DEF Price
<1>9. \A c, p : c \in 0 .. MaxDepth /\ p \in 1 .. 11 => 10 * c + p \in 0 .. 10 * MaxDepth + 11
    BY FramesAssumption
<1>10. Ahead(r, tok) \in {0, 1, 10 * Filled(r.stack) + Price(r, tok)}
    BY DEF Ahead
<1> QED BY <1>7, <1>8, <1>9, <1>10, FramesAssumption

\* What was looked at and what is left together stay within the bound.
LooksBound == 2 * (10 * MaxDepth + 11)
LooksInv ==
    /\ Settled(dec) /\ DOMAIN dec \intersect {"tag", "anchor"} = {}
    /\ Settled(com)
    /\ looks \in Nat /\ looks + Ahead(dec, event.tok) + Ahead(com, event.tok) <= LooksBound

LEMMA BoundIs == LooksBound \in Nat /\ \A a, b \in 0 .. 10 * MaxDepth + 11 : 0 + a + b <= LooksBound
BY FramesAssumption DEF LooksBound

\* A reader that has failed, or has nothing to do yet.
LEMMA Emptied ==
    ASSUME NEW r, r.stack = <<>>, r.taken = TRUE, r.failed = TRUE \/ Bare(r), NEW tok
    PROVE  Settled(r) /\ Ahead(r, tok) = 0
<1>1. DOMAIN r.stack = {}
    OBVIOUS
<1> QED BY <1>1 DEF Settled, Chained, Ahead

LEMMA InitLooks ==
    ASSUME Init
    PROVE  LooksInv
<1>1. dec.stack = <<>> /\ dec.taken = TRUE /\ DOMAIN dec = Fields \union {"mayDirect"}
    BY DEF Init, DecoderInit, Reader, ReaderWith, Fields
<1>2. com.stack = <<>> /\ com.taken = TRUE /\ com.tag = None /\ com.anchor = None
    BY DEF Init, ComposerInit, Reader, ReaderWith, Fields
<1>3. DOMAIN dec \intersect {"tag", "anchor"} = {}
    BY <1>1 DEF Fields
<1>4. Bare(dec) /\ Bare(com)
    BY <1>2, <1>3 DEF Bare
<1>5. Settled(dec) /\ Settled(com) /\ Ahead(dec, event.tok) = 0 /\ Ahead(com, event.tok) = 0
    BY <1>1, <1>2, <1>4, Emptied
<1>6. looks = 0
    BY Zenon DEF Init
<1>7. LooksBound \in Nat
    BY BoundIs
<1> QED BY <1>3, <1>5, <1>6, <1>7 DEF LooksInv

\* Each step of a reader leaves it less to look at, and the other as it was.
LEMMA Looked ==
    ASSUME NEW a \in Nat, NEW b \in Nat, NEW c \in Nat, NEW n \in Nat, NEW m \in Nat, c < a, n + a + b <= m
    PROVE  n + 1 \in Nat /\ n + 1 + c + b <= m /\ n + 1 + b + c <= m
OBVIOUS

LEMMA NextLooks ==
    ASSUME IInv, IInv', LooksInv, [Next]_vars
    PROVE  LooksInv'
<1>1. Shaped(dec) /\ Shaped(com) /\ Shaped(dec') /\ Shaped(com') /\ EventOK /\ {"mayDirect"} \subseteq DOMAIN dec
    BY DEF IInv, DecoderInv, ComposerInv, EventOK
<1>2. \A r, tok : Shaped(r) => Ahead(r, tok) \in 0 .. 10 * MaxDepth + 11 /\ Ahead(r, tok) \in Nat
    BY AheadBounded, FramesAssumption
<1>3. /\ Settled(dec) /\ Settled(com) /\ DOMAIN dec \intersect {"tag", "anchor"} = {} /\ Bare(dec)
      /\ looks \in Nat /\ looks + Ahead(dec, event.tok) + Ahead(com, event.tok) <= LooksBound
    BY DEF LooksInv, Bare
<1>4. LooksBound \in Nat /\ \A a, b \in 0 .. 10 * MaxDepth + 11 : 0 + a + b <= LooksBound
    BY BoundIs
<1>5. CASE Advance
  <2>1. ASSUME NEW r, Shaped(r), Settled(r), NEW s, s = [r EXCEPT !.taken = FALSE, !.out = <<>>, !.document = None]
        PROVE  Settled(s) /\ DOMAIN s = DOMAIN r
    <3>1. DOMAIN s = DOMAIN r /\ \A g \in DOMAIN r : g \notin {"taken", "out", "document"} => s[g] = r[g]
        BY <2>1
    <3>2. s.stack = r.stack /\ s.ret = r.ret /\ s.failed = r.failed
        BY <2>1, <3>1 DEF Shaped, IsReader, Fields
    <3>3. Bare(r) => Bare(s)
        BY <3>1 DEF Bare
    <3>4. Top(s) = Top(r)
        BY <3>2 DEF Top
    <3> QED BY <2>1, <3>1, <3>2, <3>3, <3>4 DEF Settled, At
  <2>2. /\ dec' = [dec EXCEPT !.taken = FALSE, !.out = <<>>, !.document = None]
        /\ com' = [com EXCEPT !.taken = FALSE, !.out = <<>>, !.document = None] \/ com' = Failed(com)
        /\ looks' = 0
      BY <1>5 DEF Advance
  <2>3. Settled(dec') /\ DOMAIN dec' = DOMAIN dec
      BY <1>1, <1>3, <2>1, <2>2
  <2>4. Settled(com')
    <3>1. CASE com' = Failed(com)
      <4>1. {"stack", "taken", "failed"} \subseteq DOMAIN com
          BY <1>1 DEF Shaped, IsReader, Fields
      <4>2. com'.stack = <<>> /\ com'.taken = TRUE /\ com'.failed = TRUE
          BY <3>1, <4>1 DEF Failed
      <4> QED BY <4>2, Emptied
    <3> QED BY <1>1, <1>3, <2>1, <2>2, <3>1
  <2>5. 0 + Ahead(dec', event'.tok) + Ahead(com', event'.tok) <= LooksBound
      BY <1>1, <1>2, <1>4
  <2> QED BY <1>3, <2>2, <2>3, <2>4, <2>5 DEF LooksInv, LooksBound
<1>6. CASE Decoding
  <2>1. Decode /\ looks' = looks + 1 /\ event' = event /\ com' = com /\ dec.taken = FALSE /\ ~dec.failed
    <3>1. Decode /\ looks' = looks + 1 /\ event' = event /\ com' = com
        BY <1>6 DEF Decoding
    <3>2. ~dec.taken /\ ~dec.failed /\ dec.taken \in BOOLEAN
        BY <1>1, <3>1 DEF Decode, Looks, Shaped, IsReader
    <3> QED BY <3>1, <3>2
  <2>2. Ready(dec)
      BY <1>1, <1>3, <2>1 DEF Ready, Settled
  <2>3. Settled(dec') /\ Ahead(dec', event.tok) < Ahead(dec, event.tok)
      BY <1>1, <2>1, <2>2, DecodeLower DEF Lower
  <2>4. DOMAIN dec' = DOMAIN dec
      BY <2>1, DecodeFields
  <2>5. Ahead(dec, event.tok) \in Nat /\ Ahead(dec', event.tok) \in Nat /\ Ahead(com, event.tok) \in Nat
      BY <1>1, <1>2
  <2>6. looks + 1 \in Nat /\ looks + 1 + Ahead(dec', event.tok) + Ahead(com, event.tok) <= LooksBound
      BY <1>3, <1>4, <2>3, <2>5, Looked
  <2> QED BY <1>3, <2>1, <2>3, <2>4, <2>6 DEF LooksInv, LooksBound
<1>7. CASE Composing
  <2>1. /\ Compose /\ looks' = looks + 1 /\ event' = event /\ dec' = dec
        /\ com.taken = FALSE /\ ~com.failed
    <3>1. Compose /\ looks' = looks + 1 /\ event' = event /\ dec' = dec
        BY <1>7 DEF Composing
    <3>2. ~com.taken /\ ~com.failed /\ com.taken \in BOOLEAN
        BY <1>1, <3>1 DEF Compose, Shaped, IsReader
    <3> QED BY <3>1, <3>2
  <2>2. Own
      BY <2>1 DEF IInv, ComposerInv
  <2>3. Settled(com') /\ Ahead(com', event.tok) < Ahead(com, event.tok)
      BY <1>1, <1>3, <2>1, <2>2, ComposeLower DEF Lower
  <2>4. Ahead(dec, event.tok) \in Nat /\ Ahead(com, event.tok) \in Nat /\ Ahead(com', event.tok) \in Nat
      BY <1>1, <1>2
  <2>5. looks + Ahead(com, event.tok) + Ahead(dec, event.tok) <= LooksBound
      BY <1>3, <1>4, <2>4
  <2>6. looks + 1 \in Nat /\ looks + 1 + Ahead(dec, event.tok) + Ahead(com', event.tok) <= LooksBound
      BY <1>3, <1>4, <2>3, <2>4, <2>5, Looked
  <2> QED BY <1>3, <2>1, <2>3, <2>6 DEF LooksInv, LooksBound
<1>8. CASE UNCHANGED vars
    BY <1>3, <1>8 DEF vars, LooksInv, LooksBound
<1> QED BY <1>5, <1>6, <1>7, <1>8 DEF Next

\* No loop of decode_node, decode_mapping, decode_sequence and the rest, nor of
\* their counterparts in the composer, stands on an event for ever: between two
\* calls of next_event both readers together look at it no more than a number of
\* times that is linear in MAX_DEPTH, whatever the text, and neither gets deeper
\* than MAX_DEPTH.
THEOREM ReadersMoveOnAlways == Spec => []ReadersMoveOn
<1>1. Init => LooksInv
    BY InitLooks
<1>2. IInv /\ IInv' /\ LooksInv /\ [Next]_vars => LooksInv'
    BY NextLooks
<1>3. IInv /\ LooksInv => ReadersMoveOn
  <2> SUFFICES ASSUME IInv, LooksInv PROVE ReadersMoveOn
      OBVIOUS
  <2>1. Shaped(dec) /\ Shaped(com)
      BY DEF IInv, DecoderInv, ComposerInv
  <2>2. Nested(dec) <= MaxDepth /\ Nested(com) <= MaxDepth
      BY <2>1 DEF Shaped
  <2>3. Ahead(dec, event.tok) \in 0 .. 10 * MaxDepth + 11 /\ Ahead(com, event.tok) \in 0 .. 10 * MaxDepth + 11
      BY <2>1, AheadBounded
  <2>4. looks <= 2 * (10 * MaxDepth + 11)
    <3>1. looks \in Nat /\ looks + Ahead(dec, event.tok) + Ahead(com, event.tok) <= LooksBound
        BY DEF LooksInv
    <3>2. \A n \in Nat, a, b \in 0 .. 10 * MaxDepth + 11 : n + a + b <= LooksBound => n <= LooksBound
        BY BoundIs, FramesAssumption
    <3> QED BY <2>3, <3>1, <3>2 DEF LooksBound
  <2> QED BY <2>2, <2>4 DEF ReadersMoveOn
<1> QED BY <1>1, <1>2, <1>3, ReadersInvariant, PTL DEF Spec
-----------------------------------------------------------------------------
(***************************************************************************)
(* The decoder and the collections of the text.  What the decoder reads is  *)
(* followed call by call: c, called in e where "before" was being read, has *)
(* "opened" read.  The items of a sequence without brackets are read where  *)
(* no flow collection is, and a first item without a mark in the call of an *)
(* entry of its own kind.                                                   *)
(***************************************************************************)
Outside == Frame("stream", FALSE)
Outer(q, i) == IF i = 0 THEN Outside ELSE q[i]
Down(q, k) == Outer(q, IF k < Len(q) THEN Len(q) - k ELSE 0)

WithOpener(opened, c) == IF Opener(c) = "none" THEN opened ELSE Append(opened, Opener(c))
Blocks(opened) == \A i \in DOMAIN opened : opened[i] \notin FlowOpenings
LevelPoints == {"indentless", "level item"}
Nests(e, c) ==
    /\ Fits(e.at, c.at)
    /\ e.at = "stream" <=> c.at \in DocumentPoints
    /\ e.at = "first item" => c.at \in EntryPoints /\ c.flow = e.flow
Reads(e, c, before, opened) ==
    /\ before \in Seq(Openers) /\ opened = WithOpener(before, c)
    /\ c.at \in LevelPoints => Blocks(before)
    /\ Nests(e, c)
Walks(q, n) == n[0] = <<>> /\ \A i \in 1 .. Len(q) : Reads(Outer(q, i - 1), q[i], n[i - 1], n[i])
Stands(q, opened) == \E n : Walks(q, n) /\ opened = n[Len(q)]

\* What the stack reads is what Reading tells.
LEMMA StandsReading ==
    ASSUME NEW r, r.stack \in Seq(Calls), NEW opened, Stands(r.stack, opened)
    PROVE  Reading(r) = opened
<1> DEFINE q == r.stack
           Step(a, i) == LET opener == Opener(q[i]) IN IF opener = "none" THEN a ELSE Append(a, opener)
           reading == CHOOSE f : f = [i \in 0 .. Len(q) |-> IF i = 0 THEN <<>> ELSE Step(f[i - 1], i)]
<1>1. PICK n : Walks(q, n) /\ opened = n[Len(q)]
    BY DEF Stands
<1>2. Len(q) \in Nat
    OBVIOUS
<1>3. Reading(r) = reading[Len(q)]
    BY DEF Reading
<1>4. \A a, i : Step(a, i) = WithOpener(a, q[i])
    BY DEF WithOpener
<1>5. n[0] = <<>> /\ \A i \in 1 .. Len(q) : n[i] = Step(n[i - 1], i)
    BY <1>1, <1>4 DEF Walks, Reads
<1> HIDE DEF q, Step
<1> DEFINE m == [i \in 0 .. Len(q) |-> n[i]]
<1>6. /\ \A i : i \in 0 .. Len(q) <=> i = 0 \/ i \in 1 .. Len(q)
      /\ \A i \in 1 .. Len(q) : i # 0 /\ i - 1 \in 0 .. Len(q)
      /\ Len(q) \in 0 .. Len(q)
    BY <1>2
<1>7. m = [i \in 0 .. Len(q) |-> IF i = 0 THEN <<>> ELSE Step(m[i - 1], i)]
  <2>1. \A i \in 0 .. Len(q) : n[i] = IF i = 0 THEN <<>> ELSE Step(m[i - 1], i)
      BY <1>5, <1>6
  <2> QED BY <2>1
<1> HIDE DEF m
<1>8. reading = [i \in 0 .. Len(q) |-> IF i = 0 THEN <<>> ELSE Step(reading[i - 1], i)]
    BY <1>7, Zenon
<1> HIDE DEF reading
<1>9. /\ reading[0] = <<>> /\ \A i \in 1 .. Len(q) : reading[i] = Step(reading[i - 1], i)
    BY <1>6, <1>8
<1> DEFINE T == {i \in Nat : i \in 0 .. Len(q) => reading[i] = n[i]}
<1>10. 0 \in T
    BY <1>5, <1>9
<1>11. ASSUME NEW i \in Nat, i \in T PROVE i + 1 \in T
  <2> SUFFICES ASSUME i + 1 \in 0 .. Len(q) PROVE reading[i + 1] = n[i + 1]
      OBVIOUS
  <2>1. i \in 0 .. Len(q) /\ i + 1 \in 1 .. Len(q) /\ (i + 1) - 1 = i
      BY <1>2
  <2>2. reading[i] = n[i]
      BY <1>11, <2>1
  <2> QED BY <1>5, <1>9, <2>1, <2>2
<1> HIDE DEF T
<1>12. Len(q) \in T
    BY <1>2, <1>10, <1>11, NatSetInduction
<1> QED BY <1>1, <1>3, <1>6, <1>12 DEF T

\* A stack and a call on top of it.
Piled(q, c, s) ==
    /\ s \in Seq(Calls) /\ s # <<>>
    /\ Down(s, 0) = c /\ Down(s, 1) = Down(q, 0) /\ Down(s, 2) = Down(q, 1)
    /\ \A opened : Stands(s, opened) <=> \E before : Stands(q, before) /\ Reads(Down(q, 0), c, before, opened)

LEMMA Stacked ==
    ASSUME NEW q \in Seq(Calls), NEW c \in Calls
    PROVE  Piled(q, c, Append(q, c))
<1> DEFINE k == Len(q)
           s == Append(q, c)
<1>1. k \in Nat /\ s \in Seq(Calls) /\ Len(s) = k + 1 /\ s[k + 1] = c /\ \A i \in 1 .. k : s[i] = q[i]
    BY AppendIs
<1>0. k = Len(q)
    OBVIOUS
<1> HIDE DEF k, s
<1>2. s # <<>>
    BY <1>1
<1>3. Down(s, 0) = c
  <2>1. 0 < k + 1 /\ k + 1 - 0 = k + 1 /\ k + 1 # 0
      BY <1>1
  <2> QED BY <1>1, <2>1 DEF Down, Outer
<1>4. Down(s, 1) = Down(q, 0) /\ Down(s, 2) = Down(q, 1)
  <2>1. /\ 1 < k + 1 <=> 0 < k
        /\ 2 < k + 1 <=> 1 < k
        /\ k + 1 - 1 = k - 0 /\ k + 1 - 2 = k - 1
        /\ 0 < k => k - 0 \in 1 .. k
        /\ 1 < k => k - 1 \in 1 .. k
      BY <1>1
  <2> QED BY <1>0, <1>1, <2>1 DEF Down, Outer
<1>5. /\ \A i : i \in 1 .. k + 1 <=> i \in 1 .. k \/ i = k + 1
      /\ \A i \in 1 .. k : i # k + 1 /\ i - 1 # k + 1 /\ (i - 1 = 0 \/ i - 1 \in 1 .. k)
      /\ (k + 1) - 1 = k /\ k # k + 1 /\ 0 # k + 1
    BY <1>1
<1>6. Outer(s, k) = Down(q, 0) /\ \A i \in 1 .. k : Outer(s, i - 1) = Outer(q, i - 1) /\ s[i] = q[i]
  <2>1. k # 0 => k \in 1 .. k /\ 0 < k /\ k - 0 = k
      BY <1>1
  <2>2. k = 0 => ~(0 < k)
      BY <1>1
  <2> QED BY <1>0, <1>1, <1>5, <2>1, <2>2 DEF Outer, Down
<1>7. ASSUME NEW opened, Stands(s, opened)
      PROVE  \E before : Stands(q, before) /\ Reads(Down(q, 0), c, before, opened)
  <2>1. PICK n : Walks(s, n) /\ opened = n[k + 1]
      BY <1>1, <1>7 DEF Stands
  <2>2. n[0] = <<>> /\ \A i \in 1 .. k + 1 : Reads(Outer(s, i - 1), s[i], n[i - 1], n[i])
      BY <1>1, <2>1 DEF Walks
  <2>3. Reads(Down(q, 0), c, n[k], opened)
      BY <1>1, <1>5, <1>6, <2>1, <2>2
  <2>4. \A i \in 1 .. k : Reads(Outer(q, i - 1), q[i], n[i - 1], n[i])
    <3> TAKE i \in 1 .. k
    <3>1. Reads(Outer(s, i - 1), s[i], n[i - 1], n[i])
        BY <1>5, <2>2
    <3>2. Outer(s, i - 1) = Outer(q, i - 1) /\ s[i] = q[i]
        BY <1>6
    <3> QED BY <3>1, <3>2
  <2>5. Stands(q, n[k])
      BY <1>0, <2>2, <2>4 DEF Stands, Walks
  <2> QED BY <2>3, <2>5
<1>8. ASSUME NEW opened, NEW before, Stands(q, before), Reads(Down(q, 0), c, before, opened)
      PROVE  Stands(s, opened)
  <2>1. PICK n : Walks(q, n) /\ before = n[k]
      BY <1>0, <1>8 DEF Stands
  <2>2. n[0] = <<>> /\ \A i \in 1 .. k : Reads(Outer(q, i - 1), q[i], n[i - 1], n[i])
      BY <1>0, <2>1 DEF Walks
  <2> DEFINE m == [i \in 0 .. k + 1 |-> IF i = k + 1 THEN opened ELSE n[i]]
  <2>3. /\ k + 1 \in 0 .. k + 1 /\ 0 \in 0 .. k + 1 /\ k \in 0 .. k + 1
        /\ \A i \in 1 .. k : i \in 0 .. k + 1 /\ i - 1 \in 0 .. k + 1
      BY <1>1
  <2>4. /\ m[k + 1] = opened /\ m[0] = <<>> /\ m[k] = before
        /\ \A i \in 1 .. k : m[i] = n[i] /\ m[i - 1] = n[i - 1]
      BY <1>5, <2>1, <2>2, <2>3
  <2> HIDE DEF m
  <2>5. ASSUME NEW i \in 1 .. k + 1 PROVE Reads(Outer(s, i - 1), s[i], m[i - 1], m[i])
    <3>1. CASE i = k + 1
        BY <1>1, <1>5, <1>6, <1>8, <2>4, <3>1
    <3>2. CASE i \in 1 .. k
      <4>1. Outer(s, i - 1) = Outer(q, i - 1) /\ s[i] = q[i]
          BY <1>6, <3>2
      <4> QED BY <2>2, <2>4, <3>2, <4>1
    <3> QED BY <1>5, <3>1, <3>2
  <2> QED BY <1>1, <2>4, <2>5 DEF Stands, Walks
<1> QED BY <1>1, <1>2, <1>3, <1>4, <1>7, <1>8 DEF Piled, s

\* An empty stack, and one with a call on top.
LEMMA StandsEmpty == \A opened : Stands(<<>>, opened) <=> opened = <<>>
<1>1. Len(<<>>) = 0 /\ 1 .. 0 = {}
    OBVIOUS
<1>2. ASSUME NEW opened, Stands(<<>>, opened) PROVE opened = <<>>
    BY <1>1, <1>2 DEF Stands, Walks
<1> DEFINE n == [i \in {0} |-> <<>>]
<1>3. n[0] = <<>>
    OBVIOUS
<1> HIDE DEF n
<1>4. Walks(<<>>, n)
    BY <1>1, <1>3 DEF Walks
<1> QED BY <1>1, <1>2, <1>3, <1>4 DEF Stands

LEMMA DownEmpty == \A k \in {0, 1, 2} : Down(<<>>, k) = Outside
BY DEF Down, Outer

-----------------------------------------------------------------------------
(***************************************************************************)
(* The decoder reads what the text has open (held), unless it has lost some *)
(* of the outermost collections: what it still reads then agrees with the   *)
(* innermost of the text in every flow collection of either, and what is    *)
(* lost has no flow collection.                                             *)
(***************************************************************************)
Flows(held) == \A i, j \in DOMAIN held : i < j /\ held[i] \in FlowOpenings => held[j] \in FlowOpenings
Trails(opened, held, d) ==
    /\ Len(held) = Len(opened) + d
    /\ \A i \in 1 .. d : held[i] \notin FlowOpenings
    /\ \A i \in 1 .. Len(opened) :
         opened[i] \in FlowOpenings \/ held[i + d] \in FlowOpenings => opened[i] = held[i + d]
Matches(opened, held) == opened = held \/ \E d \in Nat \ {0} : Trails(opened, held, d)

LEMMA MatchesShorter ==
    ASSUME NEW opened \in Seq(Openers), NEW held \in Seq(Openers), Matches(opened, held)
    PROVE  opened = held \/ Len(opened) < Len(held)
<1>1. Len(opened) \in Nat
    OBVIOUS
<1> QED BY <1>1 DEF Matches, Trails

\* A collection is opened in the text, and the decoder calls for it.
LEMMA OpenedMatches ==
    ASSUME NEW opened \in Seq(Openers), NEW held \in Seq(Openers), Matches(opened, held), Flows(held),
           NEW x \in Openers, x \in BlockOpeners => Innermost(held) \notin FlowOpenings
    PROVE  /\ Matches(Append(opened, x), Append(held, x)) /\ Flows(Append(held, x))
           /\ Len(opened) < Len(held) => Len(Append(opened, x)) < Len(Append(held, x))
<1> DEFINE s == Append(opened, x)
           t == Append(held, x)
           k == Len(opened)
           n == Len(held)
<1>1. k \in Nat /\ Len(s) = k + 1 /\ s[k + 1] = x /\ \A i \in 1 .. k : s[i] = opened[i]
    BY AppendIs
<1>2. n \in Nat /\ Len(t) = n + 1 /\ DOMAIN t = 1 .. n + 1 /\ t[n + 1] = x /\ \A i \in 1 .. n : t[i] = held[i]
    BY AppendIs
<1>3. DOMAIN held = 1 .. n
    OBVIOUS
<1>0. k = Len(opened) /\ n = Len(held)
    OBVIOUS
<1>4. opened = held => s = t
    OBVIOUS
<1> HIDE DEF s, t, k, n
<1>5. Matches(s, t)
  <2>1. CASE opened = held
      BY <1>4, <2>1 DEF Matches
  <2>2. CASE opened # held
    <3>1. PICK d \in Nat \ {0} : Trails(opened, held, d)
        BY <2>2 DEF Matches
    <3>2. /\ n = k + d
          /\ \A i \in 1 .. d : held[i] \notin FlowOpenings
          /\ \A i \in 1 .. k : opened[i] \in FlowOpenings \/ held[i + d] \in FlowOpenings => opened[i] = held[i + d]
        BY <1>0, <3>1 DEF Trails
    <3>3. /\ \A i \in 1 .. d : i \in 1 .. n
          /\ \A i \in 1 .. k : i + d \in 1 .. n
          /\ \A i \in 1 .. k + 1 : i \in 1 .. k \/ i = k + 1
          /\ k + 1 + d = n + 1
        BY <1>1, <3>2
    <3>4. Trails(s, t, d)
      <4>1. \A i \in 1 .. d : t[i] \notin FlowOpenings
          BY <1>2, <3>2, <3>3
      <4>2. \A i \in 1 .. k + 1 : s[i] \in FlowOpenings \/ t[i + d] \in FlowOpenings => s[i] = t[i + d]
          BY <1>1, <1>2, <3>2, <3>3
      <4>3. Len(t) = Len(s) + d
          BY <1>1, <1>2, <3>2
      <4> QED BY <1>1, <4>1, <4>2, <4>3 DEF Trails
    <3> QED BY <3>4 DEF Matches
  <2> QED BY <2>1, <2>2
<1>6. Flows(t)
  <2> SUFFICES ASSUME NEW i \in 1 .. n + 1, NEW j \in 1 .. n + 1, i < j, t[i] \in FlowOpenings
               PROVE  t[j] \in FlowOpenings
      BY <1>2 DEF Flows
  <2>1. i \in 1 .. n /\ n # 0 /\ n \in 1 .. n /\ (j \in 1 .. n \/ j = n + 1)
      BY <1>2
  <2>2. held[i] \in FlowOpenings
      BY <1>2, <2>1
  <2>3. CASE j \in 1 .. n
      BY <1>2, <1>3, <2>1, <2>2, <2>3 DEF Flows
  <2>4. CASE j = n + 1
    <3>1. i = n \/ i < n
        BY <2>1
    <3>2. held[n] \in FlowOpenings
        BY <1>3, <2>1, <2>2, <3>1 DEF Flows
    <3>3. Innermost(held) = held[n]
        BY <1>0, <2>1 DEF Innermost
    <3>4. x \in FlowOpenings
        BY <3>2, <3>3 DEF Openers
    <3> QED BY <1>2, <2>4, <3>4
  <2> QED BY <2>1, <2>3, <2>4
<1>7. k < n => Len(s) < Len(t)
    BY <1>1, <1>2
<1> QED BY <1>0, <1>5, <1>6, <1>7 DEF s, t

\* A collection is closed in the text, and its call returns.
LEMMA ClosedMatches ==
    ASSUME NEW opened \in Seq(Openers), NEW held \in Seq(Openers), NEW x \in Openers, NEW y \in Openers,
           Matches(Append(opened, x), Append(held, y)), Flows(Append(held, y))
    PROVE  /\ Matches(opened, held) /\ Flows(held)
           /\ Len(Append(opened, x)) < Len(Append(held, y)) => Len(opened) < Len(held)
<1> DEFINE s == Append(opened, x)
           t == Append(held, y)
           k == Len(opened)
           n == Len(held)
<1>1. k \in Nat /\ Len(s) = k + 1 /\ \A i \in 1 .. k : s[i] = opened[i]
    BY AppendIs
<1>2. n \in Nat /\ Len(t) = n + 1 /\ DOMAIN t = 1 .. n + 1 /\ \A i \in 1 .. n : t[i] = held[i]
    BY AppendIs
<1>3. DOMAIN held = 1 .. n
    OBVIOUS
<1>0. k = Len(opened) /\ n = Len(held)
    OBVIOUS
<1>4. \A i \in 1 .. n : i \in 1 .. n + 1
    BY <1>2
<1>5. Flows(t) /\ Matches(s, t)
    OBVIOUS
<1>6. s = t => opened = held
  <2> HIDE DEF k, n
  <2> SUFFICES ASSUME s = t PROVE opened = held
      OBVIOUS
  <2>1. k = n
      BY <1>1, <1>2
  <2>2. \A i \in 1 .. k : opened[i] = held[i]
      BY <1>1, <1>2, <2>1
  <2> QED BY <1>0, <2>1, <2>2, SeqEqual
<1> HIDE DEF s, t, k, n
<1>7. Flows(held)
  <2>1. \A i, j \in 1 .. n : i < j /\ held[i] \in FlowOpenings => held[j] \in FlowOpenings
      BY <1>2, <1>4, <1>5 DEF Flows
  <2> QED BY <1>3, <2>1 DEF Flows
<1>8. Matches(opened, held)
  <2>1. CASE s = t
      BY <1>6, <2>1 DEF Matches
  <2>2. CASE s # t
    <3>1. PICK d \in Nat \ {0} : Trails(s, t, d)
        BY <1>5, <2>2 DEF Matches
    <3>2. /\ n + 1 = k + 1 + d
          /\ \A i \in 1 .. d : t[i] \notin FlowOpenings
          /\ \A i \in 1 .. k + 1 : s[i] \in FlowOpenings \/ t[i + d] \in FlowOpenings => s[i] = t[i + d]
        BY <1>1, <1>2, <3>1 DEF Trails
    <3>3. /\ n = k + d
          /\ \A i \in 1 .. d : i \in 1 .. n
          /\ \A i \in 1 .. k : i + d \in 1 .. n /\ i \in 1 .. k + 1
        BY <1>1, <1>2, <3>2
    <3>4. \A i \in 1 .. d : held[i] \notin FlowOpenings
        BY <1>2, <3>2, <3>3
    <3>5. \A i \in 1 .. k : opened[i] \in FlowOpenings \/ held[i + d] \in FlowOpenings => opened[i] = held[i + d]
        BY <1>1, <1>2, <3>2, <3>3
    <3>6. Trails(opened, held, d)
        BY <1>0, <3>3, <3>4, <3>5 DEF Trails
    <3> QED BY <3>6 DEF Matches
  <2> QED BY <2>1, <2>2
<1>9. Len(s) < Len(t) => k < n
    BY <1>1, <1>2
<1> QED BY <1>0, <1>7, <1>8, <1>9 DEF s, t

\* The innermost collections, when the decoder reads one.
LEMMA LastMatches ==
    ASSUME NEW opened \in Seq(Openers), NEW held \in Seq(Openers), NEW x \in Openers,
           Matches(Append(opened, x), held)
    PROVE  /\ held # <<>> /\ Innermost(held) \in Openers
           /\ x \in FlowOpenings \/ Innermost(held) \in FlowOpenings => Innermost(held) = x
<1> DEFINE s == Append(opened, x)
           k == Len(opened)
           n == Len(held)
<1>1. k \in Nat /\ Len(s) = k + 1 /\ s[k + 1] = x /\ s # <<>>
    BY AppendIs
<1>2. n \in Nat /\ Matches(s, held)
    OBVIOUS
<1>0. n = Len(held)
    OBVIOUS
<1> HIDE DEF s, k, n
<1>3. n # 0 /\ (x \in FlowOpenings \/ held[n] \in FlowOpenings => held[n] = x)
  <2>1. CASE s = held
    <3>1. n = k + 1
        BY <1>0, <1>1, <2>1
    <3> QED BY <1>1, <2>1, <3>1
  <2>2. CASE s # held
    <3>1. PICK d \in Nat \ {0} : Trails(s, held, d)
        BY <1>2, <2>2 DEF Matches
    <3>2. n = k + 1 + d /\ k + 1 \in 1 .. k + 1
        BY <1>0, <1>1, <3>1 DEF Trails
    <3>3. s[k + 1] \in FlowOpenings \/ held[k + 1 + d] \in FlowOpenings => s[k + 1] = held[k + 1 + d]
        BY <1>1, <3>1, <3>2 DEF Trails
    <3> QED BY <1>1, <3>2, <3>3
  <2> QED BY <2>1, <2>2
<1>4. n \in 1 .. n
    BY <1>2, <1>3
<1> QED BY <1>0, <1>3, <1>4 DEF Innermost

\* The decoder leaves a block collection before the text does.
LEMMA LeftMatches ==
    ASSUME NEW opened \in Seq(Openers), NEW held \in Seq(Openers), NEW x \in Openers,
           Matches(Append(opened, x), held), Flows(held), x \notin FlowOpenings
    PROVE  Matches(opened, held) /\ Len(opened) < Len(held)
<1> DEFINE s == Append(opened, x)
           k == Len(opened)
           n == Len(held)
<1>1. k \in Nat /\ Len(s) = k + 1 /\ s[k + 1] = x /\ \A i \in 1 .. k : s[i] = opened[i]
    BY AppendIs
<1>2. n \in Nat /\ Matches(s, held) /\ DOMAIN held = 1 .. n
    OBVIOUS
<1>3. held # <<>> /\ (Innermost(held) \in FlowOpenings => Innermost(held) = x)
    BY LastMatches
<1>0. n = Len(held) /\ k = Len(opened)
    OBVIOUS
<1> HIDE DEF s, k, n
<1>4. n # 0 /\ n \in 1 .. n /\ held[n] \notin FlowOpenings
  <2>1. n # 0
      BY <1>0, <1>3
  <2>2. n \in 1 .. n
      BY <1>2, <2>1
  <2> QED BY <1>0, <1>3, <2>1, <2>2 DEF Innermost
<1>5. ASSUME NEW i \in 1 .. n PROVE held[i] \notin FlowOpenings
  <2>1. i = n \/ i < n
      BY <1>2
  <2> QED BY <1>2, <1>4, <2>1 DEF Flows
<1>6. PICK d \in Nat : n = k + 1 + d /\ \A i \in 1 .. k : opened[i] \notin FlowOpenings
  <2>1. CASE s = held
    <3>1. n = k + 1 + 0
        BY <1>0, <1>1, <2>1
    <3>2. \A i \in 1 .. k : i \in 1 .. n /\ opened[i] = held[i]
        BY <1>1, <2>1, <3>1
    <3> QED BY <1>5, <3>1, <3>2
  <2>2. CASE s # held
    <3>1. PICK d \in Nat \ {0} : Trails(s, held, d)
        BY <1>2, <2>2 DEF Matches
    <3>2. n = k + 1 + d /\ \A i \in 1 .. k : i \in 1 .. k + 1 /\ i + d \in 1 .. n
        BY <1>0, <1>1, <3>1 DEF Trails
    <3>3. \A i \in 1 .. k : s[i] \in FlowOpenings => s[i] = held[i + d]
        BY <1>1, <3>1, <3>2 DEF Trails
    <3> QED BY <1>1, <1>5, <3>2, <3>3
  <2> QED BY <2>1, <2>2
<1>7. /\ n = k + (d + 1) /\ d + 1 \in Nat \ {0} /\ k < n
      /\ \A i \in 1 .. d + 1 : i \in 1 .. n
      /\ \A i \in 1 .. k : i + (d + 1) \in 1 .. n
    BY <1>1, <1>6
<1>8. Trails(opened, held, d + 1)
    BY <1>0, <1>5, <1>6, <1>7 DEF Trails
<1> QED BY <1>0, <1>7, <1>8 DEF Matches

\* Where the text is in no flow collection, the decoder is not either, and the
\* other way round.
LEMMA BlocksMatch ==
    ASSUME NEW opened \in Seq(Openers), NEW held \in Seq(Openers), Matches(opened, held), Flows(held)
    PROVE  /\ Innermost(held) \notin FlowOpenings => Blocks(opened)
           /\ Blocks(opened) => Innermost(held) \notin FlowOpenings
           /\ held = <<>> => opened = <<>>
<1> DEFINE k == Len(opened)
           n == Len(held)
<1>1. k \in Nat /\ n \in Nat /\ DOMAIN held = 1 .. n /\ DOMAIN opened = 1 .. k
    OBVIOUS
<1>0. n = Len(held) /\ k = Len(opened) /\ (k = 0 => opened = <<>>) /\ (n = 0 <=> held = <<>>)
    OBVIOUS
<1> HIDE DEF k, n
<1>2. PICK d \in Nat : n = k + d /\ (\A i \in 1 .. d : held[i] \notin FlowOpenings)
                      /\ \A i \in 1 .. k : opened[i] \in FlowOpenings \/ held[i + d] \in FlowOpenings => opened[i] = held[i + d]
  <2>1. CASE opened = held
    <3>1. n = k + 0 /\ \A i \in 1 .. k : i + 0 = i
        BY <1>0, <1>1, <2>1
    <3>2. \A i \in 1 .. 0 : FALSE
        OBVIOUS
    <3> QED BY <2>1, <3>1, <3>2
  <2>2. CASE opened # held
      BY <1>0, <2>2 DEF Matches, Trails
  <2> QED BY <2>1, <2>2
<1>3. held # <<>> => n \in 1 .. n /\ Innermost(held) = held[n]
  <2>1. n # 0 => n \in 1 .. n
      BY <1>1
  <2> QED BY <1>0, <2>1 DEF Innermost
<1>4. held = <<>> => opened = <<>> /\ k = 0
    BY <1>0, <1>1, <1>2
<1>5. ASSUME Innermost(held) \notin FlowOpenings, NEW i \in 1 .. k PROVE opened[i] \notin FlowOpenings
  <2>1. held # <<>>
      BY <1>4
  <2>2. i + d \in 1 .. n /\ (i + d = n \/ i + d < n)
      BY <1>1, <1>2
  <2>3. held[i + d] \notin FlowOpenings
      BY <1>1, <1>3, <1>5, <2>1, <2>2 DEF Flows
  <2> QED BY <1>2, <2>3
<1>6. ASSUME Blocks(opened) PROVE Innermost(held) \notin FlowOpenings
  <2>1. CASE held = <<>>
      BY <2>1 DEF Innermost, FlowOpenings
  <2>2. CASE held # <<>> /\ k = 0
    <3>1. n \in 1 .. d
        BY <1>1, <1>2, <1>3, <2>2
    <3> QED BY <1>2, <1>3, <2>2, <3>1
  <2>3. CASE held # <<>> /\ k # 0
    <3>1. k \in 1 .. k /\ k + d = n
        BY <1>1, <1>2, <2>3
    <3>2. opened[k] \notin FlowOpenings
        BY <1>1, <1>6, <3>1 DEF Blocks
    <3> QED BY <1>2, <1>3, <2>3, <3>1, <3>2
  <2> QED BY <2>1, <2>2, <2>3
<1> QED BY <1>1, <1>4, <1>5, <1>6 DEF Blocks

-----------------------------------------------------------------------------
\* The reader is in the call f, called in g, and that in h; it reads the
\* collections "opened".
Core == {"stack", "ret", "taken", "failed", "document"}
Placed(r, f, g, h, opened, value, taken, document) ==
    /\ Core \subseteq DOMAIN r
    /\ r.stack \in Seq(Calls) /\ Down(r.stack, 0) = f /\ Down(r.stack, 1) = g /\ Down(r.stack, 2) = h
    /\ Stands(r.stack, opened) /\ opened \in Seq(Openers)
    /\ r.ret = value /\ r.taken = taken /\ r.failed = FALSE /\ r.document = document

LEMMA OpenerIs ==
    ASSUME NEW c \in Calls
    PROVE  /\ Opener(c) \in Openers \union {"none"}
           /\ c.at \in MappingPoints => Opener(c) = IF c.flow THEN "FlowMap" ELSE "BlockMap"
           /\ c.at \in SequencePoints => Opener(c) = IF c.flow THEN "FlowSeq" ELSE "BlockSeq"
           /\ c.at \notin MappingPoints \union SequencePoints => Opener(c) = "none"
           /\ "none" \notin Openers
<1>1. MappingPoints \intersect SequencePoints = {}
    BY DEF MappingPoints, SequencePoints
<1> QED BY <1>1 DEF Opener, Openers, BlockOpeners, FlowOpenings

LEMMA ReadsSequence ==
    ASSUME NEW c \in Calls, NEW e, NEW before, NEW opened, Reads(e, c, before, opened)
    PROVE  opened \in Seq(Openers)
<1>1. Opener(c) \in Openers \union {"none"} /\ before \in Seq(Openers)
    BY OpenerIs DEF Reads
<1> DEFINE x == Opener(c)
<1>2. x # "none" => Append(before, x) \in Seq(Openers)
  <2>1. x \in Openers \union {"none"}
      BY <1>1
  <2> HIDE DEF x
  <2> QED BY <1>1, <2>1
<1> QED BY <1>1, <1>2 DEF Reads, WithOpener

\* The call on top, and the stack below it.
LEMMA PlacedIn ==
    ASSUME NEW r, NEW f, NEW g, NEW h, NEW opened, NEW value, NEW taken, NEW document,
           Placed(r, f, g, h, opened, value, taken, document)
    PROVE  /\ Top(r) = f /\ (f.at = "stream" <=> r.stack = <<>>)
           /\ r.stack = <<>> => f = Outside /\ opened = <<>>
           /\ r.stack # <<>> =>
                /\ f \in Calls /\ f = r.stack[Len(r.stack)] /\ Len(r.stack) \in DOMAIN r.stack
                /\ Front(r.stack) \in Seq(Calls) /\ Down(Front(r.stack), 0) = g /\ Down(Front(r.stack), 1) = h
                /\ \E before \in Seq(Openers) : Stands(Front(r.stack), before) /\ Reads(g, f, before, opened)
<1>1. r.stack \in Seq(Calls) /\ Stands(r.stack, opened)
    BY DEF Placed
<1>2. CASE r.stack = <<>>
  <2>1. f = Outside /\ opened = <<>>
      BY <1>2, DownEmpty, StandsEmpty DEF Placed
  <2> QED BY <1>2, <2>1 DEF Top, Outside, Frame
<1>3. CASE r.stack # <<>>
  <2> DEFINE q == Front(r.stack)
             c == Last(r.stack)
  <2>1. q \in Seq(Calls) /\ c \in Calls /\ r.stack = Append(q, c) /\ c = r.stack[Len(r.stack)]
      BY <1>1, <1>3, FrontLast
  <2>2. Len(r.stack) \in DOMAIN r.stack
      BY <1>1, <1>3
  <2>3. Top(r) = c
      BY <1>3 DEF Top
  <2> HIDE DEF q, c
  <2>4. /\ Down(r.stack, 0) = c /\ Down(r.stack, 1) = Down(q, 0) /\ Down(r.stack, 2) = Down(q, 1)
        /\ \E before : Stands(q, before) /\ Reads(Down(q, 0), c, before, opened)
    <3>1. Piled(q, c, r.stack)
        BY <2>1, Stacked
    <3> QED BY <1>1, <3>1 DEF Piled
  <2>5. c = f /\ Down(q, 0) = g /\ Down(q, 1) = h
      BY <2>4 DEF Placed
  <2>6. \E before \in Seq(Openers) : Stands(q, before) /\ Reads(g, f, before, opened)
      BY <2>4, <2>5 DEF Reads
  <2>7. f.at # "stream"
      BY <2>1, <2>5, PointsApart DEF Calls, Points, DocumentPoints
  <2> QED BY <1>3, <2>1, <2>2, <2>3, <2>5, <2>6, <2>7 DEF q
<1> QED BY <1>2, <1>3

\* The fields of a call that do not place it.
LEMMA StillPlaced ==
    ASSUME NEW r, NEW f, NEW g, NEW h, NEW opened, NEW value, NEW taken, NEW document,
           Placed(r, f, g, h, opened, value, taken, document),
           NEW s, DOMAIN s = DOMAIN r, \A i \in DOMAIN r : i \notin {"out", "anchors", "directives", "mayDirect"} => s[i] = r[i]
    PROVE  Placed(s, f, g, h, opened, value, taken, document)
<1>1. \A i \in Core : s[i] = r[i]
    BY DEF Placed, Core
<1>2. s.stack = r.stack /\ s.ret = r.ret /\ s.taken = r.taken /\ s.failed = r.failed /\ s.document = r.document
    BY <1>1 DEF Core
<1> QED BY <1>2 DEF Placed

LEMMA PutPlaced ==
    ASSUME NEW r, NEW f, NEW g, NEW h, NEW opened, NEW value, NEW taken, NEW document,
           Placed(r, f, g, h, opened, value, taken, document)
    PROVE  /\ \A x : Placed(Put(r, x), f, g, h, opened, value, taken, document)
           /\ Placed(OrNull(r), f, g, h, opened, value, taken, document)
<1>1. ASSUME NEW x PROVE Placed(Put(r, x), f, g, h, opened, value, taken, document)
  <2> DEFINE s == Put(r, x)
  <2>1. DOMAIN s = DOMAIN r /\ \A i \in DOMAIN r : i # "out" => s[i] = r[i]
      BY DEF Put
  <2> HIDE DEF s
  <2>2. Placed(s, f, g, h, opened, value, taken, document)
      BY <2>1, StillPlaced
  <2> QED BY <2>2 DEF s
<1> QED BY <1>1 DEF OrNull

LEMMA TakePlaced ==
    ASSUME NEW r, NEW f, NEW g, NEW h, NEW opened, NEW value, NEW taken, NEW document,
           Placed(r, f, g, h, opened, value, taken, document)
    PROVE  Placed(Take(r), f, g, h, opened, value, TRUE, document)
<1> DEFINE s == Take(r)
<1>1. DOMAIN s = DOMAIN r /\ \A i \in DOMAIN r : i # "taken" => s[i] = r[i]
    BY DEF Take
<1>2. s.taken = TRUE
    BY DEF Take, Placed, Core
<1> HIDE DEF s
<1>3. s.stack = r.stack /\ s.ret = r.ret /\ s.failed = r.failed /\ s.document = r.document
    BY <1>1 DEF Placed, Core
<1> QED BY <1>1, <1>2, <1>3 DEF Placed, s

\* Another stack.
LEMMA StackPlaced ==
    ASSUME NEW r, NEW f, NEW g, NEW h, NEW opened, NEW value, NEW taken, NEW document,
           Placed(r, f, g, h, opened, value, taken, document),
           NEW st \in Seq(Calls), NEW now \in Seq(Openers), Stands(st, now), NEW v
    PROVE  /\ Placed([r EXCEPT !.stack = st, !.ret = v], Down(st, 0), Down(st, 1), Down(st, 2), now, v, taken, document)
           /\ Placed([r EXCEPT !.stack = st], Down(st, 0), Down(st, 1), Down(st, 2), now, value, taken, document)
<1> DEFINE a == [r EXCEPT !.stack = st, !.ret = v]
           b == [r EXCEPT !.stack = st]
<1>1. /\ DOMAIN a = DOMAIN r /\ DOMAIN b = DOMAIN r
      /\ \A i \in DOMAIN r : i \notin {"stack", "ret"} => a[i] = r[i] /\ b[i] = r[i]
    OBVIOUS
<1>2. a.stack = st /\ a.ret = v /\ b.stack = st /\ b.ret = r.ret
    BY DEF Placed, Core
<1> HIDE DEF a, b
<1>3. /\ a.taken = r.taken /\ a.failed = r.failed /\ a.document = r.document
      /\ b.taken = r.taken /\ b.failed = r.failed /\ b.document = r.document
    BY <1>1 DEF Placed, Core
<1> QED BY <1>1, <1>2, <1>3 DEF Placed, a, b

\* The call on top becomes another, that reads the same.
LEMMA TopPlaced ==
    ASSUME NEW r, NEW f, NEW g, NEW h, NEW opened, NEW value, NEW taken, NEW document,
           Placed(r, f, g, h, opened, value, taken, document), f.at # "stream",
           NEW c \in Calls, Opener(c) = Opener(f), c.at \in LevelPoints => f.at \in LevelPoints,
           Nests(g, f) => Nests(g, c), NEW st, st = [r.stack EXCEPT ![Len(r.stack)] = c], NEW v
    PROVE  /\ Placed([r EXCEPT !.stack = st, !.ret = v], c, g, h, opened, v, taken, document)
           /\ Placed([r EXCEPT !.stack = st], c, g, h, opened, value, taken, document)
<1> DEFINE q == Front(r.stack)
<1>1. /\ r.stack \in Seq(Calls) /\ r.stack # <<>> /\ q \in Seq(Calls) /\ Down(q, 0) = g /\ Down(q, 1) = h
      /\ opened \in Seq(Openers)
    BY PlacedIn DEF Placed
<1>2. PICK before \in Seq(Openers) : Stands(q, before) /\ Reads(g, f, before, opened)
    BY <1>1, PlacedIn
<1>3. Reads(g, c, before, opened)
    BY <1>2 DEF Reads, WithOpener
<1>4. st = Append(q, c)
  <2> DEFINE n == Len(r.stack)
             a == Append(q, c)
  <2>1. n \in Nat /\ n # 0 /\ DOMAIN r.stack = 1 .. n
      BY <1>1
  <2>2. Len(q) = n - 1 /\ \A i \in 1 .. n - 1 : q[i] = r.stack[i]
      BY <1>1, FrontLast
  <2>3. Len(a) = Len(q) + 1 /\ a[Len(q) + 1] = c /\ (\A i \in 1 .. Len(q) : a[i] = q[i]) /\ a \in Seq(Calls)
      BY <1>1, AppendIs
  <2>4. /\ \A i \in 1 .. n : i = n \/ i \in 1 .. n - 1
        /\ (n - 1) + 1 = n /\ n \in 1 .. n
        /\ \A i \in 1 .. n - 1 : i # n
    <3> HIDE DEF n
    <3> QED BY <2>1
  <2>5. st \in Seq(Calls) /\ Len(st) = n /\ st[n] = c /\ \A i \in 1 .. n : i # n => st[i] = r.stack[i]
    <3>1. st = [i \in 1 .. n |-> IF i = n THEN c ELSE r.stack[i]]
        BY <2>1, <2>4
    <3>2. \A i \in 1 .. n : r.stack[i] \in Calls
        BY <1>1, ElementOfSeq
    <3> HIDE DEF n, Calls
    <3>3. st \in [1 .. n -> Calls]
        BY <3>1, <3>2
    <3>4. DOMAIN st = 1 .. n /\ st \in Seq(Calls)
      <4>1. \A m \in Nat : \A w \in [1 .. m -> Calls] : DOMAIN w = 1 .. m /\ w \in Seq(Calls)
          OBVIOUS
      <4> QED BY <2>1, <3>3, <4>1, Zenon
    <3>5. Len(st) = n
        BY <2>1, <3>4
    <3> QED BY <2>4, <3>1, <3>4, <3>5
  <2> HIDE DEF n, a, q
  <2>6. Len(a) = n
      BY <2>2, <2>3, <2>4
  <2>7. \A i \in 1 .. n : st[i] = a[i]
      BY <2>2, <2>3, <2>4, <2>5
  <2> QED BY <2>3, <2>5, <2>6, <2>7, SeqEqual DEF a
<1> HIDE DEF q
<1>5. /\ st \in Seq(Calls) /\ Down(st, 0) = c /\ Down(st, 1) = g /\ Down(st, 2) = h
      /\ Stands(st, opened)
  <2>1. Piled(q, c, st)
      BY <1>1, <1>4, Stacked
  <2> QED BY <1>1, <1>2, <1>3, <2>1 DEF Piled
<1>6. /\ Placed([r EXCEPT !.stack = st, !.ret = v], Down(st, 0), Down(st, 1), Down(st, 2), opened, v, taken, document)
      /\ Placed([r EXCEPT !.stack = st], Down(st, 0), Down(st, 1), Down(st, 2), opened, value, taken, document)
    BY <1>1, <1>5, StackPlaced
<1> QED BY <1>5, <1>6

\* Points of one and the same code: a call goes on from one to another.
Codes == {MappingPoints, SequencePoints, LevelPoints, EntryPoints}
LEMMA CodesAre ==
    ASSUME NEW C \in Codes, NEW x \in C
    PROVE  /\ x \in InnerPoints /\ x \in Points
           /\ x \in MappingPoints <=> C = MappingPoints
           /\ x \in SequencePoints <=> C = SequencePoints
           /\ x \in LevelPoints <=> C = LevelPoints
           /\ x \in EntryPoints <=> C = EntryPoints
           /\ x \in CollectionPoints <=> C # EntryPoints
           /\ x \notin DocumentPoints /\ x # "stream" /\ x # "collected"
BY DEF Codes, Points, InnerPoints, MappingPoints, SequencePoints, LevelPoints, EntryPoints, CollectionPoints, DocumentPoints

LEMMA GoPlaced ==
    ASSUME NEW r, NEW f, NEW g, NEW h, NEW opened, NEW value, NEW taken, NEW document,
           Placed(r, f, g, h, opened, value, taken, document), NEW C \in Codes, f.at \in C, NEW x \in C
    PROVE  Placed(Go(r, x), [f EXCEPT !.at = x], g, h, opened, "pending", taken, document)
<1> DEFINE c == [f EXCEPT !.at = x]
           st == [r.stack EXCEPT ![Len(r.stack)] = c]
<1>1. f.at # "stream" /\ f.at \notin DocumentPoints /\ x \notin DocumentPoints /\ x \in Points
    BY CodesAre
<1>2. f \in Calls /\ f = r.stack[Len(r.stack)] /\ r.stack # <<>> /\ Len(r.stack) \in DOMAIN r.stack
    BY <1>1, PlacedIn
<1>3. c \in Calls /\ c.at = x /\ c.flow = f.flow
    BY <1>1, <1>2 DEF Calls
<1>4. Go(r, x) = [r EXCEPT !.stack = st, !.ret = "pending"]
    BY <1>2 DEF Go
<1> HIDE DEF c
<1>5. Opener(c) = Opener(f)
  <2>1. x \in MappingPoints <=> f.at \in MappingPoints
      BY CodesAre
  <2>2. x \in SequencePoints <=> f.at \in SequencePoints
      BY CodesAre
  <2> QED BY <1>3, <2>1, <2>2 DEF Opener
<1>6. /\ x \in LevelPoints => f.at \in LevelPoints
      /\ x \in CollectionPoints => f.at \in CollectionPoints
      /\ x \in EntryPoints <=> f.at \in EntryPoints
    BY CodesAre
<1>7. Nests(g, f) => Nests(g, c)
    BY <1>1, <1>3, <1>6 DEF Nests, Fits
<1> HIDE DEF st
<1>8. /\ c \in Calls /\ Opener(c) = Opener(f) /\ (c.at \in LevelPoints => f.at \in LevelPoints)
      /\ f.at # "stream" /\ st = [r.stack EXCEPT ![Len(r.stack)] = c]
    BY <1>1, <1>3, <1>5, <1>6 DEF st
<1>9. Placed([r EXCEPT !.stack = st, !.ret = "pending"], c, g, h, opened, "pending", taken, document)
    BY <1>7, <1>8, TopPlaced
<1> QED BY <1>4, <1>9 DEF c

LEMMA CallPlaced ==
    ASSUME NEW r, NEW f, NEW g, NEW h, NEW opened, NEW value, NEW taken, NEW document,
           Placed(r, f, g, h, opened, value, taken, document), NEW c \in Calls, Nests(f, c),
           c.at \in LevelPoints => Blocks(opened)
    PROVE  Placed(Call(r, c), c, f, g, WithOpener(opened, c), "pending", taken, document)
<1> DEFINE st == Append(r.stack, c)
           now == WithOpener(opened, c)
<1>1. r.stack \in Seq(Calls) /\ Down(r.stack, 0) = f /\ Down(r.stack, 1) = g /\ Stands(r.stack, opened)
      /\ opened \in Seq(Openers)
    BY DEF Placed
<1>2. Reads(f, c, opened, now)
    BY <1>1 DEF Reads
<1>3. now \in Seq(Openers)
    BY <1>2, ReadsSequence
<1>4. Call(r, c) = [r EXCEPT !.stack = st, !.ret = "pending"]
    BY DEF Call
<1> HIDE DEF st, now
<1>5. /\ st \in Seq(Calls) /\ Down(st, 0) = c /\ Down(st, 1) = f /\ Down(st, 2) = g /\ Stands(st, now)
  <2>1. Piled(r.stack, c, st)
      BY <1>1, Stacked DEF st
  <2> QED BY <1>1, <1>2, <2>1 DEF Piled
<1>6. Placed([r EXCEPT !.stack = st, !.ret = "pending"], c, f, g, now, "pending", taken, document)
    BY <1>3, <1>5, StackPlaced
<1> QED BY <1>4, <1>6 DEF now

LEMMA CallNodePlaced ==
    ASSUME NEW r, NEW f, NEW g, NEW h, NEW opened, NEW value, NEW taken, NEW document,
           Placed(r, f, g, h, opened, value, taken, document), f.at \notin {"stream", "first item"},
           NEW place \in {"other", "value", "bare key"}
    PROVE  \/ CallNode(r, place) = Failed(r)
           \/ Placed(CallNode(r, place), Node(place), f, g, opened, "pending", taken, document)
<1>1. Node(place) \in Calls /\ Node(place).at = "node"
    BY NodeIs
<1> DEFINE c == Node(place)
<1> HIDE DEF c
<1>2. /\ c.at \notin DocumentPoints \union CollectionPoints \union EntryPoints \union LevelPoints
      /\ c.at \notin MappingPoints \union SequencePoints /\ c \in Calls
    BY <1>1 DEF c, DocumentPoints, CollectionPoints, EntryPoints, LevelPoints, MappingPoints, SequencePoints
<1>3. Nests(f, c)
    BY <1>2 DEF Nests, Fits
<1>4. WithOpener(opened, c) = opened
    BY <1>2, OpenerIs DEF WithOpener
<1>5. Placed(Call(r, c), c, f, g, WithOpener(opened, c), "pending", taken, document)
    BY <1>2, <1>3, CallPlaced
<1> QED BY <1>4, <1>5 DEF CallNode, c

LEMMA ReturnPlaced ==
    ASSUME NEW r, NEW f, NEW g, NEW h, NEW opened, NEW value, NEW taken, NEW document,
           Placed(r, f, g, h, opened, value, taken, document), f.at # "stream", NEW v
    PROVE  \E e : \E before \in Seq(Openers) :
              Reads(g, f, before, opened) /\ Placed(Return(r, v), g, h, e, before, v, taken, document)
<1> DEFINE st == Front(r.stack)
<1>1. st \in Seq(Calls) /\ Down(st, 0) = g /\ Down(st, 1) = h
    BY PlacedIn
<1>2. PICK before \in Seq(Openers) : Stands(st, before) /\ Reads(g, f, before, opened)
    BY PlacedIn
<1>3. Return(r, v) = [r EXCEPT !.stack = st, !.ret = v]
    BY DEF Return
<1> HIDE DEF st
<1>4. Placed([r EXCEPT !.stack = st, !.ret = v], g, h, Down(st, 2), before, v, taken, document)
    BY <1>1, <1>2, StackPlaced
<1> QED BY <1>2, <1>3, <1>4

LEMMA OpenedPlaced ==
    ASSUME NEW r, NEW f, NEW g, NEW h, NEW opened, NEW value, NEW taken, NEW document,
           Placed(r, f, g, h, opened, value, taken, document), f.at = "node"
    PROVE  \E c \in Calls : c.at = "collected" /\ Placed(Opened(r), c, g, h, opened, value, taken, document)
<1> DEFINE n == Len(r.stack)
           w == IF f.tag = "core" THEN None ELSE f.tag
           c == [at |-> "collected", flow |-> f.flow, place |-> "other", tag |-> w, anchor |-> f.anchor]
           st == [r.stack EXCEPT ![n] = c]
<1>1. r.stack # <<>> /\ f \in Calls /\ f = r.stack[n] /\ n \in DOMAIN r.stack
    BY PlacedIn
<1>2. c \in Calls /\ c.at = "collected"
  <2>1. "collected" \in Points /\ w \in {None, "core", "custom", "indentless"} /\ f.flow \in BOOLEAN
        /\ f.anchor \in Names \union {None}
      BY <1>1 DEF Calls, Points, NodePoints
  <2> HIDE DEF w
  <2> QED BY <2>1 DEF Calls
<1>3. Opened(r) = [r EXCEPT !.stack = st]
  <2>1. Opened(r) = [r EXCEPT !.stack[n] = [at |-> "collected", flow |-> f.flow, place |-> "other",
                                    tag |-> IF f.tag = "core" THEN None ELSE f.tag, anchor |-> f.anchor]]
      BY <1>1 DEF Opened
  <2> QED BY <2>1
<1> HIDE DEF c
<1>4. /\ c.at \notin MappingPoints \union SequencePoints \union LevelPoints \union DocumentPoints
      /\ c.at \notin CollectionPoints \union EntryPoints
      /\ f.at \notin MappingPoints \union SequencePoints \union LevelPoints \union DocumentPoints \union EntryPoints
    BY <1>2 DEF MappingPoints, SequencePoints, LevelPoints, DocumentPoints, CollectionPoints, EntryPoints
<1>5. Opener(c) = Opener(f)
    BY <1>1, <1>2, <1>4, OpenerIs
<1>6. Nests(g, f) => Nests(g, c)
    BY <1>4 DEF Nests, Fits
<1> HIDE DEF st, n
<1>7. Placed([r EXCEPT !.stack = st], c, g, h, opened, value, taken, document)
    BY <1>2, <1>4, <1>5, <1>6, TopPlaced DEF st, n
<1> QED BY <1>2, <1>3, <1>7

LEMMA BuiltPlaced ==
    ASSUME NEW r, NEW f, NEW g, NEW h, NEW opened, NEW value, NEW taken, NEW document,
           Placed(r, f, g, h, opened, value, taken, document), f.at \in NodePoints
    PROVE  \E e : Nests(g, f) /\ Placed(Built(r), g, h, e, opened, "node", taken, document)
<1>1. PICK a \in {r, Put(r, "tag")} : Tagged(r) = a
    BY DEF Tagged
<1>2. Placed(a, f, g, h, opened, value, taken, document)
    BY <1>1, PutPlaced
<1> DEFINE b == [a EXCEPT !.anchors = a.anchors \union {Top(a).anchor}]
<1>3. PICK z \in {a, Put(b, "anchor")} : Bound(a) = z
    BY DEF Bound
<1>4. Placed(z, f, g, h, opened, value, taken, document)
  <2>1. DOMAIN b = DOMAIN a /\ \A i \in DOMAIN a : i # "anchors" => b[i] = a[i]
      OBVIOUS
  <2> HIDE DEF b
  <2>2. Placed(b, f, g, h, opened, value, taken, document)
      BY <1>2, <2>1, StillPlaced
  <2>3. Placed(Put(b, "anchor"), f, g, h, opened, value, taken, document)
      BY <2>2, PutPlaced
  <2> QED BY <1>2, <1>3, <2>3
<1>5. Built(r) = Return(z, "node")
    BY <1>1, <1>3 DEF Built
<1>6. f.at # "stream" /\ f.at \notin MappingPoints \union SequencePoints
    BY DEF NodePoints, MappingPoints, SequencePoints
<1>7. PICK e : \E before \in Seq(Openers) :
          Reads(g, f, before, opened) /\ Placed(Return(z, "node"), g, h, e, before, "node", taken, document)
  <2> HIDE DEF b
  <2> QED BY <1>4, <1>6, ReturnPlaced
<1>8. PICK before \in Seq(Openers) :
          Reads(g, f, before, opened) /\ Placed(Return(z, "node"), g, h, e, before, "node", taken, document)
    BY <1>7
<1>9. before = opened /\ Nests(g, f)
  <2>1. f \in Calls
      BY <1>6, PlacedIn
  <2> QED BY <1>6, <1>8, <2>1, OpenerIs DEF Reads, WithOpener
<1> QED BY <1>5, <1>8, <1>9

-----------------------------------------------------------------------------
(***************************************************************************)
(* The invariant.  "held" is what the text had open before the event, as    *)
(* long as the decoder has not taken it, and what it has open after.        *)
(***************************************************************************)
Fit(held, t) ==
    /\ t \in Closers => Closes(t, Innermost(held))
    /\ t \in BlockOpeners => Innermost(held) \notin FlowOpenings
    /\ t = "Entry" => Innermost(held) \in BlockOpeners
Text(taken, held) ==
    /\ held \in Seq(Openers) /\ Flows(held)
    /\ event.tok \in Boundaries => held = <<>>
    /\ IF taken THEN open = held
       ELSE event.tok \in Tokens /\ Fit(held, event.tok) /\ open = After(held, event.tok)

\* A node that is not found leaves its event for the call around it (w, called
\* in x): none of these calls was made on an event that it would not leave too.
EntryStops == Closers \union Ends \union {"Entry", "FlowEntry"}
ItemStops == EntryStops \union KeyMarks \union {"Value"}
BareStops == {"FlowMapEnd", "BlockEnd", "FlowEntry"} \union Ends \union KeyMarks
Hangs(taken, held, w, x) ==
    /\ w.at = "implicit" => taken = FALSE /\ held = <<>>
    /\ w.at \in BarePoints /\ w.flow = TRUE => taken = FALSE /\ event.tok \notin BareStops
    /\ w.at = "item node" /\ w.flow = TRUE /\ x.at = "first item" => taken = FALSE /\ event.tok \notin ItemStops
Calm(value, taken, held, f, g, h) ==
    /\ value = "pending" /\ f.at = "node" /\ f.tag = None /\ f.anchor = None => Hangs(taken, held, g, h)
    /\ value = "none" =>
         /\ Hangs(taken, held, f, g) /\ taken = FALSE /\ event.tok \notin NodeStarts
         /\ f.at = "first item" /\ f.flow = TRUE => event.tok \notin ItemStops
    /\ value = "pending" /\ f.at = "entry" /\ f.flow = TRUE /\ g.at = "first item" =>
         taken = FALSE /\ event.tok \notin EntryStops

Right(r, f, g, h, opened, held) ==
    /\ Placed(r, f, g, h, opened, r.ret, r.taken, r.document) /\ r.taken \in BOOLEAN
    /\ Text(r.taken, held)
    /\ Matches(opened, held) /\ (apart => Len(opened) < Len(held))
    /\ f.at = "stream" => held = <<>>
    /\ r.document # None => event.tok \in Boundaries
    /\ Calm(r.ret, r.taken, held, f, g, h)
Good(r) ==
    \/ r.failed = TRUE /\ r.document = None
    \/ \E opened, held, f, g, h : Right(r, f, g, h, opened, held)

LEMMA FailedGood ==
    ASSUME NEW r, Core \subseteq DOMAIN r
    PROVE  Good(Failed(r))
BY DEF Good, Failed, Core

LEMMA CalmIs ==
    ASSUME NEW value, NEW taken, NEW held, NEW f, NEW g, NEW h
    PROVE  /\ value = "node" => Calm(value, taken, held, f, g, h)
           /\ value = "pending" /\ f.at \notin {"node", "entry"} => Calm(value, taken, held, f, g, h)
           /\ value = "pending" /\ f.at = "node" /\ Hangs(taken, held, g, h) => Calm(value, taken, held, f, g, h)
           /\ g.at \notin {"implicit", "item node"} \union BarePoints => Hangs(taken, held, g, h)
BY DEF Calm, Hangs

\* What the event leaves open.
LEMMA AfterIs ==
    ASSUME NEW held, NEW t
    PROVE  /\ t \notin Openers \union Closers => After(held, t) = held
           /\ t \in Openers => After(held, t) = Append(held, t)
           /\ t \in Closers => After(held, t) = Front(held)
           /\ Openers \intersect Closers = {} /\ Boundaries \intersect (Openers \union Closers) = {}
<1>1. Openers \intersect Closers = {} /\ Boundaries \intersect (Openers \union Closers) = {}
    BY DEF Openers, BlockOpeners, FlowOpenings, Closers, Boundaries
<1> QED BY <1>1 DEF After, Front

\* The decoder reads what it read: it leaves the event for the next look, or
\* takes it, and it opens and closes nothing.
LEMMA SameGood ==
    ASSUME NEW r, NEW f, NEW g, NEW h, NEW opened, NEW held, Right(r, f, g, h, opened, held), r.taken = FALSE,
           NEW s, NEW f2, NEW g2, NEW h2, NEW value, NEW taken \in BOOLEAN,
           Placed(s, f2, g2, h2, opened, value, taken, r.document),
           taken => event.tok \notin Openers \union Closers, f2.at = "stream" => held = <<>>,
           Calm(value, taken, held, f2, g2, h2)
    PROVE  Good(s)
<1>1. s.ret = value /\ s.taken = taken /\ s.document = r.document
    BY DEF Placed
<1>2. Text(taken, held)
    BY AfterIs DEF Right, Text
<1>3. Right(s, f2, g2, h2, opened, held)
    BY <1>1, <1>2 DEF Right
<1> QED BY <1>3 DEF Good

\* It calls for a collection that the event opens.
LEMMA OpenedGood ==
    ASSUME NEW r, NEW f, NEW g, NEW h, NEW opened, NEW held, Right(r, f, g, h, opened, held), r.taken = FALSE,
           event.tok \in Openers, NEW s, NEW f2, NEW g2, NEW h2,
           Placed(s, f2, g2, h2, Append(opened, event.tok), "pending", TRUE, r.document),
           f2.at \in InnerPoints, f2.at # "entry"
    PROVE  Good(s)
<1> DEFINE now == Append(held, event.tok)
           reads == Append(opened, event.tok)
<1>1. s.ret = "pending" /\ s.taken = TRUE /\ s.document = r.document
    BY DEF Placed
<1>2. opened \in Seq(Openers) /\ held \in Seq(Openers) /\ Matches(opened, held) /\ Flows(held)
    BY DEF Right, Text, Placed
<1>3. event.tok \in BlockOpeners => Innermost(held) \notin FlowOpenings
    BY DEF Right, Text, Fit
<1>4. open = now /\ event.tok \notin Boundaries
    BY AfterIs DEF Right, Text
<1>5. Matches(reads, now) /\ Flows(now) /\ (Len(opened) < Len(held) => Len(reads) < Len(now))
    BY <1>2, <1>3, OpenedMatches
<1>6. now \in Seq(Openers)
    BY <1>2
<1>7. f2.at # "stream" /\ f2.at \notin {"node", "entry"}
    BY PointsApart DEF NodePoints
<1>8. Calm("pending", TRUE, now, f2, g2, h2)
    BY <1>7, CalmIs
<1> HIDE DEF now, reads
<1>9. Text(TRUE, now)
    BY <1>4, <1>5, <1>6 DEF Text
<1>10. Right(s, f2, g2, h2, reads, now)
    BY <1>1, <1>5, <1>7, <1>8, <1>9 DEF Right, reads
<1> QED BY <1>10 DEF Good

\* It returns from the collection that the event closes.
LEMMA ClosedGood ==
    ASSUME NEW r, NEW f, NEW g, NEW h, NEW opened, NEW held, Right(r, f, g, h, opened, held), r.taken = FALSE,
           event.tok \in Closers, NEW before \in Seq(Openers), NEW x \in Openers, opened = Append(before, x),
           NEW s, NEW f2, NEW g2, NEW h2,
           Placed(s, f2, g2, h2, before, "node", TRUE, r.document), f2.at # "stream"
    PROVE  Good(s)
<1> DEFINE now == Front(held)
           y == Last(held)
<1>1. s.ret = "node" /\ s.taken = TRUE /\ s.document = r.document
    BY DEF Placed
<1>2. held \in Seq(Openers) /\ Matches(Append(before, x), held) /\ Flows(held)
    BY DEF Right, Text
<1>3. held # <<>>
    BY <1>2, LastMatches
<1>4. now \in Seq(Openers) /\ y \in Openers /\ held = Append(now, y)
    BY <1>2, <1>3, FrontLast
<1>5. open = now /\ event.tok \notin Boundaries
    BY AfterIs DEF Right, Text
<1> HIDE DEF now, y
<1>6. Matches(before, now) /\ Flows(now) /\ (Len(opened) < Len(held) => Len(before) < Len(now))
    BY <1>2, <1>4, ClosedMatches
<1>7. Calm("node", TRUE, now, f2, g2, h2)
    BY CalmIs
<1>8. Text(TRUE, now)
    BY <1>4, <1>5, <1>6 DEF Text
<1>9. Right(s, f2, g2, h2, before, now)
    BY <1>1, <1>6, <1>7, <1>8 DEF Right
<1> QED BY <1>9 DEF Good

\* It returns from a block collection on an event it leaves.
LEMMA LeftGood ==
    ASSUME NEW r, NEW f, NEW g, NEW h, NEW opened, NEW held, Right(r, f, g, h, opened, held), r.taken = FALSE,
           NEW before \in Seq(Openers), NEW x \in Openers, opened = Append(before, x), x \notin FlowOpenings,
           NEW s, NEW f2, NEW g2, NEW h2,
           Placed(s, f2, g2, h2, before, "node", FALSE, r.document), f2.at # "stream"
    PROVE  Good(s)
<1>1. s.ret = "node" /\ s.taken = FALSE /\ s.document = r.document
    BY DEF Placed
<1>2. held \in Seq(Openers) /\ Matches(Append(before, x), held) /\ Flows(held)
    BY DEF Right, Text
<1>3. Matches(before, held) /\ Len(before) < Len(held)
    BY <1>2, LeftMatches
<1>4. Calm("node", FALSE, held, f2, g2, h2)
    BY CalmIs
<1>5. Right(s, f2, g2, h2, before, held)
    BY <1>1, <1>3, <1>4 DEF Right
<1> QED BY <1>5 DEF Good

\* The call of a node.
LEMMA NodeGood ==
    ASSUME NEW r, NEW f, NEW g, NEW h, NEW opened, NEW held, Right(r, f, g, h, opened, held), r.taken = FALSE,
           NEW a, NEW f2, NEW g2, NEW h2, NEW value, NEW taken \in BOOLEAN,
           Placed(a, f2, g2, h2, opened, value, taken, r.document), f2.at \notin {"stream", "first item"},
           taken => event.tok \notin Openers \union Closers, Hangs(taken, held, f2, g2),
           NEW place \in {"other", "value", "bare key"}
    PROVE  Good(CallNode(a, place))
<1> DEFINE s == CallNode(a, place)
<1>1. s = Failed(a) \/ Placed(s, Node(place), f2, g2, opened, "pending", taken, r.document)
    BY CallNodePlaced
<1> HIDE DEF s
<1>2. CASE s = Failed(a)
    BY <1>2, FailedGood DEF Placed, s
<1>3. CASE Placed(s, Node(place), f2, g2, opened, "pending", taken, r.document)
  <2> DEFINE c == Node(place)
  <2>1. c.at = "node"
      BY NodeIs
  <2> HIDE DEF c
  <2>2. Calm("pending", taken, held, c, f2, g2)
      BY <2>1, CalmIs
  <2>3. Placed(s, c, f2, g2, opened, "pending", taken, r.document) /\ c.at # "stream"
      BY <1>3, <2>1 DEF c
  <2>4. Good(s)
      BY <2>2, <2>3, SameGood
  <2> QED BY <2>4 DEF s
<1> QED BY <1>1, <1>2, <1>3 DEF s

-----------------------------------------------------------------------------
(***************************************************************************)
(* The steps of the decoder, one by one.                                    *)
(***************************************************************************)
\* It stands on an event.
AtEvent(f, g, h, opened, held) ==
    /\ Right(dec, f, g, h, opened, held)
    /\ dec.taken = FALSE /\ dec.ret \in {"pending", "none", "node"}

LEMMA AtEventIs ==
    ASSUME NEW f, NEW g, NEW h, NEW opened, NEW held, AtEvent(f, g, h, opened, held)
    PROVE  /\ Right(dec, f, g, h, opened, held) /\ dec.taken = FALSE /\ Core \subseteq DOMAIN dec
           /\ Placed(dec, f, g, h, opened, dec.ret, FALSE, dec.document) /\ Top(dec) = f
           /\ opened \in Seq(Openers) /\ held \in Seq(Openers) /\ Matches(opened, held) /\ Flows(held)
           /\ event.tok \in Tokens /\ Fit(held, event.tok) /\ (event.tok \in Boundaries => held = <<>>)
           /\ Good(Failed(dec))
<1>1. Placed(dec, f, g, h, opened, dec.ret, FALSE, dec.document) /\ Right(dec, f, g, h, opened, held) /\ dec.taken = FALSE
    BY DEF AtEvent, Right
<1>2. Top(dec) = f
    BY <1>1, PlacedIn
<1>3. Core \subseteq DOMAIN dec /\ opened \in Seq(Openers)
    BY <1>1 DEF Placed
<1>4. Good(Failed(dec))
    BY <1>3, FailedGood
<1> QED BY <1>1, <1>2, <1>3, <1>4 DEF Right, Text

LEMMA DecodeBetweenGood ==
    ASSUME NEW f, NEW g, NEW h, NEW opened, NEW held, AtEvent(f, g, h, opened, held),
           DecodeBetween \/ DecodeDirective
    PROVE  Good(dec')
<1>1. /\ Right(dec, f, g, h, opened, held) /\ dec.taken = FALSE /\ Top(dec) = f /\ Good(Failed(dec))
      /\ Placed(dec, f, g, h, opened, dec.ret, FALSE, dec.document)
    BY AtEventIs
<1>2. dec.ret = "pending" /\ f.at = "stream" /\ event.tok \in Boundaries
    BY <1>1 DEF DecodeBetween, DecodeDirective, At, Boundaries
<1>3. Placed(Take(dec), f, g, h, opened, "pending", TRUE, dec.document)
    BY <1>1, <1>2, TakePlaced
<1> DEFINE t == Take(dec)
<1> HIDE DEF t
<1>4. ASSUME NEW s, DOMAIN s = DOMAIN t, \A i \in DOMAIN t : i \notin {"out", "anchors", "directives", "mayDirect"} => s[i] = t[i]
      PROVE  Good(s)
  <2>1. Placed(s, f, g, h, opened, "pending", TRUE, dec.document)
      BY <1>3, <1>4, StillPlaced DEF t
  <2>2. event.tok \notin Openers \union Closers
      BY <1>2, AfterIs
  <2>3. held = <<>>
      BY <1>1, <1>2 DEF Right
  <2>4. Calm("pending", TRUE, held, f, g, h)
      BY <1>2, CalmIs
  <2> QED BY <1>1, <2>1, <2>2, <2>3, <2>4, SameGood
<1>5. \A d, e : LET s == [t EXCEPT !.mayDirect = d]
                    z == [t EXCEPT !.directives = e]
                IN  Good(s) /\ Good(z)
    BY <1>4
<1>6. \/ dec' = Failed(dec)
      \/ dec' = [t EXCEPT !.mayDirect = t.mayDirect \/ event.tok = "DocEnd"]
      \/ dec' = [t EXCEPT !.directives = t.directives \union {event.arg}]
    BY DEF DecodeBetween, DecodeDirective, t
<1> QED BY <1>1, <1>5, <1>6

LEMMA DecodeDocumentGood ==
    ASSUME NEW f, NEW g, NEW h, NEW opened, NEW held, AtEvent(f, g, h, opened, held), DecodeDocument
    PROVE  Good(dec')
<1>1. /\ Right(dec, f, g, h, opened, held) /\ dec.taken = FALSE /\ Top(dec) = f /\ Good(Failed(dec))
      /\ Placed(dec, f, g, h, opened, dec.ret, FALSE, dec.document)
    BY AtEventIs
<1>2. dec.ret = "pending" /\ f.at = "stream"
    BY <1>1 DEF DecodeDocument, At
<1>3. held = <<>>
    BY <1>1, <1>2 DEF Right
<1> DEFINE r == [dec EXCEPT !.mayDirect = FALSE]
           explicit == Frame("explicit", FALSE)
           implicit == Frame("implicit", FALSE)
<1>4. Placed(r, f, g, h, opened, "pending", FALSE, dec.document)
  <2>1. DOMAIN r = DOMAIN dec /\ \A i \in DOMAIN dec : i # "mayDirect" => r[i] = dec[i]
      OBVIOUS
  <2> HIDE DEF r
  <2> QED BY <1>1, <1>2, <2>1, StillPlaced
<1>5. \/ dec' = Failed(dec) \/ dec' = Failed(r)
      \/ event.tok = "DocStart" /\ dec' = CallNode(Call(Take(r), explicit), "other")
      \/ dec' = CallNode(Call(r, implicit), "other")
    BY DEF DecodeDocument
<1> HIDE DEF r
<1>6. Placed(Take(r), f, g, h, opened, "pending", TRUE, dec.document)
    BY <1>4, TakePlaced
<1>7. explicit \in Calls /\ explicit.at = "explicit" /\ implicit \in Calls /\ implicit.at = "implicit"
  <2>1. "explicit" \in Points /\ "implicit" \in Points /\ FALSE \in BOOLEAN
      BY DEF Points, DocumentPoints
  <2> QED BY <2>1, FrameIs
<1> HIDE DEF explicit, implicit
<1>8. ASSUME NEW c \in Calls, c.at \in DocumentPoints
      PROVE  Nests(f, c) /\ WithOpener(opened, c) = opened /\ c.at \notin LevelPoints \union {"stream", "first item"}
  <2>1. c.at \notin MappingPoints \union SequencePoints \union CollectionPoints \union EntryPoints \union LevelPoints
        /\ c.at \notin {"stream", "first item"}
      BY <1>8 DEF DocumentPoints, MappingPoints, SequencePoints, CollectionPoints, EntryPoints, LevelPoints
  <2>2. Nests(f, c)
      BY <1>2, <1>8, <2>1 DEF Nests, Fits
  <2> QED BY <2>1, <2>2, OpenerIs DEF WithOpener
<1>9. "explicit" \in DocumentPoints /\ "implicit" \in DocumentPoints
    BY DEF DocumentPoints
<1>10. CASE event.tok = "DocStart" /\ dec' = CallNode(Call(Take(r), explicit), "other")
  <2>1. Placed(Call(Take(r), explicit), explicit, f, g, opened, "pending", TRUE, dec.document)
    <3>1. Placed(Call(Take(r), explicit), explicit, f, g, WithOpener(opened, explicit), "pending", TRUE, dec.document)
        BY <1>6, <1>7, <1>8, <1>9, CallPlaced
    <3> QED BY <1>7, <1>8, <1>9, <3>1
  <2>2. event.tok \notin Openers \union Closers
      BY <1>10, AfterIs DEF Boundaries
  <2>3. Hangs(TRUE, held, explicit, f)
      BY <1>7, CalmIs DEF BarePoints
  <2> QED BY <1>1, <1>7, <1>8, <1>9, <1>10, <2>1, <2>2, <2>3, NodeGood
<1>11. CASE dec' = CallNode(Call(r, implicit), "other")
  <2>1. Placed(Call(r, implicit), implicit, f, g, opened, "pending", FALSE, dec.document)
    <3>1. Placed(Call(r, implicit), implicit, f, g, WithOpener(opened, implicit), "pending", FALSE, dec.document)
        BY <1>4, <1>7, <1>8, <1>9, CallPlaced
    <3> QED BY <1>7, <1>8, <1>9, <3>1
  <2>2. Hangs(FALSE, held, implicit, f)
      BY <1>3, <1>7 DEF Hangs, BarePoints
  <2> QED BY <1>1, <1>7, <1>8, <1>9, <1>11, <2>1, <2>2, NodeGood
<1>12. Good(Failed(r))
    BY <1>4, FailedGood DEF Placed
<1> QED BY <1>1, <1>5, <1>10, <1>11, <1>12

\* Nothing is open where a document ends.
LEMMA DecodeDocumentDoneGood ==
    ASSUME NEW f, NEW g, NEW h, NEW opened, NEW held, AtEvent(f, g, h, opened, held), DecodeDocumentDone
    PROVE  Good(dec')
<1>1. /\ Right(dec, f, g, h, opened, held) /\ dec.taken = FALSE /\ Top(dec) = f /\ Good(Failed(dec))
      /\ Placed(dec, f, g, h, opened, dec.ret, FALSE, dec.document)
    BY AtEventIs
<1>2. Fit(held, event.tok) /\ (event.tok \in Boundaries => held = <<>>)
    BY <1>1 DEF Right, Text
<1>3. f.at \in DocumentPoints /\ dec.ret \in {"none", "node"}
    BY <1>1 DEF DecodeDocumentDone, Back, DocumentPoints, AtEvent
<1> DEFINE e == [dec EXCEPT !.document = <<dec.ret = "none", dec.directives>>]
           found == f.at = "explicit" \/ dec.ret = "node"
           d == IF found THEN e ELSE dec
           q == Return(d, "pending")
           r == Closing(q)
           t == Take(r)
           u == [t EXCEPT !.mayDirect = TRUE]
<1>4. dec' = IF found /\ event.tok \notin Boundaries THEN Failed(dec)
             ELSE IF ~found THEN t
             ELSE IF f.at = "explicit" /\ event.tok = "DocEnd" THEN u
             ELSE r
    BY <1>1, Zenon DEF DecodeDocumentDone, Skipped, AtBoundary
<1>5. ~found => f.at = "implicit" /\ dec.ret = "none"
    BY <1>3 DEF DocumentPoints
<1> HIDE DEF found
<1>6. CASE found /\ event.tok \notin Boundaries
    BY <1>1, <1>4, <1>6
<1>7. CASE ~(found /\ event.tok \notin Boundaries)
  <2>1. Placed(e, f, g, h, opened, dec.ret, FALSE, e.document)
    <3>1. DOMAIN e = DOMAIN dec /\ \A i \in DOMAIN dec : i # "document" => e[i] = dec[i]
        OBVIOUS
    <3> HIDE DEF e
    <3>2. e.stack = dec.stack /\ e.ret = dec.ret /\ e.taken = dec.taken /\ e.failed = dec.failed
        BY <1>1, <3>1 DEF Placed, Core
    <3> QED BY <1>1, <3>1, <3>2 DEF Placed
  <2> HIDE DEF e
  <2>2. Right(d, f, g, h, opened, held) /\ d.taken = FALSE /\ Placed(d, f, g, h, opened, dec.ret, FALSE, d.document)
    <3>1. CASE ~found
        BY <1>1, <3>1
    <3>2. CASE found
      <4>1. event.tok \in Boundaries
          BY <1>7, <3>2
      <4>2. e.ret = dec.ret /\ e.taken = FALSE
          BY <2>1 DEF Placed
      <4> QED BY <1>1, <2>1, <3>2, <4>1, <4>2 DEF Right
    <3> QED BY <3>1, <3>2
  <2> HIDE DEF d
  <2>3. f.at # "stream" /\ f.at \notin MappingPoints \union SequencePoints
      BY <1>3 DEF DocumentPoints, MappingPoints, SequencePoints
  <2>4. PICK k : \E before \in Seq(Openers) :
           Reads(g, f, before, opened) /\ Placed(q, g, h, k, before, "pending", FALSE, d.document)
      BY <2>2, <2>3, ReturnPlaced
  <2>5. f \in Calls
      BY <2>2, <2>3, PlacedIn
  <2>6. Placed(q, g, h, k, opened, "pending", FALSE, d.document) /\ Nests(g, f)
      BY <2>3, <2>4, <2>5, OpenerIs DEF Reads, WithOpener
  <2>7. g.at = "stream"
      BY <1>3, <2>6 DEF Nests
  <2> HIDE DEF q
  <2>8. DOMAIN r = DOMAIN q /\ \A i \in DOMAIN q : i \notin {"anchors", "directives"} => r[i] = q[i]
      BY DEF Closing
  <2> HIDE DEF r
  <2>9. Placed(r, g, h, k, opened, "pending", FALSE, d.document)
      BY <2>6, <2>8, StillPlaced
  <2>10. Placed(t, g, h, k, opened, "pending", TRUE, d.document)
      BY <2>9, TakePlaced
  <2> HIDE DEF t
  <2>11. DOMAIN u = DOMAIN t /\ \A i \in DOMAIN t : i # "mayDirect" => u[i] = t[i]
      OBVIOUS
  <2> HIDE DEF u
  <2>12. Placed(u, g, h, k, opened, "pending", TRUE, d.document)
      BY <2>10, <2>11, StillPlaced
  <2>13. ~found => held = <<>> /\ event.tok \notin NodeStarts
      BY <1>1, <1>5 DEF Right, Calm, Hangs
  <2>14. held = <<>>
      BY <1>2, <1>7, <2>13
  <2>15. ~found \/ event.tok = "DocEnd" => event.tok \notin Openers \union Closers
    <3>1. CASE event.tok = "DocEnd"
        BY <3>1, AfterIs DEF Boundaries
    <3>2. CASE ~found
      <4>1. event.tok \notin Openers
          BY <2>13, <3>2 DEF NodeStarts
      <4>2. ~Closes(event.tok, "none")
          BY DEF Closes, BlockOpeners
      <4>3. event.tok \notin Closers
          BY <1>2, <2>14, <4>2 DEF Fit, Innermost
      <4> QED BY <4>1, <4>3
    <3> QED BY <3>1, <3>2
  <2>16. \A taken \in BOOLEAN : Calm("pending", taken, held, g, h, k)
      BY <2>7, CalmIs
  <2>17. Good(r)
    <3>1. Calm("pending", FALSE, held, g, h, k)
        BY <2>16
    <3> QED BY <2>2, <2>9, <2>14, <3>1, SameGood
  <2>18. ASSUME NEW s \in {t, u}, ~found \/ event.tok = "DocEnd" PROVE Good(s)
    <3>1. Placed(s, g, h, k, opened, "pending", TRUE, d.document)
        BY <2>10, <2>12
    <3>2. Calm("pending", TRUE, held, g, h, k)
        BY <2>16
    <3>3. event.tok \notin Openers \union Closers
        BY <2>15, <2>18
    <3> QED BY <2>2, <2>14, <3>1, <3>2, <3>3, SameGood
  <2> QED BY <1>4, <1>7, <2>17, <2>18
<1> QED BY <1>6, <1>7

-----------------------------------------------------------------------------
\* The call of a node, and the one it was made in.
LEMMA NodeAt ==
    ASSUME NEW f, NEW g, NEW h, NEW opened, NEW held, AtEvent(f, g, h, opened, held), f.at \in NodePoints
    PROVE  /\ f \in Calls /\ f = dec.stack[Len(dec.stack)] /\ Len(dec.stack) \in DOMAIN dec.stack
           /\ Nests(g, f) /\ g.at \notin {"stream", "first item"}
           /\ f.at \notin MappingPoints \union SequencePoints \union LevelPoints \union EntryPoints \union DocumentPoints
<1>1. Placed(dec, f, g, h, opened, dec.ret, FALSE, dec.document)
    BY AtEventIs
<1>2. f.at # "stream" /\ f.at \notin MappingPoints \union SequencePoints \union LevelPoints \union EntryPoints \union DocumentPoints
    BY DEF NodePoints, MappingPoints, SequencePoints, LevelPoints, EntryPoints, DocumentPoints
<1>3. /\ f \in Calls /\ f = dec.stack[Len(dec.stack)] /\ Len(dec.stack) \in DOMAIN dec.stack
      /\ \E before \in Seq(Openers) : Reads(g, f, before, opened)
  <2>1. dec.stack # <<>>
      BY <1>1, <1>2, PlacedIn
  <2>2. f \in Calls /\ f = dec.stack[Len(dec.stack)] /\ Len(dec.stack) \in DOMAIN dec.stack
      BY <1>1, <2>1, PlacedIn
  <2>3. \E before \in Seq(Openers) : Stands(Front(dec.stack), before) /\ Reads(g, f, before, opened)
      BY <1>1, <2>1, PlacedIn
  <2> QED BY <2>2, <2>3
<1>4. Nests(g, f)
    BY <1>3 DEF Reads
<1> QED BY <1>2, <1>3, <1>4 DEF Nests

\* A node is given a property, and is not without one any more.
LEMMA PropertyGood ==
    ASSUME NEW f, NEW g, NEW h, NEW opened, NEW held, AtEvent(f, g, h, opened, held), dec.ret = "pending",
           f.at = "node", event.tok \in {"Tag", "Anchor"}, NEW c \in Calls, c.at = "node",
           c.tag # None \/ c.anchor # None, NEW st, st = [dec.stack EXCEPT ![Len(dec.stack)] = c]
    PROVE  Good([Take(dec) EXCEPT !.stack = st])
<1>1. /\ Right(dec, f, g, h, opened, held) /\ dec.taken = FALSE
      /\ Placed(dec, f, g, h, opened, "pending", FALSE, dec.document)
    BY AtEventIs
<1>2. /\ f \in Calls /\ Nests(g, f)
      /\ f.at \notin MappingPoints \union SequencePoints \union LevelPoints \union EntryPoints \union DocumentPoints
    BY NodeAt DEF NodePoints
<1> DEFINE t == Take(dec)
<1>3. Placed(t, f, g, h, opened, "pending", TRUE, dec.document)
    BY <1>1, TakePlaced
<1>4. t.stack = dec.stack
    BY <1>1 DEF Take, Placed, Core
<1> HIDE DEF t
<1>5. Opener(c) = Opener(f) /\ c.at \notin LevelPoints
    BY <1>2, OpenerIs
<1>6. Nests(g, c)
    BY <1>2 DEF Nests
<1>7. Placed([t EXCEPT !.stack = st], c, g, h, opened, "pending", TRUE, dec.document)
    BY <1>3, <1>4, <1>5, <1>6, TopPlaced
<1>8. Calm("pending", TRUE, held, c, g, h)
    BY DEF Calm
<1>9. event.tok \notin Openers \union Closers
    BY DEF Openers, BlockOpeners, FlowOpenings, Closers
<1>10. Good([t EXCEPT !.stack = st])
    BY <1>1, <1>7, <1>8, <1>9, SameGood
<1> QED BY <1>10 DEF t

LEMMA DecodePropertyGood ==
    ASSUME NEW f, NEW g, NEW h, NEW opened, NEW held, AtEvent(f, g, h, opened, held), EventOK, DecodeTag \/ DecodeAnchor
    PROVE  Good(dec')
<1> DEFINE n == Len(dec.stack)
<1>1. Top(dec) = f /\ Good(Failed(dec)) /\ Core \subseteq DOMAIN dec
    BY AtEventIs
<1>2. dec.ret = "pending" /\ f.at = "node" /\ event.tok \in {"Tag", "Anchor"}
    BY <1>1 DEF DecodeTag, DecodeAnchor, At
<1>3. f \in Calls /\ f = dec.stack[n] /\ n \in DOMAIN dec.stack
    BY <1>2, NodeAt DEF NodePoints
<1>4. Take(dec).stack = dec.stack
    BY <1>1 DEF Take, Core
<1>5. CASE DecodeTag
  <2> DEFINE w == IF event.arg = "core" THEN "core" ELSE "custom"
             c == [f EXCEPT !.tag = w]
  <2>1. w \in {None, "core", "custom", "indentless"} /\ w # None
      BY ReadersAssumption
  <2>2. dec' = Failed(dec) \/ dec' = [Take(dec) EXCEPT !.stack[n].tag = w]
      BY <1>5 DEF DecodeTag
  <2> HIDE DEF w
  <2>3. c \in Calls /\ c.at = "node" /\ c.tag # None
      BY <1>2, <1>3, <2>1 DEF Calls
  <2>4. PICK st : st = [dec.stack EXCEPT ![n] = c]
      OBVIOUS
  <2>5. [Take(dec) EXCEPT !.stack[n].tag = w] = [Take(dec) EXCEPT !.stack = st]
      BY <1>3, <1>4, <2>4
  <2> HIDE DEF c
  <2>6. Good([Take(dec) EXCEPT !.stack = st])
      BY <1>2, <2>3, <2>4, PropertyGood
  <2> QED BY <1>1, <2>2, <2>5, <2>6
<1>6. CASE DecodeAnchor
  <2> DEFINE c == [f EXCEPT !.anchor = event.arg]
  <2>1. event.arg \in Names /\ event.arg # None
    <3>1. event.tok = "Anchor"
        BY <1>6 DEF DecodeAnchor
    <3> QED BY <3>1, ReadersAssumption DEF EventOK
  <2>2. dec' = Failed(dec) \/ dec' = [Take(dec) EXCEPT !.stack[n].anchor = event.arg]
      BY <1>6 DEF DecodeAnchor
  <2>3. c \in Calls /\ c.at = "node" /\ c.anchor # None
      BY <1>2, <1>3, <2>1 DEF Calls
  <2>4. PICK st : st = [dec.stack EXCEPT ![n] = c]
      OBVIOUS
  <2>5. [Take(dec) EXCEPT !.stack[n].anchor = event.arg] = [Take(dec) EXCEPT !.stack = st]
      BY <1>3, <1>4, <2>4
  <2> HIDE DEF c
  <2>6. Good([Take(dec) EXCEPT !.stack = st])
      BY <1>2, <2>3, <2>4, PropertyGood
  <2> QED BY <1>1, <2>2, <2>5, <2>6
<1> QED BY <1>5, <1>6

\* A node is complete.
LEMMA BuiltGood ==
    ASSUME NEW f, NEW g, NEW h, NEW opened, NEW held, AtEvent(f, g, h, opened, held), f.at \in NodePoints,
           NEW a, NEW value, Placed(a, f, g, h, opened, value, FALSE, dec.document)
    PROVE  Good(Built(a)) /\ (event.tok \notin Openers \union Closers => Good(Take(Built(a))))
<1>1. Right(dec, f, g, h, opened, held) /\ dec.taken = FALSE
    BY AtEventIs
<1>2. g.at # "stream"
    BY NodeAt
<1> DEFINE s == Built(a)
<1>3. PICK e : Placed(s, g, h, e, opened, "node", FALSE, dec.document)
    BY BuiltPlaced
<1> HIDE DEF s
<1>4. Placed(Take(s), g, h, e, opened, "node", TRUE, dec.document)
    BY <1>3, TakePlaced
<1>5. \A taken : Calm("node", taken, held, g, h, e)
    BY CalmIs
<1>6. Good(s)
  <2>1. Calm("node", FALSE, held, g, h, e)
      BY <1>5
  <2> QED BY <1>1, <1>2, <1>3, <2>1, SameGood
<1>7. ASSUME event.tok \notin Openers \union Closers PROVE Good(Take(s))
  <2>1. Calm("node", TRUE, held, g, h, e)
      BY <1>5
  <2> QED BY <1>1, <1>2, <1>4, <1>7, <2>1, SameGood
<1> QED BY <1>6, <1>7 DEF s

LEMMA DecodeScalarGood ==
    ASSUME NEW f, NEW g, NEW h, NEW opened, NEW held, AtEvent(f, g, h, opened, held),
           DecodeScalar \/ DecodeAlias \/ DecodeCollectionKey \/ DecodeCollected
    PROVE  Good(dec')
<1>1. /\ Right(dec, f, g, h, opened, held) /\ dec.taken = FALSE /\ Top(dec) = f /\ Good(Failed(dec))
      /\ Placed(dec, f, g, h, opened, dec.ret, FALSE, dec.document)
    BY AtEventIs
<1>2. f.at \in NodePoints
    BY <1>1 DEF DecodeScalar, DecodeAlias, DecodeCollectionKey, DecodeCollected, At, Back, NodePoints
<1>3. \A x : Placed(Put(dec, x), f, g, h, opened, dec.ret, FALSE, dec.document)
    BY <1>1, PutPlaced
<1>4. event.tok \in {"Scalar", "Alias"} => event.tok \notin Openers \union Closers
    BY DEF Openers, BlockOpeners, FlowOpenings, Closers
<1>5. CASE DecodeScalar
  <2>1. Placed(Put(dec, "scalar"), f, g, h, opened, dec.ret, FALSE, dec.document)
      BY <1>3
  <2>2. event.tok \notin Openers \union Closers /\ dec' = Take(Built(Put(dec, "scalar")))
      BY <1>4, <1>5 DEF DecodeScalar
  <2> QED BY <1>2, <2>1, <2>2, BuiltGood
<1>6. CASE DecodeAlias
  <2> DEFINE a == Put(dec, "alias")
             s == Return(a, "node")
  <2>1. Placed(a, f, g, h, opened, dec.ret, FALSE, dec.document)
      BY <1>3
  <2>2. event.tok \notin Openers \union Closers /\ (dec' = Failed(dec) \/ dec' = Take(s))
      BY <1>4, <1>6 DEF DecodeAlias
  <2>3. f.at # "stream" /\ f \in Calls /\ g.at # "stream" /\ f.at \notin MappingPoints \union SequencePoints
      BY <1>2, NodeAt DEF NodePoints
  <2> HIDE DEF a
  <2>4. PICK e : \E before \in Seq(Openers) :
          Reads(g, f, before, opened) /\ Placed(s, g, h, e, before, "node", FALSE, dec.document)
      BY <2>1, <2>3, ReturnPlaced
  <2>5. Placed(s, g, h, e, opened, "node", FALSE, dec.document)
      BY <2>3, <2>4, OpenerIs DEF Reads, WithOpener
  <2> HIDE DEF s
  <2>6. Placed(Take(s), g, h, e, opened, "node", TRUE, dec.document)
      BY <2>5, TakePlaced
  <2>7. Calm("node", TRUE, held, g, h, e)
      BY CalmIs
  <2>8. Good(Take(s))
      BY <1>1, <2>2, <2>3, <2>6, <2>7, SameGood
  <2> QED BY <1>1, <2>2, <2>8
<1>7. CASE DecodeCollectionKey
    BY <1>1, <1>7 DEF DecodeCollectionKey
<1>8. CASE DecodeCollected
    BY <1>1, <1>2, <1>8, BuiltGood DEF DecodeCollected
<1> QED BY <1>5, <1>6, <1>7, <1>8

\* A collection begins: the call of its entries is made in that of its node.
Opening(s, k, opened, document) ==
    \E e, i : Placed(s, k, e, i, WithOpener(opened, k), "pending", FALSE, document)

LEMMA CollectionFrame ==
    ASSUME NEW at \in CollectionPoints \intersect InnerPoints, NEW flow \in BOOLEAN
    PROVE  Frame(at, flow) \in Calls /\ Frame(at, flow).at = at /\ Frame(at, flow).flow = flow
<1>1. at \in Points
    BY PointsApart
<1>2. Frame(at, flow) \in Calls /\ Frame(at, flow).at = at
    BY <1>1, FrameIs
<1>3. Frame(at, flow).flow = flow
    BY DEF Frame
<1> QED BY <1>2, <1>3

LEMMA OpenCallPlaced ==
    ASSUME NEW r, NEW f, NEW g, NEW h, NEW opened, NEW value, NEW document,
           Placed(r, f, g, h, opened, value, FALSE, document), f.at = "node",
           NEW at \in CollectionPoints \intersect InnerPoints, NEW flow \in BOOLEAN,
           at \in LevelPoints => Blocks(opened), NEW x
    PROVE  Opening(Call(Opened(Put(r, x)), Frame(at, flow)), Frame(at, flow), opened, document)
<1> DEFINE a == Put(r, x)
           b == Opened(a)
           k == Frame(at, flow)
<1>1. Placed(a, f, g, h, opened, value, FALSE, document)
    BY PutPlaced
<1> HIDE DEF a
<1>2. PICK c \in Calls : c.at = "collected" /\ Placed(b, c, g, h, opened, value, FALSE, document)
    BY <1>1, OpenedPlaced
<1> HIDE DEF b
<1>3. k \in Calls /\ k.at = at
    BY CollectionFrame
<1>4. at \notin EntryPoints \union DocumentPoints
    BY DEF CollectionPoints, EntryPoints, DocumentPoints, MappingPoints, SequencePoints
<1> HIDE DEF k
<1>5. Nests(c, k)
    BY <1>2, <1>3, <1>4 DEF Nests, Fits
<1>6. Placed(Call(b, k), k, c, g, WithOpener(opened, k), "pending", FALSE, document)
    BY <1>2, <1>3, <1>5, CallPlaced
<1> QED BY <1>6 DEF a, b, k, Opening

LEMMA DecodeCollectionGood ==
    ASSUME NEW f, NEW g, NEW h, NEW opened, NEW held, AtEvent(f, g, h, opened, held), DecodeCollection
    PROVE  Good(dec')
<1>1. /\ Right(dec, f, g, h, opened, held) /\ dec.taken = FALSE /\ Top(dec) = f
      /\ Placed(dec, f, g, h, opened, dec.ret, FALSE, dec.document)
    BY AtEventIs
<1> DEFINE flow == event.tok \in FlowOpenings
           at == IF event.tok \in {"BlockMap", "FlowMap"} THEN "mapping" ELSE "sequence"
           k == Frame(at, flow)
           s == Call(Opened(Put(dec, at)), k)
<1>2. f.at = "node" /\ event.tok \in Openers /\ dec' = Take(s)
    BY <1>1 DEF DecodeCollection, At
<1>3. at \in CollectionPoints \intersect InnerPoints /\ at \notin LevelPoints /\ flow \in BOOLEAN /\ at # "entry"
    BY DEF CollectionPoints, InnerPoints, LevelPoints, MappingPoints, SequencePoints
<1>4. IF at = "mapping" THEN event.tok = IF flow THEN "FlowMap" ELSE "BlockMap"
      ELSE at = "sequence" /\ event.tok = IF flow THEN "FlowSeq" ELSE "BlockSeq"
    BY <1>2 DEF Openers, BlockOpeners, FlowOpenings
<1> HIDE DEF at, flow
<1>5. k \in Calls /\ k.at = at /\ k.flow = flow /\ Opening(s, k, opened, dec.document)
  <2>1. k \in Calls /\ k.at = at /\ k.flow = flow
      BY <1>3, CollectionFrame
  <2>2. Opening(s, k, opened, dec.document)
      BY <1>1, <1>2, <1>3, OpenCallPlaced
  <2> QED BY <2>1, <2>2
<1> HIDE DEF k, s
<1>6. PICK e, i : Placed(s, k, e, i, WithOpener(opened, k), "pending", FALSE, dec.document)
    BY <1>5 DEF Opening
<1>7. Opener(k) = event.tok
  <2>1. "mapping" \in MappingPoints /\ "sequence" \in SequencePoints
      BY DEF MappingPoints, SequencePoints
  <2>2. /\ k.at \in MappingPoints => Opener(k) = IF k.flow THEN "FlowMap" ELSE "BlockMap"
        /\ k.at \in SequencePoints => Opener(k) = IF k.flow THEN "FlowSeq" ELSE "BlockSeq"
      BY <1>5, OpenerIs
  <2> QED BY <1>4, <1>5, <2>1, <2>2
<1>8. WithOpener(opened, k) = Append(opened, event.tok)
    BY <1>2, <1>5, <1>7, OpenerIs DEF WithOpener
<1>9. Placed(Take(s), k, e, i, Append(opened, event.tok), "pending", TRUE, dec.document)
    BY <1>6, <1>8, TakePlaced
<1> QED BY <1>1, <1>2, <1>3, <1>5, <1>9, OpenedGood

LEMMA DecodeIndentlessGood ==
    ASSUME NEW f, NEW g, NEW h, NEW opened, NEW held, AtEvent(f, g, h, opened, held), DecodeIndentless
    PROVE  Good(dec')
<1>1. /\ Right(dec, f, g, h, opened, held) /\ dec.taken = FALSE /\ Top(dec) = f
      /\ Placed(dec, f, g, h, opened, dec.ret, FALSE, dec.document)
      /\ opened \in Seq(Openers) /\ held \in Seq(Openers) /\ Matches(opened, held) /\ Flows(held)
    BY AtEventIs
<1> DEFINE n == Len(dec.stack)
           c == [f EXCEPT !.tag = None]
           r == [dec EXCEPT !.stack[n].tag = None]
           k == Frame("indentless", FALSE)
           s == Call(Opened(Put(r, "sequence")), k)
<1>2. f.at = "node" /\ event.tok = "Entry" /\ dec' = s
    BY <1>1 DEF DecodeIndentless, Indentless, At
<1>3. /\ f \in Calls /\ f = dec.stack[n] /\ n \in DOMAIN dec.stack /\ Nests(g, f)
      /\ f.at \notin MappingPoints \union SequencePoints \union LevelPoints \union EntryPoints \union DocumentPoints
    BY <1>2, NodeAt DEF NodePoints
<1>4. c \in Calls /\ c.at = "node"
    BY <1>2, <1>3 DEF Calls
<1>5. PICK st : st = [dec.stack EXCEPT ![n] = c]
    OBVIOUS
<1>6. r = [dec EXCEPT !.stack = st]
    BY <1>3, <1>5
<1> HIDE DEF c, r
<1>7. Opener(c) = Opener(f) /\ c.at \notin LevelPoints /\ Nests(g, c) /\ f.at # "stream"
    BY <1>2, <1>3, <1>4, OpenerIs DEF Nests
<1>8. Placed([dec EXCEPT !.stack = st], c, g, h, opened, dec.ret, FALSE, dec.document)
    BY <1>1, <1>4, <1>5, <1>7, TopPlaced
<1>9. "indentless" \in CollectionPoints \intersect InnerPoints /\ FALSE \in BOOLEAN
    BY DEF CollectionPoints, InnerPoints
<1>10. Blocks(opened)
  <2>1. Innermost(held) \in BlockOpeners
      BY <1>1, <1>2, AtEventIs DEF Fit
  <2>2. Innermost(held) \notin FlowOpenings
      BY <2>1 DEF BlockOpeners, FlowOpenings
  <2> QED BY <1>1, <2>2, BlocksMatch
<1>11. k \in Calls /\ k.at = "indentless" /\ Opening(s, k, opened, dec.document)
  <2>1. Placed(r, c, g, h, opened, dec.ret, FALSE, dec.document)
      BY <1>6, <1>8
  <2>2. k \in Calls /\ k.at = "indentless"
      BY <1>9, CollectionFrame
  <2>3. Opening(s, k, opened, dec.document)
      BY <1>4, <1>9, <1>10, <2>1, OpenCallPlaced
  <2> QED BY <2>2, <2>3
<1> HIDE DEF k, s
<1>12. PICK e, i : Placed(s, k, e, i, WithOpener(opened, k), "pending", FALSE, dec.document)
    BY <1>11 DEF Opening
<1>13. WithOpener(opened, k) = opened
  <2>1. k.at \notin MappingPoints \union SequencePoints
      BY <1>11 DEF MappingPoints, SequencePoints
  <2> QED BY <1>11, <2>1, OpenerIs DEF WithOpener
<1>14. Calm("pending", FALSE, held, k, e, i)
    BY <1>11, CalmIs
<1>15. Placed(s, k, e, i, opened, "pending", FALSE, dec.document) /\ k.at # "stream"
    BY <1>11, <1>12, <1>13
<1>16. Good(s)
    BY <1>1, <1>14, <1>15, SameGood
<1> QED BY <1>2, <1>16

\* No node is there: the call around is one that expects as much.
LEMMA DecodeEmptyGood ==
    ASSUME NEW f, NEW g, NEW h, NEW opened, NEW held, AtEvent(f, g, h, opened, held), DecodeEmpty
    PROVE  Good(dec')
<1>1. /\ Right(dec, f, g, h, opened, held) /\ dec.taken = FALSE /\ Top(dec) = f
      /\ Placed(dec, f, g, h, opened, dec.ret, FALSE, dec.document)
    BY AtEventIs
<1>2. f.at = "node" /\ dec.ret = "pending" /\ event.tok \notin NodeStarts
    BY <1>1 DEF DecodeEmpty, At
<1>3. \/ f.tag = None /\ f.anchor = None /\ dec' = Return(dec, "none")
      \/ dec' = Built(Put(dec, "null"))
    BY <1>1 DEF DecodeEmpty
<1>4. /\ f \in Calls /\ Nests(g, f) /\ g.at \notin {"stream", "first item"}
      /\ f.at \notin MappingPoints \union SequencePoints
    BY <1>2, NodeAt DEF NodePoints
<1>5. CASE dec' = Built(Put(dec, "null"))
  <2>1. Placed(Put(dec, "null"), f, g, h, opened, dec.ret, FALSE, dec.document)
      BY <1>1, PutPlaced
  <2> QED BY <1>2, <1>5, <2>1, BuiltGood DEF NodePoints
<1>6. CASE f.tag = None /\ f.anchor = None /\ dec' = Return(dec, "none")
  <2> DEFINE s == Return(dec, "none")
  <2>1. PICK e : \E before \in Seq(Openers) :
          Reads(g, f, before, opened) /\ Placed(s, g, h, e, before, "none", FALSE, dec.document)
      BY <1>1, <1>2, ReturnPlaced
  <2>2. Placed(s, g, h, e, opened, "none", FALSE, dec.document)
      BY <1>4, <2>1, OpenerIs DEF Reads, WithOpener
  <2> HIDE DEF s
  <2>3. Hangs(FALSE, held, g, h)
      BY <1>1, <1>2, <1>6 DEF Right, Calm
  <2>4. Calm("none", FALSE, held, g, h, e)
      BY <1>2, <1>4, <2>3 DEF Calm
  <2>5. Good(s)
      BY <1>1, <1>4, <2>2, <2>4, SameGood
  <2> QED BY <1>6, <2>5 DEF s
<1> QED BY <1>3, <1>5, <1>6

-----------------------------------------------------------------------------
\* A call goes on at another point, and calls for a node there or looks again.
LEMMA GoesOn ==
    ASSUME NEW f, NEW g, NEW h, NEW opened, NEW held, AtEvent(f, g, h, opened, held),
           NEW a, NEW value, NEW taken, Placed(a, f, g, h, opened, value, taken, dec.document),
           NEW C \in Codes, f.at \in C, NEW x \in C
    PROVE  /\ f.at # "stream" /\ x # "stream" /\ x \in InnerPoints /\ x \in Points /\ f \in Calls
           /\ [f EXCEPT !.at = x].at = x /\ [f EXCEPT !.at = x].flow = f.flow
           /\ Placed(Go(a, x), [f EXCEPT !.at = x], g, h, opened, "pending", taken, dec.document)
<1>1. f.at # "stream" /\ x # "stream" /\ x \in InnerPoints /\ x \in Points
    BY CodesAre
<1>2. f \in Calls
    BY <1>1, PlacedIn
<1>3. [f EXCEPT !.at = x].at = x /\ [f EXCEPT !.at = x].flow = f.flow
    BY <1>2 DEF Calls
<1>4. Placed(Go(a, x), [f EXCEPT !.at = x], g, h, opened, "pending", taken, dec.document)
    BY GoPlaced
<1> QED BY <1>1, <1>2, <1>3, <1>4

LEMMA GoGood ==
    ASSUME NEW f, NEW g, NEW h, NEW opened, NEW held, AtEvent(f, g, h, opened, held),
           NEW a, NEW value, NEW taken \in BOOLEAN, Placed(a, f, g, h, opened, value, taken, dec.document),
           taken => event.tok \notin Openers \union Closers, NEW C \in Codes, f.at \in C, NEW x \in C, x # "entry"
    PROVE  Good(Go(a, x))
<1> DEFINE c == [f EXCEPT !.at = x]
           s == Go(a, x)
<1>1. Right(dec, f, g, h, opened, held) /\ dec.taken = FALSE
    BY AtEventIs
<1>2. /\ x # "stream" /\ x \in InnerPoints /\ c.at = x
      /\ Placed(s, c, g, h, opened, "pending", taken, dec.document)
    BY GoesOn
<1> HIDE DEF c, s
<1>3. x # "node"
    BY <1>2, PointsApart DEF NodePoints
<1>4. Calm("pending", taken, held, c, g, h)
    BY <1>2, <1>3, CalmIs
<1>5. Good(s)
    BY <1>1, <1>2, <1>4, SameGood
<1> QED BY <1>5 DEF s

\* At point x, of a flow collection or not, called in g.
Hanging(x, flow, taken, held, g) == \A c : c.at = x /\ c.flow = flow => Hangs(taken, held, c, g)
LEMMA GoNodeGood ==
    ASSUME NEW f, NEW g, NEW h, NEW opened, NEW held, AtEvent(f, g, h, opened, held),
           NEW a, NEW value, NEW taken \in BOOLEAN, Placed(a, f, g, h, opened, value, taken, dec.document),
           taken => event.tok \notin Openers \union Closers, NEW C \in Codes, f.at \in C, NEW x \in C,
           x # "first item", Hanging(x, f.flow, taken, held, g),
           NEW place \in {"other", "value", "bare key"}
    PROVE  Good(CallNode(Go(a, x), place))
<1> DEFINE c == [f EXCEPT !.at = x]
           s == Go(a, x)
<1>1. Right(dec, f, g, h, opened, held) /\ dec.taken = FALSE
    BY AtEventIs
<1>2. x # "stream" /\ c.at = x /\ c.flow = f.flow /\ Placed(s, c, g, h, opened, "pending", taken, dec.document)
  <2>1. x # "stream"
      BY CodesAre
  <2>2. f \in Calls
      BY GoesOn
  <2>3. c.at = x /\ c.flow = f.flow
      BY <2>2 DEF Calls
  <2>4. Placed(s, c, g, h, opened, "pending", taken, dec.document)
      BY GoesOn
  <2> QED BY <2>1, <2>3, <2>4
<1> HIDE DEF c, s
<1>3. Hangs(taken, held, c, g)
    BY <1>2 DEF Hanging
<1>4. Good(CallNode(s, place))
    BY <1>1, <1>2, <1>3, NodeGood
<1> QED BY <1>4 DEF s

\* Nothing hangs on what a node is there, at these points.
PlainPoints == InnerPoints \ ({"item node", "first item", "entry"} \union BarePoints)
LEMMA PlainHangs ==
    ASSUME NEW x \in PlainPoints, NEW taken, NEW held, NEW g, NEW c, c.at = x
    PROVE  Hangs(taken, held, c, g)
<1>1. x # "implicit"
    BY PointsApart DEF PlainPoints, DocumentPoints
<1> QED BY <1>1, CalmIs DEF PlainPoints

LEMMA PlainNodeGood ==
    ASSUME NEW f, NEW g, NEW h, NEW opened, NEW held, AtEvent(f, g, h, opened, held),
           NEW a, NEW value, NEW taken \in BOOLEAN, Placed(a, f, g, h, opened, value, taken, dec.document),
           taken => event.tok \notin Openers \union Closers, NEW C \in Codes, f.at \in C, NEW x \in C, x \in PlainPoints,
           NEW place \in {"other", "value", "bare key"}
    PROVE  Good(CallNode(Go(a, x), place))
<1>1. Hanging(x, f.flow, taken, held, g)
    BY PlainHangs DEF Hanging
<1>2. x # "first item"
    BY DEF PlainPoints
<1> QED BY <1>1, <1>2, GoNodeGood

\* Inside a collection of the decoder, the text is in one too.
LEMMA InCollectionIs ==
    ASSUME NEW f, NEW g, NEW h, NEW opened, NEW held, AtEvent(f, g, h, opened, held),
           f.at \in MappingPoints \union SequencePoints
    PROVE  /\ f \in Calls /\ f.flow \in BOOLEAN /\ g.at = "collected"
           /\ event.tok \in Tokens \ Boundaries /\ Innermost(held) \in Openers
           /\ f.flow = TRUE =>
                /\ Innermost(held) = Opener(f) /\ Opener(f) \in FlowOpenings
                /\ event.tok # "Entry" /\ (event.tok \in Closers => Closes(event.tok, Opener(f)))
           /\ \E before \in Seq(Openers) : opened = Append(before, Opener(f)) /\ Reads(g, f, before, opened)
           /\ Opener(f) \in Openers /\ (f.flow = FALSE => Opener(f) \notin FlowOpenings)
<1>1. /\ Placed(dec, f, g, h, opened, dec.ret, FALSE, dec.document)
      /\ opened \in Seq(Openers) /\ held \in Seq(Openers) /\ Matches(opened, held) /\ Flows(held)
    BY AtEventIs
<1>2. event.tok \in Tokens /\ Fit(held, event.tok) /\ (event.tok \in Boundaries => held = <<>>)
  <2>1. Right(dec, f, g, h, opened, held) /\ dec.taken = FALSE
      BY AtEventIs
  <2> QED BY <2>1 DEF Right, Text
<1>3. f.at # "stream" /\ f.at \in CollectionPoints
    BY DEF CollectionPoints, MappingPoints, SequencePoints
<1>4. f \in Calls /\ \E before \in Seq(Openers) : Reads(g, f, before, opened)
  <2>1. dec.stack # <<>>
      BY <1>1, <1>3, PlacedIn
  <2>2. f \in Calls
      BY <1>1, <2>1, PlacedIn
  <2>3. \E before \in Seq(Openers) : Stands(Front(dec.stack), before) /\ Reads(g, f, before, opened)
      BY <1>1, <2>1, PlacedIn
  <2> QED BY <2>2, <2>3
<1>5. f.flow \in BOOLEAN
    BY <1>4 DEF Calls
<1>6. /\ Opener(f) \in Openers /\ Opener(f) # "none"
      /\ f.flow = TRUE => Opener(f) \in FlowOpenings
      /\ f.flow = FALSE => Opener(f) \notin FlowOpenings
  <2>1. /\ f.at \in MappingPoints => Opener(f) = IF f.flow THEN "FlowMap" ELSE "BlockMap"
        /\ f.at \in SequencePoints => Opener(f) = IF f.flow THEN "FlowSeq" ELSE "BlockSeq"
      BY <1>4, OpenerIs
  <2> QED BY <1>5, <2>1 DEF Openers, BlockOpeners, FlowOpenings
<1>7. PICK before \in Seq(Openers) : Reads(g, f, before, opened)
    BY <1>4
<1>8. opened = Append(before, Opener(f)) /\ g.at = "collected"
    BY <1>3, <1>6, <1>7 DEF Reads, WithOpener, Nests, Fits
<1> DEFINE x == Opener(f)
<1> HIDE DEF x
<1>9. /\ held # <<>> /\ Innermost(held) \in Openers
      /\ x \in FlowOpenings => Innermost(held) = x
  <2>1. x \in Openers /\ Matches(Append(before, x), held)
      BY <1>1, <1>6, <1>8 DEF x
  <2> QED BY <1>1, <2>1, LastMatches
<1>10. f.flow = TRUE => event.tok # "Entry" /\ (event.tok \in Closers => Closes(event.tok, x))
  <2>1. x \in FlowOpenings => x \notin BlockOpeners
      BY DEF BlockOpeners, FlowOpenings
  <2> QED BY <1>2, <1>6, <1>9, <2>1 DEF Fit, x
<1> QED BY <1>2, <1>4, <1>5, <1>6, <1>7, <1>8, <1>9, <1>10 DEF x

\* The call of a collection returns: on the event that closes it, or, from a
\* block one, before.
LEMMA ReturnGood ==
    ASSUME NEW f, NEW g, NEW h, NEW opened, NEW held, AtEvent(f, g, h, opened, held),
           f.at \in MappingPoints \union SequencePoints,
           NEW a, NEW value, Placed(a, f, g, h, opened, value, FALSE, dec.document)
    PROVE  /\ event.tok \in Closers => Good(Take(Return(a, "node")))
           /\ f.flow = FALSE => Good(Return(a, "node"))
<1>1. Right(dec, f, g, h, opened, held) /\ dec.taken = FALSE
    BY AtEventIs
<1>2. f \in Calls /\ g.at = "collected" /\ Opener(f) \in Openers /\ (f.flow = FALSE => Opener(f) \notin FlowOpenings)
    BY InCollectionIs
<1> DEFINE s == Return(a, "node")
           x == Opener(f)
<1>3. f.at # "stream"
    BY DEF MappingPoints, SequencePoints
<1>4. PICK e : \E before \in Seq(Openers) :
          Reads(g, f, before, opened) /\ Placed(s, g, h, e, before, "node", FALSE, dec.document)
    BY <1>3, ReturnPlaced
<1>5. PICK before \in Seq(Openers) : Reads(g, f, before, opened) /\ Placed(s, g, h, e, before, "node", FALSE, dec.document)
    BY <1>4
<1>6. opened = Append(before, x)
    BY <1>2, <1>5, OpenerIs DEF Reads, WithOpener
<1>7. x \in Openers /\ (f.flow = FALSE => x \notin FlowOpenings)
    BY <1>2
<1> HIDE DEF s, x
<1>8. Placed(Take(s), g, h, e, before, "node", TRUE, dec.document)
    BY <1>5, TakePlaced
<1>9. g.at # "stream"
    BY <1>2
<1>10. event.tok \in Closers => Good(Take(s))
    BY <1>1, <1>6, <1>7, <1>8, <1>9, ClosedGood
<1>11. f.flow = FALSE => Good(s)
    BY <1>1, <1>5, <1>6, <1>7, <1>9, LeftGood
<1> QED BY <1>10, <1>11 DEF s

-----------------------------------------------------------------------------
\* Points at which nothing hangs on the node called for.
LEMMA PlainIs ==
    /\ \A x \in {"key", "value", "pair key", "pair value", "level item"} : x \in PlainPoints
    /\ MappingPoints \in Codes /\ SequencePoints \in Codes /\ EntryPoints \in Codes /\ LevelPoints \in Codes
    /\ \A x \in {"mapping", "key", "bare key", "bare scalar", "value"} : x \in MappingPoints
    /\ \A x \in {"pair key", "pair value", "item node", "entry"} : x \in EntryPoints
    /\ \A x \in {"sequence", "item", "first item"} : x \in SequencePoints
    /\ BarePoints \subseteq MappingPoints
BY DEF PlainPoints, InnerPoints, MappingPoints, SequencePoints, EntryPoints, LevelPoints, BarePoints, Codes

\* No token but these stands in a collection.
LEMMA InnerTokens ==
    /\ Tokens \ Boundaries \subseteq NodeStarts \union Closers \union {"Entry", "FlowEntry", "Key", "KeyExplicit", "Value"}
    /\ Ends \subseteq Boundaries
    /\ \A t \in {"Entry", "FlowEntry", "Key", "KeyExplicit", "Value"} : t \notin Openers \union Closers
BY DEF Tokens, NodeStarts, Ends, Boundaries, Openers, BlockOpeners, FlowOpenings, Closers

\* The end of a collection of the text is the end of the decoder's too.
LEMMA DecodeEndGood ==
    ASSUME NEW f, NEW g, NEW h, NEW opened, NEW held, AtEvent(f, g, h, opened, held),
           DecodeMappingEnd \/ DecodeSequenceEnd
    PROVE  Good(dec')
<1>1. Placed(dec, f, g, h, opened, dec.ret, FALSE, dec.document) /\ Top(dec) = f
    BY AtEventIs
<1>2. f.at \in MappingPoints \union SequencePoints
    BY <1>1 DEF DecodeMappingEnd, DecodeSequenceEnd, At, MappingPoints, SequencePoints
<1>3. event.tok \notin Boundaries
    BY <1>2, InCollectionIs
<1>4. event.tok \notin Ends /\ event.tok \in Closers
    BY <1>3, InnerTokens DEF DecodeMappingEnd, DecodeSequenceEnd, Closers
<1>5. dec' = Take(Return(Put(dec, "end"), "node"))
    BY <1>4 DEF DecodeMappingEnd, DecodeSequenceEnd
<1>6. Placed(Put(dec, "end"), f, g, h, opened, dec.ret, FALSE, dec.document)
    BY <1>1, PutPlaced
<1> QED BY <1>2, <1>4, <1>5, <1>6, ReturnGood

LEMMA DecodeMappingCommaGood ==
    ASSUME NEW f, NEW g, NEW h, NEW opened, NEW held, AtEvent(f, g, h, opened, held), DecodeMappingComma
    PROVE  Good(dec')
<1>1. /\ Right(dec, f, g, h, opened, held) /\ dec.taken = FALSE /\ Top(dec) = f
      /\ Placed(dec, f, g, h, opened, dec.ret, FALSE, dec.document)
    BY AtEventIs
<1>2. dec.ret = "pending" /\ f.at = "mapping" /\ event.tok = "FlowEntry" /\ dec' = Take(dec)
    BY <1>1 DEF DecodeMappingComma, At
<1>3. Placed(Take(dec), f, g, h, opened, "pending", TRUE, dec.document)
    BY <1>1, <1>2, TakePlaced
<1>4. event.tok \notin Openers \union Closers
    BY <1>2, InnerTokens
<1>5. Calm("pending", TRUE, held, f, g, h)
    BY <1>2, CalmIs
<1>6. f.at # "stream"
    BY <1>2
<1> QED BY <1>1, <1>2, <1>3, <1>4, <1>5, <1>6, SameGood

\* A key that is marked, and the value after any key.
LEMMA DecodeKeyGood ==
    ASSUME NEW f, NEW g, NEW h, NEW opened, NEW held, AtEvent(f, g, h, opened, held),
           DecodeKey \/ DecodeKeyDone \/ DecodeValueDone
    PROVE  Good(dec')
<1>1. Placed(dec, f, g, h, opened, dec.ret, FALSE, dec.document) /\ Top(dec) = f
    BY AtEventIs
<1>2. Placed(OrNull(dec), f, g, h, opened, dec.ret, FALSE, dec.document)
    BY <1>1, PutPlaced
<1>3. Placed(Take(dec), f, g, h, opened, dec.ret, TRUE, dec.document)
    BY <1>1, TakePlaced
<1>4. Placed(Take(OrNull(dec)), f, g, h, opened, dec.ret, TRUE, dec.document)
    BY <1>2, TakePlaced
<1>5. MappingPoints \in Codes /\ f.at \in MappingPoints
    BY <1>1, PlainIs DEF DecodeKey, DecodeKeyDone, DecodeValueDone, At, Back
<1>6. CASE DecodeKey
  <2>1. dec' = CallNode(Go(Take(dec), "key"), "other") /\ event.tok \notin Openers \union Closers
      BY <1>6, InnerTokens DEF DecodeKey, KeyMarks
  <2>2. PICK x \in MappingPoints : x = "key" /\ x \in PlainPoints
      BY PlainIs
  <2>3. Good(CallNode(Go(Take(dec), x), "other"))
      BY <1>3, <1>5, <2>1, <2>2, PlainNodeGood
  <2> QED BY <2>1, <2>2, <2>3
<1>7. CASE DecodeKeyDone
  <2>1. PICK x \in MappingPoints : x = "value" /\ x \in PlainPoints
      BY PlainIs
  <2>2. \/ event.tok = "Value" /\ dec' = CallNode(Go(Take(OrNull(dec)), x), "value")
        \/ dec' = CallNode(Go(OrNull(dec), x), "value")
      BY <1>7, <2>1 DEF DecodeKeyDone
  <2>3. CASE event.tok = "Value" /\ dec' = CallNode(Go(Take(OrNull(dec)), x), "value")
    <3>1. event.tok \notin Openers \union Closers
        BY <2>3, InnerTokens
    <3>2. Good(CallNode(Go(Take(OrNull(dec)), x), "value"))
        BY <1>4, <1>5, <2>1, <3>1, PlainNodeGood
    <3> QED BY <2>3, <3>2
  <2>4. Good(CallNode(Go(OrNull(dec), x), "value"))
      BY <1>2, <1>5, <2>1, PlainNodeGood
  <2> QED BY <2>2, <2>3, <2>4
<1>8. CASE DecodeValueDone
  <2>1. PICK x \in MappingPoints : x = "mapping" /\ x # "entry"
      BY PlainIs
  <2>2. Good(Go(OrNull(dec), x))
      BY <1>2, <1>5, <2>1, GoGood
  <2> QED BY <1>8, <2>1, <2>2 DEF DecodeValueDone
<1> QED BY <1>6, <1>7, <1>8

\* A key without a mark: in a flow mapping, nothing stands there that is none.
LEMMA DecodeBareKeyGood ==
    ASSUME NEW f, NEW g, NEW h, NEW opened, NEW held, AtEvent(f, g, h, opened, held), DecodeBareKey
    PROVE  Good(dec')
<1>1. Placed(dec, f, g, h, opened, dec.ret, FALSE, dec.document) /\ Top(dec) = f
    BY AtEventIs
<1>2. /\ f.at = "mapping" /\ event.tok \notin BareStops
      /\ \E x \in BarePoints, place \in {"other", "bare key"} : dec' = CallNode(Go(dec, x), place)
    BY <1>1 DEF DecodeBareKey, At, BareStops, BarePoints
<1>3. PICK x \in BarePoints : \E place \in {"other", "bare key"} : dec' = CallNode(Go(dec, x), place)
    BY <1>2
<1>4. PICK place \in {"other", "value", "bare key"} : dec' = CallNode(Go(dec, x), place)
    BY <1>3
<1>5. MappingPoints \in Codes /\ f.at \in MappingPoints /\ x \in MappingPoints
    BY <1>2, PlainIs
<1>6. x \notin {"implicit", "item node", "first item"}
    BY DEF BarePoints
<1>7. Hanging(x, f.flow, FALSE, held, g)
    BY <1>2, <1>6 DEF Hanging, Hangs
<1>8. x # "first item" /\ FALSE \in BOOLEAN
    BY <1>6
<1>9. Good(CallNode(Go(dec, x), place))
    BY <1>1, <1>5, <1>7, <1>8, GoNodeGood
<1> QED BY <1>4, <1>9

LEMMA DecodeBareKeyDoneGood ==
    ASSUME NEW f, NEW g, NEW h, NEW opened, NEW held, AtEvent(f, g, h, opened, held), DecodeBareKeyDone
    PROVE  Good(dec')
<1>1. /\ Right(dec, f, g, h, opened, held) /\ dec.taken = FALSE /\ Top(dec) = f /\ Good(Failed(dec))
      /\ Placed(dec, f, g, h, opened, dec.ret, FALSE, dec.document)
    BY AtEventIs
<1> DEFINE o == OrNull(dec)
           r == Put(o, "null")
           e == Put(r, "end")
<1>2. f.at \in BarePoints
    BY <1>1 DEF DecodeBareKeyDone, Back, BarePoints
<1>3. \/ event.tok = "Value" /\ dec' = CallNode(Go(Take(o), "value"), "value")
      \/ dec' = Failed(dec)
      \/ event.tok # "Value" /\ dec.ret = "none" /\ dec' = Return(e, "node")
      \/ dec' = Go(r, "mapping")
    BY DEF DecodeBareKeyDone
<1>4. Placed(o, f, g, h, opened, dec.ret, FALSE, dec.document)
    BY <1>1, PutPlaced
<1> HIDE DEF o
<1>5. Placed(r, f, g, h, opened, dec.ret, FALSE, dec.document)
    BY <1>4, PutPlaced
<1> HIDE DEF r
<1>6. Placed(e, f, g, h, opened, dec.ret, FALSE, dec.document)
    BY <1>5, PutPlaced
<1> HIDE DEF e
<1>7. MappingPoints \in Codes /\ f.at \in MappingPoints
    BY <1>2, PlainIs
<1>8. CASE event.tok = "Value" /\ dec' = CallNode(Go(Take(o), "value"), "value")
  <2>1. PICK x \in MappingPoints : x = "value" /\ x \in PlainPoints
      BY PlainIs
  <2>2. Placed(Take(o), f, g, h, opened, dec.ret, TRUE, dec.document)
      BY <1>4, TakePlaced
  <2>3. event.tok \notin Openers \union Closers
      BY <1>8, InnerTokens
  <2>4. Good(CallNode(Go(Take(o), x), "value"))
      BY <1>7, <2>1, <2>2, <2>3, PlainNodeGood
  <2> QED BY <1>8, <2>1, <2>4
<1>9. CASE event.tok # "Value" /\ dec.ret = "none" /\ dec' = Return(e, "node")
  <2>1. f.flow \in BOOLEAN /\ event.tok \in Tokens \ Boundaries /\ f \in Calls
      BY <1>7, InCollectionIs
  <2>2. f.flow = TRUE => event.tok # "Entry" /\ (event.tok \in Closers => Closes(event.tok, Opener(f)))
      BY <1>7, InCollectionIs
  <2>3. f.flow = TRUE => Opener(f) = "FlowMap"
      BY <1>7, <2>1, OpenerIs
  <2>4. event.tok \notin NodeStarts /\ (f.flow = TRUE => event.tok \notin BareStops)
      BY <1>1, <1>2, <1>9 DEF Right, Calm, Hangs
  <2>5. f.flow = TRUE => event.tok \notin Closers
      BY <2>2, <2>3, <2>4 DEF Closes, Closers, BareStops
  <2>6. event.tok \in Closers \union {"Entry", "FlowEntry", "Key", "KeyExplicit"}
      BY <1>9, <2>1, <2>4, InnerTokens
  <2>7. f.flow = FALSE
      BY <2>1, <2>2, <2>4, <2>5, <2>6 DEF BareStops, KeyMarks
  <2>8. Good(Return(e, "node"))
      BY <1>6, <1>7, <2>7, ReturnGood
  <2> QED BY <1>9, <2>8
<1>10. CASE dec' = Go(r, "mapping")
  <2>1. PICK x \in MappingPoints : x = "mapping" /\ x # "entry"
      BY PlainIs
  <2>2. Good(Go(r, x))
      BY <1>5, <1>7, <2>1, GoGood
  <2> QED BY <1>10, <2>1, <2>2
<1> QED BY <1>1, <1>3, <1>8, <1>9, <1>10

-----------------------------------------------------------------------------
\* The call of an item.
LEMMA DecodeEntryGood ==
    ASSUME NEW f, NEW g, NEW h, NEW opened, NEW held, AtEvent(f, g, h, opened, held), DecodeEntry
    PROVE  Good(dec')
<1>1. /\ Right(dec, f, g, h, opened, held) /\ dec.taken = FALSE /\ Top(dec) = f
      /\ Placed(dec, f, g, h, opened, dec.ret, FALSE, dec.document)
    BY AtEventIs
<1> DEFINE marked == event.tok \in {"Entry", "FlowEntry"}
           k == Frame("entry", f.flow)
<1>2. f.at = "sequence" /\ event.tok \notin Closers \union Ends
    BY <1>1 DEF DecodeEntry, At
<1>3. SequencePoints \in Codes /\ f.at \in SequencePoints
    BY <1>2, PlainIs
<1>4. PICK x \in SequencePoints :
          /\ x = IF marked THEN "item" ELSE "first item"
          /\ dec' = IF marked THEN Take(Call(Go(dec, x), k)) ELSE Call(Go(dec, x), k)
    BY <1>1, PlainIs DEF DecodeEntry
<1> DEFINE c == [f EXCEPT !.at = x]
           a == Go(dec, x)
           s == Call(a, k)
<1>5. f \in Calls
    BY <1>1, <1>3, GoesOn
<1>6. c.at = x /\ c.flow = f.flow /\ f.flow \in BOOLEAN
    BY <1>5 DEF Calls
<1>7. Placed(a, c, g, h, opened, "pending", FALSE, dec.document)
    BY <1>1, <1>3, GoesOn
<1>8. k \in Calls /\ k.at = "entry"
  <2>1. "entry" \in Points
      BY DEF Points, InnerPoints, EntryPoints
  <2> QED BY <1>6, <2>1, FrameIs
<1>9. k.flow = f.flow
    BY DEF Frame
<1> HIDE DEF c, a, k
<1>10. k.at \notin MappingPoints \union SequencePoints \union CollectionPoints \union LevelPoints \union DocumentPoints
    BY <1>8 DEF MappingPoints, SequencePoints, CollectionPoints, LevelPoints, DocumentPoints
<1>11. x \in ItemPoints /\ x # "stream"
    BY <1>4 DEF ItemPoints
<1>12. Nests(c, k)
    BY <1>6, <1>8, <1>9, <1>10, <1>11 DEF Nests, Fits, EntryPoints
<1>13. WithOpener(opened, k) = opened
    BY <1>8, <1>10, OpenerIs DEF WithOpener
<1>14. Placed(s, k, c, g, WithOpener(opened, k), "pending", FALSE, dec.document)
    BY <1>7, <1>8, <1>10, <1>12, CallPlaced
<1> HIDE DEF s
<1>15. Placed(s, k, c, g, opened, "pending", FALSE, dec.document)
    BY <1>13, <1>14
<1>16. Placed(Take(s), k, c, g, opened, "pending", TRUE, dec.document)
    BY <1>15, TakePlaced
<1>17. CASE marked
  <2>1. event.tok \notin Openers \union Closers
      BY <1>17, InnerTokens
  <2>2. Calm("pending", TRUE, held, k, c, g)
      BY <1>4, <1>6, <1>8, <1>17 DEF Calm
  <2>3. k.at # "stream" /\ dec' = Take(s)
      BY <1>4, <1>8, <1>17 DEF s, a
  <2> QED BY <1>1, <1>16, <2>1, <2>2, <2>3, SameGood
<1>18. CASE ~marked
  <2>1. event.tok \notin EntryStops
      BY <1>2, <1>18 DEF EntryStops
  <2>2. Calm("pending", FALSE, held, k, c, g)
      BY <1>8, <2>1 DEF Calm
  <2>3. k.at # "stream" /\ dec' = s
      BY <1>4, <1>8, <1>18 DEF s, a
  <2> QED BY <1>1, <1>15, <2>2, <2>3, SameGood
<1> QED BY <1>17, <1>18

\* An item that is not there, without a mark, ends only a block sequence.
LEMMA DecodeEntryDoneGood ==
    ASSUME NEW f, NEW g, NEW h, NEW opened, NEW held, AtEvent(f, g, h, opened, held), DecodeEntryDone
    PROVE  Good(dec')
<1>1. /\ Right(dec, f, g, h, opened, held) /\ dec.taken = FALSE /\ Top(dec) = f
      /\ Placed(dec, f, g, h, opened, dec.ret, FALSE, dec.document)
    BY AtEventIs
<1> DEFINE e == Put(dec, "end")
<1>2. f.at \in {"item", "first item"}
    BY <1>1 DEF DecodeEntryDone, Back
<1>3. SequencePoints \in Codes /\ f.at \in SequencePoints
    BY <1>2, PlainIs
<1>4. \/ dec.ret = "none" /\ f.at = "first item" /\ dec' = Return(e, "node")
      \/ dec' = Go(dec, "sequence")
    BY <1>1 DEF DecodeEntryDone
<1>5. Placed(e, f, g, h, opened, dec.ret, FALSE, dec.document)
    BY <1>1, PutPlaced
<1> HIDE DEF e
<1>6. CASE dec.ret = "none" /\ f.at = "first item" /\ dec' = Return(e, "node")
  <2>1. f.flow \in BOOLEAN /\ event.tok \in Tokens \ Boundaries
      BY <1>3, InCollectionIs
  <2>2. event.tok \notin NodeStarts /\ (f.flow = TRUE => event.tok \notin ItemStops)
      BY <1>1, <1>6 DEF Right, Calm
  <2>3. event.tok \in ItemStops
      BY <2>1, <2>2, InnerTokens DEF ItemStops, EntryStops, KeyMarks
  <2>4. f.flow = FALSE
      BY <2>1, <2>2, <2>3
  <2>5. Good(Return(e, "node"))
      BY <1>3, <1>5, <2>4, ReturnGood
  <2> QED BY <1>6, <2>5
<1>7. CASE dec' = Go(dec, "sequence")
  <2>1. PICK x \in SequencePoints : x = "sequence" /\ x # "entry"
      BY PlainIs
  <2>2. Good(Go(dec, x))
      BY <1>1, <1>3, <2>1, GoGood
  <2> QED BY <1>7, <2>1, <2>2
<1> QED BY <1>4, <1>6, <1>7

\* A call inside that of a collection returns, and no collection ends.
LEMMA LeaveCall ==
    ASSUME NEW f, NEW g, NEW h, NEW opened, NEW held, AtEvent(f, g, h, opened, held),
           f.at \in EntryPoints \union LevelPoints,
           NEW a, NEW value, Placed(a, f, g, h, opened, value, FALSE, dec.document), NEW v
    PROVE  /\ f \in Calls /\ Nests(g, f) /\ g.at # "stream"
           /\ f.at \in LevelPoints => Blocks(opened)
           /\ \E e : Placed(Return(a, v), g, h, e, opened, v, FALSE, dec.document)
<1>1. f.at \notin MappingPoints \union SequencePoints \union DocumentPoints /\ f.at # "stream"
    BY DEF EntryPoints, LevelPoints, MappingPoints, SequencePoints, DocumentPoints
<1>2. f \in Calls
    BY <1>1, PlacedIn
<1>3. PICK e : \E before \in Seq(Openers) :
          Reads(g, f, before, opened) /\ Placed(Return(a, v), g, h, e, before, v, FALSE, dec.document)
    BY <1>1, ReturnPlaced
<1>4. PICK before \in Seq(Openers) :
          Reads(g, f, before, opened) /\ Placed(Return(a, v), g, h, e, before, v, FALSE, dec.document)
    BY <1>3
<1>5. before = opened /\ Nests(g, f) /\ (f.at \in LevelPoints => Blocks(before))
    BY <1>1, <1>2, <1>4, OpenerIs DEF Reads, WithOpener
<1>6. g.at # "stream"
    BY <1>1, <1>5 DEF Nests
<1> QED BY <1>2, <1>4, <1>5, <1>6

LEMMA LeaveGood ==
    ASSUME NEW f, NEW g, NEW h, NEW opened, NEW held, AtEvent(f, g, h, opened, held),
           f.at \in EntryPoints \union LevelPoints,
           NEW a, NEW value, Placed(a, f, g, h, opened, value, FALSE, dec.document)
    PROVE  Good(Return(a, "node"))
<1>1. Right(dec, f, g, h, opened, held) /\ dec.taken = FALSE
    BY AtEventIs
<1> DEFINE s == Return(a, "node")
<1>2. PICK e : Placed(s, g, h, e, opened, "node", FALSE, dec.document)
    BY LeaveCall
<1>3. g.at # "stream"
    BY LeaveCall
<1> HIDE DEF s
<1>4. Calm("node", FALSE, held, g, h, e)
    BY CalmIs
<1>5. Good(s)
    BY <1>1, <1>2, <1>3, <1>4, SameGood
<1> QED BY <1>5 DEF s

LEMMA DecodeItemGood ==
    ASSUME NEW f, NEW g, NEW h, NEW opened, NEW held, AtEvent(f, g, h, opened, held), DecodeItem
    PROVE  Good(dec')
<1>1. /\ Right(dec, f, g, h, opened, held) /\ dec.taken = FALSE /\ Top(dec) = f
      /\ Placed(dec, f, g, h, opened, dec.ret, FALSE, dec.document)
    BY AtEventIs
<1> DEFINE n == Put(dec, "null")
           p == Put(n, "pair")
<1>2. f.at = "entry" /\ dec.ret = "pending"
    BY <1>1 DEF DecodeItem, At
<1>3. EntryPoints \in Codes /\ f.at \in EntryPoints
    BY <1>2, PlainIs
<1>4. \/ dec' = Return(n, "node")
      \/ event.tok \in KeyMarks /\ dec' = CallNode(Go(Take(dec), "pair key"), "other")
      \/ event.tok = "Value" /\ dec' = CallNode(Go(Take(p), "pair value"), "other")
      \/ (f.flow = TRUE => event.tok \notin KeyMarks \union {"Value"}) /\ dec' = CallNode(Go(dec, "item node"), "other")
    BY <1>1 DEF DecodeItem
<1>5. Placed(n, f, g, h, opened, dec.ret, FALSE, dec.document)
    BY <1>1, PutPlaced
<1> HIDE DEF n
<1>6. Placed(p, f, g, h, opened, dec.ret, FALSE, dec.document)
    BY <1>5, PutPlaced
<1> HIDE DEF p
<1>7. CASE dec' = Return(n, "node")
    BY <1>3, <1>5, <1>7, LeaveGood
<1>8. CASE event.tok \in KeyMarks /\ dec' = CallNode(Go(Take(dec), "pair key"), "other")
  <2>1. PICK x \in EntryPoints : x = "pair key" /\ x \in PlainPoints
      BY PlainIs
  <2>2. Placed(Take(dec), f, g, h, opened, dec.ret, TRUE, dec.document)
      BY <1>1, TakePlaced
  <2>3. event.tok \notin Openers \union Closers
      BY <1>8, InnerTokens DEF KeyMarks
  <2>4. Good(CallNode(Go(Take(dec), x), "other"))
      BY <1>3, <2>1, <2>2, <2>3, PlainNodeGood
  <2> QED BY <1>8, <2>1, <2>4
<1>9. CASE event.tok = "Value" /\ dec' = CallNode(Go(Take(p), "pair value"), "other")
  <2>1. PICK x \in EntryPoints : x = "pair value" /\ x \in PlainPoints
      BY PlainIs
  <2>2. Placed(Take(p), f, g, h, opened, dec.ret, TRUE, dec.document)
      BY <1>6, TakePlaced
  <2>3. event.tok \notin Openers \union Closers
      BY <1>9, InnerTokens
  <2>4. Good(CallNode(Go(Take(p), x), "other"))
      BY <1>3, <2>1, <2>2, <2>3, PlainNodeGood
  <2> QED BY <1>9, <2>1, <2>4
<1>10. CASE (f.flow = TRUE => event.tok \notin KeyMarks \union {"Value"}) /\ dec' = CallNode(Go(dec, "item node"), "other")
  <2>1. PICK x \in EntryPoints : x = "item node" /\ x # "first item"
      BY PlainIs
  <2>2. f.flow = TRUE /\ g.at = "first item" => event.tok \notin EntryStops
      BY <1>1, <1>2 DEF Right, Calm
  <2>3. f.flow = TRUE /\ g.at = "first item" => event.tok \notin ItemStops
      BY <1>10, <2>2 DEF ItemStops
  <2>4. Hanging(x, f.flow, FALSE, held, g)
      BY <2>1, <2>3 DEF Hanging, Hangs, BarePoints
  <2>5. Good(CallNode(Go(dec, x), "other"))
      BY <1>1, <1>3, <2>1, <2>4, GoNodeGood
  <2> QED BY <1>10, <2>1, <2>5
<1> QED BY <1>4, <1>7, <1>8, <1>9, <1>10

LEMMA DecodeItemDoneGood ==
    ASSUME NEW f, NEW g, NEW h, NEW opened, NEW held, AtEvent(f, g, h, opened, held), DecodeItemDone
    PROVE  Good(dec')
<1>1. /\ Right(dec, f, g, h, opened, held) /\ dec.taken = FALSE /\ Top(dec) = f
      /\ Placed(dec, f, g, h, opened, dec.ret, FALSE, dec.document)
    BY AtEventIs
<1>2. f.at = "item node" /\ dec.ret \in {"none", "node"}
    BY <1>1 DEF DecodeItemDone, Back, AtEvent
<1>3. EntryPoints \in Codes /\ f.at \in EntryPoints
    BY <1>2, PlainIs
<1>4. \/ event.tok = "Value" /\ dec' = CallNode(Go(Take(Put(dec, "pair")), "pair value"), "other")
      \/ dec' = Return(dec, dec.ret)
    BY DEF DecodeItemDone
<1>5. CASE event.tok = "Value" /\ dec' = CallNode(Go(Take(Put(dec, "pair")), "pair value"), "other")
  <2>1. PICK x \in EntryPoints : x = "pair value" /\ x \in PlainPoints
      BY PlainIs
  <2> DEFINE p == Put(dec, "pair")
  <2>2. Placed(p, f, g, h, opened, dec.ret, FALSE, dec.document)
      BY <1>1, PutPlaced
  <2> HIDE DEF p
  <2>3. Placed(Take(p), f, g, h, opened, dec.ret, TRUE, dec.document)
      BY <2>2, TakePlaced
  <2>4. event.tok \notin Openers \union Closers
      BY <1>5, InnerTokens
  <2>5. Good(CallNode(Go(Take(p), x), "other"))
      BY <1>3, <2>1, <2>3, <2>4, PlainNodeGood
  <2> QED BY <1>5, <2>1, <2>5 DEF p
<1>6. CASE dec' = Return(dec, dec.ret) /\ dec.ret = "node"
    BY <1>1, <1>3, <1>6, LeaveGood
<1>7. CASE dec' = Return(dec, dec.ret) /\ dec.ret = "none"
  <2> DEFINE s == Return(dec, "none")
  <2>1. PICK e : Placed(s, g, h, e, opened, "none", FALSE, dec.document)
      BY <1>1, <1>3, LeaveCall
  <2>2. g.at # "stream" /\ Nests(g, f)
      BY <1>1, <1>3, LeaveCall
  <2> HIDE DEF s
  <2>3. g.at \in ItemPoints /\ (g.at = "first item" => f.flow = g.flow)
      BY <1>3, <2>2 DEF Nests, Fits
  <2>4. g.at \notin {"implicit", "item node"} \union BarePoints
      BY <2>3 DEF ItemPoints, BarePoints
  <2>5. Hangs(FALSE, held, g, h)
      BY <2>4, CalmIs
  <2>6. event.tok \notin NodeStarts /\ (f.flow = TRUE /\ g.at = "first item" => event.tok \notin ItemStops)
      BY <1>1, <1>2, <1>7 DEF Right, Calm, Hangs
  <2>7. Calm("none", FALSE, held, g, h, e)
      BY <2>3, <2>5, <2>6 DEF Calm
  <2>8. Good(s)
      BY <1>1, <2>1, <2>2, <2>7, SameGood
  <2> QED BY <1>7, <2>8 DEF s
<1> QED BY <1>2, <1>4, <1>5, <1>6, <1>7

LEMMA DecodePairGood ==
    ASSUME NEW f, NEW g, NEW h, NEW opened, NEW held, AtEvent(f, g, h, opened, held),
           DecodePairKeyDone \/ DecodePairDone
    PROVE  Good(dec')
<1>1. Placed(dec, f, g, h, opened, dec.ret, FALSE, dec.document) /\ Top(dec) = f
    BY AtEventIs
<1> DEFINE o == OrNull(dec)
           p == Put(o, "pair")
           e == Put(o, "end pair")
<1>2. EntryPoints \in Codes /\ f.at \in EntryPoints
    BY <1>1, PlainIs DEF DecodePairKeyDone, DecodePairDone, Back
<1>3. PICK x \in EntryPoints : x = "pair value" /\ x \in PlainPoints
    BY PlainIs
<1>4. \/ event.tok = "Value" /\ dec' = CallNode(Go(Take(p), x), "other")
      \/ dec' = CallNode(Go(p, x), "other")
      \/ dec' = Return(e, "node")
    BY <1>3 DEF DecodePairKeyDone, DecodePairDone
<1>5. Placed(o, f, g, h, opened, dec.ret, FALSE, dec.document)
    BY <1>1, PutPlaced
<1> HIDE DEF o
<1>6. Placed(p, f, g, h, opened, dec.ret, FALSE, dec.document) /\ Placed(e, f, g, h, opened, dec.ret, FALSE, dec.document)
    BY <1>5, PutPlaced
<1> HIDE DEF p, e
<1>7. CASE event.tok = "Value" /\ dec' = CallNode(Go(Take(p), x), "other")
  <2>1. Placed(Take(p), f, g, h, opened, dec.ret, TRUE, dec.document)
      BY <1>6, TakePlaced
  <2>2. event.tok \notin Openers \union Closers
      BY <1>7, InnerTokens
  <2>3. Good(CallNode(Go(Take(p), x), "other"))
      BY <1>2, <1>3, <2>1, <2>2, PlainNodeGood
  <2> QED BY <1>7, <2>3
<1>8. Good(CallNode(Go(p, x), "other"))
    BY <1>2, <1>3, <1>6, PlainNodeGood
<1>9. Good(Return(e, "node"))
    BY <1>2, <1>6, LeaveGood
<1> QED BY <1>4, <1>7, <1>8, <1>9

\* A sequence without brackets is in no flow collection: no bracket closes there.
LEMMA DecodeLevelGood ==
    ASSUME NEW f, NEW g, NEW h, NEW opened, NEW held, AtEvent(f, g, h, opened, held),
           DecodeIndentlessEntry \/ DecodeIndentlessItem \/ DecodeIndentlessItemDone
    PROVE  Good(dec')
<1>1. /\ Right(dec, f, g, h, opened, held) /\ dec.taken = FALSE /\ Top(dec) = f
      /\ Placed(dec, f, g, h, opened, dec.ret, FALSE, dec.document)
    BY AtEventIs
<1> DEFINE e == Put(dec, "end")
           n == Put(dec, "null")
<1>2. LevelPoints \in Codes /\ f.at \in LevelPoints
    BY <1>1, PlainIs DEF DecodeIndentlessEntry, DecodeIndentlessItem, DecodeIndentlessItemDone, At, Back, LevelPoints
<1>3. PICK x \in LevelPoints : x = "indentless" /\ x # "entry"
    BY DEF LevelPoints
<1>4. PICK y \in LevelPoints : y = "level item" /\ y # "entry"
    BY DEF LevelPoints
<1>5. \/ event.tok = "Entry" /\ dec' = Go(Take(dec), y)
      \/ event.tok = "FlowMapEnd"
      \/ dec' = Return(e, "node")
      \/ dec' = Go(n, x) \/ dec' = Go(dec, x)
      \/ f.at = "level item" /\ dec' = CallNode(dec, "other")
    BY <1>1, <1>3, <1>4 DEF DecodeIndentlessEntry, DecodeIndentlessItem, DecodeIndentlessItemDone, At, LevelEnds
<1>6. Placed(e, f, g, h, opened, dec.ret, FALSE, dec.document) /\ Placed(n, f, g, h, opened, dec.ret, FALSE, dec.document)
    BY <1>1, PutPlaced
<1> HIDE DEF e, n
<1>7. event.tok # "FlowMapEnd"
  <2>1. opened \in Seq(Openers) /\ held \in Seq(Openers) /\ Matches(opened, held) /\ Flows(held)
      BY AtEventIs
  <2>2. Fit(held, event.tok)
      BY <1>1 DEF Right, Text
  <2>3. Blocks(opened)
      BY <1>1, <1>2, LeaveCall
  <2>4. Innermost(held) \notin FlowOpenings
      BY <2>1, <2>3, BlocksMatch
  <2> QED BY <2>2, <2>4 DEF Fit, Closes, Closers, FlowOpenings
<1>8. CASE event.tok = "Entry" /\ dec' = Go(Take(dec), y)
  <2>1. Placed(Take(dec), f, g, h, opened, dec.ret, TRUE, dec.document)
      BY <1>1, TakePlaced
  <2>2. event.tok \notin Openers \union Closers
      BY <1>8, InnerTokens
  <2>3. Good(Go(Take(dec), y))
      BY <1>2, <1>4, <2>1, <2>2, GoGood
  <2> QED BY <1>8, <2>3
<1>9. Good(Return(e, "node"))
    BY <1>2, <1>6, LeaveGood
<1>10. Good(Go(n, x)) /\ Good(Go(dec, x))
  <2>1. Good(Go(n, x))
      BY <1>2, <1>3, <1>6, GoGood
  <2>2. Good(Go(dec, x))
      BY <1>1, <1>2, <1>3, GoGood
  <2> QED BY <2>1, <2>2
<1>11. CASE f.at = "level item" /\ dec' = CallNode(dec, "other")
  <2>1. f.at \notin {"stream", "first item"}
      BY <1>11
  <2>2. Hangs(FALSE, held, f, g)
      BY <1>11, CalmIs DEF BarePoints
  <2>3. Good(CallNode(dec, "other"))
      BY <1>1, <2>1, <2>2, NodeGood
  <2> QED BY <1>11, <2>3
<1> QED BY <1>5, <1>7, <1>8, <1>9, <1>10, <1>11

-----------------------------------------------------------------------------
\* Every step of the decoder.
LEMMA DecodeGood ==
    ASSUME Shaped(dec), EventOK, Good(dec), Decode
    PROVE  Good(dec')
<1>1. dec.taken = FALSE /\ dec.failed = FALSE /\ dec.ret \in {"pending", "none", "node"}
    BY DEF Shaped, IsReader, Decode, Looks
<1>2. PICK opened, held, f, g, h : Right(dec, f, g, h, opened, held)
    BY <1>1 DEF Good
<1>3. AtEvent(f, g, h, opened, held)
    BY <1>1, <1>2 DEF AtEvent
<1>4. CASE DecodeBetween \/ DecodeDirective
    BY <1>3, <1>4, DecodeBetweenGood
<1>5. CASE DecodeDocument
    BY <1>3, <1>5, DecodeDocumentGood
<1>6. CASE DecodeDocumentDone
    BY <1>3, <1>6, DecodeDocumentDoneGood
<1>7. CASE DecodeTag \/ DecodeAnchor
    BY <1>3, <1>7, DecodePropertyGood
<1>8. CASE DecodeScalar \/ DecodeAlias \/ DecodeCollectionKey \/ DecodeCollected
    BY <1>3, <1>8, DecodeScalarGood
<1>9. CASE DecodeCollection
    BY <1>3, <1>9, DecodeCollectionGood
<1>10. CASE DecodeIndentless
    BY <1>3, <1>10, DecodeIndentlessGood
<1>11. CASE DecodeEmpty
    BY <1>3, <1>11, DecodeEmptyGood
<1>12. CASE DecodeMappingEnd \/ DecodeSequenceEnd
    BY <1>3, <1>12, DecodeEndGood
<1>13. CASE DecodeMappingComma
    BY <1>3, <1>13, DecodeMappingCommaGood
<1>14. CASE DecodeKey \/ DecodeKeyDone \/ DecodeValueDone
    BY <1>3, <1>14, DecodeKeyGood
<1>15. CASE DecodeBareKey
    BY <1>3, <1>15, DecodeBareKeyGood
<1>16. CASE DecodeBareKeyDone
    BY <1>3, <1>16, DecodeBareKeyDoneGood
<1>17. CASE DecodeEntry
    BY <1>3, <1>17, DecodeEntryGood
<1>18. CASE DecodeEntryDone
    BY <1>3, <1>18, DecodeEntryDoneGood
<1>19. CASE DecodeItem
    BY <1>3, <1>19, DecodeItemGood
<1>20. CASE DecodeItemDone
    BY <1>3, <1>20, DecodeItemDoneGood
<1>21. CASE DecodePairKeyDone \/ DecodePairDone
    BY <1>3, <1>21, DecodePairGood
<1>22. CASE DecodeIndentlessEntry \/ DecodeIndentlessItem \/ DecodeIndentlessItemDone
    BY <1>3, <1>22, DecodeLevelGood
<1> QED BY <1>4, <1>5, <1>6, <1>7, <1>8, <1>9, <1>10, <1>11, <1>12, <1>13, <1>14, <1>15, <1>16, <1>17, <1>18,
           <1>19, <1>20, <1>21, <1>22 DEF Decode

\* Nothing else is looked at.
LEMMA GoodNext ==
    ASSUME Good(dec'), event' = event, open' = open, apart' = apart
    PROVE  Good(dec)'
<1>1. CASE dec'.failed = TRUE /\ dec'.document = None
    BY <1>1 DEF Good
<1>2. CASE \E opened, held, f, g, h : Right(dec', f, g, h, opened, held)
  <2>1. PICK opened, held, f, g, h : Right(dec', f, g, h, opened, held)
      BY <1>2
  <2>2. Right(dec, f, g, h, opened, held)'
    <3>1. Text(dec.taken, held)'
        BY <2>1 DEF Right, Text, Fit
    <3>2. Calm(dec.ret, dec.taken, held, f, g, h)'
        BY <2>1 DEF Right, Calm, Hangs
    <3> QED BY <2>1, <3>1, <3>2 DEF Right
  <2> QED BY <2>2 DEF Good
<1> QED BY <1>1, <1>2 DEF Good

\* What the scanner promises of the token it gives.
LEMMA GiveFits ==
    ASSUME NEW t \in Tokens, TS!Give(t)
    PROVE  Fit(open, t) /\ (t \in Boundaries => open = <<>>) /\ open' = After(open, t)
<1>1. /\ TS!Openers = Openers /\ TS!Closers = Closers /\ TS!Boundaries = Boundaries
      /\ TS!BlockOpeners = BlockOpeners /\ TS!FlowOpenings = FlowOpenings
    BY DEF TS!Openers, TS!Closers, TS!Boundaries, TS!BlockOpeners, TS!FlowOpenings,
           Openers, Closers, Boundaries, BlockOpeners, FlowOpenings
<1>2. TS!Innermost(open) = Innermost(open)
    BY DEF TS!Innermost, Innermost
<1> DEFINE u == Innermost(open)
<1> HIDE DEF u
<1>3. TS!Closes(t, u) <=> Closes(t, u)
    BY <1>1 DEF TS!Closes, Closes
<1>4. TS!After(open, t) = After(open, t)
    BY <1>1 DEF TS!After, After
<1>5. TS!Allowed(t) /\ open' = After(open, t)
    BY <1>4 DEF TS!Give
<1>6. /\ t \in Closers => Closes(t, u)
      /\ t \in Boundaries => open = <<>>
      /\ t \in BlockOpeners => u \notin FlowOpenings
      /\ t = "Entry" => u \in BlockOpeners
    BY <1>1, <1>2, <1>3, <1>5 DEF TS!Allowed, u
<1> QED BY <1>5, <1>6 DEF Fit, u

\* The next event: what hangs on it, hangs on none that is taken.
LEMMA AdvanceGood ==
    ASSUME Shaped(dec), Good(dec), Advance
    PROVE  Good(dec)'
<1>1. dec.taken = TRUE /\ dec.failed = FALSE
    BY DEF Shaped, IsReader, Advance, BothDone
<1>2. PICK opened, held, f, g, h : Right(dec, f, g, h, opened, held)
    BY <1>1 DEF Good
<1>3. /\ Placed(dec, f, g, h, opened, dec.ret, TRUE, dec.document)
      /\ held \in Seq(Openers) /\ Flows(held) /\ open = held
      /\ Matches(opened, held) /\ (apart => Len(opened) < Len(held)) /\ (f.at = "stream" => held = <<>>)
      /\ Calm(dec.ret, TRUE, held, f, g, h)
    BY <1>1, <1>2 DEF Right, Text
<1>4. PICK t \in Tokens : TS!Give(t) /\ event'.tok = t
  <2>1. PICK t \in Tokens : \E arg : TS!Give(t) /\ event' = [tok |-> t, arg |-> arg]
      BY DEF Advance
  <2> QED BY <2>1
<1>5. Text(FALSE, held)'
  <2>1. Fit(open, t) /\ (t \in Boundaries => open = <<>>) /\ open' = After(open, t)
      BY <1>4, GiveFits
  <2> QED BY <1>3, <1>4, <2>1 DEF Text, Fit
<1>6. dec' = [dec EXCEPT !.taken = FALSE, !.out = <<>>, !.document = None]
    BY DEF Advance
<1>7. Placed(dec', f, g, h, opened, dec.ret, FALSE, None) /\ dec'.ret = dec.ret
  <2>1. DOMAIN dec' = DOMAIN dec /\ \A i \in DOMAIN dec : i \notin {"taken", "out", "document"} => dec'[i] = dec[i]
      BY <1>6
  <2>2. dec'.taken = FALSE /\ dec'.document = None
      BY <1>3, <1>6 DEF Placed, Core
  <2>3. dec'.stack = dec.stack /\ dec'.ret = dec.ret /\ dec'.failed = dec.failed
      BY <1>3, <2>1 DEF Placed, Core
  <2> QED BY <1>3, <2>1, <2>2, <2>3 DEF Placed
<1>8. Calm(dec.ret, FALSE, held, f, g, h)'
  <2>1. dec.ret # "none" /\ ~(dec.ret = "pending" /\ f.at = "entry" /\ f.flow = TRUE /\ g.at = "first item")
      BY <1>3 DEF Calm
  <2>2. dec.ret = "pending" /\ f.at = "node" /\ f.tag = None /\ f.anchor = None => Hangs(FALSE, held, g, h)'
      BY <1>3 DEF Calm, Hangs
  <2> QED BY <1>7, <2>1, <2>2 DEF Calm
<1>9. apart' => Len(opened) < Len(held)
  <2>1. Reading(dec) = opened /\ opened \in Seq(Openers)
      BY <1>3, StandsReading DEF Placed
  <2>2. apart' => apart \/ opened # held
      BY <1>3, <2>1 DEF Advance, ApartNow
  <2> QED BY <1>3, <2>1, <2>2, MatchesShorter
<1>10. dec'.taken = FALSE /\ dec'.document = None
    BY <1>7 DEF Placed
<1>11. Right(dec, f, g, h, opened, held)'
    BY <1>3, <1>5, <1>7, <1>8, <1>9, <1>10 DEF Right
<1> QED BY <1>11 DEF Good

\* Nothing is open, and nothing read, at the start.
LEMMA InitGood == Init => Good(dec)
<1> SUFFICES ASSUME Init PROVE Good(dec)
    OBVIOUS
<1>1. /\ {"stack", "ret", "taken", "failed", "document"} \subseteq DOMAIN dec
      /\ dec.stack = <<>> /\ dec.ret = "pending" /\ dec.taken = TRUE /\ dec.failed = FALSE /\ dec.document = None
    BY DEF Init, DecoderInit, ReaderWith, Reader
<1>2. open = <<>> /\ apart = FALSE
    BY DEF Init, TS!Init
<1>3. \A k \in {0, 1, 2} : Down(<<>>, k) = Outside
    BY DownEmpty
<1>4. Stands(<<>>, <<>>) /\ <<>> \in Seq(Calls) /\ <<>> \in Seq(Openers)
    BY StandsEmpty
<1>5. Placed(dec, Outside, Outside, Outside, <<>>, "pending", TRUE, None)
    BY <1>1, <1>3, <1>4 DEF Placed, Core
<1>6. Flows(<<>>) /\ Matches(<<>>, <<>>)
    BY DEF Flows, Matches
<1>7. Outside.at = "stream"
    BY DEF Outside, Frame
<1>8. Calm("pending", TRUE, <<>>, Outside, Outside, Outside)
    BY <1>7, CalmIs
<1>9. Text(TRUE, <<>>)
    BY <1>2, <1>4, <1>6 DEF Text
<1>10. Right(dec, Outside, Outside, Outside, <<>>, <<>>)
    BY <1>1, <1>2, <1>5, <1>6, <1>8, <1>9 DEF Right
<1> QED BY <1>10 DEF Good

LEMMA NextGood ==
    ASSUME IInv, Good(dec), [Next]_vars
    PROVE  Good(dec)'
<1>1. Shaped(dec) /\ EventOK
    BY DEF IInv, DecoderInv, EventOK
<1>2. CASE Advance
    BY <1>1, <1>2, AdvanceGood
<1>3. CASE Decoding
  <2>1. Decode /\ event' = event /\ open' = open /\ apart' = apart
      BY <1>3 DEF Decoding
  <2> QED BY <1>1, <2>1, DecodeGood, GoodNext
<1>4. CASE Composing \/ UNCHANGED vars
  <2>1. dec' = dec /\ event' = event /\ open' = open /\ apart' = apart
      BY <1>4 DEF Composing, vars
  <2>2. Good(dec')
      BY <2>1
  <2> QED BY <2>1, <2>2, GoodNext
<1> QED BY <1>2, <1>3, <1>4 DEF Next

\* However the text is indented, flows or leaves things out: in a document that
\* loads() accepts, decode_mapping, decode_sequence and decode_block_sequence were
\* inside exactly the collections the scanner had open, after every event of it.
\* Where the decoder leaves a block collection early, what it reads stays shorter
\* than what is open, so that the document does not end for it.
THEOREM ReadersReadAsOpened == Spec => []ReadAsOpened
<1>1. Init => Good(dec)
    BY InitGood
<1>2. IInv /\ Good(dec) /\ [Next]_vars => Good(dec)'
    BY NextGood
<1>3. IInv /\ Good(dec) => ReadAsOpened
  <2> SUFFICES ASSUME IInv, Good(dec), Accepted PROVE ~ApartNow
      BY DEF ReadAsOpened
  <2>1. dec.taken = TRUE /\ dec.document # None
      BY DEF IInv, DecoderInv, Shaped, IsReader, Accepted, BothDone
  <2>2. PICK opened, held, f, g, h : Right(dec, f, g, h, opened, held)
      BY <2>1 DEF Good
  <2>3. /\ Placed(dec, f, g, h, opened, dec.ret, dec.taken, dec.document) /\ held = <<>> /\ open = held
        /\ held \in Seq(Openers) /\ Flows(held) /\ Matches(opened, held) /\ (apart => Len(opened) < Len(held))
      BY <2>1, <2>2 DEF Right, Text
  <2>4. Reading(dec) = opened /\ opened \in Seq(Openers)
      BY <2>3, StandsReading DEF Placed
  <2>5. opened = <<>>
      BY <2>3, <2>4, BlocksMatch
  <2>6. ~apart
      BY <2>3, <2>5
  <2> QED BY <2>3, <2>4, <2>5, <2>6 DEF ApartNow
<1> QED BY <1>1, <1>2, <1>3, ReadersInvariant, PTL DEF Spec
=============================================================================

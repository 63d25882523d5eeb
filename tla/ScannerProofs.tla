--------------------------- MODULE ScannerProofs -----------------------------
(***************************************************************************)
(* Proofs about the scanner, for every column range, flow depth and buffer  *)
(* bound.                                                                   *)
(***************************************************************************)
EXTENDS Scanner, FiniteSetTheorems, SequenceLemmas, TLAPS

\* unwind_indents keeps a prefix of the levels.
LEMMA KeptLenType ==
    ASSUME NEW lv \in Seq(Levels), NEW col \in Int
    PROVE  KeptLen(lv, col) \in 0 .. Len(lv)
<1> DEFINE S == {i \in 1 .. Len(lv) : lv[i].col <= col}
<1>1. IsFiniteSet(1 .. Len(lv)) /\ Cardinality(1 .. Len(lv)) = Len(lv)
  <2>1. Len(lv) \in Nat
    OBVIOUS
  <2> QED
    BY <2>1, FS_Interval
<1>2. S \subseteq 1 .. Len(lv)
  OBVIOUS
<1>3. IsFiniteSet(S) /\ Cardinality(S) <= Len(lv)
  BY <1>1, <1>2, FS_Subset
<1>4. Cardinality(S) \in Nat
  BY <1>3, FS_CardinalityType
<1> QED
  BY <1>3, <1>4 DEF KeptLen

LEMMA IndentType ==
    ASSUME NEW lv \in Seq(Levels)
    PROVE  Indent(lv) \in Columns \union {-1}
<1>1. CASE lv = <<>>
  BY <1>1 DEF Indent
<1>2. CASE lv # <<>>
  <2>1. Len(lv) \in 1 .. Len(lv)
    BY <1>2
  <2>2. lv[Len(lv)] \in Levels
    BY <2>1
  <2> QED
    BY <1>2, <2>2 DEF Indent, Levels
<1> QED
  BY <1>1, <1>2

\* roll_indent only ever adds a level on top.
LEMMA RolledType ==
    ASSUME NEW lv \in Seq(Levels), NEW col \in Columns, NEW seq \in BOOLEAN
    PROVE  Rolled(lv, col, seq) \in Seq(Levels)
<1>1. [col |-> col, seq |-> seq] \in Levels
  BY DEF Levels
<1>2. Append(lv, [col |-> col, seq |-> seq]) \in Seq(Levels)
  BY <1>1
<1> QED
  BY <1>2 DEF Rolled

\* What a fetch does to the levels before its handler runs: a prefix stays.
LEMMA LvPrefix ==
    ASSUME NEW l \in Lexemes, levels \in Seq(Levels), ScannerAssumption
    PROVE  /\ Lv(l) \in Seq(Levels)
           /\ Len(Lv(l)) <= Len(levels)
           /\ \A i \in 1 .. Len(Lv(l)) : Lv(l)[i] = levels[i]
<1>1. l.col \in Int
  BY DEF Lexemes, Columns, ScannerAssumption
<1> DEFINE k == KeptLen(levels, l.col)
<1>2. k \in 0 .. Len(levels)
  BY <1>1, KeptLenType
<1> HIDE DEF k
<1>3. /\ Unwound(levels, l.col) = SubSeq(levels, 1, k)
      /\ SubSeq(levels, 1, k) \in Seq(Levels) /\ Len(SubSeq(levels, 1, k)) = k
      /\ \A i \in 1 .. k : SubSeq(levels, 1, k)[i] = levels[i]
  BY <1>2 DEF Unwound, k
<1>4. CASE InFlow
  BY <1>4 DEF Lv
<1>5. CASE ~InFlow /\ ~ClosesSeq(Unwound(levels, l.col), l)
  BY <1>2, <1>3, <1>5 DEF Lv, Kept
<1>6. CASE ~InFlow /\ ClosesSeq(Unwound(levels, l.col), l)
  <2> DEFINE u == SubSeq(levels, 1, k)
  <2>1. u # <<>> /\ k > 0
    BY <1>2, <1>3, <1>6 DEF ClosesSeq, IsSeq
  <2>2. Lv(l) = SubSeq(u, 1, k - 1)
    BY <1>3, <1>6 DEF Lv, Kept
  <2> HIDE DEF u
  <2>3. u \in Seq(Levels) /\ Len(u) = k /\ \A i \in 1 .. k : u[i] = levels[i]
    BY <1>3 DEF u
  <2> QED
    BY <1>2, <2>1, <2>2, <2>3
<1> QED
  BY <1>4, <1>5, <1>6
-----------------------------------------------------------------------------
\* The values a fetch builds its next state from are of their types.
LEMMA FetchTypes ==
    ASSUME NEW l \in Lexemes, TypeOK, ScannerAssumption
    PROVE  /\ l.col \in Columns /\ l.tab \in BOOLEAN /\ l.nl \in BOOLEAN /\ l.cls \in Classes
           /\ Lv(l) \in Seq(Levels) /\ Closed(l) \in Seq(Tokens)
           /\ LineAt(l) \in Lines /\ FlAt \in FlowFlags /\ BkAt(l) \in BlockFlags
           /\ KeyAt(l) \in Keys \union {NoKey} /\ NoteKey(l) \in Keys \union {NoKey}
           /\ Here(l.col) \in Cursors
           /\ Indent(Lv(l)) \in Columns \union {-1}
           /\ InFlow \in BOOLEAN
<1>1. l.col \in Columns /\ l.tab \in BOOLEAN /\ l.nl \in BOOLEAN /\ l.cls \in Classes
  BY DEF Lexemes
<1>2. Lv(l) \in Seq(Levels) /\ Len(Lv(l)) <= Len(levels)
  BY LvPrefix DEF TypeOK
<1>3. Closed(l) \in Seq(Tokens)
  <2>1. Len(levels) - Len(Lv(l)) \in Nat
    BY <1>2 DEF TypeOK
  <2>2. "BlockEnd" \in Tokens
    BY DEF Tokens, Closers
  <2> HIDE DEF Tokens
  <2> QED
    BY <2>1, <2>2 DEF Closed, Ends
<1>4. LineAt(l) \in Lines
  BY DEF LineAt, TypeOK, Lines, NewLine
<1>5. InFlow \in BOOLEAN
  BY DEF InFlow
<1>6. FlAt \in FlowFlags
  BY DEF FlAt, TypeOK, FlowFlags
<1>7. BkAt(l) \in BlockFlags
  BY <1>1, <1>5 DEF BkAt, TypeOK, BlockFlags, AllowedAt
<1>8. KeyAt(l) \in Keys \union {NoKey}
  BY DEF KeyAt, TypeOK
<1>9. NoteKey(l) \in Keys \union {NoKey}
  <2>1. Len(queue) + Len(Closed(l)) \in Nat
    BY <1>3 DEF TypeOK
  <2> QED
    BY <1>1, <1>8, <2>1 DEF NoteKey, Keys
<1>10. Here(l.col) \in Cursors
  BY <1>1 DEF Here, Cursors, Columns, ScannerAssumption
<1>11. Indent(Lv(l)) \in Columns \union {-1}
  BY <1>2, IndentType
<1> QED
  BY <1>1, <1>2, <1>3, <1>4, <1>5, <1>6, <1>7, <1>8, <1>9, <1>10, <1>11

LEMMA RollTokenType ==
    ASSUME NEW lv, NEW col, NEW tok \in Tokens
    PROVE  RollToken(lv, col, tok) \in Seq(Tokens)
BY DEF RollToken

LEMMA ConcatType ==
    ASSUME NEW s \in Seq(Tokens), NEW t \in Seq(Tokens)
    PROVE  s \o t \in Seq(Tokens)
OBVIOUS

LEMMA TokenNames ==
    {"StreamStart", "StreamEnd", "DocStart", "DocEnd", "Directive", "BlockMap",
     "BlockSeq", "BlockEnd", "FlowMap", "FlowSeq", "FlowMapEnd", "FlowSeqEnd",
     "FlowEntry", "Entry", "Key", "KeyExplicit", "Value", "Scalar", "Anchor",
     "Alias", "Tag"} \subseteq Tokens
BY DEF Tokens, Openers, BlockOpeners, FlowOpenings, Closers, Boundaries, NodeStarts

LEMMA FailType == ASSUME TypeOK, Fail PROVE TypeOK'
BY DEF TypeOK, Fail, given

LEMMA StartType == ASSUME TypeOK, Start PROVE TypeOK'
<1>1. CASE Fail
  BY <1>1, FailType
<1>2. ASSUME ~Fail PROVE TypeOK'
  <2>1. <<"StreamStart">> \in Seq(Tokens)
    BY TokenNames
  <2>2. queue' \in Seq(Tokens)
    BY <1>2, <2>1, ConcatType DEF Start, Emit, TypeOK
  <2> QED
    BY <1>2, <2>2 DEF Start, TypeOK, given
<1> QED
  BY <1>1, <1>2

LEMMA DeliverType == ASSUME TypeOK, Deliver PROVE TypeOK'
<1>1. Head(queue) \in Tokens /\ queue' \in Seq(Tokens)
  BY DEF Deliver, TypeOK
<1>2. phase' \in Phases
  BY DEF Deliver, PhaseAfter, Phases
<1>3. open' \in Seq(Openers)
  <2>1. open \in Seq(Openers) /\ open' = After(open, Head(queue))
    BY DEF Deliver, TypeOK
  <2>2. SubSeq(open, 1, Len(open) - 1) \in Seq(Openers)
    <3>1. CASE open = <<>>
      BY <2>1, <3>1
    <3>2. CASE open # <<>>
      BY <2>1, <3>2
    <3> QED
      BY <3>1, <3>2
  <2>3. Head(queue) \in Openers => Append(open, Head(queue)) \in Seq(Openers)
    BY <2>1
  <2> QED
    BY <2>1, <2>2, <2>3 DEF After
<1> QED
  BY <1>1, <1>2, <1>3 DEF Deliver, TypeOK

LEMMA EndsType ==
    ASSUME NEW lv \in Seq(Levels) PROVE Ends(lv, <<>>) \in Seq(Tokens)
<1>1. Len(lv) - Len(<<>>) \in Nat
  OBVIOUS
<1>2. "BlockEnd" \in Tokens
  BY TokenNames
<1> QED
  BY <1>1, <1>2 DEF Ends

LEMMA EmitType ==
    ASSUME TypeOK, NEW toks \in Seq(Tokens), Emit(toks)
    PROVE  queue' \in Seq(Tokens)
BY ConcatType DEF Emit, TypeOK

\* A fetch that appends the closing tokens, perhaps an opening one, then toks.
LEMMA ClosedThenType ==
    ASSUME TypeOK, ScannerAssumption, NEW l \in Lexemes,
           NEW toks \in Seq(Tokens), NEW roll \in Seq(Tokens)
    PROVE  /\ Emit(Closed(l) \o toks) => queue' \in Seq(Tokens)
           /\ Emit(Closed(l) \o roll \o toks) => queue' \in Seq(Tokens)
<1>1. Closed(l) \in Seq(Tokens)
  BY FetchTypes
<1>2. Closed(l) \o toks \in Seq(Tokens) /\ Closed(l) \o roll \in Seq(Tokens)
  BY <1>1, ConcatType
<1>3. Closed(l) \o roll \o toks \in Seq(Tokens)
  BY <1>2, ConcatType
<1> QED
  BY <1>2, <1>3, EmitType

LEMMA CursorTypes ==
    ASSUME ScannerAssumption, NEW c \in Columns \union {-1}, NEW S \in SUBSET Classes,
           NEW d \in Columns \union {-1}
    PROVE  /\ Here(c) \in Cursors /\ HereMay(c, S) \in Cursors
           /\ Folded(S, d) \in Cursors /\ Folded(S, MaxCol) \in Cursors
<1>1. Classes \in SUBSET Classes /\ MaxCol \in Columns
  BY DEF Columns, ScannerAssumption
<1>2. Here(c) \in Cursors
  BY <1>1 DEF Here, Cursors
<1>3. HereMay(c, S) \in Cursors
  BY <1>2 DEF HereMay, Cursors
<1>4. Folded(S, d) \in Cursors /\ Folded(S, MaxCol) \in Cursors
  BY <1>1 DEF Folded, Cursors
<1> QED
  BY <1>2, <1>3, <1>4

LEMMA FetchEofType ==
    ASSUME TypeOK, ScannerAssumption, NEW l \in Lexemes, FetchEof(l) PROVE TypeOK'
<1>1. CASE Fail
  BY <1>1, FailType
<1>2. CASE ~InFlow
  <2>1. CASE status' = "ended" /\ simpleKey' = NoKey /\ levels' = <<>>
             /\ Emit(Ends(levels, <<>>) \o <<"StreamEnd">>)
             /\ UNCHANGED <<at, flow, line, fl, bk, given>>
    <3>1. Ends(levels, <<>>) \in Seq(Tokens)
      BY EndsType DEF TypeOK
    <3>2. <<"StreamEnd">> \in Seq(Tokens)
      BY TokenNames
    <3>3. queue' \in Seq(Tokens)
      BY <2>1, <3>1, <3>2, ConcatType, EmitType
    <3> QED
      BY <2>1, <3>3 DEF TypeOK, given
  <2> QED
    BY <1>1, <1>2, <2>1 DEF FetchEof
<1> QED
  BY <1>1, <1>2 DEF FetchEof

LEMMA FetchRejectType ==
    ASSUME TypeOK, ScannerAssumption, NEW l \in Lexemes, FetchReject(l) PROVE TypeOK'
BY FailType DEF FetchReject

LEMMA FetchFlowStartType ==
    ASSUME TypeOK, ScannerAssumption, NEW l \in Lexemes, FetchFlowStart(l) PROVE TypeOK'
<1>1. CASE TooDeep
  BY <1>1, FailType DEF FetchFlowStart
<1>2. CASE ~TooDeep
  <2>1. flow' \in Seq(FlowOpeners) /\ Len(flow') <= MaxFlowDepth
    <3>1. flow \in Seq(FlowOpeners) /\ Len(flow) \in Nat /\ l.cls \in FlowOpeners
      BY DEF FetchFlowStart, TypeOK
    <3>2. Len(flow) < MaxFlowDepth /\ flow' = Append(flow, l.cls)
      BY <1>2, <3>1 DEF FetchFlowStart, TooDeep, ScannerAssumption
    <3> QED
      BY <3>1, <3>2 DEF ScannerAssumption
  <2>2. queue' \in Seq(Tokens)
    <3>1. <<IF l.cls = "[" THEN "FlowSeq" ELSE "FlowMap">> \in Seq(Tokens)
      BY TokenNames
    <3> QED
      BY <1>2, <3>1, ClosedThenType DEF FetchFlowStart
  <2>3. line' \in Lines
    BY <1>2, FetchTypes DEF FetchFlowStart, Lines
  <2>4. fl' \in FlowFlags
    BY <1>2, FetchTypes DEF FetchFlowStart, FlowFlags
  <2>5. bk' \in BlockFlags
    BY <1>2, FetchTypes DEF FetchFlowStart, BlockFlags
  <2>6. simpleKey' \in Keys \union {NoKey} /\ levels' \in Seq(Levels) /\ at' \in Cursors
    BY <1>2, FetchTypes DEF FetchFlowStart
  <2> QED
    BY <1>2, <2>1, <2>2, <2>3, <2>4, <2>5, <2>6 DEF FetchFlowStart, TypeOK, given
<1> QED
  BY <1>1, <1>2

LEMMA FetchFlowEndType ==
    ASSUME TypeOK, ScannerAssumption, NEW l \in Lexemes, FetchFlowEnd(l) PROVE TypeOK'
<1>1. CASE Fail
  BY <1>1, FailType
<1>2. ASSUME ~Fail PROVE TypeOK'
  <2>1. flow' \in Seq(FlowOpeners) /\ Len(flow') <= MaxFlowDepth
    <3>1. flow # <<>> /\ flow \in Seq(FlowOpeners) /\ Len(flow) <= MaxFlowDepth
      BY DEF FetchFlowEnd, InFlow, TypeOK
    <3>2. flow' = SubSeq(flow, 1, Len(flow) - 1)
      BY <1>2 DEF FetchFlowEnd
    <3> QED
      BY <3>1, <3>2 DEF ScannerAssumption
  <2>2. queue' \in Seq(Tokens)
    <3>1. <<IF l.cls = "]" THEN "FlowSeqEnd" ELSE "FlowMapEnd">> \in Seq(Tokens)
      BY TokenNames
    <3> QED
      BY <1>2, <3>1, EmitType DEF FetchFlowEnd
  <2>3. line' \in Lines
    BY <1>2, FetchTypes DEF FetchFlowEnd, Lines
  <2>4. fl' \in FlowFlags
    BY <1>2, FetchTypes DEF FetchFlowEnd, FlowFlags
  <2>5. bk' \in BlockFlags
    BY <1>2 DEF FetchFlowEnd, BlockFlags, TypeOK
  <2>6. simpleKey' \in Keys \union {NoKey}
    BY <1>2, FetchTypes DEF FetchFlowEnd
  <2>7. at' \in Cursors
    <3>1. {":", ":x"} \in SUBSET Classes /\ {} \in SUBSET Classes
      BY DEF Classes
    <3>2. l.col \in Columns \union {-1} /\ -1 \in Columns \union {-1}
      BY FetchTypes
    <3>3. /\ Here(l.col) \in Cursors
          /\ HereMay(l.col, {":", ":x"}) \in Cursors /\ HereMay(l.col, {}) \in Cursors
      BY <3>1, <3>2, CursorTypes
    <3> QED
      BY <1>2, <3>3 DEF FetchFlowEnd
  <2> QED
    BY <1>2, <2>1, <2>2, <2>3, <2>4, <2>5, <2>6, <2>7 DEF FetchFlowEnd, TypeOK, given
<1> QED
  BY <1>1, <1>2

LEMMA FetchFlowEntryType ==
    ASSUME TypeOK, ScannerAssumption, NEW l \in Lexemes, FetchFlowEntry(l) PROVE TypeOK'
<1>1. CASE ~fl.seen
  BY <1>1, FailType DEF FetchFlowEntry
<1>2. CASE fl.seen
  <2>1. queue' \in Seq(Tokens)
    <3>1. <<"FlowEntry">> \in Seq(Tokens)
      BY TokenNames
    <3> QED
      BY <1>2, <3>1, EmitType DEF FetchFlowEntry
  <2>2. fl' \in FlowFlags
    BY <1>2, FetchTypes DEF FetchFlowEntry, FlowFlags
  <2>3. bk' \in BlockFlags
    BY <1>2 DEF FetchFlowEntry, BlockFlags, TypeOK
  <2>4. line' \in Lines /\ simpleKey' \in Keys \union {NoKey} /\ at' \in Cursors
    BY <1>2, FetchTypes DEF FetchFlowEntry
  <2> QED
    BY <1>2, <2>1, <2>2, <2>3, <2>4 DEF FetchFlowEntry, TypeOK, given
<1> QED
  BY <1>1, <1>2

LEMMA FetchBlockEntryType ==
    ASSUME TypeOK, ScannerAssumption, NEW l \in Lexemes, FetchBlockEntry(l) PROVE TypeOK'
<1>1. CASE Fail
  BY <1>1, FailType
<1>2. ASSUME ~Fail PROVE TypeOK'
  <2>1. queue' \in Seq(Tokens)
    <3>1. <<"Entry">> \in Seq(Tokens) /\ "BlockSeq" \in Tokens
      BY TokenNames
    <3>2. RollToken(Kept(l), l.col, "BlockSeq") \in Seq(Tokens)
      BY <3>1, RollTokenType
    <3> QED
      BY <1>2, <3>1, <3>2, ClosedThenType DEF FetchBlockEntry
  <2>2. levels' \in Seq(Levels)
    <3>1. Kept(l) \in Seq(Levels) /\ l.col \in Columns
      BY FetchTypes DEF FetchBlockEntry, Lv
    <3> QED
      BY <1>2, <3>1, RolledType DEF FetchBlockEntry
  <2>3. bk' \in BlockFlags
    BY <1>2, FetchTypes DEF FetchBlockEntry, BlockFlags
  <2>4. line' \in Lines /\ simpleKey' \in Keys \union {NoKey} /\ at' \in Cursors
    BY <1>2, FetchTypes DEF FetchBlockEntry
  <2> QED
    BY <1>2, <2>1, <2>2, <2>3, <2>4 DEF FetchBlockEntry, TypeOK, given
<1> QED
  BY <1>1, <1>2

LEMMA FetchKeyType ==
    ASSUME TypeOK, ScannerAssumption, NEW l \in Lexemes, FetchKey(l) PROVE TypeOK'
<1>1. CASE Fail
  BY <1>1, FailType
<1>2. ASSUME ~Fail PROVE TypeOK'
  <2>1. queue' \in Seq(Tokens)
    <3> DEFINE roll == IF InFlow THEN <<>> ELSE RollToken(Lv(l), l.col, "BlockMap")
    <3>1. <<"KeyExplicit">> \in Seq(Tokens) /\ "BlockMap" \in Tokens
      BY TokenNames
    <3>2. roll \in Seq(Tokens)
      BY <3>1, RollTokenType
    <3>3. Emit(Closed(l) \o roll \o <<"KeyExplicit">>)
      BY <1>2 DEF FetchKey
    <3> QED
      BY <3>1, <3>2, <3>3, ClosedThenType
  <2>2. levels' \in Seq(Levels)
    <3>1. Rolled(Lv(l), l.col, FALSE) \in Seq(Levels)
      BY FetchTypes, RolledType
    <3> QED
      BY <1>2, <3>1 DEF FetchKey, TypeOK
  <2>3. bk' \in BlockFlags
    BY <1>2, FetchTypes DEF FetchKey, BlockFlags
  <2>4. line' \in Lines /\ simpleKey' \in Keys \union {NoKey} /\ at' \in Cursors
    BY <1>2, FetchTypes DEF FetchKey
  <2>5. fl' \in FlowFlags
    BY <1>2, FetchTypes DEF FetchKey, FlowFlags
  <2> QED
    BY <1>2, <2>1, <2>2, <2>3, <2>4, <2>5 DEF FetchKey, TypeOK, given
<1> QED
  BY <1>1, <1>2

\* A key is confirmed in front of its own tokens, which are still buffered.
LEMMA ConfirmKeyType ==
    ASSUME TypeOK, KeyPointsAtNode, ScannerAssumption, NEW l \in Lexemes, KeyAt(l).fresh, ConfirmKey(l), ~Fail
    PROVE  queue' \in Seq(Tokens) /\ levels' \in Seq(Levels) /\ UNCHANGED <<status, given>>
<1>1. simpleKey \in Keys
  BY DEF KeyAt, NoKey, TypeOK
<1>2. simpleKey.idx \in Nat /\ simpleKey.col \in Columns
  BY <1>1 DEF Keys
<1>3. ~simpleKey.tab
  BY DEF ConfirmKey
<1> DEFINE opens == RollToken(Lv(l), simpleKey.col, "BlockMap")
           front == SubSeq(queue, 1, simpleKey.idx)
           back == SubSeq(queue, simpleKey.idx + 1, Len(queue))
<1>4. /\ levels' = Rolled(Lv(l), simpleKey.col, FALSE)
      /\ queue' = front \o opens \o <<"Key">> \o back \o Closed(l) \o <<"Value">>
      /\ UNCHANGED <<status, given>>
  BY <1>3 DEF ConfirmKey
<1>5. levels' \in Seq(Levels)
  BY <1>2, <1>4, FetchTypes, RolledType
<1>6. front \in Seq(Tokens) /\ back \in Seq(Tokens)
  <2>1. queue \in Seq(Tokens) /\ Len(queue) \in Nat
    BY DEF TypeOK
  <2>2. simpleKey.idx < Len(queue)
    BY <1>1 DEF KeyPointsAtNode, Keys, NoKey, Columns
  <2> QED
    BY <1>2, <2>1, <2>2
<1>7. opens \in Seq(Tokens) /\ <<"Key">> \in Seq(Tokens) /\ <<"Value">> \in Seq(Tokens)
  <2>1. "BlockMap" \in Tokens /\ "Key" \in Tokens /\ "Value" \in Tokens
    BY TokenNames
  <2> QED
    BY <2>1, RollTokenType
<1>8. Closed(l) \in Seq(Tokens)
  BY FetchTypes
<1> HIDE DEF opens, front, back
<1>9. front \o opens \o <<"Key">> \o back \o Closed(l) \o <<"Value">> \in Seq(Tokens)
  <2>1. front \o opens \o <<"Key">> \in Seq(Tokens)
    BY <1>6, <1>7, ConcatType
  <2>2. front \o opens \o <<"Key">> \o back \in Seq(Tokens)
    BY <1>6, <2>1, ConcatType
  <2>3. front \o opens \o <<"Key">> \o back \o Closed(l) \in Seq(Tokens)
    BY <1>8, <2>2, ConcatType
  <2> QED
    BY <1>7, <2>3, ConcatType
<1> QED
  BY <1>4, <1>5, <1>9

LEMMA PlainValueType ==
    ASSUME TypeOK, ScannerAssumption, NEW l \in Lexemes, PlainValue(l), ~Fail
    PROVE  queue' \in Seq(Tokens) /\ levels' \in Seq(Levels) /\ UNCHANGED <<status, given>>
<1> DEFINE roll == IF InFlow THEN <<>> ELSE RollToken(Lv(l), l.col, "BlockMap")
<1>1. <<"Value">> \in Seq(Tokens) /\ "BlockMap" \in Tokens
  BY TokenNames
<1>2. roll \in Seq(Tokens)
  BY <1>1, RollTokenType
<1>3. Emit(Closed(l) \o roll \o <<"Value">>)
  BY DEF PlainValue
<1>4. queue' \in Seq(Tokens)
  BY <1>1, <1>2, <1>3, ClosedThenType
<1>5. Rolled(Lv(l), l.col, FALSE) \in Seq(Levels)
  BY FetchTypes, RolledType
<1> QED
  BY <1>4, <1>5 DEF PlainValue, TypeOK

LEMMA FetchValueType ==
    ASSUME TypeOK, KeyPointsAtNode, ScannerAssumption, NEW l \in Lexemes,
           status # "failed", FetchValue(l)
    PROVE  TypeOK'
<1>1. CASE Fail
  BY <1>1, FailType
<1>2. ASSUME ~Fail PROVE TypeOK'
  <2>1. queue' \in Seq(Tokens) /\ levels' \in Seq(Levels) /\ UNCHANGED <<status, given>>
    BY <1>2, ConfirmKeyType, PlainValueType DEF FetchValue
  <2>2. status' # "failed"
    BY <2>1
  <2>3. bk' \in BlockFlags
    BY <2>2, FetchTypes DEF FetchValue, BlockFlags
  <2>4. line' \in Lines
    <3>1. KeyAt(l).fresh \in BOOLEAN
      <4>1. KeyAt(l) \in Keys \/ KeyAt(l) = NoKey
        BY FetchTypes
      <4>2. \A k \in Keys : k.fresh \in BOOLEAN
        BY DEF Keys
      <4>3. NoKey.fresh \in BOOLEAN
        BY DEF NoKey
      <4> QED
        BY <4>1, <4>2, <4>3
    <3> QED
      BY <2>2, <3>1, FetchTypes DEF FetchValue, Lines
  <2>5. fl' \in FlowFlags
    BY <2>2, FetchTypes DEF FetchValue, FlowFlags
  <2>6. simpleKey' \in Keys \union {NoKey} /\ at' \in Cursors /\ flow' = flow
    BY <2>2, FetchTypes DEF FetchValue
  <2> QED
    BY <2>1, <2>3, <2>4, <2>5, <2>6 DEF TypeOK, given
<1> QED
  BY <1>1, <1>2

LEMMA FetchPropertyType ==
    ASSUME TypeOK, ScannerAssumption, NEW l \in Lexemes, FetchProperty(l)
    PROVE  TypeOK'
<1>1. CASE Fail
  BY <1>1, FailType
<1>2. ASSUME ~Fail PROVE TypeOK'
  <2>1. queue' \in Seq(Tokens)
    <3>1. <<IF l.cls = "&" THEN "Anchor" ELSE "Tag">> \in Seq(Tokens)
      BY TokenNames
    <3> QED
      BY <1>2, <3>1, ClosedThenType DEF FetchProperty
  <2>2. line' \in Lines
    BY <1>2, FetchTypes DEF FetchProperty, Lines
  <2>3. fl' \in FlowFlags
    BY <1>2, FetchTypes DEF FetchProperty, FlowFlags
  <2>4. bk' \in BlockFlags
    BY <1>2, FetchTypes DEF FetchProperty, BlockFlags
  <2>5. simpleKey' \in Keys \union {NoKey} /\ levels' \in Seq(Levels) /\ at' \in Cursors
    BY <1>2, FetchTypes DEF FetchProperty
  <2> QED
    BY <1>2, <2>1, <2>2, <2>3, <2>4, <2>5 DEF FetchProperty, TypeOK, given
<1> QED
  BY <1>1, <1>2

LEMMA FetchAliasType ==
    ASSUME TypeOK, ScannerAssumption, NEW l \in Lexemes, FetchAlias(l)
    PROVE  TypeOK'
<1>1. CASE Fail
  BY <1>1, FailType
<1>2. ASSUME ~Fail PROVE TypeOK'
  <2>1. queue' \in Seq(Tokens)
    <3>1. <<"Alias">> \in Seq(Tokens)
      BY TokenNames
    <3> QED
      BY <1>2, <3>1, ClosedThenType DEF FetchAlias
  <2>2. line' \in Lines
    BY <1>2, FetchTypes DEF FetchAlias, Lines
  <2>3. fl' \in FlowFlags
    BY <1>2, FetchTypes DEF FetchAlias, FlowFlags
  <2>4. bk' \in BlockFlags
    BY <1>2, FetchTypes DEF FetchAlias, BlockFlags
  <2>5. simpleKey' \in Keys \union {NoKey} /\ levels' \in Seq(Levels) /\ at' \in Cursors
    BY <1>2, FetchTypes DEF FetchAlias
  <2> QED
    BY <1>2, <2>1, <2>2, <2>3, <2>4, <2>5 DEF FetchAlias, TypeOK, given
<1> QED
  BY <1>1, <1>2

\* What a scalar's two outcomes leave typed, apart from line, simpleKey and at.
LEMMA KeyScalarType ==
    ASSUME TypeOK, ScannerAssumption, NEW l \in Lexemes, KeyScalar(l), ~Fail
    PROVE  /\ queue' \in Seq(Tokens) /\ levels' \in Seq(Levels) /\ fl' \in FlowFlags
           /\ bk' \in BlockFlags /\ at' \in Cursors /\ UNCHANGED <<flow, status, given>>
<1> DEFINE roll == IF InFlow THEN <<>> ELSE RollToken(Lv(l), l.col, "BlockMap")
<1>1. <<"Key", "Scalar", "Value">> \in Seq(Tokens) /\ "BlockMap" \in Tokens
  BY TokenNames
<1>2. roll \in Seq(Tokens)
  BY <1>1, RollTokenType
<1>3. Emit(Closed(l) \o roll \o <<"Key", "Scalar", "Value">>)
  BY DEF KeyScalar
<1>4. queue' \in Seq(Tokens)
  BY <1>1, <1>2, <1>3, ClosedThenType
<1>5. levels' \in Seq(Levels)
  <2>1. Rolled(Lv(l), l.col, FALSE) \in Seq(Levels)
    BY FetchTypes, RolledType
  <2> QED
    BY <2>1 DEF KeyScalar, TypeOK
<1>6. fl' \in FlowFlags
  BY FetchTypes DEF KeyScalar, FlowFlags
<1>7. bk' \in BlockFlags
  BY FetchTypes DEF KeyScalar, BlockFlags
<1> QED
  BY <1>4, <1>5, <1>6, <1>7, FetchTypes DEF KeyScalar

LEMMA ValueScalarType ==
    ASSUME TypeOK, ScannerAssumption, NEW l \in Lexemes, NEW json \in BOOLEAN,
           ValueScalar(l, json)
    PROVE  /\ queue' \in Seq(Tokens) /\ levels' \in Seq(Levels) /\ fl' \in FlowFlags
           /\ UNCHANGED <<flow, status, given>>
<1>1. queue' \in Seq(Tokens)
  <2>1. <<"Scalar">> \in Seq(Tokens)
    BY TokenNames
  <2> QED
    BY <2>1, ClosedThenType DEF ValueScalar
<1>2. fl' \in FlowFlags
  BY FetchTypes DEF ValueScalar, FlowFlags
<1> QED
  BY <1>1, <1>2, FetchTypes DEF ValueScalar

LEMMA LineTypes ==
    ASSUME TypeOK, ScannerAssumption, NEW l \in Lexemes, NEW brk \in BOOLEAN,
           NEW b \in BOOLEAN
    PROVE  /\ LineAfter(l, brk) \in Lines /\ Colon(LineAfter(l, brk)) \in Lines
           /\ [LineAfter(l, brk) EXCEPT !.pending = b] \in Lines
           /\ KeyAt(l) # NoKey => Stale(KeyAt(l)) \in Keys
<1>1. LineAt(l) \in Lines
  BY FetchTypes
<1>2. LineAfter(l, brk) \in Lines
  BY <1>1 DEF LineAfter, BrokenLine, NewLine, Lines
<1>3. Colon(LineAfter(l, brk)) \in Lines /\ [LineAfter(l, brk) EXCEPT !.pending = b] \in Lines
  BY <1>2 DEF Colon, Lines
<1>4. KeyAt(l) # NoKey => Stale(KeyAt(l)) \in Keys
  <2>1. KeyAt(l) \in Keys \/ KeyAt(l) = NoKey
    BY FetchTypes
  <2> QED
    BY <2>1 DEF Stale, Keys
<1> QED
  BY <1>2, <1>3, <1>4

LEMMA FetchQuotedType ==
    ASSUME TypeOK, ScannerAssumption, NEW l \in Lexemes, status # "failed", FetchQuoted(l)
    PROVE  TypeOK'
<1>1. CASE Fail
  BY <1>1, FailType
<1>2. ASSUME ~Fail PROVE TypeOK'
  <2> DEFINE ln(brk) == LineAfter(l, brk)
             key(brk) == IF brk /\ KeyAt(l) # NoKey THEN Stale(KeyAt(l)) ELSE KeyAt(l)
             here(brk) == IF brk THEN Indent(Lv(l)) ELSE l.col
             may(colon) == IF colon THEN {":"}
                           ELSE IF InFlow THEN Classes \ {":"} ELSE {":x"}
  <2>1. PICK brk \in BOOLEAN, colon \in BOOLEAN :
          \/ /\ KeyScalar(l)
             /\ status' # "failed" => line' = Colon(ln(brk)) /\ simpleKey' = key(brk)
          \/ /\ ValueScalar(l, TRUE)
             /\ bk' = [BkAt(l) EXCEPT !.keyAllowed = FALSE]
             /\ line' = [ln(brk) EXCEPT !.pending = IF InFlow THEN ~brk ELSE @]
             /\ simpleKey' = key(brk)
             /\ at' = HereMay(here(brk), may(colon))
    BY <1>2 DEF FetchQuoted, QuotedAs
  <2>2. /\ ln(brk) \in Lines /\ Colon(ln(brk)) \in Lines
        /\ \A b \in BOOLEAN : [ln(brk) EXCEPT !.pending = b] \in Lines
    BY LineTypes
  <2>3. key(brk) \in Keys \union {NoKey}
    BY LineTypes, FetchTypes
  <2>4. HereMay(here(brk), may(colon)) \in Cursors
    <3>1. here(brk) \in Columns \union {-1} /\ -1 \in Columns \union {-1}
      BY FetchTypes
    <3>2. may(colon) \in SUBSET Classes
      BY DEF Classes
    <3> HIDE DEF here, may
    <3> QED
      BY <3>1, <3>2, CursorTypes
  <2>5. ln(brk).pending \in BOOLEAN
    BY <2>2 DEF Lines
  <2>6. [ln(brk) EXCEPT !.pending = IF InFlow THEN ~brk ELSE @] \in Lines
    BY <2>2, <2>5
  <2> HIDE DEF ln, key, here, may
  <2>7. CASE /\ KeyScalar(l)
             /\ status' # "failed" => line' = Colon(ln(brk)) /\ simpleKey' = key(brk)
    <3>1. /\ queue' \in Seq(Tokens) /\ levels' \in Seq(Levels) /\ fl' \in FlowFlags
          /\ bk' \in BlockFlags /\ at' \in Cursors /\ UNCHANGED <<flow, status, given>>
      BY <1>2, <2>7, KeyScalarType
    <3>2. line' = Colon(ln(brk)) /\ simpleKey' = key(brk)
      BY <2>7, <3>1
    <3> QED
      BY <2>2, <2>3, <3>1, <3>2 DEF TypeOK, given
  <2>8. CASE /\ ValueScalar(l, TRUE)
             /\ bk' = [BkAt(l) EXCEPT !.keyAllowed = FALSE]
             /\ line' = [ln(brk) EXCEPT !.pending = IF InFlow THEN ~brk ELSE @]
             /\ simpleKey' = key(brk)
             /\ at' = HereMay(here(brk), may(colon))
    <3>1. /\ queue' \in Seq(Tokens) /\ levels' \in Seq(Levels) /\ fl' \in FlowFlags
          /\ UNCHANGED <<flow, status, given>>
      BY <2>8, ValueScalarType
    <3>2. bk' \in BlockFlags
      BY <2>8, FetchTypes DEF BlockFlags
    <3> QED
      BY <2>3, <2>4, <2>6, <2>8, <3>1, <3>2 DEF TypeOK, given
  <2> QED
    BY <2>1, <2>7, <2>8
<1> QED
  BY <1>1, <1>2

LEMMA FetchBlockScalarType ==
    ASSUME TypeOK, ScannerAssumption, NEW l \in Lexemes, FetchBlockScalar(l) PROVE TypeOK'
<1>1. CASE Fail
  BY <1>1, FailType
<1>2. ASSUME ~Fail PROVE TypeOK'
  <2>1. /\ queue' \in Seq(Tokens) /\ levels' \in Seq(Levels) /\ fl' \in FlowFlags
        /\ UNCHANGED <<flow, status, given>>
    BY <1>2, ValueScalarType DEF FetchBlockScalar
  <2>2. bk' \in BlockFlags
    BY <1>2, FetchTypes DEF FetchBlockScalar, BlockFlags
  <2>3. line' \in Lines
    BY <1>2, LineTypes DEF FetchBlockScalar
  <2>4. at' \in Cursors
    <3>1. Classes \in SUBSET Classes /\ -1 \in Columns \union {-1}
      OBVIOUS
    <3> QED
      BY <1>2, <3>1, CursorTypes DEF FetchBlockScalar
  <2>5. simpleKey' = NoKey
    BY <1>2 DEF FetchBlockScalar
  <2> QED
    BY <2>1, <2>2, <2>3, <2>4, <2>5 DEF TypeOK, given
<1> QED
  BY <1>1, <1>2

\* Wherever a plain scalar stops, the cursor is a cursor.
LEMMA PlainStopsType ==
    ASSUME TypeOK, ScannerAssumption, NEW l \in Lexemes,
           NEW brk \in BOOLEAN, NEW colon \in BOOLEAN
    PROVE  PlainStops(l, brk, colon) \subseteq Cursors
<1> DEFINE cap == IF KeyPossible(l) THEN l.col - 1 ELSE MaxCol
           C == Columns \union {-1}
<1>1. l.col \in C /\ Indent(Lv(l)) \in C
  BY FetchTypes
<1>2. cap \in C
  BY FetchTypes DEF Columns, ScannerAssumption
<1>3. -1 \in C
  OBVIOUS
<1>4. /\ {":"} \in SUBSET Classes /\ FlowIndicators \in SUBSET Classes
      /\ {} \in SUBSET Classes /\ {"?", "---", "..."} \in SUBSET Classes
      /\ FlowIndicators \union {"?"} \in SUBSET Classes
      /\ Classes \ {":"} \in SUBSET Classes
  BY DEF Classes, FlowIndicators, FlowOpeners, FlowClosers, LineStarters
<1> HIDE DEF cap, C
<1>5. \A S \in SUBSET Classes :
        /\ HereMay(l.col, S) \in Cursors /\ Folded(S, MaxCol) \in Cursors
        /\ Folded(S, cap) \in Cursors /\ Folded(S, Indent(Lv(l))) \in Cursors
  BY <1>1, <1>2, <1>3, CursorTypes DEF C
<1> QED
  BY <1>4, <1>5 DEF PlainStops, cap

LEMMA FetchPlainType ==
    ASSUME TypeOK, ScannerAssumption, NEW l \in Lexemes, status # "failed", FetchPlain(l)
    PROVE  TypeOK'
<1>1. CASE Fail
  BY <1>1, FailType
<1>2. ASSUME ~Fail PROVE TypeOK'
  <2> DEFINE ln(brk) == LineAfter(l, brk)
             key(brk) == IF ~brk \/ KeyAt(l) = NoKey THEN KeyAt(l)
                         ELSE IF InFlow THEN Stale(KeyAt(l)) ELSE NoKey
  <2>1. PICK brk \in BOOLEAN, colon \in BOOLEAN :
          \/ /\ KeyScalar(l)
             /\ status' # "failed" => line' = Colon(ln(brk)) /\ simpleKey' = key(brk)
          \/ /\ ValueScalar(l, FALSE)
             /\ bk' = [BkAt(l) EXCEPT !.keyAllowed = ~InFlow /\ brk]
             /\ line' = [ln(brk) EXCEPT !.pending = IF InFlow THEN ~brk ELSE @]
             /\ simpleKey' = key(brk)
             /\ at' \in PlainStops(l, brk, colon)
    BY <1>2 DEF FetchPlain, PlainAs
  <2>2. /\ ln(brk) \in Lines /\ Colon(ln(brk)) \in Lines
        /\ \A b \in BOOLEAN : [ln(brk) EXCEPT !.pending = b] \in Lines
    BY LineTypes
  <2>3. key(brk) \in Keys \union {NoKey}
    BY LineTypes, FetchTypes
  <2>4. PlainStops(l, brk, colon) \subseteq Cursors
    BY PlainStopsType
  <2>5. ln(brk).pending \in BOOLEAN
    BY <2>2 DEF Lines
  <2>6. [ln(brk) EXCEPT !.pending = IF InFlow THEN ~brk ELSE @] \in Lines
    BY <2>2, <2>5
  <2> HIDE DEF ln, key
  <2>7. CASE /\ KeyScalar(l)
             /\ status' # "failed" => line' = Colon(ln(brk)) /\ simpleKey' = key(brk)
    <3>1. /\ queue' \in Seq(Tokens) /\ levels' \in Seq(Levels) /\ fl' \in FlowFlags
          /\ bk' \in BlockFlags /\ at' \in Cursors /\ UNCHANGED <<flow, status, given>>
      BY <1>2, <2>7, KeyScalarType
    <3>2. line' = Colon(ln(brk)) /\ simpleKey' = key(brk)
      BY <2>7, <3>1
    <3> QED
      BY <2>2, <2>3, <3>1, <3>2 DEF TypeOK, given
  <2>8. CASE /\ ValueScalar(l, FALSE)
             /\ bk' = [BkAt(l) EXCEPT !.keyAllowed = ~InFlow /\ brk]
             /\ line' = [ln(brk) EXCEPT !.pending = IF InFlow THEN ~brk ELSE @]
             /\ simpleKey' = key(brk)
             /\ at' \in PlainStops(l, brk, colon)
    <3>1. /\ queue' \in Seq(Tokens) /\ levels' \in Seq(Levels) /\ fl' \in FlowFlags
          /\ UNCHANGED <<flow, status, given>>
      BY <2>8, ValueScalarType
    <3>2. bk' \in BlockFlags
      BY <2>8, FetchTypes DEF BlockFlags
    <3> QED
      BY <2>3, <2>4, <2>6, <2>8, <3>1, <3>2 DEF TypeOK, given
  <2> QED
    BY <2>1, <2>7, <2>8
<1> QED
  BY <1>1, <1>2

LEMMA FetchMarkerType ==
    ASSUME TypeOK, ScannerAssumption, NEW l \in Lexemes, NEW tok \in Tokens,
           NEW may \in SUBSET Classes, FetchMarker(l, tok, may)
    PROVE  TypeOK'
<1>1. queue' \in Seq(Tokens)
  <2>1. Ends(levels, <<>>) \in Seq(Tokens) /\ <<tok>> \in Seq(Tokens)
    BY EndsType DEF TypeOK
  <2>2. Ends(levels, <<>>) \o <<tok>> \in Seq(Tokens)
    BY <2>1, ConcatType
  <2> QED
    BY <2>2, EmitType DEF FetchMarker
<1>2. line' \in Lines
  BY FetchTypes DEF FetchMarker, Lines
<1>3. bk' \in BlockFlags
  BY FetchTypes DEF FetchMarker, BlockFlags
<1>4. at' \in Cursors
  <2>1. l.col \in Columns \union {-1} /\ -1 \in Columns \union {-1}
    BY FetchTypes
  <2> QED
    BY <2>1, CursorTypes DEF FetchMarker
<1>5. levels' \in Seq(Levels) /\ simpleKey' \in Keys \union {NoKey}
  BY FetchTypes DEF FetchMarker
<1> QED
  BY <1>1, <1>2, <1>3, <1>4, <1>5 DEF FetchMarker, TypeOK, given

\* TypeOK needs KeyPointsAtNode: confirming a key cuts the buffer at its index.
LEMMA FetchType ==
    ASSUME TypeOK, KeyPointsAtNode, ScannerAssumption, NEW l \in Lexemes,
           status # "failed", Fetch(l)
    PROVE  TypeOK'
<1>1. CASE FetchEof(l) \/ FetchReject(l)
  BY <1>1, FetchEofType, FetchRejectType
<1>2. CASE FetchFlowStart(l) \/ FetchFlowEnd(l) \/ FetchFlowEntry(l)
  BY <1>2, FetchFlowStartType, FetchFlowEndType, FetchFlowEntryType
<1>3. CASE FetchBlockEntry(l) \/ FetchKey(l) \/ FetchValue(l)
  BY <1>3, FetchBlockEntryType, FetchKeyType, FetchValueType
<1>4. CASE FetchProperty(l) \/ FetchAlias(l)
  BY <1>4, FetchPropertyType, FetchAliasType
<1>5. CASE FetchQuoted(l) \/ FetchBlockScalar(l) \/ FetchPlain(l)
  BY <1>5, FetchQuotedType, FetchBlockScalarType, FetchPlainType
<1>6. CASE FetchDocumentStart(l) \/ FetchDocumentEnd(l) \/ FetchDirective(l)
  <2>1. Classes \in SUBSET Classes /\ {} \in SUBSET Classes
    OBVIOUS
  <2>2. "DocStart" \in Tokens /\ "DocEnd" \in Tokens /\ "Directive" \in Tokens
    BY TokenNames
  <2> QED
    BY <1>6, <2>1, <2>2, FailType, FetchMarkerType
    DEF FetchDocumentStart, FetchDocumentEnd, FetchDirective
<1> QED
  BY <1>1, <1>2, <1>3, <1>4, <1>5, <1>6 DEF Fetch
-----------------------------------------------------------------------------
(***************************************************************************)
(* The pending key.  Every fetch but the confirmation of a key appends to   *)
(* the buffer, and it keeps the pending key's index, drops the key, or      *)
(* notes a new one at the very token it appends.                            *)
(***************************************************************************)
EndedHasNoKey == status = "ended" => simpleKey = NoKey

\* The scanner's inductive invariant: TypeOK alone does not carry over the
\* confirmation of a key, nor KeyPointsAtNode over the end of the input.
IInv == TypeOK /\ KeyPointsAtNode /\ EndedHasNoKey

KeyTokens == {"Anchor", "Tag", "Alias", "FlowSeq", "FlowMap"}
KeyInherited == simpleKey' # NoKey => simpleKey # NoKey /\ simpleKey'.idx = simpleKey.idx
Appends == \E toks \in Seq(Tokens) : queue' = queue \o toks

LEMMA KeyStays ==
    ASSUME TypeOK, KeyPointsAtNode, Appends, KeyInherited
    PROVE  KeyPointsAtNode'
<1>1. PICK toks \in Seq(Tokens) : queue' = queue \o toks
  BY DEF Appends
<1> SUFFICES ASSUME simpleKey' # NoKey
             PROVE  /\ simpleKey'.idx < Len(queue')
                    /\ queue'[simpleKey'.idx + 1] \in KeyTokens
  BY DEF KeyPointsAtNode, KeyTokens
<1>2. simpleKey # NoKey /\ simpleKey'.idx = simpleKey.idx
  BY DEF KeyInherited
<1>3. simpleKey.idx \in Nat /\ queue \in Seq(Tokens)
  BY <1>2 DEF TypeOK, Keys
<1>4. simpleKey.idx < Len(queue) /\ queue[simpleKey.idx + 1] \in KeyTokens
  BY <1>2 DEF KeyPointsAtNode, KeyTokens
<1>5. Len(queue') = Len(queue) + Len(toks) /\ Len(toks) \in Nat /\ Len(queue) \in Nat
  BY <1>1, <1>3
<1>6. queue'[simpleKey.idx + 1] = queue[simpleKey.idx + 1]
  BY <1>1, <1>3, <1>4, <1>5
<1> QED
  BY <1>2, <1>3, <1>4, <1>5, <1>6

LEMMA KeyAtInherited ==
    ASSUME TypeOK, NEW l \in Lexemes
    PROVE  /\ KeyAt(l) # NoKey => KeyAt(l) = simpleKey
           /\ KeyAt(l) # NoKey => Stale(KeyAt(l)).idx = simpleKey.idx
<1>1. KeyAt(l) # NoKey => KeyAt(l) = simpleKey
  BY DEF KeyAt
<1>2. TypeOK => Stale(simpleKey).idx = simpleKey.idx
  BY DEF Stale, TypeOK, Keys, NoKey
<1> QED
  BY <1>1, <1>2

\* A key noted at a token starts right at it: the closing tokens come first.
LEMMA KeyNoted ==
    ASSUME TypeOK, KeyPointsAtNode, ScannerAssumption, NEW l \in Lexemes,
           NEW tok \in KeyTokens, Emit(Closed(l) \o <<tok>>), simpleKey' = NoteKey(l)
    PROVE  KeyPointsAtNode'
<1>1. Closed(l) \in Seq(Tokens) /\ queue \in Seq(Tokens) /\ tok \in Tokens
  BY FetchTypes, TokenNames DEF TypeOK, KeyTokens
<1>2. Closed(l) \o <<tok>> \in Seq(Tokens) /\ queue' = queue \o (Closed(l) \o <<tok>>)
  BY <1>1 DEF Emit
<1>3. CASE simpleKey' = KeyAt(l)
  <2>1. Appends
    BY <1>2 DEF Appends
  <2> QED
    BY <1>3, <2>1, KeyStays, KeyAtInherited DEF KeyInherited
<1>4. CASE simpleKey' = [idx |-> Len(queue) + Len(Closed(l)), col |-> l.col,
                        tab |-> l.tab, fresh |-> TRUE]
  <2>1. simpleKey'.idx = Len(queue) + Len(Closed(l))
    BY <1>4
  <2>2. Len(queue') = Len(queue) + Len(Closed(l)) + 1
    BY <1>1, <1>2
  <2>3. queue'[Len(queue) + Len(Closed(l)) + 1] = tok
    <3> DEFINE c == Closed(l)
    <3>1. c \in Seq(Tokens) /\ Len(c) \in Nat /\ Len(queue) \in Nat
      BY <1>1
    <3> HIDE DEF c
    <3>2. (queue \o (c \o <<tok>>))[Len(queue) + Len(c) + 1] = (c \o <<tok>>)[Len(c) + 1]
      BY <1>1, <3>1
    <3>3. (c \o <<tok>>)[Len(c) + 1] = tok
      BY <1>1, <3>1
    <3> QED
      BY <1>2, <3>2, <3>3 DEF c
  <2> QED
    BY <1>1, <2>1, <2>2, <2>3 DEF KeyPointsAtNode, KeyTokens
<1> QED
  BY <1>3, <1>4 DEF NoteKey

LEMMA EmitAppends ==
    ASSUME TypeOK, ScannerAssumption, NEW l \in Lexemes,
           NEW toks \in Seq(Tokens), NEW roll \in Seq(Tokens)
    PROVE  /\ Emit(toks) => Appends
           /\ Emit(Closed(l) \o toks) => Appends
           /\ Emit(Closed(l) \o roll \o toks) => Appends
<1>1. Closed(l) \in Seq(Tokens)
  BY FetchTypes
<1>2. Closed(l) \o toks \in Seq(Tokens) /\ Closed(l) \o roll \in Seq(Tokens)
  BY <1>1, ConcatType
<1>3. Closed(l) \o roll \o toks \in Seq(Tokens)
  BY <1>2, ConcatType
<1> QED
  BY <1>2, <1>3 DEF Emit, Appends

\* The fetches that leave the pending key alone or drop it.
LEMMA FetchFlowKeepsKey ==
    ASSUME TypeOK, ScannerAssumption, NEW l \in Lexemes, ~Fail,
           \/ FetchFlowEnd(l) \/ FetchFlowEntry(l) \/ FetchBlockEntry(l) \/ FetchKey(l)
    PROVE  Appends /\ KeyInherited
<1>1. simpleKey' = KeyAt(l)
  BY DEF FetchFlowEnd, FetchFlowEntry, FetchBlockEntry, FetchKey
<1>2. KeyInherited
  BY <1>1, KeyAtInherited DEF KeyInherited
<1>3. CASE FetchFlowEnd(l)
  <2>1. <<IF l.cls = "]" THEN "FlowSeqEnd" ELSE "FlowMapEnd">> \in Seq(Tokens)
    BY TokenNames
  <2> QED
    BY <1>3, <2>1, <1>2, EmitAppends DEF FetchFlowEnd
<1>4. CASE FetchFlowEntry(l)
  <2>1. <<"FlowEntry">> \in Seq(Tokens)
    BY TokenNames
  <2> QED
    BY <1>4, <2>1, <1>2, EmitAppends DEF FetchFlowEntry
<1>5. CASE FetchBlockEntry(l)
  <2>1. <<"Entry">> \in Seq(Tokens) /\ "BlockSeq" \in Tokens
    BY TokenNames
  <2>2. RollToken(Kept(l), l.col, "BlockSeq") \in Seq(Tokens)
    BY <2>1, RollTokenType
  <2> QED
    BY <1>5, <2>1, <2>2, <1>2, EmitAppends DEF FetchBlockEntry
<1>6. CASE FetchKey(l)
  <2> DEFINE roll == IF InFlow THEN <<>> ELSE RollToken(Lv(l), l.col, "BlockMap")
  <2>1. <<"KeyExplicit">> \in Seq(Tokens) /\ "BlockMap" \in Tokens
    BY TokenNames
  <2>2. roll \in Seq(Tokens)
    BY <2>1, RollTokenType
  <2>3. Emit(Closed(l) \o roll \o <<"KeyExplicit">>)
    BY <1>6 DEF FetchKey
  <2> QED
    BY <2>1, <2>2, <2>3, <1>2, EmitAppends
<1> QED
  BY <1>3, <1>4, <1>5, <1>6

LEMMA KeyScalarAppends ==
    ASSUME TypeOK, ScannerAssumption, NEW l \in Lexemes, KeyScalar(l), ~Fail
    PROVE  Appends
<1> DEFINE roll == IF InFlow THEN <<>> ELSE RollToken(Lv(l), l.col, "BlockMap")
<1>1. <<"Key", "Scalar", "Value">> \in Seq(Tokens) /\ "BlockMap" \in Tokens
  BY TokenNames
<1>2. roll \in Seq(Tokens)
  BY <1>1, RollTokenType
<1>3. Emit(Closed(l) \o roll \o <<"Key", "Scalar", "Value">>)
  BY DEF KeyScalar
<1> QED
  BY <1>1, <1>2, <1>3, EmitAppends

LEMMA ValueScalarAppends ==
    ASSUME TypeOK, ScannerAssumption, NEW l \in Lexemes, NEW json \in BOOLEAN,
           ValueScalar(l, json)
    PROVE  Appends
<1>1. <<"Scalar">> \in Seq(Tokens)
  BY TokenNames
<1> QED
  BY <1>1, EmitAppends DEF ValueScalar

LEMMA FetchScalarKeepsKey ==
    ASSUME TypeOK, ScannerAssumption, NEW l \in Lexemes, status # "failed", ~Fail,
           FetchQuoted(l) \/ FetchBlockScalar(l) \/ FetchPlain(l)
    PROVE  Appends /\ KeyInherited
<1> DEFINE inherited == simpleKey' = NoKey \/ simpleKey' = KeyAt(l)
                        \/ (KeyAt(l) # NoKey /\ simpleKey' = Stale(KeyAt(l)))
<1>1. inherited => KeyInherited
  BY KeyAtInherited DEF KeyInherited
<1>2. KeyScalar(l) => status' # "failed"
  BY KeyScalarType
<1>3. CASE FetchQuoted(l)
  <2>1. PICK brk \in BOOLEAN, colon \in BOOLEAN :
          /\ KeyScalar(l) \/ ValueScalar(l, TRUE)
          /\ status' # "failed" \/ ValueScalar(l, TRUE)
          /\ simpleKey' = IF brk /\ KeyAt(l) # NoKey THEN Stale(KeyAt(l)) ELSE KeyAt(l)
    BY <1>2, <1>3 DEF FetchQuoted, QuotedAs
  <2> QED
    BY <1>1, <2>1, KeyScalarAppends, ValueScalarAppends
<1>4. CASE FetchBlockScalar(l)
  BY <1>1, <1>4, ValueScalarAppends DEF FetchBlockScalar
<1>5. CASE FetchPlain(l)
  <2>1. PICK brk \in BOOLEAN, colon \in BOOLEAN :
          /\ KeyScalar(l) \/ ValueScalar(l, FALSE)
          /\ simpleKey' = IF ~brk \/ KeyAt(l) = NoKey THEN KeyAt(l)
                          ELSE IF InFlow THEN Stale(KeyAt(l)) ELSE NoKey
    BY <1>2, <1>5 DEF FetchPlain, PlainAs
  <2> QED
    BY <1>1, <2>1, KeyScalarAppends, ValueScalarAppends
<1> QED
  BY <1>3, <1>4, <1>5

LEMMA FetchValueKeepsKey ==
    ASSUME TypeOK, KeyPointsAtNode, ScannerAssumption, NEW l \in Lexemes,
           status # "failed", FetchValue(l)
    PROVE  KeyPointsAtNode'
<1>1. CASE Fail
  BY <1>1 DEF Fail, KeyPointsAtNode
<1>2. CASE ~Fail /\ ~InFlow
  <2>1. UNCHANGED <<status, given>>
    BY <1>2, ConfirmKeyType, PlainValueType DEF FetchValue
  <2>2. simpleKey' = NoKey
    BY <1>2, <2>1 DEF FetchValue
  <2> QED
    BY <2>2 DEF KeyPointsAtNode
<1>3. CASE ~Fail /\ InFlow
  <2>1. PlainValue(l)
    BY <1>3 DEF FetchValue
  <2>2. UNCHANGED <<status, given>>
    BY <1>3, <2>1, PlainValueType
  <2>3. simpleKey' = KeyAt(l)
    BY <1>3, <2>2 DEF FetchValue
  <2>4. <<"Value">> \in Seq(Tokens) /\ <<>> \in Seq(Tokens)
    BY TokenNames
  <2>5. Appends
    BY <1>3, <2>1, <2>4, EmitAppends DEF PlainValue
  <2> QED
    BY <2>3, <2>5, KeyAtInherited, KeyStays DEF KeyInherited
<1> QED
  BY <1>1, <1>2, <1>3

LEMMA FetchMarkerKeepsKey ==
    ASSUME TypeOK, KeyPointsAtNode, ScannerAssumption, NEW l \in Lexemes,
           NEW tok \in Tokens, NEW may, FetchMarker(l, tok, may)
    PROVE  KeyPointsAtNode'
<1>1. Ends(levels, <<>>) \in Seq(Tokens) /\ <<tok>> \in Seq(Tokens)
  BY EndsType DEF TypeOK
<1>2. Ends(levels, <<>>) \o <<tok>> \in Seq(Tokens)
  BY <1>1, ConcatType
<1>3. Appends
  BY <1>2 DEF FetchMarker, Emit, Appends
<1> QED
  BY <1>3, KeyAtInherited, KeyStays DEF FetchMarker, KeyInherited

LEMMA FetchKeepsKey ==
    ASSUME IInv, ScannerAssumption, NEW l \in Lexemes, status # "failed", Fetch(l)
    PROVE  KeyPointsAtNode'
<1>1. CASE Fail
  BY <1>1 DEF Fail, KeyPointsAtNode, IInv
<1>2. CASE FetchEof(l) \/ FetchReject(l)
  BY <1>1, <1>2 DEF FetchEof, FetchReject, KeyPointsAtNode
<1>3. CASE ~Fail /\ (FetchFlowStart(l) \/ FetchProperty(l) \/ FetchAlias(l))
  <2>1. PICK tok \in KeyTokens : Emit(Closed(l) \o <<tok>>) /\ simpleKey' = NoteKey(l)
    BY <1>3 DEF FetchFlowStart, FetchProperty, FetchAlias, KeyTokens
  <2> QED
    BY <2>1, KeyNoted DEF IInv
<1>4. CASE ~Fail /\ (\/ FetchFlowEnd(l) \/ FetchFlowEntry(l) \/ FetchBlockEntry(l)
                     \/ FetchKey(l))
  BY <1>4, FetchFlowKeepsKey, KeyStays DEF IInv
<1>5. CASE ~Fail /\ (FetchQuoted(l) \/ FetchBlockScalar(l) \/ FetchPlain(l))
  BY <1>5, FetchScalarKeepsKey, KeyStays DEF IInv
<1>6. CASE FetchValue(l)
  BY <1>6, FetchValueKeepsKey DEF IInv
<1>7. CASE ~Fail /\ (FetchDocumentStart(l) \/ FetchDocumentEnd(l) \/ FetchDirective(l))
  <2>1. "DocStart" \in Tokens /\ "DocEnd" \in Tokens /\ "Directive" \in Tokens
    BY TokenNames
  <2> QED
    BY <1>7, <2>1, FetchMarkerKeepsKey
    DEF IInv, FetchDocumentStart, FetchDocumentEnd, FetchDirective
<1> QED
  BY <1>1, <1>2, <1>3, <1>4, <1>5, <1>6, <1>7 DEF Fetch

\* Only the end of the input ends the scan, and it drops the pending key.
LEMMA FetchEnds ==
    ASSUME IInv, ScannerAssumption, NEW l \in Lexemes, status = "run", Fetch(l)
    PROVE  EndedHasNoKey'
<1>1. CASE Fail
  BY <1>1 DEF Fail, EndedHasNoKey
<1>2. CASE ~Fail /\ FetchEof(l)
  BY <1>2 DEF FetchEof, EndedHasNoKey
<1>3. CASE ~Fail /\ ~FetchEof(l)
  <2>1. status' = status
    <3>1. CASE FetchValue(l)
      BY <1>3, <3>1, ConfirmKeyType, PlainValueType DEF FetchValue, IInv
    <3>2. CASE FetchQuoted(l) \/ FetchPlain(l)
      BY <1>3, <3>2, KeyScalarType, ValueScalarType DEF FetchQuoted, QuotedAs, FetchPlain, PlainAs, IInv
    <3>3. CASE ~FetchValue(l) /\ ~FetchQuoted(l) /\ ~FetchPlain(l)
      BY <1>3, <3>3 DEF Fetch, FetchReject, FetchFlowStart, FetchFlowEnd, FetchFlowEntry,
         FetchBlockEntry, FetchKey, FetchProperty, FetchAlias, FetchBlockScalar,
         ValueScalar, FetchDocumentStart, FetchDocumentEnd, FetchDirective, FetchMarker
    <3> QED
      BY <3>1, <3>2, <3>3
  <2> QED
    BY <2>1 DEF EndedHasNoKey
<1> QED
  BY <1>1, <1>2, <1>3
-----------------------------------------------------------------------------
LEMMA InitIInv == ASSUME ScannerAssumption PROVE Init => IInv
<1> SUFFICES ASSUME Init PROVE IInv
  OBVIOUS
<1>1. at \in Cursors
  <2>1. Classes \in SUBSET Classes /\ -1 \in Columns \union {-1}
    OBVIOUS
  <2> QED
    BY <2>1, CursorTypes DEF Init
<1>2. line \in Lines
  BY DEF Init, Lines, NewLine
<1>3. fl \in FlowFlags /\ bk \in BlockFlags
  BY DEF Init, FlowFlags, BlockFlags
<1>4. Len(flow) <= MaxFlowDepth
  BY DEF Init, ScannerAssumption
<1>5. phase \in Phases
  BY DEF Init, Phases
<1>6. TypeOK
  BY <1>1, <1>2, <1>3, <1>4, <1>5 DEF Init, TypeOK
<1> QED
  BY <1>6 DEF Init, IInv, KeyPointsAtNode, EndedHasNoKey

LEMMA NextIInv == ASSUME IInv, ScannerAssumption, [Next]_vars PROVE IInv'
<1>1. CASE Start
  <2>1. TypeOK'
    BY <1>1, StartType DEF IInv
  <2>2. KeyPointsAtNode'
    <3>1. CASE Fail
      BY <3>1 DEF Fail, KeyPointsAtNode, IInv
    <3>2. CASE ~Fail
      <4>1. <<"StreamStart">> \in Seq(Tokens)
        BY TokenNames
      <4>2. Appends /\ simpleKey' = simpleKey
        BY <1>1, <3>2, <4>1 DEF Start, Emit, Appends
      <4> QED
        BY <4>2, KeyStays DEF KeyInherited, IInv
    <3> QED
      BY <3>1, <3>2
  <2>3. EndedHasNoKey'
    BY <1>1 DEF Start, Fail, EndedHasNoKey
  <2> QED
    BY <2>1, <2>2, <2>3 DEF IInv
<1>2. CASE Deliver
  <2>1. TypeOK'
    BY <1>2, DeliverType DEF IInv
  <2>2. simpleKey = NoKey /\ UNCHANGED <<simpleKey, status>>
    BY <1>2 DEF Deliver, IInv, EndedHasNoKey
  <2> QED
    BY <2>1, <2>2 DEF IInv, KeyPointsAtNode, EndedHasNoKey
<1>3. CASE Fetching /\ \E l \in Lexemes : Ahead(l) /\ Fetch(l)
  <2>1. PICK l \in Lexemes : Fetch(l)
    BY <1>3
  <2>2. status = "run"
    BY <1>3 DEF Fetching
  <2> QED
    BY <2>1, <2>2, FetchType, FetchKeepsKey, FetchEnds DEF IInv
<1>4. CASE UNCHANGED vars
  BY <1>4 DEF vars, given, IInv, TypeOK, KeyPointsAtNode, EndedHasNoKey
<1> QED
  BY <1>1, <1>2, <1>3, <1>4 DEF Next

\* The type, and the pending key with what it needs, hold in every state of the scanner.
THEOREM InductiveInvariant == Spec => []IInv
<1> USE ScannerAssumption
<1>1. Init => IInv
  BY InitIInv
<1>2. IInv /\ [Next]_vars => IInv'
  BY NextIInv
<1> QED
  BY <1>1, <1>2, PTL DEF Spec

\* Whatever the input, every piece of scanner state stays of its type; in
\* particular no more than MaxFlowDepth flow collections are ever open.
THEOREM ScannerTypeOK == Spec => []TypeOK
<1>1. IInv => TypeOK
  BY DEF IInv
<1> QED
  BY <1>1, InductiveInvariant, PTL

\* Whatever the input, the index of a pending key stays inside the buffer and
\* at the token the key would begin with: the insertion of its Key cannot
\* panic, nor separate a node from its properties.
THEOREM ScannerKeyPointsAtNode == Spec => []KeyPointsAtNode
<1>1. IInv => KeyPointsAtNode
  BY DEF IInv
<1> QED
  BY <1>1, InductiveInvariant, PTL
-----------------------------------------------------------------------------
(***************************************************************************)
(* The levels.  A step leaves them, cuts them to a prefix, or cuts them and *)
(* then adds one deeper level: an increasing stack stays increasing.        *)
(***************************************************************************)
Increasing(lv) == \A i, j \in 1 .. Len(lv) : i < j => lv[i].col < lv[j].col

LevelStep(l) ==
    \/ levels' \in {levels, Lv(l), <<>>}
    \/ \E col \in Columns, seq \in BOOLEAN : levels' = Rolled(Lv(l), col, seq)

LEMMA RolledIncreasing ==
    ASSUME NEW lv \in Seq(Levels), Increasing(lv), ScannerAssumption,
           NEW col \in Columns, NEW seq \in BOOLEAN
    PROVE  Increasing(Rolled(lv, col, seq))
<1>1. CASE ~(col > Indent(lv))
  BY <1>1 DEF Rolled
<1>2. CASE col > Indent(lv)
  <2> DEFINE top == [col |-> col, seq |-> seq]
             new == Append(lv, top)
  <2>1. new = Rolled(lv, col, seq) /\ Len(new) = Len(lv) + 1 /\ Len(lv) \in Nat
    BY <1>2 DEF Rolled
  <2>2. \A i \in 1 .. Len(lv) : new[i] = lv[i]
    OBVIOUS
  <2>3. new[Len(lv) + 1] = top /\ top.col = col
    OBVIOUS
  <2>4. \A i \in 1 .. Len(lv) : lv[i].col \in Int
    <3> SUFFICES ASSUME NEW i \in 1 .. Len(lv) PROVE lv[i].col \in Int
      OBVIOUS
    <3>1. lv[i] \in Levels
      OBVIOUS
    <3> QED
      BY <3>1 DEF Levels, Columns, ScannerAssumption
  <2>5. \A i \in 1 .. Len(lv) : lv[i].col <= Indent(lv)
    <3> SUFFICES ASSUME NEW i \in 1 .. Len(lv) PROVE lv[i].col <= Indent(lv)
      OBVIOUS
    <3>1. lv # <<>> /\ Indent(lv) = lv[Len(lv)].col
      BY DEF Indent
    <3>2. Len(lv) \in 1 .. Len(lv)
      OBVIOUS
    <3>3. i = Len(lv) \/ i < Len(lv)
      OBVIOUS
    <3> QED
      BY <3>1, <3>2, <3>3, <2>4 DEF Increasing
  <2>6. \A i \in 1 .. Len(lv) : lv[i].col < col
    <3>1. Indent(lv) \in Int /\ col \in Int
      BY IndentType DEF Columns, ScannerAssumption
    <3> QED
      BY <1>2, <2>4, <2>5, <3>1
  <2> HIDE DEF new, top
  <2>7. Increasing(new)
    BY <2>1, <2>2, <2>3, <2>4, <2>6 DEF Increasing
  <2> QED
    BY <2>1, <2>7
<1> QED
  BY <1>1, <1>2

LEMMA LvIncreasing ==
    ASSUME TypeOK, ScannerAssumption, NEW l \in Lexemes, Increasing(levels)
    PROVE  Increasing(Lv(l))
<1>1. /\ Len(Lv(l)) <= Len(levels) /\ Len(Lv(l)) \in Nat /\ Len(levels) \in Nat
      /\ \A i \in 1 .. Len(Lv(l)) : Lv(l)[i] = levels[i]
  BY LvPrefix DEF TypeOK
<1> QED
  BY <1>1 DEF Increasing

LEMMA FetchLevelStep ==
    ASSUME TypeOK, NEW l \in Lexemes, status # "failed", Fetch(l)
    PROVE  LevelStep(l)
<1>1. CASE Fail
  BY <1>1 DEF Fail, LevelStep
<1>2. ASSUME ~Fail, FetchValue(l) PROVE LevelStep(l)
  <2>1. l.col \in Columns
    BY DEF Lexemes
  <2>2. KeyAt(l).fresh => simpleKey.col \in Columns
    BY DEF KeyAt, NoKey, TypeOK, Keys
  <2> QED
    BY <1>2, <2>1, <2>2 DEF FetchValue, ConfirmKey, PlainValue, LevelStep
<1>3. ASSUME ~Fail, FetchQuoted(l) \/ FetchPlain(l) \/ FetchBlockScalar(l)
      PROVE  LevelStep(l)
  <2>1. l.col \in Columns
    BY DEF Lexemes
  <2>2. KeyScalar(l) => LevelStep(l)
    BY <1>3, <2>1 DEF KeyScalar, LevelStep
  <2>3. \A json \in BOOLEAN : ValueScalar(l, json) => LevelStep(l)
    BY DEF ValueScalar, LevelStep
  <2> QED
    BY <1>3, <2>2, <2>3 DEF FetchQuoted, QuotedAs, FetchPlain, PlainAs, FetchBlockScalar
<1>4. ASSUME ~Fail, FetchBlockEntry(l) \/ FetchKey(l) PROVE LevelStep(l)
  <2>1. l.col \in Columns
    BY DEF Lexemes
  <2> QED
    BY <1>4, <2>1 DEF FetchBlockEntry, FetchKey, LevelStep, Lv
<1>5. ASSUME ~Fail, ~FetchValue(l),
             ~(FetchQuoted(l) \/ FetchPlain(l) \/ FetchBlockScalar(l)),
             ~(FetchBlockEntry(l) \/ FetchKey(l))
      PROVE  LevelStep(l)
  BY <1>5 DEF Fetch, FetchEof, FetchReject, FetchFlowStart, FetchFlowEnd, FetchFlowEntry,
     FetchProperty, FetchAlias, FetchDocumentStart, FetchDocumentEnd, FetchDirective,
     FetchMarker, LevelStep
<1> QED
  BY <1>1, <1>2, <1>3, <1>4, <1>5

\* Whatever the input, each open block level is deeper than the one around it,
\* so that looking at the top level alone, as unwind_indents and roll_indent
\* do, is looking at all of them.
THEOREM ScannerIndentsIncreasing == Spec => []IndentsIncreasing
<1> USE ScannerAssumption
<1>1. Init => IndentsIncreasing
  BY DEF Init, IndentsIncreasing
<1>2. IInv /\ IndentsIncreasing /\ [Next]_vars => IndentsIncreasing'
  <2> SUFFICES ASSUME IInv, Increasing(levels), [Next]_vars
               PROVE  Increasing(levels')
    BY DEF IndentsIncreasing, Increasing
  <2>1. CASE levels' = levels
    BY <2>1
  <2>2. CASE Fetching /\ \E l \in Lexemes : Ahead(l) /\ Fetch(l)
    <3>1. PICK l \in Lexemes : Fetch(l)
      BY <2>2
    <3>2. LevelStep(l)
      BY <2>2, <3>1, FetchLevelStep DEF IInv, Fetching
    <3>3. Lv(l) \in Seq(Levels) /\ Increasing(Lv(l))
      BY FetchTypes, LvIncreasing DEF IInv
    <3>4. Increasing(<<>>)
      BY DEF Increasing
    <3> QED
      BY <3>2, <3>3, <3>4, RolledIncreasing DEF LevelStep
  <2>3. Start \/ Deliver \/ UNCHANGED vars => levels' = levels
    BY DEF Start, Fail, Deliver, vars
  <2> QED
    BY <2>1, <2>2, <2>3 DEF Next
<1> QED
  BY <1>1, <1>2, InductiveInvariant, PTL DEF Spec

\* Whatever the input, no step moves a block level while a flow collection is
\* open: flow content is always measured against the level it opened in.
THEOREM ScannerFlowFreezesLevels == Spec => FlowFreezesLevels
<1>1. [Next]_vars => [InFlow => levels' = levels]_vars
  <2> SUFFICES ASSUME Next, InFlow PROVE levels' = levels
    OBVIOUS
  <2>1. CASE Start \/ Deliver
    BY <2>1 DEF Start, Fail, Deliver
  <2>2. CASE Fetching /\ \E l \in Lexemes : Ahead(l) /\ Fetch(l)
    <3>1. PICK l \in Lexemes : Fetch(l)
      BY <2>2
    <3>2. Lv(l) = levels
      BY DEF Lv
    <3>3. KeyScalar(l) => levels' = levels
      BY DEF KeyScalar, Fail
    <3>4. \A json \in BOOLEAN : ValueScalar(l, json) => levels' = levels
      BY <3>2 DEF ValueScalar
    <3>5. FetchQuoted(l) \/ FetchPlain(l) \/ FetchBlockScalar(l) => levels' = levels
      BY <3>3, <3>4 DEF FetchQuoted, QuotedAs, FetchPlain, PlainAs, FetchBlockScalar, Fail
    <3>6. FetchValue(l) \/ FetchBlockEntry(l) \/ FetchKey(l) => levels' = levels
      BY DEF FetchValue, PlainValue, FetchBlockEntry, FetchKey, Fail
    <3>7. FetchDocumentStart(l) \/ FetchDocumentEnd(l) \/ FetchDirective(l)
            => levels' = levels
      BY DEF FetchDocumentStart, FetchDocumentEnd, FetchDirective
    <3>8. (\/ FetchEof(l) \/ FetchReject(l) \/ FetchFlowStart(l) \/ FetchFlowEnd(l)
           \/ FetchFlowEntry(l) \/ FetchProperty(l) \/ FetchAlias(l))
            => levels' = levels
      BY <3>2 DEF FetchEof, FetchReject, FetchFlowStart, FetchFlowEnd, FetchFlowEntry,
         FetchProperty, FetchAlias, Fail
    <3> QED
      BY <3>1, <3>5, <3>6, <3>7, <3>8 DEF Fetch
  <2> QED
    BY <2>1, <2>2 DEF Next
<1> QED
  BY <1>1, PTL DEF Spec, FlowFreezesLevels
-----------------------------------------------------------------------------
(***************************************************************************)
(* The token stream.  Leads(s, p, q, e): a reader with the collections s    *)
(* open, in phase p of the stream, can take the tokens of q, and has those  *)
(* of e open then.                                                          *)
(***************************************************************************)
PhaseBefore(p, q, i) == IF i = 1 THEN p ELSE PhaseAfter(q[i - 1])
EndPhase(p, q) == IF q = <<>> THEN p ELSE PhaseAfter(q[Len(q)])

\* TokenStream's Allowed, of any stack and phase.
Fits(s, p, t) ==
    /\ p # "done"
    /\ p = "none" <=> t = "StreamStart"
    /\ t \in Closers => Closes(t, Innermost(s))
    /\ t \in Boundaries => s = <<>>
    /\ t = "Directive" => p \in {"prologue", "directives"}
    /\ t \in BlockOpeners => Innermost(s) \notin FlowOpenings
    /\ t = "Entry" => Innermost(s) \in BlockOpeners
    /\ t = "FlowEntry" => Innermost(s) \in FlowOpenings
    /\ t = "Value" => s # <<>>

\* The stacks on the way are n.
Way(n, s, p, q, e) ==
    /\ n \in [0 .. Len(q) -> Seq(Openers)] /\ n[0] = s /\ n[Len(q)] = e
    /\ \A i \in 1 .. Len(q) : Fits(n[i - 1], PhaseBefore(p, q, i), q[i]) /\ n[i] = After(n[i - 1], q[i])
Leads(s, p, q, e) == \E n : Way(n, s, p, q, e)

LEMMA FitsIsAllowed ==
    ASSUME NEW t
    PROVE  TS!Allowed(t) <=> Fits(open, phase, t)
<1>1. /\ TS!Closers = Closers /\ TS!Boundaries = Boundaries /\ TS!BlockOpeners = BlockOpeners
      /\ TS!FlowOpenings = FlowOpenings /\ TS!Innermost(open) = Innermost(open)
    BY DEF TS!Closers, Closers, TS!Boundaries, Boundaries, TS!BlockOpeners, BlockOpeners, TS!FlowOpenings, FlowOpenings,
       TS!Innermost, Innermost
<1>2. TS!Closes(t, Innermost(open)) <=> Closes(t, Innermost(open))
    BY DEF TS!Closes, Closes, TS!BlockOpeners, BlockOpeners
<1> QED BY <1>1, <1>2 DEF TS!Allowed, Fits

LEMMA AfterTyped ==
    ASSUME NEW s \in Seq(Openers), NEW t \in Tokens
    PROVE  After(s, t) \in Seq(Openers)
<1>1. CASE t \in Openers
    BY <1>1 DEF After
<1>2. CASE t \notin Openers /\ t \in Closers
  <2>1. SubSeq(s, 1, Len(s) - 1) \in Seq(Openers)
    <3>1. Len(s) \in Nat
        OBVIOUS
    <3>2. CASE Len(s) = 0
        BY <3>2
    <3>3. CASE Len(s) # 0
      <4>1. Len(s) - 1 \in 0 .. Len(s)
          BY <3>1, <3>3
      <4> QED BY <4>1, Beginning
    <3> QED BY <3>2, <3>3
  <2> QED BY <1>2, <2>1 DEF After
<1> QED BY <1>1, <1>2 DEF After

LEMMA LeadsTyped ==
    ASSUME NEW s, NEW p, NEW q \in Seq(Tokens), NEW e, Leads(s, p, q, e)
    PROVE  s \in Seq(Openers) /\ e \in Seq(Openers)
<1>1. PICK n : Way(n, s, p, q, e)
    BY DEF Leads
<1>2. 0 \in 0 .. Len(q) /\ Len(q) \in 0 .. Len(q)
    OBVIOUS
<1> QED BY <1>1, <1>2 DEF Way

LEMMA LeadsNowhere ==
    ASSUME NEW s \in Seq(Openers), NEW p
    PROVE  Leads(s, p, <<>>, s)
<1> DEFINE n == [i \in 0 .. Len(<<>>) |-> s]
<1>1. Len(<<>>) = 0 /\ 1 .. Len(<<>>) = {} /\ 0 \in 0 .. Len(<<>>)
    OBVIOUS
<1>2. n \in [0 .. Len(<<>>) -> Seq(Openers)] /\ n[0] = s /\ n[Len(<<>>)] = s
    BY <1>1
<1> HIDE DEF n
<1>3. Way(n, s, p, <<>>, s)
    BY <1>1, <1>2 DEF Way
<1> QED BY <1>3 DEF Leads

LEMMA LeadsOne ==
    ASSUME NEW s \in Seq(Openers), NEW p, NEW t \in Tokens, Fits(s, p, t)
    PROVE  Leads(s, p, <<t>>, After(s, t))
<1> DEFINE q == <<t>>
           n == [i \in 0 .. 1 |-> IF i = 0 THEN s ELSE After(s, t)]
<1>1. Len(q) = 1 /\ q[1] = t
    OBVIOUS
<1>2. After(s, t) \in Seq(Openers)
    BY AfterTyped
<1>3. n \in [0 .. 1 -> Seq(Openers)] /\ n[0] = s /\ n[1] = After(s, t)
    BY <1>2
<1> HIDE DEF n, q
<1>4. ASSUME NEW i \in 1 .. Len(q)
      PROVE  Fits(n[i - 1], PhaseBefore(p, q, i), q[i]) /\ n[i] = After(n[i - 1], q[i])
  <2>1. i = 1 /\ i - 1 = 0
      BY <1>1
  <2> QED BY <1>1, <1>3, <2>1 DEF PhaseBefore
<1>5. Way(n, s, p, q, After(s, t))
    BY <1>1, <1>3, <1>4 DEF Way
<1> QED BY <1>5 DEF Leads, q

\* The phase after the first tokens of q, and the first tokens after those of q.
LEMMA EndPhaseConcat ==
    ASSUME NEW p, NEW a \in Seq(Tokens), NEW b \in Seq(Tokens)
    PROVE  EndPhase(p, a \o b) = EndPhase(EndPhase(p, a), b)
<1>1. a \o b \in Seq(Tokens) /\ Len(a \o b) = Len(a) + Len(b) /\ Len(a) \in Nat /\ Len(b) \in Nat
    OBVIOUS
<1>2. CASE b = <<>>
  <2>1. a \o b = a
      BY <1>2
  <2> QED BY <1>2, <2>1 DEF EndPhase
<1>3. CASE b # <<>>
  <2>1. Len(b) \in 1 .. Len(b)
      BY <1>3
  <2>2. a \o b # <<>> /\ (a \o b)[Len(a) + Len(b)] = b[Len(b)]
      BY <1>1, <2>1
  <2> QED BY <1>1, <1>3, <2>2 DEF EndPhase
<1> QED BY <1>2, <1>3

LEMMA LeadsConcat ==
    ASSUME NEW s, NEW p, NEW a \in Seq(Tokens), NEW m, Leads(s, p, a, m),
           NEW b \in Seq(Tokens), NEW e, Leads(m, EndPhase(p, a), b, e)
    PROVE  Leads(s, p, a \o b, e)
<1> DEFINE q == a \o b
           k == Len(a)
<1>1. PICK f : Way(f, s, p, a, m)
    BY DEF Leads
<1>2. PICK g : Way(g, m, EndPhase(p, a), b, e)
    BY DEF Leads
<1>3. /\ q \in Seq(Tokens) /\ Len(q) = k + Len(b) /\ k \in Nat /\ Len(b) \in Nat
      /\ \A i \in 1 .. k : q[i] = a[i]
      /\ \A i \in 1 .. Len(b) : q[k + i] = b[i]
    BY ConcatProperties
<1> DEFINE n == [i \in 0 .. k + Len(b) |-> IF i <= k THEN f[i] ELSE g[i - k]]
<1>4. \A i \in 0 .. k : n[i] = f[i] /\ f[i] \in Seq(Openers)
    BY <1>1, <1>3 DEF Way
<1>5. \A i \in 0 .. Len(b) : n[k + i] = g[i] /\ g[i] \in Seq(Openers)
  <2> SUFFICES ASSUME NEW i \in 0 .. Len(b) PROVE n[k + i] = g[i] /\ g[i] \in Seq(Openers)
      OBVIOUS
  <2>1. g[i] \in Seq(Openers) /\ g[0] = m /\ f[k] = m
      BY <1>1, <1>2 DEF Way
  <2>2. CASE i = 0
      BY <1>3, <2>1, <2>2
  <2>3. CASE i # 0
    <3>1. k + i \in 0 .. k + Len(b) /\ ~(k + i <= k) /\ (k + i) - k = i
        BY <1>3, <2>3
    <3> QED BY <2>1, <3>1
  <2> QED BY <2>2, <2>3
<1>6. n = [i \in 0 .. k + Len(b) |-> n[i]]
    OBVIOUS
<1> HIDE DEF n, q, k
<1>7. ASSUME NEW i \in 0 .. k + Len(b) PROVE n[i] \in Seq(Openers)
  <2>1. CASE i <= k
      BY <1>3, <1>4, <2>1
  <2>2. CASE ~(i <= k)
    <3>1. i - k \in 0 .. Len(b) /\ k + (i - k) = i
        BY <1>3, <2>2
    <3> QED BY <1>5, <3>1
  <2> QED BY <2>1, <2>2
<1>8. n \in [0 .. Len(q) -> Seq(Openers)]
    BY <1>3, <1>6, <1>7
<1>9. n[0] = s /\ n[Len(q)] = e
  <2>1. 0 \in 0 .. k /\ Len(b) \in 0 .. Len(b)
      BY <1>3
  <2> QED BY <1>1, <1>2, <1>3, <1>4, <1>5, <2>1 DEF Way
<1>10. ASSUME NEW i \in 1 .. Len(q)
       PROVE  Fits(n[i - 1], PhaseBefore(p, q, i), q[i]) /\ n[i] = After(n[i - 1], q[i])
  <2>1. CASE i <= k
    <3>1. i \in 1 .. k /\ i \in 0 .. k /\ i - 1 \in 0 .. k /\ (i # 1 => i - 1 \in 1 .. k)
        BY <1>3, <2>1
    <3>2. PhaseBefore(p, q, i) = PhaseBefore(p, a, i)
        BY <1>3, <3>1 DEF PhaseBefore
    <3>3. Fits(f[i - 1], PhaseBefore(p, a, i), a[i]) /\ f[i] = After(f[i - 1], a[i])
        BY <1>1, <3>1 DEF Way, k
    <3>4. q[i] = a[i] /\ n[i] = f[i] /\ n[i - 1] = f[i - 1]
        BY <1>3, <1>4, <3>1
    <3> QED BY <3>2, <3>3, <3>4
  <2>2. CASE ~(i <= k)
    <3>1. PICK j \in 1 .. Len(b) : i = k + j
      <4>1. i - k \in 1 .. Len(b) /\ i = k + (i - k)
          BY <1>3, <2>2
      <4> QED BY <4>1
    <3>2. Fits(g[j - 1], PhaseBefore(EndPhase(p, a), b, j), b[j]) /\ g[j] = After(g[j - 1], b[j])
        BY <1>2 DEF Way
    <3>3. j \in 0 .. Len(b) /\ j - 1 \in 0 .. Len(b) /\ k + (j - 1) = i - 1 /\ (j # 1 => j - 1 \in 1 .. Len(b))
        BY <1>3, <3>1
    <3>4. q[i] = b[j] /\ n[i] = g[j] /\ n[i - 1] = g[j - 1]
        BY <1>3, <1>5, <3>1, <3>3
    <3>5. PhaseBefore(p, q, i) = PhaseBefore(EndPhase(p, a), b, j)
      <4>1. CASE j # 1
        <5>1. i # 1 /\ q[i - 1] = b[j - 1]
            BY <1>3, <3>1, <3>3, <4>1
        <5> QED BY <4>1, <5>1 DEF PhaseBefore
      <4>2. CASE j = 1 /\ k = 0
        <5>1. a = <<>> /\ i = 1
            BY <3>1, <4>2 DEF k
        <5> QED BY <4>2, <5>1 DEF PhaseBefore, EndPhase
      <4>3. CASE j = 1 /\ k # 0
        <5>1. a # <<>> /\ i # 1 /\ i - 1 = k /\ k \in 1 .. k
            BY <1>3, <3>1, <4>3 DEF k
        <5>2. q[i - 1] = a[k]
            BY <1>3, <5>1
        <5> QED BY <4>3, <5>1, <5>2 DEF PhaseBefore, EndPhase, k
      <4> QED BY <4>1, <4>2, <4>3
    <3> QED BY <3>2, <3>4, <3>5
  <2> QED BY <2>1, <2>2
<1>11. Way(n, s, p, q, e)
    BY <1>8, <1>9, <1>10 DEF Way
<1> QED BY <1>11 DEF Leads, q

LEMMA SplitAt ==
    ASSUME NEW q \in Seq(Tokens), NEW k \in 0 .. Len(q)
    PROVE  /\ SubSeq(q, 1, k) \in Seq(Tokens) /\ SubSeq(q, k + 1, Len(q)) \in Seq(Tokens)
           /\ Len(SubSeq(q, 1, k)) = k /\ q = SubSeq(q, 1, k) \o SubSeq(q, k + 1, Len(q))
<1> DEFINE a == SubSeq(q, 1, k)
           b == SubSeq(q, k + 1, Len(q))
<1>1. a \in Seq(Tokens) /\ Len(a) = k /\ \A i \in 1 .. k : a[i] = q[i]
    BY Beginning, SubSeqProperties
<1>2. b \in Seq(Tokens) /\ q = a \o b
  <2>1. IsPrefix(a, q)
    <3>1. a \in Seq(Tokens) /\ Len(a) <= Len(q) /\ \A i \in 1 .. Len(a) : a[i] = q[i]
        BY <1>1
    <3> HIDE DEF a
    <3> QED BY <3>1, PrefixIs
  <2> HIDE DEF a
  <2> QED BY <1>1, <2>1, PrefixSplit
<1> QED BY <1>1, <1>2

\* The first tokens of a way, and those after them.
LEMMA LeadsSplit ==
    ASSUME NEW s, NEW p, NEW q \in Seq(Tokens), NEW e, Leads(s, p, q, e), NEW k \in 0 .. Len(q)
    PROVE  LET a == SubSeq(q, 1, k)
               b == SubSeq(q, k + 1, Len(q))
           IN  /\ a \in Seq(Tokens) /\ b \in Seq(Tokens) /\ Len(a) = k /\ Len(b) = Len(q) - k /\ q = a \o b
               /\ \E m : Leads(s, p, a, m) /\ Leads(m, EndPhase(p, a), b, e)
<1> DEFINE a == SubSeq(q, 1, k)
           b == SubSeq(q, k + 1, Len(q))
<1>1. PICK n : Way(n, s, p, q, e)
    BY DEF Leads
<1>2. a \in Seq(Tokens) /\ Len(a) = k /\ \A i \in 1 .. k : a[i] = q[i]
    BY Beginning, SubSeqProperties
<1>3. b \in Seq(Tokens) /\ q = a \o b
    BY SplitAt
<1>4. /\ Len(q) = k + Len(b) /\ k \in Nat /\ Len(b) \in Nat
      /\ \A i \in 1 .. Len(b) : q[k + i] = b[i]
  <2> HIDE DEF a, b
  <2>1. /\ Len(a \o b) = Len(a) + Len(b) /\ Len(b) \in Nat
        /\ \A i \in 1 .. Len(b) : (a \o b)[Len(a) + i] = b[i]
    <3>1. a \in Seq(Tokens) /\ b \in Seq(Tokens)
        BY <1>2, <1>3
    <3> QED BY <3>1
  <2> QED BY <1>2, <1>3, <2>1
<1> HIDE DEF a, b
<1> DEFINE f == [i \in 0 .. k |-> n[i]]
           g == [i \in 0 .. Len(b) |-> n[k + i]]
<1>5. \A i \in 0 .. k + Len(b) : n[i] \in Seq(Openers)
    BY <1>1, <1>4 DEF Way
<1>6. f \in [0 .. k -> Seq(Openers)] /\ \A i \in 0 .. k : f[i] = n[i]
    BY <1>4, <1>5
<1>7. g \in [0 .. Len(b) -> Seq(Openers)] /\ \A i \in 0 .. Len(b) : g[i] = n[k + i]
  <2>1. \A i \in 0 .. Len(b) : n[k + i] \in Seq(Openers)
      BY <1>4, <1>5
  <2> QED BY <2>1
<1> HIDE DEF f, g
<1>8. Way(f, s, p, a, n[k])
  <2>1. f[0] = s /\ f[Len(a)] = n[k]
      BY <1>1, <1>2, <1>4, <1>6 DEF Way
  <2>2. ASSUME NEW i \in 1 .. k
        PROVE  Fits(f[i - 1], PhaseBefore(p, a, i), a[i]) /\ f[i] = After(f[i - 1], a[i])
    <3>1. i \in 1 .. Len(q) /\ i \in 0 .. k /\ i - 1 \in 0 .. k /\ (i # 1 => i - 1 \in 1 .. k)
        BY <1>4
    <3>2. PhaseBefore(p, q, i) = PhaseBefore(p, a, i)
        BY <1>2, <3>1 DEF PhaseBefore
    <3>3. Fits(n[i - 1], PhaseBefore(p, q, i), q[i]) /\ n[i] = After(n[i - 1], q[i])
        BY <1>1, <3>1 DEF Way
    <3>4. f[i] = n[i] /\ f[i - 1] = n[i - 1] /\ a[i] = q[i]
        BY <1>2, <1>6, <3>1
    <3> QED BY <3>2, <3>3, <3>4
  <2> QED BY <1>2, <1>6, <2>1, <2>2 DEF Way
<1>9. Way(g, n[k], EndPhase(p, a), b, e)
  <2>1. g[0] = n[k] /\ g[Len(b)] = e
      BY <1>1, <1>4, <1>7 DEF Way
  <2>2. ASSUME NEW i \in 1 .. Len(b)
        PROVE  Fits(g[i - 1], PhaseBefore(EndPhase(p, a), b, i), b[i]) /\ g[i] = After(g[i - 1], b[i])
    <3>1. k + i \in 1 .. Len(q) /\ i \in 0 .. Len(b) /\ i - 1 \in 0 .. Len(b) /\ (k + i) - 1 = k + (i - 1)
        BY <1>4
    <3>2. Fits(n[(k + i) - 1], PhaseBefore(p, q, k + i), q[k + i]) /\ n[k + i] = After(n[(k + i) - 1], q[k + i])
        BY <1>1, <3>1 DEF Way
    <3>3. g[i] = n[k + i] /\ g[i - 1] = n[(k + i) - 1] /\ b[i] = q[k + i]
        BY <1>4, <1>7, <3>1
    <3>4. PhaseBefore(p, q, k + i) = PhaseBefore(EndPhase(p, a), b, i)
      <4>1. CASE i # 1
        <5>1. k + i # 1 /\ i - 1 \in 1 .. Len(b) /\ (k + i) - 1 = k + (i - 1)
            BY <1>4, <4>1
        <5>2. q[(k + i) - 1] = b[i - 1]
            BY <1>4, <5>1
        <5> QED BY <4>1, <5>1, <5>2 DEF PhaseBefore
      <4>2. CASE i = 1 /\ k = 0
        <5>1. a = <<>> /\ k + i = 1
            BY <1>2, <4>2
        <5> QED BY <4>2, <5>1 DEF PhaseBefore, EndPhase
      <4>3. CASE i = 1 /\ k # 0
        <5>1. a # <<>> /\ k + i # 1 /\ (k + i) - 1 = k /\ k \in 1 .. k
            BY <1>2, <1>4, <4>3
        <5>2. q[(k + i) - 1] = a[k]
            BY <1>2, <5>1
        <5> QED BY <1>2, <4>3, <5>1, <5>2 DEF PhaseBefore, EndPhase
      <4> QED BY <4>1, <4>2, <4>3
    <3> QED BY <3>2, <3>3, <3>4
  <2> QED BY <1>7, <2>1, <2>2 DEF Way
<1>10. Len(b) = Len(q) - k
    BY <1>4
<1> QED BY <1>2, <1>3, <1>8, <1>9, <1>10 DEF Leads, a, b

\* The first token of a way fits, and the others lead on from it.
LEMMA LeadsHead ==
    ASSUME NEW s, NEW p, NEW q \in Seq(Tokens), q # <<>>, NEW e, Leads(s, p, q, e)
    PROVE  /\ Head(q) \in Tokens /\ Tail(q) \in Seq(Tokens) /\ Fits(s, p, Head(q))
           /\ Leads(After(s, Head(q)), PhaseAfter(Head(q)), Tail(q), e)
<1> DEFINE a == SubSeq(q, 1, 1)
           b == SubSeq(q, 1 + 1, Len(q))
<1>1. 1 \in 0 .. Len(q) /\ 1 \in 1 .. Len(q) /\ Head(q) = q[1] /\ q[1] \in Tokens
    OBVIOUS
<1>2. PICK m : Leads(s, p, a, m) /\ Leads(m, EndPhase(p, a), b, e)
    BY <1>1, LeadsSplit
<1>3. a \in Seq(Tokens) /\ Len(a) = 1 /\ b \in Seq(Tokens)
    BY <1>1, LeadsSplit
<1>4. a[1] = q[1]
    BY <1>1, <1>3
<1>5. Tail(q) = b
    BY DEF Tail
<1> HIDE DEF a, b
<1>6. Fits(s, p, q[1]) /\ m = After(s, q[1])
  <2>1. PICK n : Way(n, s, p, a, m)
      BY <1>2 DEF Leads
  <2>2. Fits(n[1 - 1], PhaseBefore(p, a, 1), a[1]) /\ n[1] = After(n[1 - 1], a[1])
      BY <1>3, <2>1 DEF Way
  <2> QED BY <1>3, <1>4, <2>1, <2>2 DEF Way, PhaseBefore
<1>7. EndPhase(p, a) = PhaseAfter(q[1])
  <2>1. Len(<<>>) = 0
      OBVIOUS
  <2>2. a # <<>>
    <3>1. Len(a) = 1
        BY <1>3
    <3>2. 0 # 1
        OBVIOUS
    <3> QED BY <2>1, <3>1, <3>2, Zenon
  <2> QED BY <1>3, <1>4, <2>2 DEF EndPhase
<1> QED BY <1>1, <1>2, <1>3, <1>5, <1>6, <1>7

\* What can be taken in one phase inside the stream can be in another, if it does
\* not begin with a token that stands between documents.
LEMMA LeadsAgain ==
    ASSUME NEW s, NEW p, NEW q \in Seq(Tokens), q # <<>>, Head(q) \notin Boundaries, NEW e, Leads(s, p, q, e),
           NEW r, r \notin {"none", "done"}
    PROVE  Leads(s, r, q, e)
<1>1. PICK n : Way(n, s, p, q, e)
    BY DEF Leads
<1>2. q[1] \notin Boundaries /\ 1 \in 1 .. Len(q)
    OBVIOUS
<1>3. ASSUME NEW i \in 1 .. Len(q) PROVE Fits(n[i - 1], PhaseBefore(r, q, i), q[i])
  <2>1. Fits(n[i - 1], PhaseBefore(p, q, i), q[i])
      BY <1>1 DEF Way
  <2>2. CASE i = 1
      BY <1>2, <2>1, <2>2 DEF Fits, PhaseBefore, Boundaries
  <2>3. CASE i # 1
      BY <2>1, <2>3 DEF PhaseBefore
  <2> QED BY <2>2, <2>3
<1>4. Way(n, s, r, q, e)
    BY <1>1, <1>3 DEF Way
<1> QED BY <1>4 DEF Leads

\* What a reader has open after q is what the tokens of q leave open.
LEMMA LeadsIsAfter ==
    ASSUME NEW s, NEW p, NEW q \in Seq(Tokens), NEW e, Leads(s, p, q, e)
    PROVE  AfterAll(s, q) = e
<1> DEFINE Is(f) == f = [i \in 0 .. Len(q) |-> IF i = 0 THEN s ELSE After(f[i - 1], q[i])]
           after == CHOOSE f : f = [i \in 0 .. Len(q) |-> IF i = 0 THEN s ELSE After(f[i - 1], q[i])]
<1>1. PICK n : Way(n, s, p, q, e)
    BY DEF Leads
<1>2. AfterAll(s, q) = after[Len(q)]
    BY DEF AfterAll
<1>3. Is(n)
  <2>1. n = [i \in 0 .. Len(q) |-> n[i]]
      BY <1>1 DEF Way
  <2>2. \A i \in 0 .. Len(q) : n[i] = IF i = 0 THEN s ELSE After(n[i - 1], q[i])
      BY <1>1 DEF Way
  <2> QED BY <2>1, <2>2
<1>4. Is(after)
    BY <1>3, Zenon
<1> HIDE DEF after
<1>5. \A i \in 0 .. Len(q) : after[i] = IF i = 0 THEN s ELSE After(after[i - 1], q[i])
    BY <1>4
<1> HIDE DEF Is
<1> DEFINE T == {i \in Nat : i \in 0 .. Len(q) => after[i] = n[i]}
<1>6. 0 \in T
    BY <1>1, <1>5 DEF Way
<1>7. ASSUME NEW i \in Nat, i \in T PROVE i + 1 \in T
  <2> SUFFICES ASSUME i + 1 \in 0 .. Len(q) PROVE after[i + 1] = n[i + 1]
      OBVIOUS
  <2>1. i \in 0 .. Len(q) /\ i + 1 \in 1 .. Len(q) /\ (i + 1) - 1 = i /\ i + 1 # 0
      OBVIOUS
  <2>2. after[i] = n[i]
      BY <1>7, <2>1
  <2>3. n[i + 1] = After(n[(i + 1) - 1], q[i + 1])
      BY <1>1, <2>1 DEF Way
  <2>4. after[i + 1] = After(after[(i + 1) - 1], q[i + 1])
      BY <1>5, <2>1
  <2> QED BY <2>1, <2>2, <2>3, <2>4
<1> HIDE DEF T
<1>8. Len(q) \in T
    BY <1>6, <1>7, NatSetInduction
<1>9. after[Len(q)] = n[Len(q)]
    BY <1>8 DEF T
<1> QED BY <1>1, <1>2, <1>9 DEF Way
-----------------------------------------------------------------------------
(***************************************************************************)
(* The scanner's own stacks as collections: block levels, and the flow      *)
(* collections in the innermost of them.                                    *)
(***************************************************************************)
OfLevels(lv) == [i \in 1 .. Len(lv) |-> OfLevel(lv[i])]
OfFlows(fs) == [i \in 1 .. Len(fs) |-> OfFlow(fs[i])]

LEMMA LevelsTyped ==
    ASSUME NEW lv \in Seq(Levels)
    PROVE  OfLevels(lv) \in Seq(BlockOpeners) /\ Len(OfLevels(lv)) = Len(lv) /\ (OfLevels(lv) = <<>> <=> lv = <<>>)
<1>1. \A i \in 1 .. Len(lv) : OfLevel(lv[i]) \in BlockOpeners
    BY DEF OfLevel, BlockOpeners
<1>2. Len(lv) \in Nat
    OBVIOUS
<1>3. OfLevels(lv) \in Seq(BlockOpeners) /\ Len(OfLevels(lv)) = Len(lv)
    BY <1>1, <1>2 DEF OfLevels
<1> QED BY <1>2, <1>3

LEMMA FlowsTyped ==
    ASSUME NEW fs \in Seq(FlowOpeners)
    PROVE  OfFlows(fs) \in Seq(FlowOpenings) /\ Len(OfFlows(fs)) = Len(fs) /\ (OfFlows(fs) = <<>> <=> fs = <<>>)
<1>1. \A i \in 1 .. Len(fs) : OfFlow(fs[i]) \in FlowOpenings
    BY DEF OfFlow, FlowOpenings
<1>2. Len(fs) \in Nat
    OBVIOUS
<1>3. OfFlows(fs) \in Seq(FlowOpenings) /\ Len(OfFlows(fs)) = Len(fs)
    BY <1>1, <1>2 DEF OfFlows
<1> QED BY <1>2, <1>3

LEMMA LevelAdded ==
    ASSUME NEW lv \in Seq(Levels), NEW x \in Levels
    PROVE  OfLevels(Append(lv, x)) = Append(OfLevels(lv), OfLevel(x))
<1> DEFINE nv == Append(lv, x)
           a == OfLevels(nv)
           b == Append(OfLevels(lv), OfLevel(x))
<1>1. nv \in Seq(Levels) /\ Len(nv) = Len(lv) + 1 /\ nv[Len(lv) + 1] = x /\ \A i \in 1 .. Len(lv) : nv[i] = lv[i]
    OBVIOUS
<1>2. OfLevel(x) \in BlockOpeners
    BY DEF OfLevel, BlockOpeners
<1>3. OfLevels(lv) \in Seq(BlockOpeners) /\ Len(OfLevels(lv)) = Len(lv)
    BY LevelsTyped
<1>4. /\ b \in Seq(BlockOpeners) /\ Len(b) = Len(lv) + 1 /\ b[Len(lv) + 1] = OfLevel(x)
      /\ \A i \in 1 .. Len(lv) : b[i] = OfLevels(lv)[i]
    BY <1>2, <1>3
<1>5. a \in Seq(BlockOpeners) /\ Len(a) = Len(lv) + 1
    BY <1>1, LevelsTyped
<1>6. ASSUME NEW i \in 1 .. Len(lv) + 1 PROVE a[i] = b[i]
  <2>1. a[i] = OfLevel(nv[i])
      BY <1>1 DEF OfLevels
  <2>2. CASE i \in 1 .. Len(lv)
    <3>1. OfLevels(lv)[i] = OfLevel(lv[i])
        BY <2>2 DEF OfLevels
    <3> QED BY <1>1, <1>4, <2>1, <2>2, <3>1
  <2>3. CASE i = Len(lv) + 1
      BY <1>1, <1>4, <2>1, <2>3
  <2>4. i \in 1 .. Len(lv) \/ i = Len(lv) + 1
    <3>1. \A k \in Nat : \A j \in 1 .. k + 1 : j \in 1 .. k \/ j = k + 1
        OBVIOUS
    <3>2. Len(lv) \in Nat
        OBVIOUS
    <3> QED BY <3>1, <3>2
  <2> QED BY <2>2, <2>3, <2>4
<1> HIDE DEF a, b
<1>7. a = b
    BY <1>4, <1>5, <1>6, SeqEqual
<1> QED BY <1>7 DEF a, b

LEMMA FlowAdded ==
    ASSUME NEW fs \in Seq(FlowOpeners), NEW c \in FlowOpeners
    PROVE  OfFlows(Append(fs, c)) = Append(OfFlows(fs), OfFlow(c))
<1> DEFINE nv == Append(fs, c)
           a == OfFlows(nv)
           b == Append(OfFlows(fs), OfFlow(c))
<1>1. nv \in Seq(FlowOpeners) /\ Len(nv) = Len(fs) + 1 /\ nv[Len(fs) + 1] = c /\ \A i \in 1 .. Len(fs) : nv[i] = fs[i]
    OBVIOUS
<1>2. OfFlow(c) \in FlowOpenings
    BY DEF OfFlow, FlowOpenings
<1>3. OfFlows(fs) \in Seq(FlowOpenings) /\ Len(OfFlows(fs)) = Len(fs)
    BY FlowsTyped
<1>4. /\ b \in Seq(FlowOpenings) /\ Len(b) = Len(fs) + 1 /\ b[Len(fs) + 1] = OfFlow(c)
      /\ \A i \in 1 .. Len(fs) : b[i] = OfFlows(fs)[i]
    BY <1>2, <1>3
<1>5. a \in Seq(FlowOpenings) /\ Len(a) = Len(fs) + 1
    BY <1>1, FlowsTyped
<1>6. ASSUME NEW i \in 1 .. Len(fs) + 1 PROVE a[i] = b[i]
  <2>1. a[i] = OfFlow(nv[i])
      BY <1>1 DEF OfFlows
  <2>2. CASE i \in 1 .. Len(fs)
    <3>1. OfFlows(fs)[i] = OfFlow(fs[i])
        BY <2>2 DEF OfFlows
    <3> QED BY <1>1, <1>4, <2>1, <2>2, <3>1
  <2>3. CASE i = Len(fs) + 1
      BY <1>1, <1>4, <2>1, <2>3
  <2>4. i \in 1 .. Len(fs) \/ i = Len(fs) + 1
    <3>1. \A k \in Nat : \A j \in 1 .. k + 1 : j \in 1 .. k \/ j = k + 1
        OBVIOUS
    <3>2. Len(fs) \in Nat
        OBVIOUS
    <3> QED BY <3>1, <3>2
  <2> QED BY <2>2, <2>3, <2>4
<1> HIDE DEF a, b
<1>7. a = b
    BY <1>4, <1>5, <1>6, SeqEqual
<1> QED BY <1>7 DEF a, b

\* Block collections, with flow collections in the innermost of them.
LEMMA StackIs ==
    ASSUME NEW base \in Seq(BlockOpeners), NEW fs \in Seq(FlowOpeners)
    PROVE  LET s == base \o OfFlows(fs)
           IN  /\ s \in Seq(Openers) /\ base \in Seq(Openers)
               /\ fs = <<>> => s = base /\ Innermost(s) \notin FlowOpenings
               /\ fs = <<>> /\ base # <<>> => Innermost(s) \in BlockOpeners
               /\ fs # <<>> => Innermost(s) = OfFlow(fs[Len(fs)]) /\ Innermost(s) \in FlowOpenings
               /\ base # <<>> \/ fs # <<>> => s # <<>>
<1> DEFINE f == OfFlows(fs)
           s == base \o f
<1>1. f \in Seq(FlowOpenings) /\ Len(f) = Len(fs) /\ (f = <<>> <=> fs = <<>>)
    BY FlowsTyped
<1>2. base \in Seq(Openers) /\ f \in Seq(Openers)
  <2>1. f \in Seq(FlowOpenings)
      BY <1>1
  <2> HIDE DEF f
  <2> QED BY <2>1 DEF Openers
<1>3. fs # <<>> => f[Len(f)] = OfFlow(fs[Len(fs)]) /\ f[Len(f)] \in FlowOpenings
  <2>1. fs # <<>> => Len(fs) \in 1 .. Len(fs)
      OBVIOUS
  <2> QED BY <1>1, <2>1 DEF OfFlows
<1> HIDE DEF f
<1>4. s \in Seq(Openers)
    BY <1>2
<1>5. CASE fs = <<>>
  <2>1. s = base
      BY <1>1, <1>5
  <2>2. base # <<>> => base[Len(base)] \in BlockOpeners
      OBVIOUS
  <2>3. "none" \notin FlowOpenings /\ BlockOpeners \intersect FlowOpenings = {}
      BY DEF FlowOpenings, BlockOpeners
  <2> HIDE DEF s
  <2> QED BY <1>2, <1>4, <1>5, <2>1, <2>2, <2>3 DEF Innermost, s, f
<1>6. CASE fs # <<>>
  <2>1. f # <<>> /\ Len(f) \in 1 .. Len(f)
      BY <1>1, <1>6
  <2>2. Len(s) = Len(base) + Len(f) /\ s # <<>> /\ s[Len(base) + Len(f)] = f[Len(f)]
      BY <1>2, <2>1
  <2> HIDE DEF s
  <2> QED BY <1>2, <1>3, <1>4, <1>6, <2>2 DEF Innermost, s, f
<1> QED BY <1>5, <1>6
-----------------------------------------------------------------------------
(***************************************************************************)
(* Tokens that can be taken inside the stream, in any phase of it.          *)
(***************************************************************************)
Outside == {"none", "done"}
Takes(s, toks, e) ==
    /\ toks \in Seq(Tokens)
    /\ \A p : p \notin Outside => Leads(s, p, toks, e) /\ EndPhase(p, toks) \notin Outside

LEMMA TakesNothing ==
    ASSUME NEW s \in Seq(Openers)
    PROVE  Takes(s, <<>>, s)
<1>1. <<>> \in Seq(Tokens)
    OBVIOUS
<1> QED BY <1>1, LeadsNowhere DEF Takes, EndPhase

LEMMA TakesConcat ==
    ASSUME NEW s, NEW a, NEW m, Takes(s, a, m), NEW b, NEW e, Takes(m, b, e)
    PROVE  Takes(s, a \o b, e)
<1>1. a \in Seq(Tokens) /\ b \in Seq(Tokens)
    BY DEF Takes
<1>2. a \o b \in Seq(Tokens)
    BY <1>1
<1>3. ASSUME NEW p, p \notin Outside PROVE Leads(s, p, a \o b, e) /\ EndPhase(p, a \o b) \notin Outside
  <2>1. Leads(s, p, a, m) /\ EndPhase(p, a) \notin Outside
      BY <1>3 DEF Takes
  <2>2. Leads(m, EndPhase(p, a), b, e) /\ EndPhase(EndPhase(p, a), b) \notin Outside
      BY <2>1 DEF Takes
  <2> QED BY <1>1, <2>1, <2>2, LeadsConcat, EndPhaseConcat
<1> QED BY <1>2, <1>3 DEF Takes

LEMMA TakesOne ==
    ASSUME NEW s \in Seq(Openers), NEW t \in Tokens \ Boundaries, \A p : p \notin Outside => Fits(s, p, t)
    PROVE  Takes(s, <<t>>, After(s, t))
<1>1. <<t>> \in Seq(Tokens) /\ <<t>> # <<>> /\ <<t>>[Len(<<t>>)] = t
    OBVIOUS
<1>2. PhaseAfter(t) \notin Outside
    BY DEF PhaseAfter, Outside, Boundaries
<1>3. \A p : EndPhase(p, <<t>>) \notin Outside
    BY <1>1, <1>2 DEF EndPhase
<1>4. \A p : p \notin Outside => Leads(s, p, <<t>>, After(s, t))
    BY LeadsOne
<1> QED BY <1>1, <1>3, <1>4 DEF Takes

\* Tokens that open and close nothing.
Plain == {"Scalar", "Alias", "Anchor", "Tag", "Key", "KeyExplicit", "Value", "Entry", "FlowEntry"}
LEMMA TakesPlain ==
    ASSUME NEW base \in Seq(BlockOpeners), NEW fs \in Seq(FlowOpeners), NEW t \in Plain,
           t = "Value" => base # <<>> \/ fs # <<>>,
           t = "Entry" => base # <<>> /\ fs = <<>>,
           t = "FlowEntry" => fs # <<>>
    PROVE  Takes(base \o OfFlows(fs), <<t>>, base \o OfFlows(fs))
<1> DEFINE s == base \o OfFlows(fs)
<1>1. t \in Tokens \ Boundaries /\ t \notin Openers \union Closers /\ t \notin BlockOpeners
    BY DEF Plain, Tokens, Boundaries, Openers, Closers, BlockOpeners, FlowOpenings, NodeStarts
<1>2. /\ s \in Seq(Openers) /\ (t = "Entry" => Innermost(s) \in BlockOpeners)
      /\ (t = "FlowEntry" => Innermost(s) \in FlowOpenings) /\ (t = "Value" => s # <<>>)
    BY StackIs
<1> HIDE DEF s
<1>3. After(s, t) = s
    BY <1>1 DEF After
<1>4. t # "StreamStart" /\ t # "Directive"
    BY DEF Plain
<1>5. \A p : p \notin Outside => Fits(s, p, t)
    BY <1>1, <1>2, <1>4 DEF Fits, Outside
<1>6. Takes(s, <<t>>, After(s, t))
    BY <1>1, <1>2, <1>5, TakesOne
<1> QED BY <1>3, <1>6 DEF s

LEMMA TakesFlowOpening ==
    ASSUME NEW base \in Seq(BlockOpeners), NEW fs \in Seq(FlowOpeners), NEW c \in FlowOpeners
    PROVE  Takes(base \o OfFlows(fs), <<OfFlow(c)>>, base \o OfFlows(Append(fs, c)))
<1> DEFINE t == OfFlow(c)
           f == OfFlows(fs)
           s == base \o f
<1>1. t \in Tokens \ Boundaries /\ t \in Openers /\ t \notin BlockOpeners /\ t \notin Closers
    BY DEF OfFlow, Tokens, Boundaries, Openers, Closers, BlockOpeners, FlowOpenings, NodeStarts
<1>2. s \in Seq(Openers) /\ base \in Seq(Openers)
    BY StackIs
<1>3. OfFlows(Append(fs, c)) = Append(f, t)
    BY FlowAdded
<1>4. f \in Seq(Openers)
  <2>1. f \in Seq(FlowOpenings)
      BY FlowsTyped
  <2> HIDE DEF f
  <2> QED BY <2>1 DEF Openers
<1>5. t \notin {"StreamStart", "Directive", "Entry", "FlowEntry", "Value"}
    BY DEF OfFlow
<1> HIDE DEF f, t
<1>6. base \o Append(f, t) = Append(s, t)
  <2>1. <<t>> \in Seq(Openers) /\ Append(f, t) = f \o <<t>> /\ Append(s, t) = s \o <<t>>
      BY <1>1, <1>2, <1>4
  <2>2. base \o (f \o <<t>>) = (base \o f) \o <<t>>
      BY <1>2, <1>4, <2>1, ConcatAssociative
  <2> QED BY <2>1, <2>2
<1> HIDE DEF s
<1>7. After(s, t) = Append(s, t)
    BY <1>1 DEF After
<1>8. \A p : p \notin Outside => Fits(s, p, t)
    BY <1>1, <1>5 DEF Fits, Outside
<1>9. Takes(s, <<t>>, After(s, t))
    BY <1>1, <1>2, <1>8, TakesOne
<1> QED BY <1>3, <1>6, <1>7, <1>9 DEF s, t, f

LEMMA TakesFlowEnd ==
    ASSUME NEW base \in Seq(BlockOpeners), NEW fs \in Seq(FlowOpeners), fs # <<>>,
           NEW t, t = IF fs[Len(fs)] = "[" THEN "FlowSeqEnd" ELSE "FlowMapEnd"
    PROVE  Takes(base \o OfFlows(fs), <<t>>, base \o OfFlows(SubSeq(fs, 1, Len(fs) - 1)))
<1> DEFINE gs == SubSeq(fs, 1, Len(fs) - 1)
           c == fs[Len(fs)]
           s == base \o OfFlows(fs)
           r == base \o OfFlows(gs)
<1>1. c \in FlowOpeners /\ Len(fs) - 1 \in 0 .. Len(fs)
  <2>1. Len(fs) \in 1 .. Len(fs)
      OBVIOUS
  <2> QED BY <2>1
<1>2. gs \in Seq(FlowOpeners) /\ Len(gs) = Len(fs) - 1
    BY <1>1, Beginning
<1>3. fs = Append(gs, c)
  <2>1. gs = Front(fs) /\ c = Last(fs)
      BY DEF Front, Last
  <2>2. \A i \in 1 .. Len(fs) - 1 : gs[i] = fs[i]
      BY <1>1, <1>2, Beginning
  <2> HIDE DEF gs, c
  <2> DEFINE a == Append(gs, c)
  <2>3. a \in Seq(FlowOpeners) /\ Len(a) = Len(fs) /\ a[Len(fs)] = c /\ \A i \in 1 .. Len(fs) - 1 : a[i] = gs[i]
      BY <1>1, <1>2
  <2> HIDE DEF a
  <2>4. ASSUME NEW i \in 1 .. Len(fs) PROVE a[i] = fs[i]
    <3>1. i = Len(fs) \/ i \in 1 .. Len(fs) - 1
        OBVIOUS
    <3>2. c = fs[Len(fs)]
        BY DEF c
    <3> QED BY <2>2, <2>3, <3>1, <3>2
  <2>5. a = fs
      BY <2>3, <2>4, SeqEqual
  <2> QED BY <2>5 DEF a
<1> HIDE DEF gs
<1>4. s = Append(r, OfFlow(c)) /\ r \in Seq(Openers) /\ s \in Seq(Openers)
  <2>1. OfFlows(fs) = Append(OfFlows(gs), OfFlow(c))
      BY <1>1, <1>2, <1>3, FlowAdded
  <2> DEFINE g == OfFlows(gs)
             o == OfFlow(c)
  <2>2. g \in Seq(Openers) /\ o \in Openers /\ base \in Seq(Openers) /\ r \in Seq(Openers) /\ s \in Seq(Openers)
    <3>1. g \in Seq(FlowOpenings) /\ r \in Seq(Openers) /\ s \in Seq(Openers) /\ base \in Seq(Openers)
        BY <1>2, FlowsTyped, StackIs
    <3>2. o \in Openers
        BY DEF OfFlow, Openers, FlowOpenings
    <3> HIDE DEF g, o, r, s
    <3>3. g \in Seq(Openers)
        BY <3>1 DEF Openers
    <3> QED BY <3>1, <3>2, <3>3
  <2>3. r = base \o g /\ s = base \o Append(g, o)
      BY <2>1
  <2> HIDE DEF g, o, r, s
  <2>4. <<o>> \in Seq(Openers) /\ Append(g, o) = g \o <<o>> /\ Append(r, o) = r \o <<o>>
    <3>1. g \in Seq(Openers) /\ r \in Seq(Openers) /\ o \in Openers
        BY <2>2
    <3>2. <<o>> \in Seq(Openers)
        BY <3>1
    <3>3. Append(g, o) = g \o <<o>>
        BY <3>1
    <3>4. Append(r, o) = r \o <<o>>
        BY <3>1
    <3> QED BY <3>2, <3>3, <3>4
  <2>5. base \o (g \o <<o>>) = (base \o g) \o <<o>>
      BY <2>2, <2>4, ConcatAssociative
  <2> QED BY <2>2, <2>3, <2>4, <2>5 DEF o
<1>5. t \in Tokens \ Boundaries /\ t \in Closers /\ t \notin Openers /\ t \notin BlockOpeners
    BY DEF Tokens, Boundaries, Openers, Closers, BlockOpeners, FlowOpenings, NodeStarts
<1>6. t \notin {"StreamStart", "Directive", "Entry", "FlowEntry", "Value"}
    OBVIOUS
<1>7. Innermost(s) = OfFlow(c)
    BY StackIs
<1>8. Closes(t, Innermost(s))
    BY <1>1, <1>7 DEF Closes, OfFlow, FlowOpeners
<1> HIDE DEF s, r
<1>9. After(s, t) = r
  <2>1. OfFlow(c) \in Openers
      BY DEF OfFlow, Openers, FlowOpenings
  <2>2. Len(s) = Len(r) + 1 /\ Len(r) \in Nat /\ \A i \in 1 .. Len(r) : s[i] = r[i]
      BY <1>4, <2>1
  <2> DEFINE u == SubSeq(s, 1, Len(s) - 1)
  <2>3. u \in Seq(Openers) /\ Len(u) = Len(r) /\ \A i \in 1 .. Len(r) : u[i] = s[i]
    <3>1. Len(s) - 1 = Len(r) /\ Len(s) - 1 \in 0 .. Len(s)
        BY <2>2
    <3> QED BY <1>4, <3>1, Beginning
  <2> HIDE DEF u
  <2>4. u = r
      BY <1>4, <2>2, <2>3, SeqEqual
  <2> QED BY <1>5, <2>4 DEF After, u
<1>10. \A p : p \notin Outside => Fits(s, p, t)
    BY <1>5, <1>6, <1>8 DEF Fits, Outside
<1>11. Takes(s, <<t>>, After(s, t))
    BY <1>4, <1>5, <1>10, TakesOne
<1> QED BY <1>9, <1>11 DEF s, r, gs

LEMMA TakesBlockOpening ==
    ASSUME NEW base \in Seq(BlockOpeners), NEW t \in BlockOpeners
    PROVE  Takes(base, <<t>>, Append(base, t)) /\ Append(base, t) \in Seq(BlockOpeners) /\ Append(base, t) # <<>>
<1>1. t \in Tokens \ Boundaries /\ t \in Openers /\ t \notin Closers
    BY DEF Tokens, Boundaries, Openers, Closers, BlockOpeners, FlowOpenings, NodeStarts
<1>2. base \in Seq(Openers) /\ Innermost(base) \notin FlowOpenings
  <2>1. base \in Seq(Openers)
      BY DEF Openers
  <2>2. base # <<>> => base[Len(base)] \in BlockOpeners
      OBVIOUS
  <2> QED BY <2>1, <2>2 DEF Innermost, BlockOpeners, FlowOpenings
<1>3. t \notin {"StreamStart", "Directive", "Entry", "FlowEntry", "Value"}
    BY DEF BlockOpeners
<1>4. \A p : p \notin Outside => Fits(base, p, t)
    BY <1>1, <1>2, <1>3 DEF Fits, Outside
<1>5. After(base, t) = Append(base, t)
    BY <1>1 DEF After
<1>6. Append(base, t) \in Seq(BlockOpeners)
    OBVIOUS
<1>7. Append(base, t) # <<>>
  <2>1. Len(Append(base, t)) = Len(base) + 1 /\ Len(base) \in Nat
      BY AppendIs
  <2>2. Len(Append(base, t)) # 0 /\ Len(<<>>) = 0
      BY <2>1
  <2> QED BY <2>2
<1> QED BY <1>1, <1>2, <1>4, <1>5, <1>6, <1>7, TakesOne

\* unwind_indents and the end of the input close levels from the top.
LEMMA TakesEnds ==
    ASSUME NEW from \in Seq(Levels), NEW to \in Seq(Levels), Len(to) <= Len(from),
           \A i \in 1 .. Len(to) : to[i] = from[i]
    PROVE  Takes(OfLevels(from), Ends(from, to), OfLevels(to))
<1> DEFINE b == OfLevels(from)
           q == Ends(from, to)
           k == Len(from) - Len(to)
           n == [i \in 0 .. k |-> SubSeq(b, 1, Len(from) - i)]
<1>1. Len(from) \in Nat /\ Len(to) \in Nat /\ k \in 0 .. Len(from) /\ Len(from) - k = Len(to)
    OBVIOUS
<1>2. b \in Seq(Openers) /\ Len(b) = Len(from) /\ b \in Seq(BlockOpeners)
  <2>1. b \in Seq(BlockOpeners) /\ Len(b) = Len(from)
      BY LevelsTyped
  <2> HIDE DEF b
  <2> QED BY <2>1 DEF Openers
<1>3. q \in Seq(Tokens) /\ Len(q) = k /\ \A i \in 1 .. k : q[i] = "BlockEnd"
  <2>1. "BlockEnd" \in Tokens
      BY TokenNames
  <2>2. k \in Nat /\ q = [i \in 1 .. k |-> "BlockEnd"]
      BY <1>1 DEF Ends
  <2> HIDE DEF q, k
  <2> QED BY <2>1, <2>2
<1>4. b = OfLevels(from)
    OBVIOUS
<1> HIDE DEF b, q
<1>5. \A m \in 0 .. Len(from) : /\ SubSeq(b, 1, m) \in Seq(Openers) /\ Len(SubSeq(b, 1, m)) = m
                                /\ \A i \in 1 .. m : SubSeq(b, 1, m)[i] = b[i]
    BY <1>2, Beginning
<1>6. \A m \in 1 .. Len(from) : b[m] \in BlockOpeners
    BY <1>2
<1>7. /\ n \in [0 .. k -> Seq(Openers)] /\ DOMAIN n = 0 .. k
      /\ \A i \in 0 .. k : n[i] = SubSeq(b, 1, Len(from) - i) /\ Len(from) - i \in 0 .. Len(from)
  <2>1. \A i \in 0 .. k : Len(from) - i \in 0 .. Len(from)
      BY <1>1
  <2> HIDE DEF k
  <2> QED BY <1>5, <2>1
<1>8. SubSeq(b, 1, Len(from)) = b
  <2> DEFINE c == SubSeq(b, 1, Len(from))
  <2>1. c \in Seq(Openers) /\ Len(c) = Len(from) /\ \A i \in 1 .. Len(from) : c[i] = b[i]
      BY <1>1, <1>5
  <2> HIDE DEF c
  <2> QED BY <1>2, <2>1, SeqEqual DEF c
<1>9. SubSeq(b, 1, Len(to)) = OfLevels(to)
  <2> DEFINE c == SubSeq(b, 1, Len(to))
             d == OfLevels(to)
  <2>1. Len(to) \in 0 .. Len(from)
      BY <1>1
  <2>2. c \in Seq(Openers) /\ Len(c) = Len(to) /\ \A i \in 1 .. Len(to) : c[i] = b[i]
      BY <1>5, <2>1
  <2>3. d \in Seq(BlockOpeners) /\ Len(d) = Len(to)
      BY LevelsTyped
  <2>4. \A i \in 1 .. Len(to) : d[i] = b[i]
      BY <1>1, <1>4 DEF OfLevels
  <2> HIDE DEF c, d
  <2>5. d \in Seq(Openers)
      BY <2>3 DEF Openers
  <2>6. c = d
      BY <2>2, <2>3, <2>4, <2>5, SeqEqual
  <2> QED BY <2>6 DEF c, d
<1>10. "BlockEnd" \in Closers /\ "BlockEnd" \notin Openers \union Boundaries \union BlockOpeners
    BY DEF Closers, Openers, Boundaries, BlockOpeners, FlowOpenings
<1>11. PhaseAfter("BlockEnd") = "document"
    BY DEF PhaseAfter
<1>12. ASSUME NEW p, p \notin Outside, NEW i \in 1 .. k
       PROVE  Fits(n[i - 1], PhaseBefore(p, q, i), q[i]) /\ n[i] = After(n[i - 1], q[i])
  <2> DEFINE m == Len(from) - (i - 1)
             s == SubSeq(b, 1, m)
  <2>1. /\ i - 1 \in 0 .. k /\ i \in 0 .. k /\ m \in 1 .. Len(from) /\ m \in 0 .. Len(from) /\ Len(from) - i = m - 1
        /\ m - 1 \in 0 .. m /\ m - 1 \in 0 .. Len(from)
      BY <1>1
  <2>2. n[i - 1] = s /\ n[i] = SubSeq(b, 1, m - 1) /\ q[i] = "BlockEnd"
      BY <1>3, <1>7, <2>1
  <2>3. s \in Seq(Openers) /\ Len(s) = m /\ \A j \in 1 .. m : s[j] = b[j]
      BY <1>5, <2>1
  <2>4. PhaseBefore(p, q, i) \notin Outside
    <3>1. CASE i = 1
        BY <1>12, <3>1 DEF PhaseBefore
    <3>2. CASE i # 1
      <4>1. q[i - 1] = "BlockEnd"
          BY <1>3, <3>2
      <4> QED BY <1>11, <3>2, <4>1 DEF PhaseBefore, Outside
    <3> QED BY <3>1, <3>2
  <2>5. s # <<>> /\ Innermost(s) = s[m] /\ s[m] \in BlockOpeners
    <3>1. s # <<>>
      <4>1. Len(s) # 0 /\ Len(<<>>) = 0
          BY <2>1, <2>3
      <4> HIDE DEF s
      <4> QED BY <4>1
    <3>2. s[m] = b[m] /\ b[m] \in BlockOpeners
        BY <1>6, <2>1, <2>3
    <3> QED BY <2>3, <3>1, <3>2 DEF Innermost
  <2>6. After(s, "BlockEnd") = SubSeq(s, 1, m - 1)
      BY <1>10, <2>3 DEF After
  <2>7. SubSeq(s, 1, m - 1) = SubSeq(b, 1, m - 1)
    <3> DEFINE c == SubSeq(s, 1, m - 1)
               d == SubSeq(b, 1, m - 1)
    <3>1. c \in Seq(Openers) /\ Len(c) = m - 1 /\ \A j \in 1 .. m - 1 : c[j] = s[j]
        BY <2>1, <2>3, Beginning
    <3>2. d \in Seq(Openers) /\ Len(d) = m - 1 /\ \A j \in 1 .. m - 1 : d[j] = b[j]
        BY <1>5, <2>1
    <3>3. \A j \in 1 .. m - 1 : s[j] = b[j]
      <4>1. m \in Int
          BY <2>1
      <4>2. \A j \in 1 .. m : s[j] = b[j]
          BY <2>3
      <4> HIDE DEF m, s
      <4> QED BY <4>1, <4>2
    <3> HIDE DEF c, d, s, m
    <3>4. Len(c) = Len(d) /\ \A j \in 1 .. Len(c) : c[j] = d[j]
        BY <3>1, <3>2, <3>3
    <3>5. c = d
        BY <3>1, <3>2, <3>4, SeqEqual
    <3> QED BY <3>5 DEF c, d, s, m
  <2> HIDE DEF s, m
  <2>8. Closes("BlockEnd", Innermost(s))
      BY <2>5 DEF Closes
  <2>9. Fits(s, PhaseBefore(p, q, i), "BlockEnd")
      BY <1>10, <2>4, <2>8 DEF Fits, Outside
  <2> QED BY <2>2, <2>6, <2>7, <2>9
<1>13. n[0] = b /\ n[k] = OfLevels(to)
  <2>1. 0 \in 0 .. k /\ k \in 0 .. k /\ Len(from) - 0 = Len(from) /\ Len(from) - k = Len(to)
      BY <1>1
  <2>2. n[0] = SubSeq(b, 1, Len(from)) /\ n[k] = SubSeq(b, 1, Len(to))
      BY <1>7, <2>1
  <2> QED BY <1>8, <1>9, <2>2
<1>14. ASSUME NEW p, p \notin Outside PROVE EndPhase(p, q) \notin Outside
  <2>1. CASE q = <<>>
      BY <1>14, <2>1 DEF EndPhase
  <2>2. CASE q # <<>>
    <3>1. q[Len(q)] = "BlockEnd"
      <4>1. Len(q) \in 1 .. k
          BY <1>3, <2>2
      <4> QED BY <1>3, <4>1
    <3> QED BY <1>11, <2>2, <3>1 DEF EndPhase, Outside
  <2> QED BY <2>1, <2>2
<1> HIDE DEF n, k
<1>15. ASSUME NEW p, p \notin Outside PROVE Leads(b, p, q, OfLevels(to))
  <2>1. Way(n, b, p, q, OfLevels(to))
      BY <1>3, <1>7, <1>12, <1>13, <1>15 DEF Way
  <2> QED BY <2>1 DEF Leads
<1> QED BY <1>3, <1>14, <1>15 DEF Takes, b, q
-----------------------------------------------------------------------------
(***************************************************************************)
(* The levels a fetch keeps.                                                *)
(***************************************************************************)
\* A set of indices closed downwards is the indices up to its size.
LEMMA DownwardClosed ==
    ASSUME NEW n \in Nat, NEW S \in SUBSET (1 .. n), \A i \in S : \A j \in 1 .. i : j \in S
    PROVE  S = 1 .. Cardinality(S) /\ Cardinality(S) \in 0 .. n
<1> DEFINE T == {j \in Nat : j + 1 \notin S}
<1>1. n \in T
    OBVIOUS
<1>2. PICK m \in T : \A j \in T : m <= j
  <2>1. T \in SUBSET Nat /\ T # {}
      BY <1>1
  <2> HIDE DEF T
  <2> QED BY <2>1, LeastNatural
<1>3. m \in Nat /\ m <= n /\ m + 1 \notin S
    BY <1>1, <1>2
<1>4. ASSUME NEW j \in 1 .. m PROVE j \in S
  <2>1. j - 1 \in Nat /\ ~(m <= j - 1) /\ (j - 1) + 1 = j
      BY <1>3
  <2>2. j - 1 \notin T
      BY <1>2, <2>1
  <2> QED BY <2>1, <2>2
<1>5. ASSUME NEW i \in S, i \notin 1 .. m PROVE FALSE
  <2>1. i \in 1 .. n /\ m + 1 \in 1 .. i
      BY <1>3, <1>5
  <2> QED BY <1>3, <2>1
<1>6. S = 1 .. m
  <2>1. S \subseteq 1 .. m
      BY <1>5
  <2>2. 1 .. m \subseteq S
      BY <1>4
  <2> QED BY <2>1, <2>2
<1>7. Cardinality(1 .. m) = m
  <2>1. m \in Int /\ 1 \in Int /\ Cardinality(1 .. m) = IF 1 > m THEN 0 ELSE m - 1 + 1
      BY <1>3, FS_Interval
  <2> QED BY <1>3, <2>1
<1> QED BY <1>3, <1>6, <1>7

\* unwind_indents looks at the top level only, and leaves none deeper than col.
LEMMA KeptAreShallow ==
    ASSUME NEW lv \in Seq(Levels), Increasing(lv), NEW col \in Columns, ScannerAssumption
    PROVE  /\ KeptLen(lv, col) \in 0 .. Len(lv)
           /\ \A i \in 1 .. KeptLen(lv, col) : lv[i].col <= col
           /\ (\A i \in 1 .. Len(lv) : lv[i].col <= col) => KeptLen(lv, col) = Len(lv)
<1> DEFINE S == {i \in 1 .. Len(lv) : lv[i].col <= col}
<1>1. Len(lv) \in Nat /\ S \in SUBSET (1 .. Len(lv)) /\ col \in Int
    BY DEF Columns, ScannerAssumption
<1>2. \A i \in 1 .. Len(lv) : lv[i].col \in Int
  <2> TAKE i \in 1 .. Len(lv)
  <2>1. lv[i] \in Levels
      OBVIOUS
  <2> QED BY <2>1 DEF Levels, Columns, ScannerAssumption
<1>3. ASSUME NEW i \in S, NEW j \in 1 .. i PROVE j \in S
  <2>1. i \in 1 .. Len(lv) /\ lv[i].col <= col
      OBVIOUS
  <2>2. j \in 1 .. Len(lv) /\ (j = i \/ j < i)
      BY <1>1, <2>1
  <2>3. lv[j].col <= lv[i].col
      BY <1>2, <2>1, <2>2 DEF Increasing
  <2>4. lv[j].col <= col
      BY <1>1, <1>2, <2>1, <2>2, <2>3
  <2> QED BY <2>2, <2>4
<1>4. KeptLen(lv, col) = Cardinality(S)
    BY DEF KeptLen
<1>5. (\A i \in 1 .. Len(lv) : lv[i].col <= col) => S = 1 .. Len(lv)
    OBVIOUS
<1>6. \A i \in S : lv[i].col <= col
    OBVIOUS
<1> HIDE DEF S
<1>7. S = 1 .. Cardinality(S) /\ Cardinality(S) \in 0 .. Len(lv)
    BY <1>1, <1>3, DownwardClosed
<1>8. ASSUME 1 .. Cardinality(S) = 1 .. Len(lv) PROVE Cardinality(S) = Len(lv)
    BY <1>1, <1>7, <1>8
<1> QED BY <1>4, <1>5, <1>6, <1>7, <1>8

\* In block context no level deeper than the lexeme stays, and none goes when
\* none is as deep.
LEMMA LvShallow ==
    ASSUME TypeOK, ScannerAssumption, Increasing(levels), NEW l \in Lexemes
    PROVE  /\ ~InFlow => \A i \in 1 .. Len(Lv(l)) : Lv(l)[i].col <= l.col
           /\ ~InFlow /\ (\A i \in 1 .. Len(levels) : levels[i].col < l.col) => Lv(l) = levels
<1> DEFINE k == KeptLen(levels, l.col)
           u == Unwound(levels, l.col)
<1>1. l.col \in Columns /\ l.col \in Int /\ levels \in Seq(Levels)
    BY DEF Lexemes, Columns, ScannerAssumption, TypeOK
<1>2. /\ k \in 0 .. Len(levels) /\ \A i \in 1 .. k : levels[i].col <= l.col
      /\ (\A i \in 1 .. Len(levels) : levels[i].col <= l.col) => k = Len(levels)
    BY <1>1, KeptAreShallow
<1>3. u = SubSeq(levels, 1, k)
    BY DEF Unwound
<1> HIDE DEF k, u
<1>4. u \in Seq(Levels) /\ Len(u) = k /\ \A i \in 1 .. k : u[i] = levels[i]
    BY <1>1, <1>2, <1>3, Beginning
<1>5. \A i \in 1 .. Len(levels) : levels[i].col \in Int
  <2> TAKE i \in 1 .. Len(levels)
  <2>1. levels[i] \in Levels
      BY <1>1
  <2> QED BY <2>1 DEF Levels, Columns, ScannerAssumption
<1>6. ~InFlow => Lv(l) = IF ClosesSeq(u, l) THEN SubSeq(u, 1, Len(u) - 1) ELSE u
    BY DEF Lv, Kept, u
<1>7. ASSUME ~InFlow PROVE \A i \in 1 .. Len(Lv(l)) : Lv(l)[i].col <= l.col
  <2>1. CASE ~ClosesSeq(u, l)
      BY <1>2, <1>4, <1>6, <1>7, <2>1
  <2>2. CASE ClosesSeq(u, l)
    <3>1. u # <<>> /\ k - 1 \in 0 .. Len(u)
        BY <1>2, <1>4, <2>2 DEF ClosesSeq, IsSeq
    <3> DEFINE v == SubSeq(u, 1, k - 1)
    <3>2. Len(v) = k - 1 /\ \A i \in 1 .. k - 1 : v[i] = u[i]
        BY <1>4, <3>1, Beginning
    <3>3. Lv(l) = v
        BY <1>4, <1>6, <1>7, <2>2
    <3> HIDE DEF v
    <3>4. k \in Nat
        BY <1>2
    <3> QED BY <1>2, <1>4, <3>2, <3>3, <3>4
  <2> QED BY <2>1, <2>2
<1>8. ASSUME ~InFlow, \A i \in 1 .. Len(levels) : levels[i].col < l.col PROVE Lv(l) = levels
  <2>1. \A i \in 1 .. Len(levels) : levels[i].col <= l.col
      BY <1>1, <1>5, <1>8
  <2>2. k = Len(levels)
      BY <1>2, <2>1
  <2>3. u = levels
      BY <1>1, <1>4, <2>2, SeqEqual
  <2>4. ~ClosesSeq(u, l)
    <3>1. CASE levels = <<>>
        BY <2>3, <3>1 DEF ClosesSeq, IsSeq
    <3>2. CASE levels # <<>>
      <4>1. Len(levels) \in 1 .. Len(levels)
          BY <1>1, <3>2
      <4>2. levels[Len(levels)].col < l.col /\ Indent(levels) = levels[Len(levels)].col
          BY <1>8, <3>2, <4>1 DEF Indent
      <4>3. l.col # Indent(levels)
          BY <1>1, <1>5, <4>1, <4>2
      <4> QED BY <2>3, <4>3 DEF ClosesSeq
    <3> QED BY <3>1, <3>2
  <2> QED BY <1>6, <1>8, <2>3, <2>4
<1> QED BY <1>7, <1>8

LEMMA ClosedNothing ==
    ASSUME NEW l, levels \in Seq(Levels), Lv(l) = levels
    PROVE  Closed(l) = <<>>
<1>1. Len(levels) - Len(levels) = 0
  <2>1. Len(levels) \in Nat
      OBVIOUS
  <2> QED BY <2>1
<1>2. 1 .. 0 = {} /\ Closed(l) = [i \in 1 .. 0 |-> "BlockEnd"]
    BY <1>1 DEF Closed, Ends
<1> QED BY <1>2
-----------------------------------------------------------------------------
(***************************************************************************)
(* The invariant.  The tokens buffered lead from the nesting of the tokens  *)
(* given to that of the scanner's stacks.  A key that may still be          *)
(* confirmed cuts them in two, so that a mapping opened in between contains *)
(* the second part.                                                         *)
(***************************************************************************)
StreamInv ==
    /\ status # "failed" => Leads(open, phase, queue, OfLevels(levels) \o OfFlows(flow))
    /\ status = "new" => /\ queue = <<>> /\ phase = "none" /\ open = <<>>
                         /\ levels = <<>> /\ flow = <<>> /\ simpleKey = NoKey
    /\ status = "run" =>
           /\ EndPhase(phase, queue) \notin Outside
           /\ bk.directives => /\ levels = <<>> /\ flow = <<>>
                               /\ EndPhase(phase, queue) \in {"prologue", "directives"}

KeyBase == Append(OfLevels(levels), "BlockMap")
KeyInv ==
    status = "run" /\ simpleKey.fresh =>
        /\ ~at.folded /\ simpleKey.col <= at.col
        /\ \A i \in 1 .. Len(levels) : levels[i].col <= at.col
        /\ Indent(levels) <= simpleKey.col =>
              /\ Leads(open, phase, SubSeq(queue, 1, simpleKey.idx), OfLevels(levels))
              /\ Leads(KeyBase, "document", SubSeq(queue, simpleKey.idx + 1, Len(queue)), KeyBase \o OfFlows(flow))

\* What every fetch inside a document does, the late key apart: it closes
\* levels, then adds tokens that fit in the levels that stay or in one more.
Fed(l, toks) ==
    /\ toks \in Seq(Tokens) /\ toks # <<>>
    /\ queue' = queue \o (Closed(l) \o toks)
    /\ UNCHANGED <<status, given>> /\ ~bk'.directives
    /\ \/ /\ levels' = Lv(l)
          /\ \A base \in Seq(BlockOpeners) :
                 (Lv(l) # <<>> => base # <<>>) => Takes(base \o OfFlows(flow), toks, base \o OfFlows(flow'))
       \/ /\ ~InFlow /\ flow' = flow /\ l.col > Indent(Lv(l)) /\ (simpleKey'.fresh => simpleKey' = KeyAt(l))
          /\ \E seq \in BOOLEAN : levels' = Append(Lv(l), [col |-> l.col, seq |-> seq])
          /\ Takes(OfLevels(Lv(l)), toks, OfLevels(levels'))
    /\ simpleKey'.fresh => at'.col = l.col /\ ~at'.folded /\ simpleKey' \in {KeyAt(l), NoteKey(l)}

LEMMA NoFlows == ~InFlow => /\ flow = <<>> /\ OfFlows(flow) = <<>>
                            /\ \A s \in Seq(Openers) \union Seq(BlockOpeners) : s \o OfFlows(flow) = s
<1>1. <<>> \in Seq(FlowOpeners) /\ OfFlows(<<>>) = <<>>
  <2>1. <<>> \in Seq(FlowOpeners)
      OBVIOUS
  <2> QED BY <2>1, FlowsTyped
<1>2. \A s \in Seq(Openers) \union Seq(BlockOpeners) : s \o <<>> = s
  <2>1. \A s \in Seq(Openers) : s \o <<>> = s
      OBVIOUS
  <2>2. \A s \in Seq(BlockOpeners) : s \o <<>> = s
      OBVIOUS
  <2> QED BY <2>1, <2>2
<1> QED BY <1>1, <1>2 DEF InFlow

\* Closing levels follows what is buffered.
LEMMA ClosedLeads ==
    ASSUME TypeOK, ScannerAssumption, StreamInv, status = "run", NEW l \in Lexemes
    PROVE  /\ Closed(l) \in Seq(Tokens) /\ queue \o Closed(l) \in Seq(Tokens)
           /\ Leads(open, phase, queue \o Closed(l), OfLevels(Lv(l)) \o OfFlows(flow))
           /\ EndPhase(phase, queue \o Closed(l)) \notin Outside
<1>1. /\ Closed(l) \in Seq(Tokens) /\ Lv(l) \in Seq(Levels) /\ queue \in Seq(Tokens) /\ levels \in Seq(Levels)
    BY FetchTypes DEF TypeOK
<1>2. queue \o Closed(l) \in Seq(Tokens)
    BY <1>1
<1>3. /\ Leads(open, phase, queue, OfLevels(levels) \o OfFlows(flow)) /\ EndPhase(phase, queue) \notin Outside
    BY DEF StreamInv
<1>4. CASE InFlow
  <2>1. Lv(l) = levels
      BY <1>4 DEF Lv
  <2>2. Closed(l) = <<>> /\ queue \o <<>> = queue
      BY <1>1, <2>1, ClosedNothing
  <2> QED BY <1>1, <1>2, <1>3, <2>1, <2>2
<1>5. CASE ~InFlow
  <2> DEFINE a == OfLevels(levels)
             b == OfLevels(Lv(l))
             c == Closed(l)
  <2>1. a \in Seq(BlockOpeners) /\ b \in Seq(BlockOpeners)
      BY <1>1, LevelsTyped
  <2>2. a \o OfFlows(flow) = a /\ b \o OfFlows(flow) = b
    <3> HIDE DEF a, b
    <3> QED BY <1>5, <2>1, NoFlows
  <2>3. Takes(a, c, b)
      BY <1>1, LvPrefix, TakesEnds DEF Closed
  <2> HIDE DEF a, b, c
  <2>4. Leads(open, phase, queue, a)
      BY <1>3, <2>2 DEF a
  <2>5. c \in Seq(Tokens) /\ Leads(a, EndPhase(phase, queue), c, b) /\ EndPhase(EndPhase(phase, queue), c) \notin Outside
      BY <1>3, <2>3 DEF Takes
  <2>6. Leads(open, phase, queue \o c, b)
      BY <1>1, <2>4, <2>5, LeadsConcat
  <2>7. EndPhase(phase, queue \o c) \notin Outside
      BY <1>1, <2>5, EndPhaseConcat
  <2> QED BY <1>1, <1>2, <2>2, <2>6, <2>7 DEF b, c
<1> QED BY <1>4, <1>5

LEMMA FedStream ==
    ASSUME TypeOK, TypeOK', ScannerAssumption, StreamInv, status = "run", NEW l \in Lexemes, NEW toks, Fed(l, toks)
    PROVE  StreamInv'
<1> DEFINE q == queue \o Closed(l)
           b == OfLevels(Lv(l))
           e == OfLevels(levels') \o OfFlows(flow')
<1>1. /\ Closed(l) \in Seq(Tokens) /\ q \in Seq(Tokens) /\ Leads(open, phase, q, b \o OfFlows(flow))
      /\ EndPhase(phase, q) \notin Outside
    BY ClosedLeads
<1>2. toks \in Seq(Tokens) /\ queue' = queue \o (Closed(l) \o toks) /\ queue \in Seq(Tokens)
    BY DEF Fed, TypeOK
<1>3. queue' = q \o toks
    BY <1>1, <1>2, ConcatAssociative
<1>4. b \in Seq(BlockOpeners) /\ (Lv(l) # <<>> => b # <<>>)
    BY FetchTypes, LevelsTyped
<1>5. Takes(b \o OfFlows(flow), toks, e)
  <2>1. CASE /\ levels' = Lv(l)
             /\ \A base \in Seq(BlockOpeners) :
                    (Lv(l) # <<>> => base # <<>>) => Takes(base \o OfFlows(flow), toks, base \o OfFlows(flow'))
    <3>1. e = b \o OfFlows(flow')
        BY <2>1
    <3> HIDE DEF b, e
    <3> QED BY <1>4, <2>1, <3>1
  <2>2. CASE ~InFlow /\ flow' = flow /\ Takes(b, toks, OfLevels(levels'))
    <3>1. OfLevels(levels') \in Seq(BlockOpeners)
        BY LevelsTyped DEF TypeOK
    <3> DEFINE d == OfLevels(levels')
    <3> HIDE DEF b, d
    <3>2. b \o OfFlows(flow) = b /\ d \o OfFlows(flow) = d
        BY <1>4, <2>2, <3>1, NoFlows DEF d
    <3> QED BY <2>2, <3>2 DEF d
  <2> QED BY <2>1, <2>2 DEF Fed
<1> HIDE DEF q, b, e
<1>6. Leads(b \o OfFlows(flow), EndPhase(phase, q), toks, e) /\ EndPhase(EndPhase(phase, q), toks) \notin Outside
    BY <1>1, <1>5 DEF Takes
<1>7. Leads(open, phase, q \o toks, e) /\ EndPhase(phase, q \o toks) \notin Outside
    BY <1>1, <1>2, <1>6, LeadsConcat, EndPhaseConcat
<1>8. open' = open /\ phase' = phase /\ status' = "run" /\ ~bk'.directives
    BY DEF Fed, given
<1>9. Leads(open', phase', queue', OfLevels(levels') \o OfFlows(flow'))
    BY <1>3, <1>7, <1>8 DEF e
<1>10. EndPhase(phase', queue') \notin Outside
    BY <1>3, <1>7, <1>8
<1> QED BY <1>8, <1>9, <1>10 DEF StreamInv

\* The next lexeme on the line of a key that may still be confirmed: no level
\* closes before it.
LEMMA SameLine ==
    ASSUME TypeOK, ScannerAssumption, Increasing(levels), KeyInv, status = "run",
           NEW l \in Lexemes, l.cls # "eof", Ahead(l), KeyAt(l).fresh
    PROVE  /\ KeyAt(l) = simpleKey /\ simpleKey.fresh /\ simpleKey \in Keys /\ ~l.nl /\ ~at.folded
           /\ Lv(l) = levels /\ Closed(l) = <<>>
           /\ simpleKey.col <= l.col /\ (~InFlow => simpleKey.col < l.col)
           /\ \A i \in 1 .. Len(levels) : levels[i].col <= l.col
<1>1. KeyAt(l) = simpleKey /\ simpleKey.fresh /\ ~l.nl /\ simpleKey \in Keys
    BY DEF KeyAt, NoKey, TypeOK
<1>2. /\ ~at.folded /\ simpleKey.col <= at.col /\ \A i \in 1 .. Len(levels) : levels[i].col <= at.col
    BY <1>1 DEF KeyInv
<1>3. at.col <= l.col /\ (~InFlow => at.col < l.col)
  <2>1. IF InFlow THEN l.col >= at.col ELSE l.col > at.col
      BY <1>1 DEF Ahead, AheadOf
  <2>2. l.col \in Int /\ at.col \in Int
      BY DEF Lexemes, TypeOK, Cursors, Columns, ScannerAssumption
  <2> QED BY <2>1, <2>2
<1>4. l.col \in Int /\ at.col \in Int /\ simpleKey.col \in Int
    BY <1>1 DEF Lexemes, TypeOK, Cursors, Columns, Keys, ScannerAssumption
<1>5. \A i \in 1 .. Len(levels) : levels[i].col \in Int
  <2> TAKE i \in 1 .. Len(levels)
  <2>1. levels[i] \in Levels
      BY DEF TypeOK
  <2> QED BY <2>1 DEF Levels, Columns, ScannerAssumption
<1>6. \A i \in 1 .. Len(levels) : levels[i].col <= l.col /\ (~InFlow => levels[i].col < l.col)
    BY <1>2, <1>3, <1>4, <1>5
<1>7. Lv(l) = levels
  <2>1. CASE InFlow
      BY <2>1 DEF Lv
  <2>2. CASE ~InFlow
      BY <1>6, <2>2, LvShallow
  <2> QED BY <2>1, <2>2
<1>8. Closed(l) = <<>>
    BY <1>7, ClosedNothing DEF TypeOK
<1>9. simpleKey.col <= l.col /\ (~InFlow => simpleKey.col < l.col)
    BY <1>2, <1>3, <1>4
<1> QED BY <1>1, <1>2, <1>6, <1>7, <1>8, <1>9

LEMMA KeyBaseTyped ==
    ASSUME NEW lv \in Seq(Levels)
    PROVE  LET base == Append(OfLevels(lv), "BlockMap")
           IN  /\ OfLevels(lv) \in Seq(BlockOpeners) /\ base \in Seq(BlockOpeners) /\ base # <<>>
               /\ Takes(OfLevels(lv), <<"BlockMap">>, base)
<1>1. "BlockMap" \in BlockOpeners
    BY DEF BlockOpeners
<1> QED BY <1>1, LevelsTyped, TakesBlockOpening

\* Where the parts of a concatenation are.
LEMMA PartsOf ==
    ASSUME NEW a \in Seq(Tokens), NEW r \in Seq(Tokens)
    PROVE  /\ SubSeq(a \o r, 1, Len(a)) = a
           /\ SubSeq(a \o r, Len(a) + 1, Len(a \o r)) = r
BY PrefixConcat DEF IsPrefix

LEMMA Regroup ==
    ASSUME NEW a \in Seq(Tokens), NEW b \in Seq(Tokens), NEW c \in Seq(Tokens)
    PROVE  (a \o b) \o c = a \o (b \o c)
BY ConcatAssociative

\* Tokens added on the line of a key go on in the mapping the key may open.
LEMMA KeyGoesOn ==
    ASSUME NEW s, NEW p, NEW q \in Seq(Tokens), NEW idx \in 0 .. Len(q), NEW b, NEW base, NEW m,
           Leads(s, p, SubSeq(q, 1, idx), b), Leads(base, "document", SubSeq(q, idx + 1, Len(q)), m),
           NEW e, NEW toks, Takes(m, toks, e), NEW x, Leads(s, p, q, x), EndPhase(p, q) \notin Outside
    PROVE  /\ Leads(s, p, SubSeq(q \o toks, 1, idx), b)
           /\ Leads(base, "document", SubSeq(q \o toks, idx + 1, Len(q \o toks)), e)
<1> DEFINE u == SubSeq(q, 1, idx)
           v == SubSeq(q, idx + 1, Len(q))
<1>1. u \in Seq(Tokens) /\ v \in Seq(Tokens) /\ Len(u) = idx /\ q = u \o v
  <2>1. /\ SubSeq(q, 1, idx) \in Seq(Tokens) /\ SubSeq(q, idx + 1, Len(q)) \in Seq(Tokens)
        /\ Len(SubSeq(q, 1, idx)) = idx /\ q = SubSeq(q, 1, idx) \o SubSeq(q, idx + 1, Len(q))
      BY SplitAt
  <2> QED BY <2>1
<1>2. Leads(s, p, u, b) /\ Leads(base, "document", v, m)
    OBVIOUS
<1> HIDE DEF u, v
<1>3. toks \in Seq(Tokens) /\ v \o toks \in Seq(Tokens)
    BY <1>1 DEF Takes
<1>4. q \o toks = u \o (v \o toks)
  <2>1. u \in Seq(Tokens) /\ v \in Seq(Tokens) /\ toks \in Seq(Tokens)
      BY <1>1, <1>3
  <2>2. (u \o v) \o toks = u \o (v \o toks)
      BY <2>1, Regroup
  <2> QED BY <1>1, <2>2
<1>5. EndPhase("document", v) \notin Outside
  <2>1. EndPhase(p, q) = EndPhase(EndPhase(p, u), v)
      BY <1>1, EndPhaseConcat
  <2> QED BY <2>1 DEF EndPhase, Outside
<1>6. Leads(base, "document", v \o toks, e)
  <2>1. Leads(m, EndPhase("document", v), toks, e)
      BY <1>5 DEF Takes
  <2> QED BY <1>1, <1>2, <1>3, <2>1, LeadsConcat
<1>7. SubSeq(q \o toks, 1, idx) = u /\ SubSeq(q \o toks, idx + 1, Len(q \o toks)) = v \o toks
  <2> DEFINE r == v \o toks
  <2> HIDE DEF r
  <2>1. r \in Seq(Tokens) /\ q \o toks = u \o r
      BY <1>3, <1>4 DEF r
  <2>2. SubSeq(u \o r, 1, Len(u)) = u /\ SubSeq(u \o r, Len(u) + 1, Len(u \o r)) = r
      BY <1>1, <2>1, PartsOf
  <2> QED BY <1>1, <2>1, <2>2 DEF r
<1> QED BY <1>2, <1>6, <1>7

LEMMA FedKey ==
    ASSUME IInv, IInv', ScannerAssumption, Increasing(levels), StreamInv, KeyInv, status = "run",
           NEW l \in Lexemes, l.cls # "eof", Ahead(l), NEW toks, Fed(l, toks)
    PROVE  KeyInv'
<1> SUFFICES ASSUME simpleKey'.fresh
             PROVE  /\ ~at'.folded /\ simpleKey'.col <= at'.col
                    /\ \A i \in 1 .. Len(levels') : levels'[i].col <= at'.col
                    /\ Indent(levels') <= simpleKey'.col =>
                       /\ Leads(open', phase', SubSeq(queue', 1, simpleKey'.idx), OfLevels(levels'))
                       /\ Leads(KeyBase', "document", SubSeq(queue', simpleKey'.idx + 1, Len(queue')),
                                KeyBase' \o OfFlows(flow'))
    BY DEF KeyInv
<1>1. TypeOK /\ TypeOK' /\ KeyPointsAtNode
    BY DEF IInv
<1>2. at'.col = l.col /\ ~at'.folded /\ simpleKey' \in {KeyAt(l), NoteKey(l)} /\ open' = open /\ phase' = phase
    BY DEF Fed, given
<1>3. l.col \in Columns /\ l.col \in Int /\ Lv(l) \in Seq(Levels)
    BY <1>1, FetchTypes DEF Columns, ScannerAssumption
<1>4. toks \in Seq(Tokens) /\ queue' = queue \o (Closed(l) \o toks) /\ queue \in Seq(Tokens)
    BY <1>1 DEF Fed, TypeOK
<1>5. CASE simpleKey' = KeyAt(l)
  <2>1. /\ KeyAt(l) = simpleKey /\ simpleKey.fresh /\ simpleKey \in Keys
        /\ Lv(l) = levels /\ Closed(l) = <<>> /\ simpleKey.col <= l.col /\ (~InFlow => simpleKey.col < l.col)
        /\ \A i \in 1 .. Len(levels) : levels[i].col <= l.col
      BY <1>1, <1>5, SameLine
  <2>2. queue' = queue \o toks
    <3>1. <<>> \o toks = toks
        BY <1>4
    <3> QED BY <1>4, <2>1, <3>1
  <2>3. CASE /\ levels' = Lv(l)
             /\ \A base \in Seq(BlockOpeners) :
                    (Lv(l) # <<>> => base # <<>>) => Takes(base \o OfFlows(flow), toks, base \o OfFlows(flow'))
    <3>1. KeyBase' = KeyBase /\ KeyBase \in Seq(BlockOpeners) /\ KeyBase # <<>> /\ levels' = levels
        BY <1>3, <2>1, <2>3, KeyBaseTyped DEF KeyBase
    <3>2. Takes(KeyBase \o OfFlows(flow), toks, KeyBase \o OfFlows(flow'))
        BY <2>3, <3>1
    <3>3. ASSUME Indent(levels) <= simpleKey.col
          PROVE  /\ Leads(open, phase, SubSeq(queue', 1, simpleKey.idx), OfLevels(levels))
                 /\ Leads(KeyBase, "document", SubSeq(queue', simpleKey.idx + 1, Len(queue')),
                          KeyBase \o OfFlows(flow'))
      <4>1. /\ Leads(open, phase, SubSeq(queue, 1, simpleKey.idx), OfLevels(levels))
            /\ Leads(KeyBase, "document", SubSeq(queue, simpleKey.idx + 1, Len(queue)), KeyBase \o OfFlows(flow))
          BY <2>1, <3>3 DEF KeyInv
      <4>2. simpleKey.idx \in 0 .. Len(queue)
        <5>1. simpleKey # NoKey
            BY <2>1 DEF NoKey
        <5>2. simpleKey.idx \in Nat /\ simpleKey.idx < Len(queue) /\ Len(queue) \in Nat
            BY <1>1, <1>4, <2>1, <5>1 DEF KeyPointsAtNode, Keys
        <5> QED BY <5>2
      <4>3. /\ Leads(open, phase, queue, OfLevels(levels) \o OfFlows(flow)) /\ EndPhase(phase, queue) \notin Outside
          BY DEF StreamInv
      <4> QED BY <1>4, <2>2, <3>2, <4>1, <4>2, <4>3, KeyGoesOn
    <3> QED BY <1>2, <1>5, <2>1, <3>1, <3>3
  <2>4. CASE /\ ~InFlow /\ flow' = flow /\ l.col > Indent(Lv(l))
             /\ \E seq \in BOOLEAN : levels' = Append(Lv(l), [col |-> l.col, seq |-> seq])
    <3>1. PICK seq \in BOOLEAN : levels' = Append(levels, [col |-> l.col, seq |-> seq])
        BY <2>1, <2>4
    <3> DEFINE x == [col |-> l.col, seq |-> seq]
    <3>2. levels \in Seq(Levels) /\ x \in Levels /\ x.col = l.col
        BY <1>1, <1>3 DEF TypeOK, Levels
    <3> HIDE DEF x
    <3>3. levels' = Append(levels, x)
        BY <3>1 DEF x
    <3>4. /\ Len(levels') = Len(levels) + 1 /\ levels'[Len(levels) + 1] = x /\ Len(levels) \in Nat
          /\ \A i \in 1 .. Len(levels) : levels'[i] = levels[i]
        BY <3>2, <3>3
    <3>5. levels' # <<>>
      <4>1. Len(<<>>) = 0 /\ Len(levels') # 0
          BY <3>4
      <4> QED BY <4>1
    <3>6. Indent(levels') = l.col
        BY <3>2, <3>4, <3>5 DEF Indent
    <3>7. \A i \in 1 .. Len(levels') : levels'[i].col <= l.col
      <4> TAKE i \in 1 .. Len(levels')
      <4>1. i \in 1 .. Len(levels) \/ i = Len(levels) + 1
          BY <3>4
      <4>2. x.col <= l.col
          BY <1>3, <3>2
      <4> QED BY <2>1, <3>4, <4>1, <4>2
    <3>8. ~(Indent(levels') <= simpleKey.col)
      <4>1. simpleKey.col \in Int
          BY <2>1 DEF Keys, Columns, ScannerAssumption
      <4> QED BY <1>3, <2>1, <2>4, <3>6, <4>1
    <3> QED BY <1>2, <1>5, <2>1, <3>7, <3>8
  <2> QED BY <2>3, <2>4 DEF Fed
<1>6. CASE simpleKey' # KeyAt(l)
  <2>1. /\ ~InFlow /\ simpleKey'.idx = Len(queue) + Len(Closed(l)) /\ simpleKey'.col = l.col
      BY <1>2, <1>6 DEF NoteKey
  <2>2. /\ levels' = Lv(l)
        /\ \A base \in Seq(BlockOpeners) :
               (Lv(l) # <<>> => base # <<>>) => Takes(base \o OfFlows(flow), toks, base \o OfFlows(flow'))
      BY <1>6 DEF Fed
  <2>3. \A i \in 1 .. Len(levels') : levels'[i].col <= l.col
      BY <1>1, <2>1, <2>2, LvShallow
  <2> DEFINE q == queue \o Closed(l)
             b == OfLevels(Lv(l))
  <2>4. /\ Closed(l) \in Seq(Tokens) /\ q \in Seq(Tokens) /\ Leads(open, phase, q, b \o OfFlows(flow))
      BY <1>1, ClosedLeads
  <2>5. queue' = q \o toks /\ Len(q) = simpleKey'.idx
    <3>1. Len(q) = Len(queue) + Len(Closed(l))
        BY <1>4, <2>4
    <3>2. queue \in Seq(Tokens) /\ Closed(l) \in Seq(Tokens) /\ toks \in Seq(Tokens)
        BY <1>4, <2>4
    <3>3. (queue \o Closed(l)) \o toks = queue \o (Closed(l) \o toks)
        BY <3>2, ConcatAssociative
    <3> QED BY <1>4, <2>1, <3>1, <3>3
  <2> HIDE DEF q
  <2>6. SubSeq(queue', 1, simpleKey'.idx) = q /\ SubSeq(queue', simpleKey'.idx + 1, Len(queue')) = toks
    <3>1. SubSeq(q \o toks, 1, Len(q)) = q /\ SubSeq(q \o toks, Len(q) + 1, Len(q \o toks)) = toks
        BY <1>4, <2>4, PartsOf
    <3> QED BY <2>5, <3>1
  <2>7. /\ b \in Seq(BlockOpeners) /\ KeyBase' \in Seq(BlockOpeners) /\ KeyBase' # <<>>
      BY <1>3, <2>2, KeyBaseTyped DEF KeyBase
  <2>8. Takes(KeyBase' \o OfFlows(flow), toks, KeyBase' \o OfFlows(flow'))
      BY <2>2, <2>7
  <2> HIDE DEF b
  <2>9. b \o OfFlows(flow) = b /\ KeyBase' \o OfFlows(flow) = KeyBase'
      BY <2>1, <2>7, NoFlows
  <2>10. Leads(KeyBase', "document", toks, KeyBase' \o OfFlows(flow'))
      BY <2>8, <2>9 DEF Takes, Outside
  <2>11. l.col <= l.col
      BY <1>3
  <2> QED BY <1>2, <2>1, <2>2, <2>3, <2>4, <2>6, <2>9, <2>10, <2>11 DEF b
<1> QED BY <1>5, <1>6
-----------------------------------------------------------------------------
(***************************************************************************)
(* Every fetch but those of the late key, the markers and the end is Fed.   *)
(***************************************************************************)
LEMMA InFlowStays ==
    ASSUME TypeOK, StreamInv, status = "run", NEW l
    PROVE  /\ InFlow => Lv(l) = levels /\ Closed(l) = <<>> /\ ~bk.directives
           /\ InFlow => \A toks \in Seq(Tokens) : Closed(l) \o toks = toks
<1>1. InFlow => Lv(l) = levels
    BY DEF Lv
<1>2. InFlow => Closed(l) = <<>>
    BY <1>1, ClosedNothing DEF TypeOK
<1>3. InFlow => ~bk.directives
    BY DEF StreamInv, InFlow
<1>4. \A toks \in Seq(Tokens) : <<>> \o toks = toks
    OBVIOUS
<1> QED BY <1>1, <1>2, <1>3, <1>4

\* A token inside a document ends the run of directives before it.
LEMMA WindowCloses ==
    ASSUME TypeOK, ScannerAssumption, StreamInv, status = "run", NEW l \in Lexemes, InFlow \/ l.cls \notin {"%", "..."}
    PROVE  ~BkAt(l).directives /\ BkAt(l) \in BlockFlags
<1>1. CASE InFlow
    BY <1>1, InFlowStays, FetchTypes DEF BkAt
<1>2. CASE ~InFlow
    BY <1>2, FetchTypes DEF BkAt
<1> QED BY <1>1, <1>2

LEMMA HereIs ==
    ASSUME NEW c
    PROVE  /\ Here(c).col = c /\ ~Here(c).folded
           /\ \A S : HereMay(c, S).col = c /\ ~HereMay(c, S).folded
BY DEF Here, HereMay

\* roll_indent opens the level its token says, or stays in one.
LEMMA RollFed ==
    ASSUME TypeOK, ScannerAssumption, NEW l \in Lexemes, ~InFlow, NEW seq \in BOOLEAN,
           NEW rest \in Seq(Tokens), rest # <<>>,
           \A base \in Seq(BlockOpeners) : base # <<>> => Takes(base, rest, base),
           levels' = Rolled(Lv(l), l.col, seq),
           Emit(Closed(l) \o RollToken(Lv(l), l.col, IF seq THEN "BlockSeq" ELSE "BlockMap") \o rest),
           flow' = flow, UNCHANGED <<status, given>>, ~bk'.directives,
           simpleKey'.fresh => at'.col = l.col /\ ~at'.folded /\ simpleKey' = KeyAt(l)
    PROVE  \E toks : Fed(l, toks)
<1> DEFINE lv == Lv(l)
           tok == IF seq THEN "BlockSeq" ELSE "BlockMap"
           b == OfLevels(lv)
<1>1. /\ lv \in Seq(Levels) /\ Closed(l) \in Seq(Tokens) /\ l.col \in Columns
      /\ tok \in BlockOpeners /\ tok \in Tokens /\ l.col \in Nat
    BY FetchTypes, TokenNames DEF BlockOpeners, Columns, ScannerAssumption
<1>2. b \in Seq(BlockOpeners)
    BY <1>1, LevelsTyped
<1>3. CASE l.col > Indent(lv)
  <2> DEFINE x == [col |-> l.col, seq |-> seq]
             toks == <<tok>> \o rest
  <2>1. levels' = Append(lv, x) /\ RollToken(lv, l.col, tok) = <<tok>>
      BY <1>3 DEF Rolled, RollToken
  <2>2. x \in Levels /\ OfLevel(x) = tok
      BY <1>1 DEF Levels, OfLevel
  <2>3. OfLevels(levels') = Append(b, tok)
      BY <1>1, <2>1, <2>2, LevelAdded
  <2>4. Takes(b, <<tok>>, Append(b, tok)) /\ Append(b, tok) \in Seq(BlockOpeners) /\ Append(b, tok) # <<>>
      BY <1>1, <1>2, TakesBlockOpening
  <2>5. Takes(b, toks, OfLevels(levels'))
      BY <2>3, <2>4, TakesConcat
  <2>6. toks \in Seq(Tokens) /\ toks # <<>> /\ queue' = queue \o (Closed(l) \o toks)
    <3>1. Closed(l) \o <<tok>> \o rest = Closed(l) \o toks
      <4>1. <<tok>> \in Seq(Tokens)
          BY <1>1
      <4> QED BY <1>1, <4>1, ConcatAssociative
    <3>2. toks \in Seq(Tokens)
        BY <1>1
    <3>3. toks # <<>>
      <4>1. Len(toks) = 1 + Len(rest) /\ Len(rest) \in Nat
          BY <1>1
      <4>2. Len(toks) # 0 /\ Len(<<>>) = 0
          BY <4>1
      <4> HIDE DEF toks
      <4> QED BY <4>2
    <3>4. queue' = queue \o (Closed(l) \o <<tok>> \o rest)
        BY <2>1 DEF Emit
    <3> QED BY <3>1, <3>2, <3>3, <3>4
  <2> HIDE DEF toks, b, tok
  <2>7. Fed(l, toks)
      BY <1>3, <2>1, <2>5, <2>6 DEF Fed, b
  <2> QED BY <2>7
<1>4. CASE ~(l.col > Indent(lv))
  <2>1. levels' = lv /\ RollToken(lv, l.col, tok) = <<>>
      BY <1>4 DEF Rolled, RollToken
  <2>2. lv # <<>>
      BY <1>1, <1>4 DEF Indent
  <2>3. queue' = queue \o (Closed(l) \o rest)
    <3>1. Closed(l) \o <<>> = Closed(l)
        BY <1>1
    <3> QED BY <2>1, <3>1 DEF Emit
  <2>4. ASSUME NEW base \in Seq(BlockOpeners), base # <<>>
        PROVE  Takes(base \o OfFlows(flow), rest, base \o OfFlows(flow'))
      BY <2>4, NoFlows
  <2>5. Fed(l, rest)
      BY <2>1, <2>2, <2>3, <2>4 DEF Fed
  <2> QED BY <2>5
<1> QED BY <1>3, <1>4

\* A token that opens and closes nothing, where its kind is allowed.
LEMMA PlainFed ==
    ASSUME TypeOK, ScannerAssumption, NEW l \in Lexemes, NEW t \in Plain,
           t \in {"Value", "FlowEntry"} => InFlow, t # "Entry",
           levels' = Lv(l), Emit(Closed(l) \o <<t>>),
           flow' = flow, UNCHANGED <<status, given>>, ~bk'.directives,
           simpleKey'.fresh => at'.col = l.col /\ ~at'.folded /\ simpleKey' \in {KeyAt(l), NoteKey(l)}
    PROVE  \E toks : Fed(l, toks)
<1>1. t \in Tokens /\ flow \in Seq(FlowOpeners)
    BY TokenNames DEF Plain, TypeOK
<1>2. <<t>> \in Seq(Tokens) /\ <<t>> # <<>>
    BY <1>1
<1>3. ASSUME NEW base \in Seq(BlockOpeners) PROVE Takes(base \o OfFlows(flow), <<t>>, base \o OfFlows(flow'))
  <2>1. Takes(base \o OfFlows(flow), <<t>>, base \o OfFlows(flow))
      BY <1>1, TakesPlain DEF InFlow
  <2> QED BY <2>1
<1>4. Fed(l, <<t>>)
    BY <1>2, <1>3 DEF Fed, Emit
<1> QED BY <1>4

LEMMA FlowStartFed ==
    ASSUME TypeOK, ScannerAssumption, StreamInv, status = "run", NEW l \in Lexemes, ~Fail, FetchFlowStart(l)
    PROVE  \E toks : Fed(l, toks)
<1> DEFINE t == IF l.cls = "[" THEN "FlowSeq" ELSE "FlowMap"
<1>1. /\ l.cls \in FlowOpeners /\ flow' = Append(flow, l.cls) /\ simpleKey' = NoteKey(l) /\ levels' = Lv(l)
      /\ Emit(Closed(l) \o <<t>>) /\ at' = Here(l.col) /\ bk' = [BkAt(l) EXCEPT !.keyAllowed = TRUE]
      /\ UNCHANGED <<status, given>>
    BY DEF FetchFlowStart
<1>2. t = OfFlow(l.cls) /\ t \in Tokens /\ flow \in Seq(FlowOpeners)
    BY TokenNames DEF OfFlow, TypeOK
<1>3. l.cls \notin {"%", "..."}
    BY <1>1 DEF FlowOpeners
<1>4. ~bk'.directives
    BY <1>1, <1>3, WindowCloses DEF BlockFlags
<1>5. ASSUME NEW base \in Seq(BlockOpeners) PROVE Takes(base \o OfFlows(flow), <<t>>, base \o OfFlows(flow'))
    BY <1>1, <1>2, TakesFlowOpening
<1>6. <<t>> \in Seq(Tokens) /\ <<t>> # <<>>
    BY <1>2
<1>7. at'.col = l.col /\ ~at'.folded
    BY <1>1, HereIs
<1> HIDE DEF t
<1>8. Fed(l, <<t>>)
    BY <1>1, <1>4, <1>5, <1>6, <1>7 DEF Fed, Emit
<1> QED BY <1>8

LEMMA FlowEndFed ==
    ASSUME TypeOK, ScannerAssumption, StreamInv, status = "run", NEW l \in Lexemes, ~Fail, FetchFlowEnd(l)
    PROVE  \E toks : Fed(l, toks)
<1> DEFINE t == IF l.cls = "]" THEN "FlowSeqEnd" ELSE "FlowMapEnd"
<1>1. /\ InFlow /\ l.cls \in FlowClosers /\ flow[Len(flow)] = (IF l.cls = "]" THEN "[" ELSE "{")
      /\ flow' = SubSeq(flow, 1, Len(flow) - 1) /\ simpleKey' = KeyAt(l) /\ levels' = levels
      /\ Emit(<<t>>) /\ bk' = [bk EXCEPT !.keyAllowed = FALSE]
      /\ \E S : at' \in {Here(l.col), HereMay(l.col, S)}
      /\ UNCHANGED <<status, given>>
    BY DEF FetchFlowEnd
<1>2. t = (IF flow[Len(flow)] = "[" THEN "FlowSeqEnd" ELSE "FlowMapEnd") /\ t \in Tokens
    BY <1>1, TokenNames
<1>3. ~bk'.directives
    BY <1>1, InFlowStays DEF TypeOK, BlockFlags
<1>4. flow # <<>> /\ flow \in Seq(FlowOpeners)
    BY <1>1 DEF TypeOK, InFlow
<1>5. ASSUME NEW base \in Seq(BlockOpeners) PROVE Takes(base \o OfFlows(flow), <<t>>, base \o OfFlows(flow'))
    BY <1>1, <1>2, <1>4, TakesFlowEnd
<1>6. <<t>> \in Seq(Tokens) /\ <<t>> # <<>>
    BY <1>2
<1>7. at'.col = l.col /\ ~at'.folded
  <2>1. PICK S : at' \in {Here(l.col), HereMay(l.col, S)}
      BY <1>1
  <2>2. at' = Here(l.col) \/ at' = HereMay(l.col, S)
      BY <2>1
  <2> QED BY <2>2, HereIs
<1> HIDE DEF t
<1>8. levels' = Lv(l) /\ queue' = queue \o (Closed(l) \o <<t>>)
    BY <1>1, <1>6, InFlowStays DEF Emit
<1>9. Fed(l, <<t>>)
    BY <1>1, <1>3, <1>5, <1>6, <1>7, <1>8 DEF Fed
<1> QED BY <1>9

LEMMA FlowEntryFed ==
    ASSUME TypeOK, ScannerAssumption, StreamInv, status = "run", NEW l \in Lexemes, ~Fail, FetchFlowEntry(l)
    PROVE  \E toks : Fed(l, toks)
<1>1. /\ InFlow /\ simpleKey' = KeyAt(l) /\ levels' = levels /\ flow' = flow
      /\ Emit(<<"FlowEntry">>) /\ bk' = [bk EXCEPT !.keyAllowed = TRUE] /\ at' = Here(l.col)
      /\ UNCHANGED <<status, given>>
    BY DEF FetchFlowEntry
<1>2. ~bk'.directives
    BY <1>1, InFlowStays DEF TypeOK, BlockFlags
<1>3. at'.col = l.col /\ ~at'.folded
    BY <1>1, HereIs
<1>4. levels' = Lv(l) /\ Emit(Closed(l) \o <<"FlowEntry">>)
  <2>1. <<"FlowEntry">> \in Seq(Tokens)
      BY TokenNames
  <2> QED BY <1>1, <2>1, InFlowStays
<1>5. "FlowEntry" \in Plain /\ "FlowEntry" # "Entry"
    BY DEF Plain
<1> QED BY <1>1, <1>2, <1>3, <1>4, <1>5, PlainFed

\* A base collection takes the tokens of an entry, a key or a value.
LEMMA TakesInBlock ==
    ASSUME NEW base \in Seq(BlockOpeners), base # <<>>, NEW t \in Plain, t # "FlowEntry"
    PROVE  Takes(base, <<t>>, base)
<1>1. <<>> \in Seq(FlowOpeners) /\ OfFlows(<<>>) = <<>> /\ base \o <<>> = base
  <2>1. <<>> \in Seq(FlowOpeners)
      OBVIOUS
  <2>2. base \o <<>> = base
      OBVIOUS
  <2> QED BY <2>1, <2>2, FlowsTyped
<1>2. Takes(base \o OfFlows(<<>>), <<t>>, base \o OfFlows(<<>>))
    BY <1>1, TakesPlain
<1> QED BY <1>1, <1>2

LEMMA BlockEntryFed ==
    ASSUME TypeOK, ScannerAssumption, StreamInv, status = "run", NEW l \in Lexemes, ~Fail, FetchBlockEntry(l)
    PROVE  \E toks : Fed(l, toks)
<1>1. /\ ~InFlow /\ l.cls = "-" /\ simpleKey' = KeyAt(l) /\ levels' = Rolled(Kept(l), l.col, TRUE) /\ flow' = flow
      /\ Emit(Closed(l) \o RollToken(Kept(l), l.col, "BlockSeq") \o <<"Entry">>)
      /\ bk' = [BkAt(l) EXCEPT !.keyAllowed = TRUE, !.afterEntry = TRUE] /\ at' = Here(l.col)
      /\ UNCHANGED <<status, given>>
    BY DEF FetchBlockEntry
<1>2. Kept(l) = Lv(l)
    BY <1>1 DEF Lv
<1>3. ~bk'.directives
    BY <1>1, WindowCloses DEF BlockFlags
<1>4. at'.col = l.col /\ ~at'.folded
    BY <1>1, HereIs
<1>5. <<"Entry">> \in Seq(Tokens) /\ <<"Entry">> # <<>>
    BY TokenNames
<1>6. \A base \in Seq(BlockOpeners) : base # <<>> => Takes(base, <<"Entry">>, base)
    BY TakesInBlock DEF Plain
<1>7. Emit(Closed(l) \o RollToken(Lv(l), l.col, IF TRUE THEN "BlockSeq" ELSE "BlockMap") \o <<"Entry">>)
    BY <1>1, <1>2
<1>8. levels' = Rolled(Lv(l), l.col, TRUE)
    BY <1>1, <1>2
<1> QED BY <1>1, <1>3, <1>4, <1>5, <1>6, <1>7, <1>8, RollFed

\* The tokens of a mapping entry: in flow alone, in block after the level's.
LEMMA EntryFed ==
    ASSUME TypeOK, ScannerAssumption, StreamInv, status = "run", NEW l \in Lexemes, InFlow \/ l.cls \notin {"%", "..."},
           NEW rest \in Seq(Tokens), rest # <<>>,
           \A base \in Seq(BlockOpeners) : base # <<>> \/ InFlow =>
               Takes(base \o OfFlows(flow), rest, base \o OfFlows(flow)),
           levels' = IF InFlow THEN levels ELSE Rolled(Lv(l), l.col, FALSE),
           Emit(Closed(l) \o (IF InFlow THEN <<>> ELSE RollToken(Lv(l), l.col, "BlockMap")) \o rest),
           flow' = flow, UNCHANGED <<status, given>>, bk'.directives = BkAt(l).directives,
           simpleKey'.fresh => at'.col = l.col /\ ~at'.folded /\ simpleKey' = KeyAt(l)
    PROVE  \E toks : Fed(l, toks)
<1>1. ~bk'.directives
    BY WindowCloses
<1>2. CASE InFlow
  <2>1. Lv(l) = levels /\ Closed(l) = <<>>
      BY <1>2, InFlowStays
  <2>2. queue' = queue \o (Closed(l) \o rest)
    <3>1. <<>> \o <<>> = <<>>
        OBVIOUS
    <3>2. queue' = queue \o (Closed(l) \o <<>> \o rest)
        BY <1>2 DEF Emit
    <3> QED BY <2>1, <3>1, <3>2
  <2>3. ASSUME NEW base \in Seq(BlockOpeners)
        PROVE  Takes(base \o OfFlows(flow), rest, base \o OfFlows(flow'))
      BY <1>2
  <2>4. levels' = Lv(l)
      BY <1>2, <2>1
  <2>5. Fed(l, rest)
      BY <1>1, <2>2, <2>3, <2>4 DEF Fed
  <2> QED BY <2>5
<1>3. CASE ~InFlow
  <2>1. \A base \in Seq(BlockOpeners) : base # <<>> => Takes(base, rest, base)
    <3> TAKE base \in Seq(BlockOpeners)
    <3>1. base \o OfFlows(flow) = base
        BY <1>3, NoFlows
    <3> QED BY <3>1
  <2>2. Emit(Closed(l) \o RollToken(Lv(l), l.col, IF FALSE THEN "BlockSeq" ELSE "BlockMap") \o rest)
      BY <1>3
  <2>3. levels' = Rolled(Lv(l), l.col, FALSE)
      BY <1>3
  <2> QED BY <1>1, <1>3, <2>1, <2>2, <2>3, RollFed
<1> QED BY <1>2, <1>3

LEMMA KeyFed ==
    ASSUME TypeOK, ScannerAssumption, StreamInv, status = "run", NEW l \in Lexemes, ~Fail, FetchKey(l)
    PROVE  \E toks : Fed(l, toks)
<1>1. /\ l.cls = "?" /\ levels' = (IF InFlow THEN levels ELSE Rolled(Lv(l), l.col, FALSE)) /\ flow' = flow
      /\ Emit(Closed(l) \o (IF InFlow THEN <<>> ELSE RollToken(Lv(l), l.col, "BlockMap")) \o <<"KeyExplicit">>)
      /\ simpleKey' = KeyAt(l) /\ bk' = [BkAt(l) EXCEPT !.keyAllowed = TRUE] /\ at' = Here(l.col)
      /\ UNCHANGED <<status, given>>
    BY DEF FetchKey
<1>2. bk'.directives = BkAt(l).directives
    BY <1>1, FetchTypes DEF BlockFlags
<1>3. at'.col = l.col /\ ~at'.folded
    BY <1>1, HereIs
<1>4. <<"KeyExplicit">> \in Seq(Tokens) /\ <<"KeyExplicit">> # <<>>
    BY TokenNames
<1>5. \A base \in Seq(BlockOpeners) : base # <<>> \/ InFlow =>
          Takes(base \o OfFlows(flow), <<"KeyExplicit">>, base \o OfFlows(flow))
    BY TakesPlain DEF Plain, TypeOK
<1> QED BY <1>1, <1>2, <1>3, <1>4, <1>5, EntryFed

LEMMA PlainValueFed ==
    ASSUME TypeOK, ScannerAssumption, StreamInv, status = "run", NEW l \in Lexemes, ~Fail, FetchValue(l), PlainValue(l),
           InFlow \/ ~KeyAt(l).fresh
    PROVE  \E toks : Fed(l, toks)
<1>1. /\ levels' = (IF InFlow THEN levels ELSE Rolled(Lv(l), l.col, FALSE))
      /\ Emit(Closed(l) \o (IF InFlow THEN <<>> ELSE RollToken(Lv(l), l.col, "BlockMap")) \o <<"Value">>)
      /\ UNCHANGED <<status, given>>
    BY DEF PlainValue
<1>2. /\ simpleKey' = (IF InFlow THEN KeyAt(l) ELSE NoKey) /\ at' = Here(l.col) /\ flow' = flow
      /\ bk' = [BkAt(l) EXCEPT !.keyAllowed = TRUE, !.valuePending = @ \/ ~InFlow]
      /\ l.cls \in {":", ":x"}
    BY <1>1 DEF FetchValue, IsValue
<1>3. bk'.directives = BkAt(l).directives
    BY <1>2, FetchTypes DEF BlockFlags
<1>4. at'.col = l.col /\ ~at'.folded
    BY <1>2, HereIs
<1>5. simpleKey'.fresh => simpleKey' = KeyAt(l)
    BY <1>2 DEF NoKey
<1>6. <<"Value">> \in Seq(Tokens) /\ <<"Value">> # <<>>
    BY TokenNames
<1>7. \A base \in Seq(BlockOpeners) : base # <<>> \/ InFlow =>
          Takes(base \o OfFlows(flow), <<"Value">>, base \o OfFlows(flow))
    BY TakesPlain DEF Plain, TypeOK, InFlow
<1>8. l.cls \notin {"%", "..."}
    BY <1>2
<1> QED BY <1>1, <1>2, <1>3, <1>4, <1>5, <1>6, <1>7, <1>8, EntryFed

LEMMA NodeFed ==
    ASSUME TypeOK, ScannerAssumption, StreamInv, status = "run", NEW l \in Lexemes, ~Fail, FetchProperty(l) \/ FetchAlias(l)
    PROVE  \E toks : Fed(l, toks)
<1>1. PICK t \in {"Anchor", "Tag", "Alias"} :
          /\ Emit(Closed(l) \o <<t>>) /\ simpleKey' = NoteKey(l) /\ levels' = Lv(l) /\ flow' = flow
          /\ bk' = [BkAt(l) EXCEPT !.keyAllowed = FALSE] /\ at' = Here(l.col) /\ UNCHANGED <<status, given>>
          /\ l.cls \in {"&", "!", "*"}
    BY DEF FetchProperty, FetchAlias
<1>2. bk'.directives = BkAt(l).directives
    BY <1>1, FetchTypes DEF BlockFlags
<1>3. l.cls \notin {"%", "..."}
    BY <1>1
<1>4. ~bk'.directives
    BY <1>2, <1>3, WindowCloses
<1>5. at'.col = l.col /\ ~at'.folded
    BY <1>1, HereIs
<1>6. t \in Plain /\ t \notin {"Value", "FlowEntry", "Entry"}
    BY DEF Plain
<1> QED BY <1>1, <1>4, <1>5, <1>6, PlainFed

LEMMA KeyScalarFed ==
    ASSUME TypeOK, ScannerAssumption, StreamInv, status = "run", NEW l \in Lexemes, ~Fail, KeyScalar(l),
           InFlow \/ l.cls \notin {"%", "..."}, simpleKey'.fresh => simpleKey' = KeyAt(l)
    PROVE  \E toks : Fed(l, toks)
<1> DEFINE rest == <<"Key", "Scalar", "Value">>
<1>1. /\ levels' = (IF InFlow THEN levels ELSE Rolled(Lv(l), l.col, FALSE)) /\ flow' = flow
      /\ Emit(Closed(l) \o (IF InFlow THEN <<>> ELSE RollToken(Lv(l), l.col, "BlockMap")) \o rest)
      /\ bk' = [BkAt(l) EXCEPT !.keyAllowed = FALSE, !.valuePending = @ \/ ~InFlow] /\ at' = Here(l.col)
      /\ UNCHANGED <<status, given>>
    BY DEF KeyScalar
<1>2. bk'.directives = BkAt(l).directives
    BY <1>1, FetchTypes DEF BlockFlags
<1>3. at'.col = l.col /\ ~at'.folded
    BY <1>1, HereIs
<1>4. rest \in Seq(Tokens) /\ rest # <<>>
    BY TokenNames
<1>5. <<"Key">> \o <<"Scalar">> \o <<"Value">> = rest
  <2> DEFINE a == <<"Key">> \o <<"Scalar">>
             b == a \o <<"Value">>
  <2>1. <<"Key">> \in Seq(Tokens) /\ <<"Scalar">> \in Seq(Tokens) /\ <<"Value">> \in Seq(Tokens)
      BY TokenNames
  <2>2. a \in Seq(Tokens) /\ Len(a) = 2 /\ a[1] = "Key" /\ a[2] = "Scalar"
      BY <2>1
  <2> HIDE DEF a
  <2>3. b \in Seq(Tokens) /\ Len(b) = 3 /\ b[1] = "Key" /\ b[2] = "Scalar" /\ b[3] = "Value"
    <3> DEFINE c == <<"Value">>
    <3>1. c \in Seq(Tokens) /\ Len(c) = 1 /\ c[1] = "Value"
        BY <2>1
    <3> HIDE DEF c
    <3>2. /\ a \o c \in Seq(Tokens) /\ Len(a \o c) = Len(a) + Len(c)
          /\ \A i \in 1 .. Len(a) : (a \o c)[i] = a[i]
          /\ \A i \in 1 .. Len(c) : (a \o c)[Len(a) + i] = c[i]
      <4>1. a \in Seq(Tokens) /\ c \in Seq(Tokens)
          BY <2>2, <3>1
      <4> QED BY <4>1
    <3>3. 1 \in 1 .. Len(a) /\ 2 \in 1 .. Len(a) /\ 1 \in 1 .. Len(c) /\ Len(a) + 1 = 3 /\ Len(a) + Len(c) = 3
        BY <2>2, <3>1
    <3>4. (a \o c)[1] = a[1] /\ (a \o c)[2] = a[2] /\ (a \o c)[3] = c[1]
        BY <3>2, <3>3
    <3> QED BY <2>2, <3>1, <3>2, <3>3, <3>4 DEF c
  <2> HIDE DEF b
  <2>4. Len(rest) = 3 /\ rest[1] = "Key" /\ rest[2] = "Scalar" /\ rest[3] = "Value"
      OBVIOUS
  <2> HIDE DEF rest
  <2>5. \A i \in 1 .. 3 : b[i] = rest[i]
    <3>1. \A i \in 1 .. 3 : i = 1 \/ i = 2 \/ i = 3
        OBVIOUS
    <3> QED BY <2>3, <2>4, <3>1
  <2>6. b = rest
      BY <1>4, <2>3, <2>4, <2>5, SeqEqual
  <2> QED BY <2>6 DEF a, b
<1> HIDE DEF rest
<1>6. ASSUME NEW base \in Seq(BlockOpeners), base # <<>> \/ InFlow
      PROVE  Takes(base \o OfFlows(flow), rest, base \o OfFlows(flow))
  <2> DEFINE s == base \o OfFlows(flow)
  <2>1. /\ {"Key", "Scalar", "Value"} \subseteq Plain /\ flow \in Seq(FlowOpeners) /\ (base # <<>> \/ flow # <<>>)
      BY <1>6 DEF Plain, TypeOK, InFlow
  <2>2. Takes(s, <<"Key">>, s)
      BY <2>1, TakesPlain
  <2>3. Takes(s, <<"Scalar">>, s)
      BY <2>1, TakesPlain
  <2>4. Takes(s, <<"Value">>, s)
      BY <2>1, TakesPlain
  <2> HIDE DEF s
  <2>5. Takes(s, <<"Key">> \o <<"Scalar">>, s)
      BY <2>2, <2>3, TakesConcat
  <2>6. Takes(s, <<"Key">> \o <<"Scalar">> \o <<"Value">>, s)
      BY <2>4, <2>5, TakesConcat
  <2> QED BY <1>5, <2>6 DEF s
<1> QED BY <1>1, <1>2, <1>3, <1>4, <1>6, EntryFed

LEMMA ValueScalarFed ==
    ASSUME TypeOK, ScannerAssumption, StreamInv, status = "run", NEW l \in Lexemes, NEW json, ValueScalar(l, json),
           InFlow \/ l.cls \notin {"%", "..."}, bk'.directives = BkAt(l).directives,
           simpleKey'.fresh => simpleKey' = KeyAt(l) /\ at'.col = l.col /\ ~at'.folded
    PROVE  \E toks : Fed(l, toks)
<1>1. /\ levels' = Lv(l) /\ Emit(Closed(l) \o <<"Scalar">>) /\ flow' = flow /\ UNCHANGED <<status, given>>
    BY DEF ValueScalar
<1>2. ~bk'.directives
    BY WindowCloses
<1>3. "Scalar" \in Plain /\ "Scalar" \notin {"Value", "FlowEntry", "Entry"}
    BY DEF Plain
<1> QED BY <1>1, <1>2, <1>3, PlainFed

LEMMA QuotedFed ==
    ASSUME TypeOK, ScannerAssumption, StreamInv, status = "run", NEW l \in Lexemes, ~Fail, FetchQuoted(l)
    PROVE  \E toks : Fed(l, toks)
<1>1. PICK brk \in BOOLEAN, colon \in BOOLEAN : QuotedAs(l, brk, colon)
    BY DEF FetchQuoted
<1>2. InFlow \/ l.cls \notin {"%", "..."}
    BY DEF FetchQuoted
<1> DEFINE key == IF brk /\ KeyAt(l) # NoKey THEN Stale(KeyAt(l)) ELSE KeyAt(l)
<1>3. key.fresh => key = KeyAt(l) /\ ~brk
  <2>1. KeyAt(l) \in Keys => ~Stale(KeyAt(l)).fresh
      BY DEF Stale, Keys
  <2>2. KeyAt(l) \in Keys \union {NoKey} /\ ~NoKey.fresh
      BY FetchTypes DEF NoKey
  <2> QED BY <2>1, <2>2
<1>4. CASE KeyPossible(l) /\ colon
  <2>1. KeyScalar(l) /\ (status' # "failed" => simpleKey' = key)
      BY <1>1, <1>4 DEF QuotedAs
  <2>2. status' # "failed"
      BY <2>1 DEF KeyScalar
  <2>3. simpleKey'.fresh => simpleKey' = KeyAt(l)
      BY <1>3, <2>1, <2>2
  <2> QED BY <1>2, <2>1, <2>3, KeyScalarFed
<1>5. CASE ~(KeyPossible(l) /\ colon)
  <2>1. /\ ValueScalar(l, TRUE) /\ bk' = [BkAt(l) EXCEPT !.keyAllowed = FALSE] /\ simpleKey' = key
        /\ \E S : at' = HereMay(IF brk THEN Indent(Lv(l)) ELSE l.col, S)
      BY <1>1, <1>5 DEF QuotedAs
  <2>2. bk'.directives = BkAt(l).directives
      BY <2>1, FetchTypes DEF BlockFlags
  <2>3. simpleKey'.fresh => simpleKey' = KeyAt(l) /\ at'.col = l.col /\ ~at'.folded
    <3> SUFFICES ASSUME simpleKey'.fresh PROVE simpleKey' = KeyAt(l) /\ at'.col = l.col /\ ~at'.folded
        OBVIOUS
    <3>1. key = KeyAt(l) /\ ~brk
        BY <1>3, <2>1
    <3>2. PICK S : at' = HereMay(IF brk THEN Indent(Lv(l)) ELSE l.col, S)
        BY <2>1
    <3>3. at' = HereMay(l.col, S)
        BY <3>1, <3>2
    <3> QED BY <2>1, <3>1, <3>3, HereIs
  <2> QED BY <1>2, <2>1, <2>2, <2>3, ValueScalarFed
<1> QED BY <1>4, <1>5

LEMMA BlockScalarFed ==
    ASSUME TypeOK, ScannerAssumption, StreamInv, status = "run", NEW l \in Lexemes, ~Fail, FetchBlockScalar(l)
    PROVE  \E toks : Fed(l, toks)
<1>1. /\ ValueScalar(l, FALSE) /\ bk' = [BkAt(l) EXCEPT !.keyAllowed = TRUE] /\ simpleKey' = NoKey
      /\ l.cls = "blockscalar"
    BY DEF FetchBlockScalar
<1>2. bk'.directives = BkAt(l).directives
    BY <1>1, FetchTypes DEF BlockFlags
<1>3. ~simpleKey'.fresh
    BY <1>1 DEF NoKey
<1>4. l.cls \notin {"%", "..."}
    BY <1>1
<1> QED BY <1>1, <1>2, <1>3, <1>4, ValueScalarFed

LEMMA PlainScalarFed ==
    ASSUME TypeOK, ScannerAssumption, StreamInv, status = "run", NEW l \in Lexemes, ~Fail, FetchPlain(l)
    PROVE  \E toks : Fed(l, toks)
<1>1. PICK brk \in BOOLEAN, colon \in BOOLEAN : PlainAs(l, brk, colon)
    BY DEF FetchPlain
<1>2. InFlow \/ l.cls \notin {"%", "..."}
    BY DEF FetchPlain, IsPlain
<1> DEFINE key == IF ~brk \/ KeyAt(l) = NoKey THEN KeyAt(l)
                  ELSE IF InFlow THEN Stale(KeyAt(l)) ELSE NoKey
<1>3. key.fresh => key = KeyAt(l) /\ ~brk
  <2>1. KeyAt(l) \in Keys => ~Stale(KeyAt(l)).fresh
      BY DEF Stale, Keys
  <2>2. KeyAt(l) \in Keys \union {NoKey} /\ ~NoKey.fresh
      BY FetchTypes DEF NoKey
  <2> QED BY <2>1, <2>2
<1>4. CASE KeyScalar(l) /\ (status' # "failed" => simpleKey' = key)
  <2>1. status' # "failed"
      BY <1>4 DEF KeyScalar
  <2>2. simpleKey'.fresh => simpleKey' = KeyAt(l)
      BY <1>3, <1>4, <2>1
  <2> QED BY <1>2, <1>4, <2>2, KeyScalarFed
<1>5. CASE /\ ValueScalar(l, FALSE) /\ bk' = [BkAt(l) EXCEPT !.keyAllowed = ~InFlow /\ brk]
           /\ simpleKey' = key /\ at' \in PlainStops(l, brk, colon)
  <2>1. bk'.directives = BkAt(l).directives
      BY <1>5, FetchTypes DEF BlockFlags
  <2>2. simpleKey'.fresh => simpleKey' = KeyAt(l) /\ at'.col = l.col /\ ~at'.folded
    <3> SUFFICES ASSUME simpleKey'.fresh PROVE simpleKey' = KeyAt(l) /\ at'.col = l.col /\ ~at'.folded
        OBVIOUS
    <3>1. key = KeyAt(l) /\ ~brk
        BY <1>3, <1>5
    <3>2. \E S : at' = HereMay(l.col, S)
        BY <1>5, <3>1 DEF PlainStops
    <3> QED BY <1>5, <3>1, <3>2, HereIs
  <2> QED BY <1>2, <1>5, <2>1, <2>2, ValueScalarFed
<1> QED BY <1>1, <1>4, <1>5 DEF PlainAs
-----------------------------------------------------------------------------
(***************************************************************************)
(* The late key: its mapping start and Key go before the tokens of the node *)
(* it was noted at.                                                         *)
(***************************************************************************)
\* The tokens on both sides of the place the Key goes to.
LEMMA KeyCut ==
    ASSUME IInv, StreamInv, status = "run", ~InFlow, simpleKey \in Keys
    PROVE  LET a == SubSeq(queue, 1, simpleKey.idx)
               b == SubSeq(queue, simpleKey.idx + 1, Len(queue))
           IN  /\ a \in Seq(Tokens) /\ b \in Seq(Tokens) /\ b # <<>> /\ Head(b) \notin Boundaries
               /\ EndPhase(phase, a) \notin Outside /\ EndPhase("document", b) \notin Outside
               /\ \E m : Leads(open, phase, a, m) /\ Leads(m, EndPhase(phase, a), b, OfLevels(levels))
<1> DEFINE a == SubSeq(queue, 1, simpleKey.idx)
           b == SubSeq(queue, simpleKey.idx + 1, Len(queue))
           k == simpleKey.idx
<1>1. queue \in Seq(Tokens) /\ levels \in Seq(Levels) /\ k \in Nat /\ Len(queue) \in Nat
    BY DEF IInv, TypeOK, Keys
<1>2. k < Len(queue) /\ queue[k + 1] \in KeyTokens
  <2>1. simpleKey # NoKey
      BY DEF NoKey, Keys, Columns
  <2> QED BY <2>1 DEF IInv, KeyPointsAtNode, KeyTokens
<1>3. k \in 0 .. Len(queue)
    BY <1>1, <1>2
<1>4. a \in Seq(Tokens) /\ b \in Seq(Tokens) /\ Len(a) = k /\ queue = a \o b
    BY <1>1, <1>3, SplitAt
<1>5. Leads(open, phase, queue, OfLevels(levels)) /\ EndPhase(phase, queue) \notin Outside
  <2>1. OfLevels(levels) \in Seq(BlockOpeners)
      BY <1>1, LevelsTyped
  <2>2. OfLevels(levels) \o OfFlows(flow) = OfLevels(levels)
      BY <2>1, NoFlows
  <2> QED BY <2>2 DEF StreamInv
<1>6. PICK m : Leads(open, phase, a, m) /\ Leads(m, EndPhase(phase, a), b, OfLevels(levels))
    BY <1>1, <1>3, <1>5, LeadsSplit
<1> HIDE DEF a, b, k
<1>7. b # <<>> /\ b[1] = queue[k + 1]
  <2>1. /\ Len(a \o b) = Len(a) + Len(b) /\ Len(b) \in Nat
        /\ \A i \in 1 .. Len(b) : (a \o b)[Len(a) + i] = b[i]
    <3>1. a \in Seq(Tokens) /\ b \in Seq(Tokens)
        BY <1>4
    <3> QED BY <3>1
  <2>2. Len(b) # 0 /\ 1 \in 1 .. Len(b)
      BY <1>1, <1>2, <1>4, <2>1
  <2>3. Len(<<>>) = 0
      OBVIOUS
  <2> QED BY <1>4, <2>1, <2>2, <2>3
<1>8. Head(b) = b[1] /\ Head(b) \in KeyTokens
    BY <1>2, <1>4, <1>7
<1>9. Head(b) \notin Boundaries
    BY <1>8 DEF KeyTokens, Boundaries
<1>10. EndPhase(phase, a) \notin Outside
  <2>1. Fits(m, EndPhase(phase, a), Head(b))
      BY <1>4, <1>6, <1>7, LeadsHead
  <2> QED BY <1>9, <2>1 DEF Fits, Outside, Boundaries
<1>11. EndPhase("document", b) \notin Outside
  <2>1. EndPhase(phase, queue) = EndPhase(EndPhase(phase, a), b)
      BY <1>4, EndPhaseConcat
  <2> QED BY <1>5, <1>7, <2>1 DEF EndPhase
<1> QED BY <1>4, <1>6, <1>7, <1>9, <1>10, <1>11 DEF a, b, k

LEMMA KeyInserted ==
    ASSUME NEW a \in Seq(Tokens), NEW b \in Seq(Tokens), NEW c \in Seq(Tokens), NEW s, NEW base \in Seq(BlockOpeners),
           base # <<>>, Leads(open, phase, a \o c, s), EndPhase(phase, a \o c) \notin Outside, s \in Seq(Openers),
           Leads(s, "document", b, base), EndPhase("document", b) \notin Outside
    PROVE  LET q == a \o c \o <<"Key">> \o b \o <<>> \o <<"Value">>
           IN  Leads(open, phase, q, base) /\ EndPhase(phase, q) \notin Outside
<1> DEFINE k == <<"Key">>
           v == <<"Value">>
           x == a \o c
           y == x \o k
           z == y \o b
           q == z \o v
<1>1. k \in Seq(Tokens) /\ v \in Seq(Tokens) /\ "Key" \in Plain /\ "Value" \in Plain /\ x \in Seq(Tokens)
    BY TokenNames DEF Plain
<1>2. \A p : EndPhase(p, k) = "document" /\ EndPhase(p, v) = "value"
  <2>1. k # <<>> /\ k[Len(k)] = "Key" /\ v # <<>> /\ v[Len(v)] = "Value"
      OBVIOUS
  <2> HIDE DEF k, v
  <2> QED BY <2>1 DEF EndPhase, PhaseAfter
<1>3. Takes(s, k, s)
  <2>1. /\ "Key" \in Tokens \ Boundaries /\ "Key" \notin Openers \union Closers /\ "Key" \notin BlockOpeners
        /\ "Key" \notin {"StreamStart", "Directive", "Entry", "FlowEntry", "Value"}
      BY TokenNames DEF Boundaries, Openers, Closers, BlockOpeners, FlowOpenings
  <2>2. \A p : p \notin Outside => Fits(s, p, "Key")
      BY <2>1 DEF Fits, Outside
  <2>3. After(s, "Key") = s
      BY <2>1 DEF After
  <2> QED BY <2>1, <2>2, <2>3, TakesOne
<1>4. Takes(base, v, base)
    BY <1>1, TakesInBlock
<1> HIDE DEF k, v
<1>5. Leads(open, phase, x, s) /\ EndPhase(phase, x) \notin Outside
    OBVIOUS
<1> HIDE DEF x
<1>6. y \in Seq(Tokens) /\ Leads(open, phase, y, s) /\ EndPhase(phase, y) = "document"
  <2>1. Leads(s, EndPhase(phase, x), k, s)
      BY <1>3, <1>5 DEF Takes
  <2> QED BY <1>1, <1>2, <1>5, <2>1, LeadsConcat, EndPhaseConcat
<1> HIDE DEF y
<1>7. z \in Seq(Tokens) /\ Leads(open, phase, z, base) /\ EndPhase(phase, z) \notin Outside
    BY <1>6, LeadsConcat, EndPhaseConcat
<1> HIDE DEF z
<1>8. Leads(open, phase, q, base) /\ EndPhase(phase, q) = "value"
  <2>1. Leads(base, EndPhase(phase, z), v, base)
      BY <1>4, <1>7 DEF Takes
  <2> QED BY <1>1, <1>2, <1>7, <2>1, LeadsConcat, EndPhaseConcat
<1>9. z \o <<>> = z
    BY <1>7
<1> QED BY <1>8, <1>9 DEF z, y, x, k, v, Outside

LEMMA ConfirmKeyKeeps ==
    ASSUME IInv, IInv', ScannerAssumption, Increasing(levels), StreamInv, KeyInv, status = "run",
           NEW l \in Lexemes, Ahead(l), ~Fail, FetchValue(l), ~InFlow, KeyAt(l).fresh
    PROVE  StreamInv' /\ KeyInv'
<1> DEFINE a == SubSeq(queue, 1, simpleKey.idx)
           b == SubSeq(queue, simpleKey.idx + 1, Len(queue))
           c == RollToken(Lv(l), simpleKey.col, "BlockMap")
           e == OfLevels(levels)
<1>1. TypeOK /\ levels \in Seq(Levels)
    BY DEF IInv, TypeOK
<1>2. l.cls \in {":", ":x"}
    BY DEF FetchValue, IsValue
<1>3. l.cls # "eof" /\ l.cls \notin {"%", "..."}
    BY <1>2
<1>4. simpleKey.fresh /\ simpleKey \in Keys /\ Lv(l) = levels /\ Closed(l) = <<>>
    BY <1>1, <1>3, SameLine
<1>5. /\ levels' = Rolled(Lv(l), simpleKey.col, FALSE)
      /\ queue' = a \o c \o <<"Key">> \o b \o Closed(l) \o <<"Value">>
      /\ UNCHANGED <<status, given>>
    BY DEF FetchValue, ConfirmKey
<1>6. /\ simpleKey' = NoKey /\ flow' = flow
      /\ bk' = [BkAt(l) EXCEPT !.keyAllowed = TRUE, !.valuePending = @ \/ ~InFlow]
    BY <1>5 DEF FetchValue
<1>7. /\ a \in Seq(Tokens) /\ b \in Seq(Tokens) /\ b # <<>> /\ Head(b) \notin Boundaries
      /\ EndPhase(phase, a) \notin Outside /\ EndPhase("document", b) \notin Outside
      /\ \E n : Leads(open, phase, a, n) /\ Leads(n, EndPhase(phase, a), b, e)
    BY <1>4, KeyCut
<1>8. PICK m : Leads(open, phase, a, m) /\ Leads(m, EndPhase(phase, a), b, e)
    BY <1>7
<1>9. e \in Seq(BlockOpeners) /\ (levels # <<>> => e # <<>>) /\ Indent(levels) \in Int /\ simpleKey.col \in Nat
    BY <1>1, <1>4, LevelsTyped, IndentType DEF Columns, Keys, ScannerAssumption
<1>10. PICK base \in Seq(BlockOpeners) : Leads(open, phase, queue', base) /\ EndPhase(phase, queue') \notin Outside
                                        /\ base = OfLevels(levels')
  <2>1. CASE simpleKey.col > Indent(levels)
    <3> DEFINE x == [col |-> simpleKey.col, seq |-> FALSE]
    <3>1. c = <<"BlockMap">> /\ levels' = Append(levels, x)
        BY <1>4, <1>5, <2>1 DEF RollToken, Rolled
    <3>2. x \in Levels /\ OfLevel(x) = "BlockMap"
        BY <1>4 DEF Levels, Keys, OfLevel
    <3>3. OfLevels(levels') = KeyBase
        BY <1>1, <3>1, <3>2, LevelAdded DEF KeyBase
    <3>4. KeyBase \in Seq(BlockOpeners) /\ KeyBase # <<>> /\ Takes(e, c, KeyBase)
        BY <1>1, <3>1, KeyBaseTyped DEF KeyBase
    <3>5. Indent(levels) <= simpleKey.col
        BY <1>9, <2>1
    <3>6. Leads(open, phase, a, e) /\ Leads(KeyBase, "document", b, KeyBase \o OfFlows(flow))
        BY <1>4, <3>5 DEF KeyInv
    <3> HIDE DEF a, b, c, e
    <3>7. Leads(KeyBase, "document", b, KeyBase)
        BY <3>4, <3>6, NoFlows
    <3>8. c \in Seq(Tokens) /\ Leads(open, phase, a \o c, KeyBase) /\ EndPhase(phase, a \o c) \notin Outside
      <4>1. c \in Seq(Tokens) /\ Leads(e, EndPhase(phase, a), c, KeyBase) /\ EndPhase(EndPhase(phase, a), c) \notin Outside
          BY <1>7, <3>4 DEF Takes
      <4> QED BY <1>7, <3>6, <4>1, LeadsConcat, EndPhaseConcat
    <3>9. KeyBase \in Seq(Openers)
        BY <3>4 DEF Openers
    <3>10. Leads(open, phase, queue', KeyBase) /\ EndPhase(phase, queue') \notin Outside
        BY <1>4, <1>5, <1>7, <3>4, <3>7, <3>8, <3>9, KeyInserted
    <3> QED BY <3>3, <3>4, <3>10
  <2>2. CASE ~(simpleKey.col > Indent(levels))
    <3>1. c = <<>> /\ levels' = levels
        BY <1>4, <1>5, <2>2 DEF RollToken, Rolled
    <3>2. levels # <<>>
        BY <1>9, <2>2 DEF Indent
    <3>3. m \in Seq(Openers)
        BY <1>7, <1>8, LeadsTyped
    <3>4. "document" \notin Outside
        BY DEF Outside
    <3> HIDE DEF a, b, c, e
    <3>5. Leads(m, "document", b, e)
        BY <1>7, <1>8, <3>4, LeadsAgain DEF Outside
    <3>6. a \o c = a /\ c \in Seq(Tokens)
        BY <1>7, <3>1
    <3>7. Leads(open, phase, queue', e) /\ EndPhase(phase, queue') \notin Outside
        BY <1>4, <1>5, <1>7, <1>8, <1>9, <3>2, <3>3, <3>5, <3>6, KeyInserted
    <3> QED BY <1>9, <3>1, <3>7 DEF e
  <2> QED BY <2>1, <2>2
<1>11. ~bk'.directives
    BY <1>1, <1>3, <1>6, WindowCloses DEF BlockFlags
<1>12. open' = open /\ phase' = phase /\ status' = "run"
    BY <1>5 DEF given
<1>13. OfLevels(levels') \o OfFlows(flow') = base
    BY <1>6, <1>10, NoFlows
<1>14. StreamInv'
    BY <1>10, <1>11, <1>12, <1>13 DEF StreamInv
<1>15. KeyInv'
    BY <1>6 DEF KeyInv, NoKey
<1> QED BY <1>14, <1>15
-----------------------------------------------------------------------------
(***************************************************************************)
(* The tokens between documents close every level first.                    *)
(***************************************************************************)
LEMMA BoundaryGiven ==
    ASSUME TypeOK, StreamInv, status = "run", ~InFlow, NEW t \in {"StreamEnd", "DocStart", "DocEnd", "Directive"},
           t = "Directive" => bk.directives, queue' = queue \o (Ends(levels, <<>>) \o <<t>>),
           levels' = <<>>, flow' = flow, UNCHANGED given
    PROVE  /\ Leads(open', phase', queue', OfLevels(levels') \o OfFlows(flow'))
           /\ EndPhase(phase', queue') = PhaseAfter(t)
<1> DEFINE c == Ends(levels, <<>>)
           q == queue \o c
           e == OfLevels(levels)
           o == <<t>>
<1>1. queue \in Seq(Tokens) /\ levels \in Seq(Levels) /\ <<>> \in Seq(Levels) /\ Len(<<>>) <= Len(levels)
    BY DEF TypeOK
<1>2. OfLevels(<<>>) = <<>> /\ e \in Seq(BlockOpeners) /\ <<>> \in Seq(Openers)
  <2>1. <<>> \in Seq(Openers)
      OBVIOUS
  <2> QED BY <1>1, <2>1, LevelsTyped
<1>3. Takes(e, c, <<>>)
  <2>1. \A i \in 1 .. Len(<<>>) : <<>>[i] = levels[i]
      OBVIOUS
  <2> QED BY <1>1, <1>2, <2>1, TakesEnds
<1>4. OfLevels(levels') \o OfFlows(flow') = <<>>
  <2>1. <<>> \o <<>> = <<>>
      OBVIOUS
  <2> QED BY <1>2, <2>1, NoFlows
<1>5. t \in Tokens /\ o \in Seq(Tokens) /\ o # <<>> /\ o[Len(o)] = t
  <2>1. t \in Tokens
      BY TokenNames
  <2> QED BY <2>1
<1>6. levels = <<>> => c = <<>>
  <2>1. Len(<<>>) - Len(<<>>) = 0 /\ 1 .. 0 = {}
      OBVIOUS
  <2> QED BY <2>1 DEF Ends
<1> HIDE DEF c, o, e
<1>7. Leads(open, phase, queue, e) /\ EndPhase(phase, queue) \notin Outside
    BY <1>2, NoFlows DEF StreamInv, e
<1>8. c \in Seq(Tokens) /\ Leads(e, EndPhase(phase, queue), c, <<>>) /\ EndPhase(EndPhase(phase, queue), c) \notin Outside
    BY <1>3, <1>7 DEF Takes
<1>9. q \in Seq(Tokens) /\ Leads(open, phase, q, <<>>) /\ EndPhase(phase, q) \notin Outside
    BY <1>1, <1>7, <1>8, LeadsConcat, EndPhaseConcat
<1>10. t = "Directive" => EndPhase(phase, q) \in {"prologue", "directives"}
  <2> SUFFICES ASSUME t = "Directive" PROVE EndPhase(phase, q) \in {"prologue", "directives"}
      OBVIOUS
  <2>1. levels = <<>> /\ EndPhase(phase, queue) \in {"prologue", "directives"}
      BY DEF StreamInv
  <2>2. q = queue
      BY <1>1, <1>6, <2>1
  <2> QED BY <2>1, <2>2
<1> HIDE DEF q
<1>11. t \notin Closers /\ t \notin BlockOpeners /\ t \notin Openers /\ t \notin {"StreamStart", "Entry", "FlowEntry", "Value"}
    BY DEF Closers, BlockOpeners, FlowOpenings, Openers
<1>12. Fits(<<>>, EndPhase(phase, q), t)
    BY <1>9, <1>10, <1>11 DEF Fits, Outside
<1>13. After(<<>>, t) = <<>>
    BY <1>11 DEF After
<1>14. Leads(<<>>, EndPhase(phase, q), o, <<>>)
    BY <1>2, <1>5, <1>12, <1>13, LeadsOne DEF o
<1>15. Leads(open, phase, q \o o, <<>>) /\ EndPhase(phase, q \o o) = PhaseAfter(t)
  <2>1. EndPhase(EndPhase(phase, q), o) = PhaseAfter(t)
      BY <1>5 DEF EndPhase
  <2> QED BY <1>5, <1>9, <1>14, <2>1, LeadsConcat, EndPhaseConcat
<1>16. queue' = q \o o
    BY <1>1, <1>5, <1>8, ConcatAssociative DEF q, c, o
<1>17. open' = open /\ phase' = phase
    BY DEF given
<1> QED BY <1>4, <1>15, <1>16, <1>17

LEMMA MarkerKeeps ==
    ASSUME IInv, IInv', ScannerAssumption, StreamInv, KeyInv, status = "run", NEW l \in Lexemes, Ahead(l), ~Fail,
           FetchDocumentStart(l) \/ FetchDocumentEnd(l) \/ FetchDirective(l)
    PROVE  StreamInv' /\ KeyInv'
<1>1. PICK t \in {"DocStart", "DocEnd", "Directive"} :
          /\ ~InFlow /\ (\E may : FetchMarker(l, t, may)) /\ l.cls \in LineStarters
          /\ t = "Directive" => bk.directives
          /\ t = "DocStart" => l.cls = "---"
    BY DEF FetchDocumentStart, FetchDocumentEnd, FetchDirective, LineStarters
<1>2. TypeOK
    BY DEF IInv
<1>3. /\ levels' = <<>> /\ queue' = queue \o (Ends(levels, <<>>) \o <<t>>) /\ simpleKey' = KeyAt(l)
      /\ bk' = [BkAt(l) EXCEPT !.keyAllowed = FALSE, !.directives = @ \/ t = "DocEnd"]
      /\ flow' = flow /\ status' = "run" /\ UNCHANGED given
    BY <1>1 DEF FetchMarker, Emit
<1>4. /\ Leads(open', phase', queue', OfLevels(levels') \o OfFlows(flow')) /\ EndPhase(phase', queue') = PhaseAfter(t)
    BY <1>1, <1>2, <1>3, BoundaryGiven
<1>5. PhaseAfter(t) \notin Outside /\ (t # "DocStart" => PhaseAfter(t) \in {"prologue", "directives"})
    BY DEF PhaseAfter, Outside
<1>6. t = "DocStart" => ~bk'.directives
  <2> SUFFICES ASSUME t = "DocStart" PROVE ~bk'.directives
      OBVIOUS
  <2>1. ~BkAt(l).directives /\ BkAt(l) \in BlockFlags
      BY <1>1, <1>2, WindowCloses
  <2> QED BY <1>3, <2>1 DEF BlockFlags
<1>7. flow' = <<>>
    BY <1>1, <1>3, NoFlows
<1>8. StreamInv'
    BY <1>3, <1>4, <1>5, <1>6, <1>7 DEF StreamInv
<1>9. ~KeyAt(l).fresh
  <2> SUFFICES ASSUME KeyAt(l).fresh PROVE FALSE
      OBVIOUS
  <2>1. ~l.nl /\ simpleKey.fresh
      BY DEF KeyAt, NoKey
  <2>2. ~at.folded
      BY <2>1 DEF KeyInv
  <2> QED BY <1>1, <2>1, <2>2 DEF Ahead, AheadOf
<1> QED BY <1>3, <1>8, <1>9 DEF KeyInv

LEMMA EofKeeps ==
    ASSUME IInv, ScannerAssumption, StreamInv, status = "run", NEW l \in Lexemes, ~Fail, FetchEof(l)
    PROVE  StreamInv' /\ KeyInv'
<1>1. /\ ~InFlow /\ levels' = <<>> /\ queue' = queue \o (Ends(levels, <<>>) \o <<"StreamEnd">>)
      /\ flow' = flow /\ status' = "ended" /\ UNCHANGED given
    BY DEF FetchEof, Emit
<1>2. Leads(open', phase', queue', OfLevels(levels') \o OfFlows(flow'))
    BY <1>1, BoundaryGiven DEF IInv
<1> QED BY <1>1, <1>2 DEF StreamInv, KeyInv
-----------------------------------------------------------------------------
LEMMA FetchKeepsStream ==
    ASSUME IInv, IInv', ScannerAssumption, Increasing(levels), StreamInv, KeyInv, status = "run",
           NEW l \in Lexemes, Ahead(l), Fetch(l)
    PROVE  StreamInv' /\ KeyInv'
<1>1. CASE Fail
    BY <1>1 DEF Fail, StreamInv, KeyInv
<1>2. ASSUME ~Fail, l.cls # "eof", \E toks : Fed(l, toks) PROVE StreamInv' /\ KeyInv'
    BY <1>2, FedStream, FedKey DEF IInv
<1>3. TypeOK
    BY DEF IInv
<1>4. CASE ~Fail /\ FetchEof(l)
    BY <1>4, EofKeeps
<1>5. CASE ~Fail /\ FetchReject(l)
    BY <1>5 DEF FetchReject
<1>6. CASE ~Fail /\ FetchFlowStart(l)
    BY <1>2, <1>3, <1>6, FlowStartFed DEF FetchFlowStart, FlowOpeners
<1>7. CASE ~Fail /\ FetchFlowEnd(l)
    BY <1>2, <1>3, <1>7, FlowEndFed DEF FetchFlowEnd, FlowClosers
<1>8. CASE ~Fail /\ FetchFlowEntry(l)
    BY <1>2, <1>3, <1>8, FlowEntryFed DEF FetchFlowEntry
<1>9. CASE ~Fail /\ FetchBlockEntry(l)
    BY <1>2, <1>3, <1>9, BlockEntryFed DEF FetchBlockEntry
<1>10. CASE ~Fail /\ FetchKey(l)
    BY <1>2, <1>3, <1>10, KeyFed DEF FetchKey
<1>11. CASE ~Fail /\ FetchValue(l)
  <2>1. l.cls # "eof"
      BY <1>11 DEF FetchValue, IsValue
  <2>2. CASE ~InFlow /\ KeyAt(l).fresh
      BY <1>11, <2>2, ConfirmKeyKeeps
  <2>3. CASE ~(~InFlow /\ KeyAt(l).fresh)
    <3>1. PlainValue(l)
        BY <1>11, <2>3 DEF FetchValue
    <3> QED BY <1>2, <1>3, <1>11, <2>1, <2>3, <3>1, PlainValueFed
  <2> QED BY <2>2, <2>3
<1>12. CASE ~Fail /\ (FetchProperty(l) \/ FetchAlias(l))
    BY <1>2, <1>3, <1>12, NodeFed DEF FetchProperty, FetchAlias
<1>13. CASE ~Fail /\ FetchQuoted(l)
    BY <1>2, <1>3, <1>13, QuotedFed DEF FetchQuoted
<1>14. CASE ~Fail /\ FetchBlockScalar(l)
    BY <1>2, <1>3, <1>14, BlockScalarFed DEF FetchBlockScalar
<1>15. CASE ~Fail /\ FetchPlain(l)
    BY <1>2, <1>3, <1>15, PlainScalarFed DEF FetchPlain, IsPlain
<1>16. CASE ~Fail /\ (FetchDocumentStart(l) \/ FetchDocumentEnd(l) \/ FetchDirective(l))
    BY <1>16, MarkerKeeps
<1> QED BY <1>1, <1>4, <1>5, <1>6, <1>7, <1>8, <1>9, <1>10, <1>11, <1>12, <1>13, <1>14, <1>15, <1>16 DEF Fetch

LEMMA StartKeepsStream ==
    ASSUME TypeOK, StreamInv, Start
    PROVE  StreamInv' /\ KeyInv'
<1>1. CASE Fail
    BY <1>1 DEF Fail, StreamInv, KeyInv
<1>2. CASE ~Fail
  <2>1. /\ status' = "run" /\ queue' = <<>> \o <<"StreamStart">> /\ open' = <<>> /\ phase' = "none"
        /\ levels' = <<>> /\ flow' = <<>> /\ simpleKey' = NoKey
      BY <1>2 DEF Start, Emit, StreamInv, given
  <2> DEFINE q == <<"StreamStart">>
  <2>2. "StreamStart" \in Tokens /\ q \in Seq(Tokens) /\ q # <<>> /\ q[Len(q)] = "StreamStart" /\ <<>> \o q = q
      BY TokenNames
  <2>3. /\ "StreamStart" \notin Openers \union Closers /\ "StreamStart" \notin BlockOpeners
        /\ "StreamStart" \notin {"Directive", "Entry", "FlowEntry", "Value"}
      BY DEF Closers, BlockOpeners, FlowOpenings, Openers
  <2>4. Fits(<<>>, "none", "StreamStart") /\ After(<<>>, "StreamStart") = <<>> /\ <<>> \in Seq(Openers)
      BY <2>3 DEF Fits, After
  <2>5. Leads(<<>>, "none", q, <<>>)
      BY <2>2, <2>4, LeadsOne
  <2>6. EndPhase("none", q) = "prologue"
      BY <2>2 DEF EndPhase, PhaseAfter
  <2>7. OfLevels(<<>>) \o OfFlows(<<>>) = <<>>
    <3>1. <<>> \in Seq(Levels) /\ <<>> \in Seq(FlowOpeners) /\ <<>> \o <<>> = <<>>
        OBVIOUS
    <3>2. OfLevels(<<>>) = <<>> /\ OfFlows(<<>>) = <<>>
        BY <3>1, LevelsTyped, FlowsTyped
    <3> QED BY <3>1, <3>2
  <2> HIDE DEF q
  <2>8. queue' = q
      BY <2>1, <2>2 DEF q
  <2>9. StreamInv'
      BY <2>1, <2>5, <2>6, <2>7, <2>8 DEF StreamInv, Outside
  <2>10. KeyInv'
      BY <2>1 DEF KeyInv, NoKey
  <2> QED BY <2>9, <2>10
<1> QED BY <1>1, <1>2

LEMMA DeliverKeepsStream ==
    ASSUME IInv, StreamInv, Deliver
    PROVE  StreamInv' /\ KeyInv' /\ Fits(open, phase, Head(queue))
<1> DEFINE h == Head(queue)
           r == Tail(queue)
           e == OfLevels(levels) \o OfFlows(flow)
<1>1. /\ status \in {"run", "ended"} /\ queue # <<>> /\ queue' = r /\ open' = After(open, h) /\ phase' = PhaseAfter(h)
      /\ UNCHANGED <<levels, flow, simpleKey, bk, status>>
    BY DEF Deliver
<1>2. queue \in Seq(Tokens) /\ simpleKey = NoKey
    BY <1>1 DEF IInv, TypeOK, EndedHasNoKey, Deliver
<1>3. Leads(open, phase, queue, e)
    BY <1>1 DEF StreamInv
<1>4. /\ h \in Tokens /\ r \in Seq(Tokens) /\ Fits(open, phase, h) /\ Leads(After(open, h), PhaseAfter(h), r, e)
    BY <1>1, <1>2, <1>3, LeadsHead
<1>5. EndPhase(PhaseAfter(h), r) = EndPhase(phase, queue)
  <2>1. queue = <<h>> \o r /\ <<h>> \in Seq(Tokens) /\ <<h>> # <<>> /\ <<h>>[Len(<<h>>)] = h
      BY <1>1, <1>2
  <2>2. EndPhase(phase, <<h>>) = PhaseAfter(h)
      BY <2>1 DEF EndPhase
  <2> HIDE DEF h, r
  <2> DEFINE o == <<h>>
  <2>3. o \in Seq(Tokens) /\ r \in Seq(Tokens)
      BY <1>4, <2>1
  <2> HIDE DEF o
  <2>4. EndPhase(phase, o \o r) = EndPhase(EndPhase(phase, o), r)
      BY <2>3, EndPhaseConcat
  <2> QED BY <2>1, <2>2, <2>4 DEF o
<1> HIDE DEF h, r
<1>6. StreamInv'
    BY <1>1, <1>3, <1>4, <1>5 DEF StreamInv, e
<1>7. KeyInv'
    BY <1>1, <1>2 DEF KeyInv, NoKey
<1> QED BY <1>4, <1>6, <1>7 DEF h

LEMMA InitStream == Init => StreamInv /\ KeyInv
<1> SUFFICES ASSUME Init PROVE StreamInv /\ KeyInv
    OBVIOUS
<1>1. /\ queue = <<>> /\ levels = <<>> /\ flow = <<>> /\ simpleKey = NoKey /\ status = "new" /\ open = <<>>
      /\ phase = "none"
    BY DEF Init
<1>2. OfLevels(<<>>) \o OfFlows(<<>>) = <<>> /\ <<>> \in Seq(Openers)
  <2>1. <<>> \in Seq(Levels) /\ <<>> \in Seq(FlowOpeners) /\ <<>> \o <<>> = <<>> /\ <<>> \in Seq(Openers)
      OBVIOUS
  <2>2. OfLevels(<<>>) = <<>> /\ OfFlows(<<>>) = <<>>
      BY <2>1, LevelsTyped, FlowsTyped
  <2> QED BY <2>1, <2>2
<1>3. Leads(<<>>, "none", <<>>, <<>>)
    BY <1>2, LeadsNowhere
<1> QED BY <1>1, <1>2, <1>3 DEF StreamInv, KeyInv

LEMMA NextKeepsStream ==
    ASSUME IInv, IInv', ScannerAssumption, IndentsIncreasing, StreamInv, KeyInv, [Next]_vars
    PROVE  StreamInv' /\ KeyInv'
<1>1. CASE Start
    BY <1>1, StartKeepsStream DEF IInv
<1>2. CASE Deliver
    BY <1>2, DeliverKeepsStream
<1>3. CASE Fetching /\ \E l \in Lexemes : Ahead(l) /\ Fetch(l)
  <2>1. PICK l \in Lexemes : Ahead(l) /\ Fetch(l)
      BY <1>3
  <2>2. status = "run" /\ Increasing(levels)
      BY <1>3 DEF Fetching, IndentsIncreasing, Increasing
  <2> QED BY <2>1, <2>2, FetchKeepsStream
<1>4. CASE UNCHANGED vars
  <2>1. /\ open' = open /\ phase' = phase /\ queue' = queue /\ levels' = levels /\ flow' = flow
        /\ simpleKey' = simpleKey /\ bk' = bk /\ at' = at /\ status' = status
      BY <1>4 DEF vars, given
  <2> QED BY <2>1 DEF StreamInv, KeyInv, KeyBase
<1> QED BY <1>1, <1>2, <1>3, <1>4 DEF Next

LEMMA StreamInvariant == Spec => [](StreamInv /\ KeyInv)
<1> USE ScannerAssumption
<1>1. Init => StreamInv /\ KeyInv
    BY InitStream
<1>2. IInv /\ IInv' /\ IndentsIncreasing /\ StreamInv /\ KeyInv /\ [Next]_vars => StreamInv' /\ KeyInv'
    BY NextKeepsStream
<1> QED BY <1>1, <1>2, InductiveInvariant, ScannerIndentsIncreasing, PTL DEF Spec

\* Whatever the input, the collections open in the tokens given and buffered
\* are the levels and flow collections the scanner itself holds open, with late
\* keys, closed levels and document markers anywhere between.
THEOREM ScannerNestingMatches == Spec => []NestingMatches
<1>1. IInv /\ StreamInv => NestingMatches
  <2> SUFFICES ASSUME StreamInv, IInv, status # "failed"
               PROVE  AfterAll(open, queue) = OfLevels(levels) \o OfFlows(flow)
      BY DEF NestingMatches, OfLevels, OfFlows
  <2> QED BY LeadsIsAfter DEF StreamInv, IInv, TypeOK
<1> QED BY <1>1, InductiveInvariant, StreamInvariant, PTL
-----------------------------------------------------------------------------
\* Fetching hands nothing out.
LEMMA FetchGivesNothing ==
    ASSUME TypeOK, NEW l \in Lexemes, Fetch(l), status = "run"
    PROVE  UNCHANGED <<open, phase>>
<1>1. CASE Fail
    BY <1>1 DEF Fail, given
<1>2. CASE ~Fail /\ FetchValue(l)
    BY <1>2 DEF FetchValue, ConfirmKey, PlainValue, given
<1>3. CASE ~Fail /\ (FetchQuoted(l) \/ FetchPlain(l) \/ FetchBlockScalar(l))
  <2>1. KeyScalar(l) \/ \E json \in BOOLEAN : ValueScalar(l, json)
      BY <1>3 DEF FetchQuoted, QuotedAs, FetchPlain, PlainAs, FetchBlockScalar
  <2> QED BY <1>3, <2>1 DEF KeyScalar, ValueScalar, given
<1>4. CASE ~Fail /\ (FetchDocumentStart(l) \/ FetchDocumentEnd(l) \/ FetchDirective(l))
    BY <1>4 DEF FetchDocumentStart, FetchDocumentEnd, FetchDirective, FetchMarker, given
<1>5. CASE ~Fail /\ (FetchEof(l) \/ FetchReject(l) \/ FetchFlowStart(l) \/ FetchFlowEnd(l) \/ FetchFlowEntry(l))
    BY <1>5 DEF FetchEof, FetchReject, FetchFlowStart, FetchFlowEnd, FetchFlowEntry, given
<1>6. CASE ~Fail /\ (FetchBlockEntry(l) \/ FetchKey(l) \/ FetchProperty(l) \/ FetchAlias(l))
    BY <1>6 DEF FetchBlockEntry, FetchKey, FetchProperty, FetchAlias, given
<1> QED BY <1>1, <1>2, <1>3, <1>4, <1>5, <1>6 DEF Fetch

LEMMA DeliverGives ==
    ASSUME IInv, StreamInv, Deliver
    PROVE  TS!Next
<1> DEFINE h == Head(queue)
<1>1. Fits(open, phase, h)
    BY DeliverKeepsStream
<1>2. h \in Tokens
    BY DEF Deliver, IInv, TypeOK
<1>3. open' = After(open, h) /\ phase' = PhaseAfter(h)
    BY DEF Deliver
<1> HIDE DEF h
<1>4. TS!Tokens = Tokens
    BY DEF TS!Tokens, Tokens, TS!Openers, Openers, TS!Closers, Closers, TS!Boundaries, Boundaries, TS!NodeStarts,
       NodeStarts, TS!BlockOpeners, BlockOpeners, TS!FlowOpenings, FlowOpenings
<1>5. TS!After(open, h) = After(open, h)
    BY DEF TS!After, After, TS!Openers, Openers, TS!Closers, Closers, TS!BlockOpeners, BlockOpeners, TS!FlowOpenings,
       FlowOpenings
<1>6. TS!PhaseAfter(h) = PhaseAfter(h)
    BY DEF TS!PhaseAfter, PhaseAfter
<1>7. TS!Allowed(h)
    BY <1>1, FitsIsAllowed
<1>8. TS!Give(h)
    BY <1>3, <1>5, <1>6, <1>7 DEF TS!Give
<1> QED BY <1>2, <1>4, <1>8 DEF TS!Next

\* Whatever the input, the scanner gives the parser a token stream: it hands a
\* token out only where the stream allows it, and nothing else it does can be
\* seen there.
THEOREM ScannerImplementsTokenStream == Spec => TokenStreamSpec
<1>1. Init => TS!Init
    BY DEF Init, TS!Init
<1>2. IInv /\ StreamInv /\ [Next]_vars => [TS!Next]_<<open, phase>>
  <2> SUFFICES ASSUME IInv, StreamInv, [Next]_vars PROVE TS!Next \/ UNCHANGED <<open, phase>>
      OBVIOUS
  <2>1. CASE Start
      BY <2>1 DEF Start, Fail, given
  <2>2. CASE Deliver
      BY <2>2, DeliverGives
  <2>3. CASE Fetching /\ \E l \in Lexemes : Ahead(l) /\ Fetch(l)
      BY <2>3, FetchGivesNothing DEF IInv, Fetching
  <2>4. CASE UNCHANGED vars
      BY <2>4 DEF vars, given
  <2> QED BY <2>1, <2>2, <2>3, <2>4 DEF Next
<1> QED BY <1>1, <1>2, InductiveInvariant, StreamInvariant, PTL DEF Spec, TokenStreamSpec, TS!Spec
=============================================================================

------------------------------- MODULE Scanner -------------------------------
(***************************************************************************)
(* The scanner of YAMLRocks (src/scanner/mod.rs): the state machine that    *)
(* turns characters and layout into the token stream.                       *)
(*                                                                          *)
(* The input is generated one lexeme at a time: a lexeme is the class of    *)
(* the characters at the cursor, the column they start at, whether a line   *)
(* break was crossed to reach them and whether a tab was.  Columns matter   *)
(* only by comparison, so a few of them stand for all.  A line number is    *)
(* only ever compared with the current one, so a remembered line is the     *)
(* boolean "it is this line", reset by every line break (record "line").    *)
(* Scalar text, names and messages are left out.                            *)
(***************************************************************************)
EXTENDS Tokens, FiniteSets

CONSTANTS
    MaxCol,         \* the deepest column a lexeme may start at
    MaxFlowDepth,   \* MAX_FLOW_DEPTH of the code
    MaxQueue        \* bound: no fetch once this many tokens are buffered

ASSUME ScannerAssumption ==
    MaxCol \in Nat /\ MaxFlowDepth \in Nat /\ MaxQueue \in Nat

VARIABLES
    at,         \* the cursor: column, and what a lookahead already saw there
    queue,      \* tokens: buffered, not yet handed out
    levels,     \* indent_stack and indent_kinds with the current level on top
    flow,       \* flow_kinds: the open flow collections, innermost last
    simpleKey,  \* simple_key: a key a later ':' may confirm, or NoKey
    line,       \* which remembered lines are the current line ("implicit" is
                \* only observed: the ':' of an implicit key stands on it)
    fl,         \* flags of the current flow entry
    bk,         \* flags of the block context
    status,     \* "new", "run", "ended" (stream_ended) or "failed" (ScanError)
    open,       \* the collections open in the tokens handed out so far
    phase       \* where in the stream the tokens handed out so far end

given == <<open, phase>>
vars == <<at, queue, levels, flow, simpleKey, line, fl, bk, status, given>>

Columns == 0 .. MaxCol

\* ":" is a value indicator followed by a blank; ":x" one glued to plain text;
\* "bad" a character no node may start with ('@', '`', a stray '#').
FlowOpeners == {"[", "{"}
FlowClosers == {"]", "}"}
FlowIndicators == FlowOpeners \union FlowClosers \union {","}
LineStarters == {"---", "...", "%"}
Classes == FlowIndicators \union LineStarters \union
           {"-", "?", ":", ":x", "quoted", "plain", "blockscalar",
            "&", "*", "!", "bad", "eof"}

Lexemes == [cls : Classes, nl : BOOLEAN, tab : BOOLEAN, col : Columns]

NewLine == [doc |-> FALSE, colon |-> FALSE, prop |-> FALSE, pending |-> FALSE,
            flowStart |-> FALSE, implicit |-> FALSE]

NoKey == [idx |-> 0, col |-> -1, tab |-> FALSE, fresh |-> FALSE]

InFlow == flow # <<>>

\* current_indent, read off a stack of levels.
Indent(lv) == IF lv = <<>> THEN -1 ELSE lv[Len(lv)].col
IsSeq(lv) == lv # <<>> /\ lv[Len(lv)].seq
-----------------------------------------------------------------------------
(***************************************************************************)
(* The cursor.  "may" holds the classes the last lookahead leaves possible  *)
(* on this line, "cap" the column they may not pass; "folded" says a scalar *)
(* already swallowed the line break and stopped at the next token.          *)
(***************************************************************************)
Here(c) == [col |-> c, folded |-> FALSE, may |-> Classes, cap |-> MaxCol]
HereMay(c, S) == [Here(c) EXCEPT !.may = S]
Folded(S, cap) == [col |-> -1, folded |-> TRUE, may |-> S, cap |-> cap]

\* l can be the text at cursor c: what no lookahead has excluded, to the right
\* of what was read on this line.
AheadOf(c, inFlow, l) ==
    /\ l.cls \in LineStarters => l.col = 0 /\ (l.nl \/ c.folded)
    /\ ~l.nl => /\ l.cls = "eof" \/ (l.cls \in c.may /\ l.col <= c.cap)
                /\ c.folded => ~l.tab
                /\ IF inFlow THEN l.col >= c.col ELSE l.col > c.col \/ l.cls = "eof"
Ahead(l) == AheadOf(at, InFlow, l)

\* scan_to_next_token: what crossing a line break resets.
LineAt(l) == IF l.nl THEN NewLine ELSE line
KeyAt(l) == IF l.nl THEN NoKey ELSE simpleKey
AllowedAt(l) == bk.keyAllowed \/ (l.nl /\ ~InFlow)
\* A break inside a scalar changes the line behind scan_to_next_token's back:
\* the document-start mark stays.
BrokenLine(ln) == [NewLine EXCEPT !.doc = ln.doc]

\* unwind_indents pops levels while the top one is deeper than col.  Levels
\* increase (IndentsIncreasing), so what stays is every level up to col.
KeptLen(lv, col) == Cardinality({i \in 1 .. Len(lv) : lv[i].col <= col})
Unwound(lv, col) == SubSeq(lv, 1, KeptLen(lv, col))

\* unwind_indents then close_seq_if_non_entry, as fetch_more_tokens runs them.
ClosesSeq(lv, l) == IsSeq(lv) /\ l.col = Indent(lv) /\ l.cls # "-"
Kept(l) ==
    LET lv == Unwound(levels, l.col)
    IN  IF ClosesSeq(lv, l) THEN SubSeq(lv, 1, Len(lv) - 1) ELSE lv
Ends(from, to) == [i \in 1 .. Len(from) - Len(to) |-> "BlockEnd"]
\* unwound_block_level is set by unwind_indents only.
UnwoundAny(l) == KeptLen(levels, l.col) < Len(levels)

\* Mutants of roll_indent: levels that only match the current one are opened
\* too; the token is pushed whether or not a level was.
Rolled_Equal(lv, col, seq) ==
    IF col >= Indent(lv) THEN Append(lv, [col |-> col, seq |-> seq]) ELSE lv
RollToken_Always(lv, col, tok) == <<tok>>

\* roll_indent: open a level for col if it is deeper than the current one.
Rolled(lv, col, seq) ==
    IF col > Indent(lv) THEN Append(lv, [col |-> col, seq |-> seq]) ELSE lv
RollToken(lv, col, tok) == IF col > Indent(lv) THEN <<tok>> ELSE <<>>
-----------------------------------------------------------------------------
Init ==
    /\ at = Folded(Classes, MaxCol)
    /\ queue = <<>> /\ levels = <<>> /\ flow = <<>>
    /\ simpleKey = NoKey
    /\ line = [NewLine EXCEPT !.pending = TRUE, !.flowStart = TRUE]
    /\ fl = [seen |-> FALSE, needSep |-> FALSE, explicit |-> FALSE, json |-> FALSE]
    /\ bk = [keyAllowed |-> TRUE, valuePending |-> FALSE, afterEntry |-> FALSE,
             directives |-> TRUE]
    /\ status = "new" /\ open = <<>> /\ phase = "none"

\* A ScanError: the stream stops here and nothing buffered is handed out.
Fail ==
    /\ status' = "failed"
    /\ UNCHANGED <<at, queue, levels, flow, simpleKey, line, fl, bk, given>>

\* fetch_more_tokens runs while a key is undecided or nothing is buffered.
Fetching == status = "run" /\ (simpleKey # NoKey \/ queue = <<>>) /\ Len(queue) < MaxQueue

Emit(toks) == queue' = queue \o toks

\* check_printable, then StreamStart.
Start ==
    /\ status = "new"
    /\ \/ Fail
       \/ /\ status' = "run" /\ Emit(<<"StreamStart">>)
          /\ UNCHANGED <<at, levels, flow, simpleKey, line, fl, bk, given>>

\* next_token: hand out the oldest token, unless a Key may still go before it.
Deliver ==
    /\ status \in {"run", "ended"} /\ queue # <<>>
    /\ simpleKey = NoKey \/ status = "ended"
    /\ queue' = Tail(queue)
    /\ open' = After(open, Head(queue)) /\ phase' = PhaseAfter(Head(queue))
    /\ UNCHANGED <<at, levels, flow, simpleKey, line, fl, bk, status>>

FetchEof(l) ==
    /\ l.cls = "eof"
    /\ \/ /\ InFlow /\ Fail
       \/ /\ ~InFlow
          /\ status' = "ended" /\ simpleKey' = NoKey /\ levels' = <<>>
          /\ Emit(Ends(levels, <<>>) \o <<"StreamEnd">>)
          /\ UNCHANGED <<at, flow, line, fl, bk, given>>
-----------------------------------------------------------------------------
(***************************************************************************)
(* What every fetch has done before its handler runs: fetch_more_tokens has *)
(* closed levels (Lv, Closed), fetch_block_token and fetch_flow_token have  *)
(* reset their flags (BkAt, FlAt).                                          *)
(***************************************************************************)
\* Mutants: levels close inside flow too; the directive window never closes.
Lv_InFlowToo(l) == Kept(l)
BkAt_WindowStaysOpen(l) ==
    [keyAllowed   |-> AllowedAt(l),
     valuePending |-> bk.valuePending /\ l.cls \in {"&", "!"},
     afterEntry   |-> FALSE,
     directives   |-> bk.directives]

Lv(l) == IF InFlow THEN levels ELSE Kept(l)
Closed(l) == Ends(levels, Lv(l))
BkAt(l) ==
    IF InFlow THEN bk
    ELSE [keyAllowed   |-> AllowedAt(l),
          valuePending |-> bk.valuePending /\ l.cls \in {"&", "!"},
          afterEntry   |-> FALSE,
          directives   |-> bk.directives /\ l.cls \in {"%", "..."}]
FlAt == IF InFlow THEN [fl EXCEPT !.json = FALSE] ELSE fl

\* Mutant: the index is read after the key's own token was pushed.
NoteKey_AfterToken(l) ==
    IF ~InFlow /\ AllowedAt(l) /\ KeyAt(l) = NoKey
    THEN [idx |-> Len(queue) + Len(Closed(l)) + 1, col |-> l.col, tab |-> l.tab,
          fresh |-> TRUE]
    ELSE KeyAt(l)

\* note_possible_simple_key: the position the Key would be inserted at.
NoteKey(l) ==
    IF ~InFlow /\ AllowedAt(l) /\ KeyAt(l) = NoKey
    THEN [idx |-> Len(queue) + Len(Closed(l)), col |-> l.col, tab |-> l.tab,
          fresh |-> TRUE]
    ELSE KeyAt(l)
\* A key whose line a multi-line scalar has left behind.
Stale(key) == [key EXCEPT !.fresh = FALSE]

\* fetch_flow_token's checks, and scan_to_next_token's and fetch_more_tokens'
\* checks of a continuation line.
IsFlowSeparator(l) == l.cls \in FlowClosers \union {",", ":", ":x", "?", "-"}
FlowRejects(l) ==
    \/ l.nl /\ l.tab /\ l.cls \notin FlowIndicators
    \/ l.nl /\ l.col <= Indent(levels)
    \/ l.cls \in {"---", "...", "-", "bad"}
    \/ fl.needSep /\ ~IsFlowSeparator(l)
    \/ /\ fl.needSep /\ l.cls \in {":", ":x"} /\ ~fl.explicit
       /\ flow[Len(flow)] = "[" /\ ~LineAt(l).pending
BlockRejects(l) == l.cls \in FlowClosers \union {",", "bad"}
FetchReject(l) ==
    /\ l.cls # "eof"
    /\ IF InFlow THEN FlowRejects(l) ELSE BlockRejects(l)
    /\ Fail
Admits(l) == IF InFlow THEN ~FlowRejects(l) ELSE ~BlockRejects(l)
-----------------------------------------------------------------------------
\* Mutant: one level more than the cap is let in.
TooDeep_OffByOne == Len(flow) > MaxFlowDepth
TooDeep == Len(flow) >= MaxFlowDepth

FetchFlowStart(l) ==
    /\ l.cls \in FlowOpeners /\ Admits(l)
    /\ IF TooDeep THEN Fail
       ELSE /\ flow' = Append(flow, l.cls)
            /\ line' = [LineAt(l) EXCEPT !.flowStart = @ \/ ~InFlow]
            /\ fl' = [FlAt EXCEPT !.seen = FALSE, !.needSep = FALSE, !.explicit = FALSE]
            /\ bk' = [BkAt(l) EXCEPT !.keyAllowed = TRUE]
            /\ simpleKey' = NoteKey(l) /\ levels' = Lv(l)
            /\ Emit(Closed(l) \o <<IF l.cls = "[" THEN "FlowSeq" ELSE "FlowMap">>)
            /\ at' = Here(l.col)
            /\ UNCHANGED <<status, given>>

\* Back at block level only the end of the line or a ':' may follow, and the
\* ':' only if the whole collection sits on one line.
FetchFlowEnd(l) ==
    /\ InFlow /\ l.cls \in FlowClosers /\ Admits(l)
    /\ LET opener == IF l.cls = "]" THEN "[" ELSE "{"
           rest == SubSeq(flow, 1, Len(flow) - 1)
       IN  \/ (flow[Len(flow)] # opener \/ rest = <<>>) /\ Fail
           \/ /\ flow[Len(flow)] = opener
              /\ flow' = rest
              /\ line' = [LineAt(l) EXCEPT !.pending = TRUE]
              /\ fl' = [FlAt EXCEPT !.seen = TRUE, !.needSep = TRUE, !.json = TRUE]
              /\ bk' = [bk EXCEPT !.keyAllowed = FALSE]
              /\ simpleKey' = KeyAt(l)
              /\ Emit(<<IF l.cls = "]" THEN "FlowSeqEnd" ELSE "FlowMapEnd">>)
              /\ IF rest # <<>> THEN at' = Here(l.col)
                 ELSE at' = HereMay(l.col, IF LineAt(l).flowStart THEN {":", ":x"} ELSE {})
              /\ UNCHANGED <<levels, status, given>>

FetchFlowEntry(l) ==
    /\ InFlow /\ l.cls = "," /\ Admits(l)
    /\ IF ~fl.seen THEN Fail
       ELSE /\ line' = LineAt(l)
            /\ fl' = [FlAt EXCEPT !.seen = FALSE, !.needSep = FALSE, !.explicit = FALSE]
            /\ bk' = [bk EXCEPT !.keyAllowed = TRUE]
            /\ simpleKey' = KeyAt(l)
            /\ Emit(<<"FlowEntry">>)
            /\ at' = Here(l.col)
            /\ UNCHANGED <<levels, flow, status, given>>

FetchBlockEntry(l) ==
    /\ ~InFlow /\ l.cls = "-"
    /\ LET lv == Kept(l)
       IN  IF \/ l.tab \/ LineAt(l).colon \/ LineAt(l).prop \/ LineAt(l).doc
              \/ l.col > Indent(lv) /\ IsSeq(lv) /\ ~bk.afterEntry /\ UnwoundAny(l)
           THEN Fail
           ELSE /\ levels' = Rolled(lv, l.col, TRUE)
                /\ Emit(Closed(l) \o RollToken(lv, l.col, "BlockSeq") \o <<"Entry">>)
                /\ line' = LineAt(l) /\ simpleKey' = KeyAt(l)
                /\ bk' = [BkAt(l) EXCEPT !.keyAllowed = TRUE, !.afterEntry = TRUE]
                /\ at' = Here(l.col)
                /\ UNCHANGED <<flow, fl, status, given>>

\* An explicit '?'.  Besides its checks, a tab right after it is an error.
FetchKey(l) ==
    /\ l.cls = "?" /\ Admits(l)
    /\ \/ ~InFlow /\ Fail
       \/ /\ InFlow \/ ~(l.tab \/ LineAt(l).doc)
          /\ levels' = IF InFlow THEN levels ELSE Rolled(Lv(l), l.col, FALSE)
          /\ Emit(Closed(l) \o (IF InFlow THEN <<>> ELSE RollToken(Lv(l), l.col, "BlockMap"))
                           \o <<"KeyExplicit">>)
          /\ line' = LineAt(l) /\ simpleKey' = KeyAt(l)
          /\ fl' = [FlAt EXCEPT !.needSep = FALSE, !.explicit = @ \/ InFlow]
          /\ bk' = [BkAt(l) EXCEPT !.keyAllowed = TRUE]
          /\ at' = Here(l.col)
          /\ UNCHANGED <<flow, status, given>>
-----------------------------------------------------------------------------
(***************************************************************************)
(* fetch_value.  In block context a pending key of this line is confirmed:  *)
(* its mapping start and Key go in front of its buffered tokens.            *)
(***************************************************************************)
ConfirmKey(l) ==
    LET key == simpleKey
        lv == Lv(l)
        opens == RollToken(lv, key.col, "BlockMap")
    IN  IF key.tab THEN Fail
        ELSE /\ levels' = Rolled(lv, key.col, FALSE)
             /\ queue' = SubSeq(queue, 1, key.idx) \o opens \o <<"Key">>
                         \o SubSeq(queue, key.idx + 1, Len(queue)) \o Closed(l) \o <<"Value">>
             /\ UNCHANGED <<status, given>>

PlainValue(l) ==
    IF ~InFlow /\ LineAt(l).doc THEN Fail
    ELSE /\ levels' = IF InFlow THEN levels ELSE Rolled(Lv(l), l.col, FALSE)
         /\ Emit(Closed(l) \o (IF InFlow THEN <<>> ELSE RollToken(Lv(l), l.col, "BlockMap"))
                          \o <<"Value">>)
         /\ UNCHANGED <<status, given>>

IsValue(l) == l.cls = ":" \/ (InFlow /\ l.cls = ":x" /\ fl.json)

FetchValue(l) ==
    /\ IsValue(l) /\ Admits(l)
    /\ IF ~InFlow /\ KeyAt(l).fresh THEN ConfirmKey(l) ELSE PlainValue(l)
    /\ status' # "failed" =>
          /\ simpleKey' = IF InFlow THEN KeyAt(l) ELSE NoKey
          /\ line' = [LineAt(l) EXCEPT !.implicit = @ \/ (~InFlow /\ KeyAt(l).fresh)]
          /\ fl' = [FlAt EXCEPT !.needSep = FALSE, !.explicit = FALSE]
          /\ bk' = [BkAt(l) EXCEPT !.keyAllowed = TRUE, !.valuePending = @ \/ ~InFlow]
          /\ at' = Here(l.col)
          /\ UNCHANGED flow
-----------------------------------------------------------------------------
\* fetch_anchor and fetch_tag; an empty name or unterminated tag is an error.
FetchProperty(l) ==
    /\ l.cls \in {"&", "!"} /\ Admits(l)
    /\ \/ Fail
       \/ /\ ~(~InFlow /\ bk.valuePending /\ l.col <= Indent(Lv(l)))
          /\ simpleKey' = NoteKey(l) /\ levels' = Lv(l)
          /\ Emit(Closed(l) \o <<IF l.cls = "&" THEN "Anchor" ELSE "Tag">>)
          /\ line' = [LineAt(l) EXCEPT !.prop = @ \/ ~InFlow]
          /\ fl' = [FlAt EXCEPT !.seen = @ \/ InFlow]
          /\ bk' = [BkAt(l) EXCEPT !.keyAllowed = FALSE]
          /\ at' = Here(l.col)
          /\ UNCHANGED <<flow, status, given>>

FetchAlias(l) ==
    /\ l.cls = "*" /\ Admits(l)
    /\ \/ Fail
       \/ /\ simpleKey' = NoteKey(l) /\ levels' = Lv(l)
          /\ Emit(Closed(l) \o <<"Alias">>)
          /\ line' = [LineAt(l) EXCEPT !.pending = @ \/ InFlow]
          /\ fl' = [FlAt EXCEPT !.seen = @ \/ InFlow, !.needSep = @ \/ InFlow]
          /\ bk' = [BkAt(l) EXCEPT !.keyAllowed = FALSE]
          /\ at' = Here(l.col)
          /\ UNCHANGED <<flow, status, given>>
-----------------------------------------------------------------------------
(***************************************************************************)
(* Scalars.  A scalar read where a key is allowed and followed by a ':' is  *)
(* an implicit key: its mapping start, Key, Scalar and Value come out       *)
(* together.                                                                *)
(***************************************************************************)
KeyScalar(l) ==
    IF ~InFlow /\ (l.tab \/ LineAt(l).doc) THEN Fail
    ELSE /\ levels' = IF InFlow THEN levels ELSE Rolled(Lv(l), l.col, FALSE)
         /\ Emit(Closed(l) \o (IF InFlow THEN <<>> ELSE RollToken(Lv(l), l.col, "BlockMap"))
                          \o <<"Key", "Scalar", "Value">>)
         /\ fl' = [FlAt EXCEPT !.seen = @ \/ InFlow, !.needSep = FALSE]
         /\ bk' = [BkAt(l) EXCEPT !.keyAllowed = FALSE, !.valuePending = @ \/ ~InFlow]
         /\ at' = Here(l.col)
         /\ UNCHANGED <<flow, status, given>>

\* value_indicator_line, and the ghost mark of an implicit key's ':'.
Colon(ln) == IF InFlow THEN ln ELSE [ln EXCEPT !.colon = TRUE, !.implicit = TRUE]

ValueScalar(l, json) ==
    /\ levels' = Lv(l)
    /\ Emit(Closed(l) \o <<"Scalar">>)
    /\ fl' = [FlAt EXCEPT !.seen = @ \/ InFlow, !.needSep = @ \/ InFlow,
                         !.json = @ \/ (InFlow /\ json)]
    /\ UNCHANGED <<flow, status, given>>

\* The line flags once a scalar that may have crossed a break (brk) is read.
LineAfter(l, brk) == IF brk THEN BrokenLine(LineAt(l)) ELSE LineAt(l)
\* An explicit '?' flow key has emitted its Key already.
KeyPossible(l) == BkAt(l).keyAllowed /\ ~(InFlow /\ fl.explicit)

\* finish_quoted_scalar; "brk": the scalar spans lines, "colon": a ':' follows.
QuotedAs(l, brk, colon) ==
    LET ln == LineAfter(l, brk)
        key == IF brk /\ KeyAt(l) # NoKey THEN Stale(KeyAt(l)) ELSE KeyAt(l)
        here == IF brk THEN Indent(Lv(l)) ELSE l.col
    IN  IF KeyPossible(l) /\ colon
        THEN /\ ~brk \/ InFlow
             /\ KeyScalar(l)
             /\ status' # "failed" =>
                    /\ line' = Colon(ln)
                    /\ simpleKey' = key
        ELSE /\ ValueScalar(l, TRUE)
             /\ bk' = [BkAt(l) EXCEPT !.keyAllowed = FALSE]
             /\ line' = [ln EXCEPT !.pending = IF InFlow THEN ~brk ELSE @]
             /\ simpleKey' = key
             /\ at' = HereMay(here, IF colon THEN {":"}
                                    ELSE IF InFlow THEN Classes \ {":"} ELSE {":x"})
FetchQuoted(l) ==
    /\ l.cls = "quoted" /\ Admits(l)
    /\ Fail \/ \E brk, colon \in BOOLEAN : QuotedAs(l, brk, colon)

\* The lines of a block scalar are consumed whole, so a noted key is dropped.
FetchBlockScalar(l) ==
    /\ ~InFlow /\ l.cls = "blockscalar"
    /\ \/ Fail
       \/ /\ ValueScalar(l, FALSE)
          /\ bk' = [BkAt(l) EXCEPT !.keyAllowed = TRUE]
          /\ line' = LineAfter(l, TRUE)
          /\ simpleKey' = NoKey
          /\ at' = Folded(Classes, MaxCol)

IsPlain(l) ==
    \/ l.cls = "plain" \/ (l.cls = ":x" /\ ~IsValue(l))
    \/ InFlow /\ l.cls \in {"%", "blockscalar"}

\* Where scan_plain may stop after a value: in block context at a ':' or the
\* end of the line; folded, at a ':', '?', marker or dedent on a later line.
PlainStops(l, brk, colon) ==
    LET cap == IF KeyPossible(l) THEN l.col - 1 ELSE MaxCol
    IN  CASE InFlow /\ ~brk /\ colon -> {HereMay(l.col, {":"})}
          [] InFlow /\ ~brk /\ ~colon -> {HereMay(l.col, FlowIndicators)}
          [] InFlow /\ brk /\ colon -> {Folded({":"}, MaxCol)}
          [] InFlow /\ brk /\ ~colon -> {Folded(FlowIndicators \union {"?"}, MaxCol)}
          [] ~InFlow /\ ~brk -> {HereMay(l.col, IF colon THEN {":"} ELSE {})}
          [] ~InFlow /\ brk /\ colon -> {Folded({":"}, cap)}
          [] OTHER -> {Folded({"?", "---", "..."}, MaxCol),
                       Folded(Classes \ {":"}, Indent(Lv(l)))}

\* scan_plain and fetch_plain_scalar; "brk": the scalar swallowed its line
\* break, "colon": it stopped at a ':'.  A ':' further left on a later line
\* belongs to an outer level: the scalar is then a value, not a key.
PlainAs(l, brk, colon) ==
    LET ln == LineAfter(l, brk)
        key == IF ~brk \/ KeyAt(l) = NoKey THEN KeyAt(l)
               ELSE IF InFlow THEN Stale(KeyAt(l)) ELSE NoKey
    IN  \/ /\ brk /\ colon
           /\ IF InFlow THEN ~fl.explicit /\ (KeyPossible(l) => flow[Len(flow)] = "[")
              ELSE KeyPossible(l)
           /\ Fail
        \/ /\ colon /\ KeyPossible(l)
           /\ brk => InFlow /\ flow[Len(flow)] = "{"
           /\ KeyScalar(l)
           /\ status' # "failed" => /\ line' = Colon(ln)
                                    /\ simpleKey' = key
        \/ /\ colon /\ KeyPossible(l) => brk /\ ~InFlow
           /\ ~(brk /\ colon /\ InFlow /\ ~fl.explicit)
           /\ ValueScalar(l, FALSE)
           /\ bk' = [BkAt(l) EXCEPT !.keyAllowed = ~InFlow /\ brk]
           /\ line' = [ln EXCEPT !.pending = IF InFlow THEN ~brk ELSE @]
           /\ simpleKey' = key
           /\ at' \in PlainStops(l, brk, colon)
FetchPlain(l) ==
    /\ IsPlain(l) /\ Admits(l)
    /\ \E brk, colon \in BOOLEAN : PlainAs(l, brk, colon)
-----------------------------------------------------------------------------
\* Document markers and directives close every level.
FetchMarker(l, tok, may) ==
    /\ levels' = <<>>
    /\ Emit(Ends(levels, <<>>) \o <<tok>>)
    /\ line' = [LineAt(l) EXCEPT !.doc = @ \/ tok = "DocStart"]
    /\ bk' = [BkAt(l) EXCEPT !.keyAllowed = FALSE, !.directives = @ \/ tok = "DocEnd"]
    /\ simpleKey' = KeyAt(l)
    /\ at' = HereMay(l.col, may)
    /\ UNCHANGED <<flow, fl, status, given>>

FetchDocumentStart(l) == ~InFlow /\ l.cls = "---" /\ FetchMarker(l, "DocStart", Classes)
FetchDocumentEnd(l) ==
    ~InFlow /\ l.cls = "..." /\ (Fail \/ FetchMarker(l, "DocEnd", {}))
FetchDirective(l) ==
    /\ ~InFlow /\ l.cls = "%"
    /\ IF ~bk.directives THEN Fail ELSE FetchMarker(l, "Directive", {})

Fetch(l) ==
    \/ FetchEof(l) \/ FetchReject(l)
    \/ FetchFlowStart(l) \/ FetchFlowEnd(l) \/ FetchFlowEntry(l)
    \/ FetchBlockEntry(l) \/ FetchKey(l) \/ FetchValue(l)
    \/ FetchProperty(l) \/ FetchAlias(l)
    \/ FetchQuoted(l) \/ FetchBlockScalar(l) \/ FetchPlain(l)
    \/ FetchDocumentStart(l) \/ FetchDocumentEnd(l) \/ FetchDirective(l)

Next ==
    \/ Start \/ Deliver
    \/ Fetching /\ \E l \in Lexemes : Ahead(l) /\ Fetch(l)

Spec == Init /\ [][Next]_vars
-----------------------------------------------------------------------------
Levels == [col : Columns, seq : BOOLEAN]
Keys == [idx : Nat, col : Columns, tab : BOOLEAN, fresh : BOOLEAN]
Cursors == [col : Columns \union {-1}, folded : BOOLEAN, may : SUBSET Classes,
            cap : Columns \union {-1}]
Lines == [doc : BOOLEAN, colon : BOOLEAN, prop : BOOLEAN, pending : BOOLEAN,
          flowStart : BOOLEAN, implicit : BOOLEAN]
FlowFlags == [seen : BOOLEAN, needSep : BOOLEAN, explicit : BOOLEAN, json : BOOLEAN]
BlockFlags == [keyAllowed : BOOLEAN, valuePending : BOOLEAN, afterEntry : BOOLEAN,
               directives : BOOLEAN]

TypeOK ==
    /\ at \in Cursors
    /\ queue \in Seq(Tokens)
    /\ levels \in Seq(Levels)
    /\ flow \in Seq(FlowOpeners) /\ Len(flow) <= MaxFlowDepth
    /\ simpleKey \in Keys \union {NoKey}
    /\ line \in Lines /\ fl \in FlowFlags /\ bk \in BlockFlags
    /\ status \in {"new", "run", "ended", "failed"}
    /\ open \in Seq(Openers) /\ phase \in Phases

\* Each open level is deeper than the one around it, over every mix of
\* entries, late keys and unwinding: unwind_indents and roll_indent compare
\* with the top of the stack only and are right only under this order.
IndentsIncreasing ==
    \A i, j \in 1 .. Len(levels) : i < j => levels[i].col < levels[j].col

\* A pending key still points at the token that may become the key's node:
\* tokens.insert would panic past the end of the buffer, and an index off by
\* one would put the Key inside or after its own node.
KeyPointsAtNode ==
    simpleKey # NoKey =>
        /\ simpleKey.idx < Len(queue)
        /\ queue[simpleKey.idx + 1] \in {"Anchor", "Tag", "Alias", "FlowSeq", "FlowMap"}

\* The collections open in the tokens given and buffered are the scanner's own
\* stacks, late insertions included: no fetch opens or closes a level without
\* its token, or puts a token where the nesting does not match the stacks.
OfLevel(lv) == IF lv.seq THEN "BlockSeq" ELSE "BlockMap"
OfFlow(b) == IF b = "[" THEN "FlowSeq" ELSE "FlowMap"
NestingMatches ==
    status # "failed" =>
        AfterAll(open, queue) =
            [i \in 1 .. Len(levels) |-> OfLevel(levels[i])] \o
            [i \in 1 .. Len(flow) |-> OfFlow(flow[i])]

\* Block structure stands still while a flow collection is open: its lines are
\* measured against the indent of the level it opened in (flow_block_indent).
FlowFreezesLevels == [][InFlow => levels' = levels]_vars

\* The scanner implements the token stream the parser relies on.
TS == INSTANCE TokenStream
TokenStreamSpec == TS!Spec
=============================================================================

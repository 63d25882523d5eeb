------------------------------- MODULE Emitter -------------------------------
(***************************************************************************)
(* The writer of documents (src/roundtrip/emit.rs), for a tree that was     *)
(* loaded and edited, and for one that dumps(represent=...) built.          *)
(*                                                                          *)
(* A node is a YamlNode: its kind, a scalar's style and text, its tag and   *)
(* anchor, whether it is "synthetic" (built, not loaded), written with a    *)
(* '?' ("explicit"), a list on its parent's dash ("compact"); whether a     *)
(* comment trails it and then whether that comes before its value           *)
(* ("below", inline_before_value); the column of a list's dashes; where the *)
(* body of a block scalar stood when its source is kept ("raw", else 0).    *)
(* Comments on lines of their own, padding and blank lines are left out.    *)
(***************************************************************************)
EXTENDS TextBuffer

Node(kind) ==
    [kind |-> kind, style |-> "block", arg |-> "", tag |-> FALSE, anchor |-> FALSE,
     synthetic |-> FALSE, explicit |-> FALSE, compact |-> FALSE, comment |-> FALSE,
     below |-> FALSE, column |-> 0, raw |-> 0, kids |-> <<>>]
Scalar(style, arg) == [Node("scalar") EXCEPT !.style = style, !.arg = arg]

\* "d": DumpConfig and the null style: step, listStep (indent_sequences),
\* indentless, wrap, null, end.
Collections == {"sequence", "mapping"}
IsBlock(n) == n.kind \in Collections /\ n.style = "block" /\ n.kids # <<>>
Marked(n) == n.tag \/ n.anchor
\* Loaded, or a synthetic null of the empty style: nothing stands for it.
IsEmpty(n, d) ==
    n.kind = "null" /\ ~n.comment /\ (n.synthetic => d.null = "empty")

Marks(b, n) ==
    LET tagged == IF n.tag THEN PutScalar(b, "!", "custom", OneLine) ELSE b
    IN  IF n.anchor THEN PutScalar(tagged, "&", "a", OneLine) ELSE tagged
MarksLine(b, n) == IF Marked(n) THEN NewLine(Marks(b, n)) ELSE b
Trailing(b, n) == IF n.comment THEN Comment(b) ELSE b
-----------------------------------------------------------------------------
(***************************************************************************)
(* Scalars and flow collections.  "f": the flow depth is not zero; "key":   *)
(* emitting_key.                                                            *)
(***************************************************************************)
Wraps(d, key) == d.wrap /\ ~key
Quoted(b, arg, d, key) == PutQuoted(b, arg, arg \in {"spaced", "lines"} /\ Wraps(d, key))

\* emit_scalar.  Mutant: a plain comma inside a flow collection stays plain.
EmitPlain_InFlow(b, arg, d, f, key) == PutPlain(b, arg, f)
EmitPlain(b, arg, d, f, key) ==
    IF (f /\ arg = "comma") \/ (arg = "spaced" /\ Wraps(d, key)) THEN Quoted(b, arg, d, key)
    ELSE PutPlain(b, arg, f)

EmitScalar(b, n, indent, d, f, key) ==
    CASE n.raw > 0 -> PutBlockScalar(b, n.arg, n.raw)
      [] n.style = "plain" -> EmitPlain(b, n.arg, d, f, key)
      [] n.style = "quoted" -> Quoted(b, n.arg, d, key)
      [] OTHER -> IF f THEN PutScalar(b, "quoted", n.arg, OneLine) ELSE PutBlockScalar(b, n.arg, indent)

RECURSIVE Content(_, _, _, _, _, _)
HasComment(n) == n.comment
\* A separator, after which the width may break the line.
Separator(b, indent, d, key) ==
    IF Wraps(d, key) THEN WriteIndent(NewLine(Put(b, ",")), AtLeast(indent, 1)) ELSE Put(b, ",")
FlowEntry(b, n, i, indent, d, key) ==
    LET kid == n.kids[i]
    IN  IF n.kind = "sequence" THEN Content(Marks(b, kid), kid, indent, d, TRUE, key)
        ELSE LET keyed == Put(Content(Marks(b, kid[1]), kid[1], indent, d, TRUE, TRUE), ":")
             IN  Content(Marks(keyed, kid[2]), kid[2], indent, d, TRUE, key)
EntryValue(n, i) == IF n.kind = "sequence" THEN n.kids[i] ELSE n.kids[i][2]
EntryNodes(n, i) == IF n.kind = "sequence" THEN {n.kids[i]} ELSE {n.kids[i][1], n.kids[i][2]}

\* With comments, one entry to a line: each has a line to close.
FlowLines(b, n, indent, d, key) ==
    LET child == indent + d.step
        Line(buf, i) ==
            LET entry == FlowEntry(WriteIndent(buf, child), n, i, child, d, key)
            IN  NewLine(Trailing(IF i < Len(n.kids) THEN Put(entry, ",") ELSE entry, EntryValue(n, i)))
    IN  WriteIndent(FoldLeft(Line, NewLine(b), [i \in DOMAIN n.kids |-> i]), indent)
FlowLine(b, n, indent, d, key) ==
    LET Entry(buf, i) == FlowEntry(IF i > 1 THEN Separator(buf, indent, d, key) ELSE buf, n, i, indent, d, key)
    IN  FoldLeft(Entry, b, [i \in DOMAIN n.kids |-> i])
Flow(b, n, indent, d, key) ==
    LET open == Put(b, IF n.kind = "sequence" THEN "[" ELSE "{")
        commented == \E i \in DOMAIN n.kids : \E kid \in EntryNodes(n, i) : HasComment(kid)
        inside == IF commented THEN FlowLines(open, n, indent, d, key) ELSE FlowLine(open, n, indent, d, key)
    IN  Put(inside, IF n.kind = "sequence" THEN "]" ELSE "}")

\* emit_inline_content.
Content(b, n, indent, d, f, key) ==
    CASE n.kind = "null" -> PutScalar(b, "plain", "null", OneLine)
      [] n.kind = "alias" -> PutScalar(b, "*", "a", OneLine)
      [] n.kind = "scalar" -> EmitScalar(b, n, indent, d, f, key)
      [] OTHER -> Flow(b, n, indent, d, key)
-----------------------------------------------------------------------------
\* key_needs_explicit and synthetic_key_needs_explicit.
KeyNeedsExplicit(key) ==
    \/ key.explicit /\ key.kind \in {"scalar", "alias"}
    \/ IsBlock(key)
    \/ key.kind = "scalar" /\ key.style = "literal"
SyntheticKeyNeedsExplicit(key, first) == ~first /\ key.synthetic /\ Marked(key)

\* Mutants of the two choices of a list's column.
SequenceIndent_Loaded(n, indent, d) == IF n.column <= indent THEN indent ELSE indent + d.step
MarkedItemIndent_Compact(indent, d) == indent

\* A loaded list keeps its place: at its key's column, or a step further in.
SequenceIndent(n, indent, d) ==
    IF IF d.listStep THEN d.indentless /\ ~n.tag ELSE n.column <= indent
    THEN indent ELSE indent + d.step

RECURSIVE BlockMapping(_, _, _, _, _), BlockSequence(_, _, _, _, _)
\* A value on the line below its key or dash, which a comment has closed.
ValueBelow(b, n, indent, d) ==
    LET line == NewLine(Trailing(Marks(b, n), n))
    IN  EndLine(Content(WriteIndent(line, indent), n, indent, d, FALSE, FALSE))

\* A block scalar's comment goes on its header line, and only there.
ValueHere(b, n, indent, d) ==
    LET there == Content(Marks(b, n), n, indent, d, FALSE, FALSE)
    IN  EndLine(IF n.comment THEN [there EXCEPT !.out[Len(there.out)].closed = TRUE] ELSE there)

ValueAfterColon(b, n, indent, d) ==
    LET child == indent + d.step
        line == NewLine(Trailing(Marks(b, n), n))
    IN  CASE IsBlock(n) /\ n.kind = "mapping" -> BlockMapping(line, n.kids, child, FALSE, d)
          [] IsBlock(n) /\ n.kind = "sequence" -> BlockSequence(line, n.kids, SequenceIndent(n, indent, d), FALSE, d)
          [] IsEmpty(n, d) -> NewLine(Marks(b, n))
          [] n.below /\ ~IsBlock(n) /\ ~IsEmpty(n, d) -> ValueBelow(b, n, child, d)
          [] OTHER -> ValueHere(b, n, child, d)

\* emit_explicit_key_pair and the pair of an inline key.
BlockPair(b, key, val, indent, first, d) ==
    LET child == indent + d.step
        asked == Put(b, "?")
        line == NewLine(Marks(asked, key))
        keyed ==
            IF ~(KeyNeedsExplicit(key) \/ SyntheticKeyNeedsExplicit(key, first))
            THEN Content(Marks(b, key), key, indent, d, FALSE, TRUE)
            ELSE WriteIndent(
                   IF ~IsBlock(key) THEN EndLine(Content(Marks(asked, key), key, child, d, FALSE, TRUE))
                   ELSE IF key.kind = "mapping" THEN BlockMapping(line, key.kids, child, FALSE, d)
                   ELSE BlockSequence(line, key.kids, child, FALSE, d),
                   indent)
    IN  ValueAfterColon(Put(keyed, ":"), val, indent, d)

BlockMapping(b, pairs, indent, afterDash, d) ==
    LET Pair(buf, i) == BlockPair(IF i = 1 /\ afterDash THEN buf ELSE WriteIndent(buf, indent),
                                  pairs[i][1], pairs[i][2], indent, i = 1, d)
    IN  FoldLeft(Pair, b, [i \in DOMAIN pairs |-> i])

\* A mapping with a mark of its own breaks to a level of the configured step, a
\* list to the two columns of a dash.
MarkedItemIndent(indent, d) == indent + d.step
Item(b, n, indent, d) ==
    LET child == indent + 2
        dash == Put(b, "-")
        line == NewLine(Trailing(Marks(dash, n), n))
    IN  CASE IsEmpty(n, d) -> NewLine(Marks(dash, n))
          [] IsBlock(n) /\ n.kind = "mapping" ->
                IF Marked(n) THEN BlockMapping(line, n.kids, MarkedItemIndent(indent, d), FALSE, d)
                ELSE IF n.comment \/ n.below THEN BlockMapping(line, n.kids, child, FALSE, d)
                ELSE BlockMapping(dash, n.kids, child, TRUE, d)
          [] IsBlock(n) /\ n.kind = "sequence" ->
                IF ~Marked(n) /\ n.compact THEN BlockSequence(dash, n.kids, child, TRUE, d)
                ELSE BlockSequence(line, n.kids, child, FALSE, d)
          [] ~IsEmpty(n, d) /\ ~IsBlock(n) /\ n.below -> ValueBelow(dash, n, child, d)
          [] OTHER -> ValueHere(dash, n, child, d)
BlockSequence(b, items, indent, afterDash, d) ==
    LET At(buf, i) == Item(IF i = 1 /\ afterDash THEN buf ELSE WriteIndent(buf, indent), items[i], indent, d)
    IN  FoldLeft(At, b, [i \in DOMAIN items |-> i])

\* emit_document.  The body of a built, tagged collection stands under its tag.
EmitDocument(b, n, d) ==
    LET built == n.synthetic /\ n.tag
    IN  CASE IsBlock(n) /\ n.kind = "mapping" ->
                BlockMapping(MarksLine(b, n), n.kids, IF built THEN d.step ELSE 0, FALSE, d)
          [] IsBlock(n) /\ n.kind = "sequence" ->
                BlockSequence(MarksLine(b, n), n.kids, IF built /\ ~d.indentless THEN d.step ELSE 0, FALSE, d)
          [] n.kind = "null" /\ n.synthetic /\ n.tag /\ ~n.anchor /\ IsEmpty(n, d) -> MarksLine(b, n)
          [] OTHER -> ValueHere(b, n, d.step, d)

Emit(n, start, d) ==
    LET body == EmitDocument(IF start THEN NewLine(Put(Blank, "---")) ELSE Blank, n, d)
    IN  (IF d.end THEN NewLine(Put(body, "...")) ELSE body).out
=============================================================================

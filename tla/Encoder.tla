------------------------------- MODULE Encoder -------------------------------
(***************************************************************************)
(* The writer of dumps() (src/encode/mod.rs): where it breaks and indents   *)
(* lines, and what it quotes.                                               *)
(*                                                                          *)
(* A value is a record: "null", "sequence" (items), "mapping" (pairs),      *)
(* "tagged" (of), or a string by what matters for its form: a "word"; one   *)
(* with a space ("spaced") or a "comma" in it; one that must be "quoted";   *)
(* or several "lines" a literal block can hold.  Numbers and booleans are   *)
(* written as words are.  An emitter function takes the buffer and returns  *)
(* what has become of it.                                                   *)
(***************************************************************************)
EXTENDS TextBuffer

Null == [k |-> "null"]
Leaf(k) == [k |-> k]
Sequence(items) == [k |-> "sequence", items |-> items]
Mapping(pairs) == [k |-> "mapping", pairs |-> pairs]
Tagged(of) == [k |-> "tagged", of |-> of]
Strings == {"word", "spaced", "comma", "quoted", "lines"}

\* Options: step (spaces of a level), flow (flow_style), null (null_style),
\* indentless (indentless_sequences), wrap: the width is that of no line at all,
\* so that every line that may be broken is; start, end (the markers).
IsBlock(v, o) ==
    /\ ~o.flow
    /\ \/ v.k = "sequence" /\ v.items # <<>>
       \/ v.k = "mapping" /\ v.pairs # <<>>

\* What emit_string_inline quotes: what a reader would take for something else,
\* here or inside a flow collection, and what the width breaks (would_wrap).
\* Mutant: a comma in a flow collection is not looked at.
Wraps(o, inKey) == o.wrap /\ ~inKey
Quotes_NotInFlow(k, o, inFlow, inKey) ==
    k \in {"quoted", "lines"} \/ (k = "spaced" /\ Wraps(o, inKey))
Quotes(k, o, inFlow, inKey) ==
    \/ k \in {"quoted", "lines"}
    \/ k = "comma" /\ inFlow
    \/ k = "spaced" /\ Wraps(o, inKey)
PutString(b, k, o, inFlow, inKey) ==
    IF Quotes(k, o, inFlow, inKey)
    THEN PutQuoted(b, k, k \in {"spaced", "lines"} /\ Wraps(o, inKey))
    ELSE PutPlain(b, k, inFlow)

\* inline_token: an empty null would be ambiguous here.
InlineNull(b, o) == PutScalar(b, "plain", "null", OneLine)

FlowSeparator(b, indent, o, inKey) ==
    LET comma == Put(b, ",")
    IN  IF Wraps(o, inKey) THEN WriteIndent(NewLine(comma), indent) ELSE comma

RECURSIVE Inline(_, _, _, _, _)
FlowSequence(b, items, o, inKey) ==
    LET indent == CurrentLineIndent(Put(b, "[")) + o.step
        Item(buf, i) == Inline(IF i > 1 THEN FlowSeparator(buf, indent, o, inKey) ELSE buf,
                               items[i], o, TRUE, inKey)
    IN  Put(FoldLeft(Item, Put(b, "["), [i \in DOMAIN items |-> i]), "]")

FlowMapping(b, pairs, o, inKey) ==
    LET indent == CurrentLineIndent(Put(b, "{")) + o.step
        Pair(buf, i) ==
            LET at == IF i > 1 THEN FlowSeparator(buf, indent, o, inKey) ELSE buf
            IN  Inline(Put(Inline(at, pairs[i][1], o, TRUE, TRUE), ":"), pairs[i][2], o, TRUE, inKey)
    IN  Put(FoldLeft(Pair, Put(b, "{"), [i \in DOMAIN pairs |-> i]), "}")

\* emit_inline: a value on one line, but for what the width breaks.
Inline(b, v, o, inFlow, inKey) ==
    CASE v.k = "null" -> InlineNull(b, o)
      [] v.k \in Strings -> PutString(b, v.k, o, inFlow, inKey)
      [] v.k = "sequence" -> FlowSequence(b, v.items, o, inKey)
      [] v.k = "mapping" -> FlowMapping(b, v.pairs, o, inKey)
      [] v.k = "tagged" -> Inline(PutScalar(b, "!", "custom", OneLine), v.of, o, inFlow, inKey)

EmitKey(b, key, o) == Inline(b, key, o, FALSE, TRUE)

\* Mutants of a tagged sequence's column and of the explicit key.
TaggedSequenceIndent_AsUntagged(indent, o) == IF o.indentless THEN indent ELSE indent + o.step
KeyIsExplicit_Never(key, notFirst) == FALSE

SequenceIndent(indent, o) == IF o.indentless THEN indent ELSE indent + o.step
\* A tagged block sequence always indents under its tag.
TaggedSequenceIndent(indent, o) == indent + o.step
\* The tag of a later key would be read as the preceding value's.
KeyIsExplicit(key, notFirst) == notFirst /\ key.k = "tagged"

RECURSIVE ValueAfterColon(_, _, _, _), BlockSequence(_, _, _, _)
BlockPair(b, key, val, indent, notFirst, o) ==
    LET keyed == IF KeyIsExplicit(key, notFirst)
                 THEN WriteIndent(NewLine(EmitKey(Put(b, "?"), key, o)), indent)
                 ELSE EmitKey(b, key, o)
    IN  ValueAfterColon(Put(keyed, ":"), val, indent, o)

\* The first pair may share the line of a dash.
BlockMapping(b, pairs, indent, afterDash, o) ==
    LET Pair(buf, i) == BlockPair(IF i = 1 /\ afterDash THEN buf ELSE WriteIndent(buf, indent),
                                  pairs[i][1], pairs[i][2], indent, i > 1, o)
    IN  FoldLeft(Pair, b, [i \in DOMAIN pairs |-> i])

ValueAfterColon(b, v, indent, o) ==
    CASE v.k = "mapping" /\ IsBlock(v, o) -> BlockMapping(NewLine(b), v.pairs, indent + o.step, FALSE, o)
      [] v.k = "sequence" /\ IsBlock(v, o) -> BlockSequence(NewLine(b), v.items, SequenceIndent(indent, o), o)
      [] v.k = "lines" -> PutBlockScalar(b, "lines", indent + o.step)
      [] v.k = "null" /\ o.null = "empty" -> NewLine(b)
      [] v.k = "tagged" ->
            LET tag == PutScalar(b, "!", "custom", OneLine)
            IN  IF v.of.k = "sequence" /\ IsBlock(v.of, o)
                THEN BlockSequence(NewLine(tag), v.of.items, TaggedSequenceIndent(indent, o), o)
                ELSE ValueAfterColon(tag, v.of, indent, o)
      [] OTHER -> NewLine(Inline(b, v, o, FALSE, FALSE))

\* An item's content begins two columns past its dash.
Item(b, v, indent, o) ==
    LET child == indent + 2
        dash == Put(WriteIndent(b, indent), "-")
    IN  CASE v.k = "mapping" /\ IsBlock(v, o) -> BlockMapping(dash, v.pairs, child, TRUE, o)
          [] v.k = "sequence" /\ IsBlock(v, o) -> BlockSequence(NewLine(dash), v.items, child, o)
          [] v.k = "lines" -> PutBlockScalar(dash, "lines", child)
          [] v.k = "null" /\ o.null = "empty" -> NewLine(dash)
          [] v.k = "tagged" ->
                LET tag == PutScalar(dash, "!", "custom", OneLine)
                IN  IF v.of.k = "sequence" /\ IsBlock(v.of, o)
                    THEN BlockSequence(NewLine(tag), v.of.items, child, o)
                    ELSE ValueAfterColon(tag, v.of, indent, o)
          [] OTHER -> NewLine(Inline(dash, v, o, FALSE, FALSE))
BlockSequence(b, items, indent, o) ==
    FoldLeft(LAMBDA buf, item : Item(buf, item, indent, o), b, items)

EmitRoot(b, v, o) ==
    CASE v.k = "mapping" /\ IsBlock(v, o) -> BlockMapping(b, v.pairs, 0, FALSE, o)
      [] v.k = "sequence" /\ IsBlock(v, o) -> BlockSequence(b, v.items, 0, o)
      [] v.k = "lines" -> PutBlockScalar(b, "lines", o.step)
      [] v.k = "tagged" -> ValueAfterColon(PutScalar(b, "!", "custom", OneLine), v.of, 0, o)
      [] OTHER -> NewLine(Inline(b, v, o, FALSE, FALSE))

Encode(v, o) ==
    LET begun == IF o.start THEN NewLine(Put(Blank, "---")) ELSE Blank
        body == EmitRoot(begun, v, o)
    IN  (IF o.end THEN NewLine(Put(body, "...")) ELSE body).out
=============================================================================

----------------------------- MODULE TextBuffer ------------------------------
(***************************************************************************)
(* What a writer has written, as the lexemes the scanner will meet in it    *)
(* (see Scanner), and the column the next one will stand at.  A lexeme is   *)
(* two columns wide, which is what "- " and "? " are: the only ones another *)
(* lexeme of the same line is measured against.                             *)
(***************************************************************************)
EXTENDS Integers, SequencesExt

\* "col": the column reached on the last line; "fresh": nothing but spaces is
\* on it; "margin": its leading spaces.
Blank == [out |-> <<>>, col |-> 0, fresh |-> TRUE, margin |-> 0]

\* No line of this scalar follows its first.
OneLine == 99

\* "arg": which scalar it is, or what property; "cont": where the further lines
\* of a scalar begin; "closed": a comment ends its line.
Lexeme(b, cls, arg, cont) ==
    [cls |-> cls, nl |-> b.fresh, tab |-> FALSE, col |-> b.col, arg |-> arg, cont |-> cont,
     closed |-> FALSE]
PutScalar(b, cls, arg, cont) ==
    [out |-> Append(b.out, Lexeme(b, cls, arg, cont)), col |-> b.col + 2, fresh |-> FALSE,
     margin |-> IF b.fresh THEN b.col ELSE b.margin]
Put(b, cls) == PutScalar(b, cls, "", OneLine)

NewLine(b) == [b EXCEPT !.col = 0, !.fresh = TRUE]
\* end_line: the line is ended unless a block scalar has ended it.
EndLine(b) == IF b.fresh THEN b ELSE NewLine(b)
WriteIndent(b, indent) == [b EXCEPT !.col = @ + indent]
\* A comment up to the end of the line.
Comment(b) == [b EXCEPT !.out[Len(b.out)].closed = TRUE]

\* current_column and current_line_indent.
CurrentColumn(b) == b.col
CurrentLineIndent(b) == IF b.fresh THEN b.col ELSE b.margin
AtLeast(n, m) == IF n < m THEN m ELSE n

\* The characters of a plain scalar: with a comma in it, it is two scalars to
\* whoever reads it inside a flow collection.
PutPlain(b, arg, inFlow) ==
    IF arg = "comma" /\ inFlow
    THEN PutScalar(Put(PutScalar(b, "plain", "word", OneLine), ","), "plain", "word", OneLine)
    ELSE PutScalar(b, "plain", arg, OneLine)

\* A quoted scalar, whose spaces may have become line breaks.
PutQuoted(b, arg, folded) ==
    PutScalar(b, "quoted", arg, IF folded THEN AtLeast(CurrentColumn(b), 1) ELSE OneLine)

\* push_block_scalar: its body stands at a column of its own, and it ends its line.
PutBlockScalar(b, arg, bodyIndent) == NewLine(PutScalar(b, "blockscalar", arg, bodyIndent))
=============================================================================

------------------------------- MODULE Tokens --------------------------------
(***************************************************************************)
(* The token kinds of src/scanner/token.rs and the nesting they spell.      *)
(* Key is split by its "explicit" flag; scalar text, anchor names and tags  *)
(* are left out.                                                            *)
(***************************************************************************)
EXTENDS Sequences, Integers

BlockOpeners == {"BlockMap", "BlockSeq"}
FlowOpenings == {"FlowMap", "FlowSeq"}
Openers == BlockOpeners \union FlowOpenings
Closers == {"BlockEnd", "FlowMapEnd", "FlowSeqEnd"}
\* Tokens that stand between documents.
Boundaries == {"StreamStart", "StreamEnd", "DocStart", "DocEnd", "Directive"}
\* Tokens a node can begin with.
NodeStarts == Openers \union {"Scalar", "Alias", "Anchor", "Tag"}
Tokens == Openers \union Closers \union Boundaries \union NodeStarts \union
          {"Entry", "FlowEntry", "Key", "KeyExplicit", "Value"}

Innermost(stack) == IF stack = <<>> THEN "none" ELSE stack[Len(stack)]

\* The one opener each closing token may follow.
Closes(t, opener) ==
    CASE t = "BlockEnd" -> opener \in BlockOpeners
      [] t = "FlowMapEnd" -> opener = "FlowMap"
      [] t = "FlowSeqEnd" -> opener = "FlowSeq"
      [] OTHER -> FALSE

\* The collections open after token t, when those of stack were open before.
After(stack, t) ==
    CASE t \in Openers -> Append(stack, t)
      [] t \in Closers -> SubSeq(stack, 1, Len(stack) - 1)
      [] OTHER -> stack

\* The same after all of toks.
AfterAll(stack, toks) ==
    LET after[i \in 0 .. Len(toks)] == IF i = 0 THEN stack ELSE After(after[i - 1], toks[i])
    IN  after[Len(toks)]

\* Where in the stream a token leaves the reader.  A token that may stand in one
\* place only leaves it in a phase of its own.
Phases == {"none", "prologue", "directives", "start", "entry", "flow entry", "value", "document", "done"}
PhaseAfter(t) ==
    CASE t \in {"StreamStart", "DocEnd"} -> "prologue"
      [] t = "Directive" -> "directives"
      [] t = "DocStart" -> "start"
      [] t = "Entry" -> "entry"
      [] t = "FlowEntry" -> "flow entry"
      [] t = "Value" -> "value"
      [] t = "StreamEnd" -> "done"
      [] OTHER -> "document"
=============================================================================

----------------------------- MODULE TokenStream -----------------------------
(***************************************************************************)
(* What the scanner promises its only reader, the parser: a token stream    *)
(* whose brackets match, whose entries stand in a collection of their kind, *)
(* whose document tokens stand outside every collection, and in which a     *)
(* directive comes only before a document.  The parser turns each token     *)
(* into one event, so the decoder and the composer rely on the same.        *)
(***************************************************************************)
EXTENDS Tokens

VARIABLES
    open,   \* the collections open in the tokens given, innermost last
    phase   \* where in the stream they end

Init == open = <<>> /\ phase = "none"

Allowed(t) ==
    /\ phase # "done"
    /\ phase = "none" <=> t = "StreamStart"
    /\ t \in Closers => Closes(t, Innermost(open))
    /\ t \in Boundaries => open = <<>>
    /\ t = "Directive" => phase \in {"prologue", "directives"}
    /\ t \in BlockOpeners => Innermost(open) \notin FlowOpenings
    /\ t = "Entry" => Innermost(open) \in BlockOpeners
    /\ t = "FlowEntry" => Innermost(open) \in FlowOpenings
    /\ t = "Value" => open # <<>>

Give(t) == Allowed(t) /\ open' = After(open, t) /\ phase' = PhaseAfter(t)

Next == \E t \in Tokens : Give(t)
Spec == Init /\ [][Next]_<<open, phase>>
=============================================================================

-------------------------- MODULE MCMathPlayground --------------------------
(***************************************************************************)
(* MathPlayground for TLC: the text of the page, an empty one, a mixed one *)
(* with a nested bracket and an unclosed wrapper, and one that is an empty *)
(* segment.                                                                *)
(***************************************************************************)
EXTENDS MathPlayground

SomeTokens == Opening \cup {"]", "x", "y", "z"}
Plain == [size |-> "edge", tokens |-> <<"x">>]
Nothing == [size |-> "empty", tokens |-> <<>>]
Mixed == [size |-> "long", tokens |-> <<"stem:[", "stem:[", "[", "y", "]", "]", "latexmath:[", "z", "]">>]
Hollow == [size |-> "short", tokens |-> <<"stem:[", "]">>]

SomeTexts == {Plain, Nothing, Mixed, Hollow}
=============================================================================

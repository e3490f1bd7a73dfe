--------------------------- MODULE MCDescriptions ---------------------------
(***************************************************************************)
(* Descriptions for TLC: schema s1 in a, whose word E is bound to the E of *)
(* schema s2 in b.  Texts with and without remarks take turns; b at times  *)
(* describes an E of its own, at times one of s1.                          *)
(***************************************************************************)
EXTENDS Descriptions, TLC

CONSTANTS a, b, h1, h2

Pair == <<a, b>>
InA == <<"s1", "E">>
InB == <<"s2", "E">>
NoteOfA == <<"s1", "E", "__note">>

PairTags ==
    (a :> << <<>>, <<NoteOfA>> >>) @@
    (b :> << <<InA>>, <<InB, InA>> >>)

PairBound == (a :> <<InB>>) @@ (b :> <<InB>>)

SomePaths == {InA}

Symmetry == Permutations({h1, h2})
=============================================================================

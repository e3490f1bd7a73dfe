------------------------- MODULE MCDocumentBuilder -------------------------
(***************************************************************************)
(* DocumentBuilder for TLC: two schemas in files of their own that refer   *)
(* to each other, and a third file, in the runs that have one, which the   *)
(* configuration excludes and the first one refers to.                     *)
(***************************************************************************)
EXTENDS DocumentBuilder, TLC

CONSTANTS a, b, x

Pair == {a, b}
PairRefs == (a :> {b}) @@ (b :> {a})

WithExcluded == {a, b, x}
WithExcludedRefs == (a :> {b, x}) @@ (b :> {a}) @@ (x :> {})
=============================================================================

--------------------------- MODULE RenderService ---------------------------
(***************************************************************************)
(* What the rest of the extension is promised by the math renderer: a      *)
(* request that was asked is answered exactly once, with one of Outcomes,  *)
(* and no request is answered before it was asked.  One step may answer    *)
(* several requests, because the pool fails requests in groups.            *)
(***************************************************************************)
EXTENDS Sequences

CONSTANTS Requests, Outcomes

VARIABLES asked, answer

serviceVars == <<asked, answer>>

Init ==
    /\ asked = {}
    /\ answer = [r \in Requests |-> <<>>]

Ask(r) ==
    /\ r \notin asked
    /\ asked' = asked \cup {r}
    /\ UNCHANGED answer

Answer(S, o) ==
    /\ S # {}
    /\ \A r \in S : r \in asked /\ answer[r] = <<>>
    /\ answer' = [r \in Requests |-> IF r \in S THEN <<o>> ELSE answer[r]]
    /\ UNCHANGED asked

Next ==
    \/ \E r \in Requests : Ask(r)
    \/ \E S \in SUBSET Requests, o \in Outcomes : Answer(S, o)

Spec == Init /\ [][Next]_serviceVars
=============================================================================

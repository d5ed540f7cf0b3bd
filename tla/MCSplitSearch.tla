---------------------------- MODULE MCSplitSearch ----------------------------
(* Two root moves; below the first a splitting node with a splitting node     *)
(* under its second move.                                                     *)
EXTENDS SplitSearch

MCKids ==
    [r0 |-> <<"A">>, A |-> <<"a1", "a2", "a3">>, a1 |-> <<>>, a2 |-> <<"B">>, a3 |-> <<>>,
     B |-> <<"b1", "b2">>, b1 |-> <<>>, b2 |-> <<>>, r1 |-> <<>>]
MCRootNode == [i \in 0 .. 1 |-> IF i = 0 THEN "r1" ELSE "r0"]
MCOrNodes == {"A", "B"}
MCLeaf(first, third, deep) ==
    [r1 |-> first, a1 |-> "refuted", a3 |-> third, b1 |-> "refuted", b2 |-> deep]
MCLeafCases == {MCLeaf("failed", "mate", "refuted"), MCLeaf("failed", "refuted", "refuted"),
                MCLeaf("failed", "failed", "proved"), MCLeaf("proved", "refuted", "refuted")}
MCMaySplit == {"A", "B"}
=============================================================================

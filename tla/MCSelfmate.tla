----------------------------- MODULE MCSelfmate ------------------------------
(* Every game on three attacker and two defender positions whose root has two *)
(* moves, up to the names of the others, and those on four and three in which  *)
(* a selfmate in two may stand beside moves that fail at once, for good or not. *)
(* The truth is computed level by level, and Truth holds of what comes out.     *)
EXTENDS SelfmateProver

CONSTANTS p1, p2, p3, p4, q1, q2, q3

MCAll(first, second, third) ==
    [n \in {p1, p2, p3, p4} |-> CASE n = p1 -> first [] n = p2 -> second [] n = p3 -> third
                                  [] n = p4 -> {}]
MCMoves ==
    {m \in {MCAll({q1, q2}, b, c) : b, c \in SUBSET {q1, q2}} :
        Cardinality(m[p2]) <= Cardinality(m[p3])}
MCReplies ==
    {r \in [{q1, q2, q3} -> SUBSET {p1, p2, p3}] :
        r[q3] = {} /\ Cardinality(r[q1]) <= Cardinality(r[q2])}
MCSmall ==
    UNION {{[moves |-> m, replies |-> r, mated |-> g] :
              r \in MCReplies, g \in SUBSET {n \in {p1, p2, p3} : m[n] = {}}} : m \in MCMoves}
MCLarge ==
    {[moves |-> MCAll({q1, q2}, {}, c), replies |-> r, mated |-> {p4}] :
        c \in {{q3}, {q2, q3}},
        r \in {r \in [{q1, q2, q3} -> SUBSET {p2, p3, p4} \ {{}}] : r[q3] = {p4}}}
MCGames == MCSmall \cup MCLarge

\* The program's default, and sets whose behaviours include the default's: there
\* may be no lone king, and the perpetual rule may miss.
MCDefault  == {{"attacker_reject"}}
MCSettings == {{"attacker_reject", "any_depth_refutations"},
               {"selfmate_bound"}, {"selfmate_node_exit"}}

WonWithin ==
    LET won[n \in 0 .. MaxDepth] ==
          mated \cup
          IF n = 0 THEN {}
          ELSE LET forced == {d \in Defenders : /\ replies[d] # {}
                                                /\ replies[d] \subseteq won[n - 1]}
               IN  {p \in Attackers : moves[p] \cap forced # {}}
    IN  won

Length(won, node) ==
    LET levels == IF node \in Attackers
                  THEN {n \in 0 .. MaxDepth : node \in won[n]}
                  ELSE {n \in Depths : replies[node] # {} /\ replies[node] \subseteq won[n - 1]}
    IN  IF levels = {} THEN Never ELSE CHOOSE n \in levels : \A k \in levels : n <= k

MCInit ==
    /\ options \in Settings
    /\ \E g \in Games : moves = g.moves /\ replies = g.replies /\ mated = g.mated
    /\ LET won == WonWithin IN dist = [n \in Nodes |-> Length(won, n)]
    /\ Truth
    /\ Seen
    /\ Play

MCSpec == MCInit /\ [][Next]_vars
=============================================================================

------------------------------- MODULE MCDfpn --------------------------------
(* Mates and selfmates in three on three attacker and three defender positions *)
(* that transpose; a table with room for all of it, and one too small.         *)
EXTENDS Dfpn

CONSTANTS p1, p2, p3, q1, q2, q3

MCGame(aim, opts, room, second, first, third, ended) ==
    [goal |-> aim, options |-> opts, capacity |-> room,
     moves |-> [n \in {p1, p2, p3} |-> CASE n = p1 -> <<q1, q2>> [] n = p2 -> second [] n = p3 -> <<>>],
     replies |-> [n \in {q1, q2, q3} |-> CASE n = q1 -> first [] n = q2 -> third [] n = q3 -> <<>>],
     ends |-> ended]

MCOptions == {{}, {"faults"}, {"bias", "epsilon"}, {"child_init", "epsilon", "clear"}}
MCSeconds == {<<>>, <<q3>>, <<q2>>, <<q1, q3>>, <<q2, q1>>}
MCReplies == {<<>>, <<p2>>, <<p1, p2>>, <<p2, p1, p3>>}
MCThirds  == {<<>>, <<p2>>, <<p2, p1, p3>>}

MCCases ==
    {MCGame("mate", o, room, s, f, t, {q3}) :
        o \in MCOptions, room \in {5, 24}, s \in MCSeconds, f \in MCReplies, t \in MCThirds}
    \cup {MCGame("self", o, room, s, f, t, e) :
        o \in {{}, {"faults"}}, room \in {5, 24}, s \in MCSeconds, f \in MCThirds, t \in MCThirds,
        e \in {{p3}}}
    \cup {MCGame("self", o, 24, <<>>, f, t, {p2, p3}) : o \in {{}, {"faults"}}, f \in MCReplies, t \in MCThirds}
=============================================================================

------------------------------- MODULE MCHelp --------------------------------
(* Five positions.  Two moves at the root, whose successors share positions; *)
(* lines of two and of four plies, some of them through a cycle.             *)
EXTENDS HelpSearch

CONSTANTS a, b, c, d, e, w1, w2

MCGame(fromB, fromC, fromD, ends, inCheck) ==
    [moves  |-> [p \in {a, b, c, d, e} |->
                    CASE p = a -> <<b, c>> [] p = b -> fromB [] p = c -> fromC
                      [] p = d -> fromD [] p = e -> <<>>],
     goals  |-> ends, checks |-> inCheck]

\* Mate in four plies through either move, in two, in none, and by transposition.
MCGames ==
    {MCGame(<<d>>, fromC, fromD, {e}, checking) :
        fromC \in {<<>>, <<d>>, <<e, d>>, <<d, b>>},
        fromD \in {<<>>, <<b, e>>, <<c>>, <<a, c>>},
        checking \in {{e}, {b, e}}}

MCWith(opts, games) ==
    {[options |-> opts, moves |-> g.moves, goals |-> g.goals, checks |-> g.checks] : g \in games}

\* Several tasks of the split solved, the last one only, and none.
MCSplitGames ==
    {MCGame(<<d>>, <<d, e>>, <<b, c>>, {e}, {e}), MCGame(<<d, c>>, <<e, b>>, <<b>>, {e}, {e}),
     MCGame(<<c>>, <<b, d>>, <<a, c>>, {e}, {e}), MCGame(<<d>>, <<d, b>>, <<a, b>>, {}, {}),
     MCGame(<<>>, <<>>, <<a>>, {e}, {e})}

MCCases ==
    UNION {MCWith(o, MCGames) :
              o \in {{}, {"direct_depth", "help_bound"}, {"last_ply"}, {"sheds"}, {"all"},
                     {"all", "last_ply"}}}
    \cup UNION {MCWith(o, MCSplitGames) :
              o \in {{"threads", "shared_tt", "direct_depth"}, {"threads", "last_ply", "help_bound"}}}
=============================================================================

----------------------------- MODULE MCService -------------------------------
(* Sessions of up to six commands, polite and not, and files of up to four   *)
(* lines solved by one, two or three threads.                                *)
EXTENDS Service

CONSTANTS start, short, long, garbage

MCMateIn == [n \in {start, short, long, garbage} |-> CASE n = short -> 1 [] n = long -> 3 [] OTHER -> 0]
MCAfter  == [n \in {start, short, long, garbage} |-> IF n = start THEN long ELSE n]

MCOp(o)       == [op |-> o]
MCPos(n, how) == [op |-> "position", pos |-> n, moves |-> how]
MCGo(limited) == [op |-> "go", budget |-> limited]
MCEpd(n)      == [op |-> "epd", pos |-> n]
MCSet(v)      == [op |-> "setoption", value |-> v]

MCConfig(portfolio, direct, budget, parallel) ==
    [portfolio |-> portfolio, direct |-> direct, budget |-> budget, parallel |-> parallel]

MCSessions ==
    {<<MCOp("uci"), MCPos(n, how), MCGo(l), MCOp("stop"), MCGo(m), MCOp("quit")>> :
        n \in {short, long, garbage}, how \in {"none", "legal", "illegal"}, l \in BOOLEAN, m \in BOOLEAN}
    \cup {<<MCGo(l), MCPos(n, "legal"), MCSet(v), MCGo(TRUE), MCOp("isready"), MCOp("stop")>> :
        n \in {start, long}, l \in BOOLEAN, v \in BOOLEAN}
    \cup {<<MCGo(l), MCOp("unknown"), MCOp("stop"), MCPos(short, "none"), MCGo(FALSE)>> : l \in BOOLEAN}

MCFiles ==
    {<<MCEpd(n), MCOp(o), MCEpd(t), MCEpd(long)>> :
        n \in {short, garbage}, o \in {"comment", "blank"}, t \in {start, garbage}}
    \cup {<<MCOp(o), MCEpd(short), MCEpd(long), MCEpd(start)>> : o \in {"comment", "blank"}}

MCInputs ==
    {[lines |-> l, forced |-> f, polite |-> w, config |-> MCConfig(TRUE, d, FALSE, 1)] :
        l \in MCSessions, f \in BOOLEAN, w \in BOOLEAN, d \in BOOLEAN}
    \cup {[lines |-> l, forced |-> FALSE, polite |-> FALSE, config |-> MCConfig(TRUE, FALSE, t, n)] :
        l \in MCFiles, t \in BOOLEAN, n \in {1, 2}}
    \cup {[lines |-> <<MCEpd(long), MCEpd(short), MCEpd(start)>>, forced |-> FALSE, polite |-> FALSE,
           config |-> MCConfig(FALSE, FALSE, FALSE, 3)]}

\* A session that is not forced opens with "uci".
MCRuns == {c \in MCInputs : c.forced \/ c.lines[1].op \notin {"go"}}
=============================================================================

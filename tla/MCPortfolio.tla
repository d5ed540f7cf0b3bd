---------------------------- MODULE MCPortfolio ------------------------------
(* Three lanes with every truth and every fault; the full portfolios with many *)
(* thread counts and budgets on a position without a mate.                     *)
EXTENDS Portfolio

MCConfig ==
    [goal |-> "mate", all |-> FALSE, portfolio |-> TRUE, budget |-> TRUE, quota |-> FALSE, cap |-> 0,
     threads |-> 1, routeThreads |-> 0, memory |-> 256, total |-> FALSE, workers |-> 1, direct |-> FALSE,
     refutations |-> FALSE]

MCJob(c, s, h, k, f) == [config |-> c, shortest |-> s, hopeless |-> h, keys |-> k, faults |-> f]

MCRaces ==
    {MCJob([MCConfig EXCEPT !.goal = goal, !.cap = 3, !.threads = threads, !.direct = direct], s, FALSE,
           {}, {"limits", "refused"}) :
        goal \in {"mate", "stalemate"}, threads \in {1, 8}, direct \in BOOLEAN, s \in 1 .. Never}
MCHopeless ==
    {MCJob([MCConfig EXCEPT !.goal = goal, !.cap = 3, !.refutations = TRUE], Never, h, {}, f) :
        goal \in {"mate", "stalemate", "self"}, h \in BOOLEAN, f \in {{}, {"limits"}}}
MCSingle ==
    {MCJob([MCConfig EXCEPT !.goal = g[1], !.portfolio = g[2], !.budget = g[3]], s, FALSE, {}, f) :
        g \in {<<"mate", FALSE, TRUE>>, <<"mate", TRUE, FALSE>>, <<"help", TRUE, TRUE>>},
        s \in 1 .. Never, f \in {{}, {"limits"}}}
MCRoots ==
    {MCJob([MCConfig EXCEPT !.all = TRUE], IF k = {} THEN Never ELSE MaxDepth, FALSE, k, f) :
        k \in SUBSET (1 .. RootMoves), f \in {{}, {"limits"}}}
MCPlans ==
    {MCJob([MCConfig EXCEPT !.goal = goal, !.quota = quota, !.cap = cap, !.threads = threads,
                            !.routeThreads = route, !.memory = memory, !.total = memory # 256,
                            !.workers = workers], Never, FALSE, {}, {}) :
        goal \in {"mate", "stalemate"}, quota \in {FALSE, TRUE}, cap \in {0, 1, 2, 5},
        threads \in {1, 10, 32}, route \in {0, 4}, memory \in {0, 8, 70, 256, 600, 1024},
        workers \in {1, 4}}
MCSomePlans ==
    {p \in MCPlans :
        /\ p.config.quota => p.config.goal = "mate"
        /\ p.config.routeThreads > 0 => p.config.goal # "mate" /\ p.config.cap = 2
        /\ p.config.cap = 0 => p.config.threads = 32 /\ p.config.memory \in {70, 600}
        /\ p.config.workers = 4 => p.config.memory = 600}

MCCases == MCRaces \cup MCHopeless \cup MCSingle \cup MCRoots \cup MCSomePlans
=============================================================================

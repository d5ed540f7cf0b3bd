----------------------------- MODULE Portfolio -------------------------------
(***************************************************************************)
(* solve_line: one position solved by a portfolio of lanes that run at the  *)
(* same time, each a route under a restriction of the attacker's moves, by  *)
(* a single unrestricted lane, or by trying every root move                 *)
(* (--all-solutions), and what the result line says of it.                  *)
(*                                                                          *)
(* First comes the plan: which lanes run, with how many threads and how     *)
(* much memory.  A lane is seen through the promise of its route: depth     *)
(* after depth, a proof, a failure, or an abandoned search.  What a         *)
(* restricted lane finds is left open: any true proof, or nothing.          *)
(* Doubles are thousandths; --lane0-weight, the variants decided at the     *)
(* root, the successor mode and the text of the line are left out, and so   *)
(* is the sequential portfolio, which no option reaches.                    *)
(***************************************************************************)
EXTENDS Naturals, Sequences, FiniteSets, FiniteSetsExt, SequencesExt

CONSTANTS
    MaxDepth,       \* the depth of the job
    RootMoves,      \* 1 .. RootMoves are the moves of the root, in order
    Cases           \* [config, shortest, hopeless, keys, faults]: the jobs

ASSUME PortfolioAssumption == MaxDepth \in Nat \ {0} /\ RootMoves \in Nat

\* A job that is hopeless has no mate, and one that enumerates the root moves has
\* none exactly if there are no keys.
ASSUME CasesAssumption ==
    \A c \in Cases :
        /\ c.shortest \in 1 .. MaxDepth + 1 /\ c.keys \subseteq 1 .. RootMoves
        /\ c.hopeless => c.shortest = MaxDepth + 1
        /\ c.config.all => (c.keys = {} <=> c.shortest = MaxDepth + 1)
        /\ c.config.cap \in Nat

VARIABLES
    config,         \* SearchConfig: goal, all, portfolio, budget (a time or node limit), quota, cap,
                    \*   threads, routeThreads, memory, total, workers, direct, refutations
    shortest,       \* the length of the shortest mate, Never if there is none so short
    hopeless,       \* there is none at any depth, and the axioms show it
    keys,           \* the root moves that mate within MaxDepth
    faults,         \* subset of {"limits", "refused"}: what may go wrong
    phase,          \* "plan" | "lanes" | "roots" | "done"
    plan,           \* [entries, threads, memory] of the lanes
    lane,           \* what each lane is doing
    cancel,         \* the cancellation flag of each lane
    proved,         \* the depth each accepted lane proved, 0 if none
    winner, told,   \* the first lane to prove, and how many lanes it has told
    bounds,         \* the bounds published: [depth, cancelled]
    root, found, limited,          \* the enumeration of the root moves
    line            \* the result line

job    == <<config, shortest, hopeless, keys, faults>>
judged == <<proved, winner, told>>
roots  == <<root, found, limited>>
vars   == <<job, phase, plan, lane, cancel, judged, bounds, roots, line>>

Never == MaxDepth + 1

-----------------------------------------------------------------------------
(* The plan. *)

PortfolioEntry(name, restricts, weight, route) ==
    [name |-> name, restricts |-> restricts, weight |-> weight, route |-> route]

Unrestricted == PortfolioEntry("unrestricted", FALSE, 300, "dfpn")

Restricted(name, weight) == PortfolioEntry(name, TRUE, weight, "dfpn")

restriction_portfolio ==
    <<Unrestricted, Restricted("K2", 212), Restricted("K3", 212), Restricted("X2", 81),
      Restricted("R2", 65), Restricted("C4", 49), Restricted("R1", 41), Restricted("Rq2", 41)>>

capture_portfolio ==
    <<Unrestricted, Restricted("cap-or-check", 180), Restricted("cap-only", 130),
      Restricted("cap-or-check-K3", 100), Restricted("K2", 100), Restricted("K3", 80),
      Restricted("cap-or-check-X2", 60), Restricted("X2", 50)>>

with_route ==
    Append(restriction_portfolio, PortfolioEntry("depth-first", FALSE, 100, "depth-first"))

all_entries ==
    IF config.goal # "mate" THEN with_route
    ELSE IF config.quota THEN capture_portfolio ELSE restriction_portfolio

\* The entries of another route: a cap on a goal other than mate keeps them first.
Foreign ==
    {i \in 2 .. Len(all_entries) : config.goal # "mate" /\ all_entries[i].route # "dfpn"}

\* Lane 0 comes first, then the lanes of another route, then the restrictions.
Place(i) ==
    IF i = 1 THEN 1
    ELSE IF i \in Foreign THEN 1 + Cardinality((2 .. i) \cap Foreign)
    ELSE 1 + Cardinality(Foreign) + Cardinality((2 .. i) \ Foreign)

Capped ==
    IF config.cap = 0 \/ config.cap >= Len(all_entries) THEN all_entries
    ELSE [n \in 1 .. config.cap |->
            all_entries[CHOOSE i \in 1 .. Len(all_entries) : Place(i) = n]]

AtMost(x, y) == IF x < y THEN x ELSE y
AtLeast(x, y) == IF x > y THEN x ELSE y
Monus(x, y) == IF x > y THEN x - y ELSE 0

\* Every lane has a thread; the spare ones follow the weights on a directmate,
\* and go to the lanes of another route on the other goals.
Threads(entries) ==
    LET lanes     == Len(entries)
        total     == AtLeast(1, config.threads)
        splitters == Cardinality({i \in 1 .. lanes : entries[i].route # "dfpn"})
        share     == IF splitters = 0 THEN 0
                     ELSE AtMost(AtLeast(1, config.routeThreads), Monus(total, lanes) \div splitters)
        wanted(e) == IF config.goal = "mate" THEN Monus((total * e.weight) \div 1000, 1)
                     ELSE IF e.route # "dfpn" THEN share ELSE 0
        assigned[i \in 0 .. lanes] ==
            IF i = 0 THEN lanes
            ELSE assigned[i - 1] + AtMost(wanted(entries[i]), Monus(total, assigned[i - 1]))
    IN  [i \in 1 .. lanes |-> 1 + assigned[i] - assigned[i - 1]]

kMinLaneMb == 64

MemoryShare(consumers) ==
    IF config.memory = 0 \/ ~config.total THEN config.memory
    ELSE AtLeast(1, config.memory \div (AtLeast(1, config.workers) * consumers))

PerWorker == AtLeast(1, config.memory \div AtLeast(1, config.workers))

\* An explicit total is divided; where an equal share would starve them, the
\* unrestricted lanes have the floor and the others what is left.
Memory(entries) ==
    LET lanes   == Len(entries)
        open    == Cardinality({i \in 1 .. lanes : ~entries[i].restricts})
        floored == open * kMinLaneMb
        floors  == /\ config.memory # 0 /\ config.total
                   /\ open < lanes /\ floored < PerWorker /\ kMinLaneMb > PerWorker \div lanes
    IN  [i \in 1 .. lanes |->
            CASE ~floors -> MemoryShare(lanes)
              [] floors /\ entries[i].restricts ->
                    AtLeast(1, (PerWorker - floored) \div (lanes - open))
              [] OTHER -> kMinLaneMb]

kHelpMemoryLanes == 9

\* A single lane has the share of one, or of a whole portfolio on the cooperative goals.
AloneMemory ==
    IF config.goal = "help" /\ ~config.total THEN config.memory * kHelpMemoryLanes ELSE MemoryShare(1)

\* Without a limit there is one lane, and so there is on the cooperative goals and
\* where the root moves are enumerated.
UsesPortfolio == config.portfolio /\ config.goal # "help" /\ ~config.all /\ config.budget

Entries == IF UsesPortfolio THEN Capped ELSE <<Unrestricted>>

-----------------------------------------------------------------------------
NoLine == [accepted |-> FALSE, depth |-> 0, via |-> "none", refuted |-> FALSE, timeout |-> FALSE]

Init ==
    /\ \E c \in Cases :
         /\ config = c.config /\ shortest = c.shortest /\ hopeless = c.hopeless
         /\ keys = c.keys /\ faults = c.faults
    /\ phase = "plan"
    /\ plan = [entries |-> <<>>, threads |-> <<>>, memory |-> <<>>]
    /\ lane = <<>> /\ cancel = <<>> /\ proved = <<>> /\ winner = 0 /\ told = 0
    /\ bounds = {} /\ root = 1 /\ found = <<>> /\ limited = FALSE /\ line = NoLine

Lanes == 1 .. Len(plan.entries)

\* Restricted lanes look at the final depth only; a thread may be refused, and
\* then the lanes after it do not run.  Lane 0 runs on the calling thread.
Launch ==
    /\ phase = "plan" /\ ~config.all
    /\ plan' = IF UsesPortfolio
               THEN [entries |-> Entries, threads |-> Threads(Entries), memory |-> Memory(Entries)]
               ELSE [entries |-> Entries, threads |-> <<config.threads>>, memory |-> <<AloneMemory>>]
    /\ \E running \in (IF "refused" \in faults THEN 1 .. Len(Entries) ELSE {Len(Entries)}) :
         lane' = [i \in 1 .. Len(Entries) |->
                    [pc |-> IF i <= running THEN "search" ELSE "done",
                     depth |-> IF config.direct \/ Entries[i].restricts THEN MaxDepth ELSE 1,
                     mate |-> 0, refuted |-> FALSE, timedOut |-> FALSE, gaveUp |-> FALSE]]
    /\ cancel' = [i \in 1 .. Len(Entries) |-> FALSE]
    /\ proved' = [i \in 1 .. Len(Entries) |-> 0]
    /\ phase' = "lanes"
    /\ UNCHANGED <<job, winner, told, bounds, roots, line>>

-----------------------------------------------------------------------------
(* A lane: run_route, depth after depth. *)

InSearch(l)  == phase = "lanes" /\ lane[l].pc = "search"
Searching(l) == InSearch(l) /\ ~lane[l].gaveUp
Restricts(l) == plan.entries[l].restricts
LastDepth(l) == lane[l].depth = MaxDepth

Mut_EveryoneHasAuthority(l, cancelled) == bounds' = bounds \cup {[depth |-> lane[l].depth, cancelled |-> cancelled]}

\* Only an unrestricted lane has the authority to publish a bound, and the routes
\* of the selfmate and of the cooperative goals never do.
PublishProvenBound(l, cancelled) ==
    bounds' = IF Restricts(l) \/ config.goal \in {"self", "help"} THEN bounds
              ELSE bounds \cup {[depth |-> lane[l].depth, cancelled |-> cancelled]}

GoesOn(l, state) ==
    lane' = [lane EXCEPT ![l] = IF LastDepth(l) THEN [state EXCEPT !.pc = "done"]
                                ELSE [state EXCEPT !.depth = @ + 1]]

LaneFails(l) ==
    /\ Searching(l) /\ (~Restricts(l) => lane[l].depth < shortest)
    /\ \E refuted \in (IF config.refutations /\ (hopeless \/ Restricts(l)) THEN BOOLEAN ELSE {FALSE}) :
         GoesOn(l, [lane[l] EXCEPT !.refuted = refuted])
    /\ PublishProvenBound(l, FALSE)
    /\ UNCHANGED <<job, phase, plan, cancel, judged, roots, line>>

\* position_is_refuted_axiomatically: no depth is searched.
LaneRefutes(l) ==
    /\ Searching(l) /\ config.refutations /\ hopeless
    /\ lane[l].depth = (IF config.direct \/ Restricts(l) THEN MaxDepth ELSE 1)
    /\ lane' = [lane EXCEPT ![l].pc = "done", ![l].refuted = TRUE]
    /\ UNCHANGED <<job, phase, plan, cancel, judged, bounds, roots, line>>

LaneProves(l) ==
    /\ Searching(l)
    /\ \E mate \in shortest .. lane[l].depth :
         lane' = [lane EXCEPT ![l].pc = "report", ![l].mate = mate]
    /\ UNCHANGED <<job, phase, plan, cancel, judged, bounds, roots, line>>

LaneTimesOut(l) ==
    /\ Searching(l) /\ "limits" \in faults
    /\ lane' = [lane EXCEPT ![l].pc = "done", ![l].timedOut = TRUE]
    /\ UNCHANGED <<job, phase, plan, cancel, judged, bounds, roots, line>>

SearchesAlone(l) == plan.threads[l] = 1 \/ lane[l].depth = 1 \/ config.goal \in {"self", "help"}

\* A cancelled search sees the flag at its first node, at every depth that is left.
LaneGivesUp(l) ==
    /\ InSearch(l) /\ cancel[l] /\ SearchesAlone(l)
    /\ GoesOn(l, [lane[l] EXCEPT !.gaveUp = TRUE])
    /\ UNCHANGED <<job, phase, plan, cancel, judged, bounds, roots, line>>

\* In a split its workers see it, but the lane's own `aborted' is not set; that of an
\* earlier depth is cleared, by the other route only when its cost gate probes.
SplitGivesUp(l) ==
    /\ InSearch(l) /\ cancel[l] /\ ~SearchesAlone(l)
    /\ GoesOn(l, [lane[l] EXCEPT !.gaveUp = TRUE])
    /\ \/ PublishProvenBound(l, TRUE)
       \/ plan.entries[l].route # "dfpn" /\ lane[l].gaveUp /\ UNCHANGED bounds
    /\ UNCHANGED <<job, phase, plan, cancel, judged, roots, line>>

Locked == \E l \in Lanes : lane[l].pc = "tell"

Mut_RequestedDepth(l) ==
    /\ phase = "lanes" /\ lane[l].pc = "report" /\ ~Locked
    /\ proved' = [proved EXCEPT ![l] = MaxDepth]
    /\ winner' = IF winner = 0 THEN l ELSE winner
    /\ lane' = [lane EXCEPT ![l].pc = IF winner = 0 THEN "tell" ELSE "done"]
    /\ UNCHANGED <<job, phase, plan, cancel, told, bounds, roots, line>>

\* Under done_mutex: the first to prove wins, and tells every lane.
Accept(l) ==
    /\ phase = "lanes" /\ lane[l].pc = "report" /\ ~Locked
    /\ proved' = [proved EXCEPT ![l] = lane[l].mate]
    /\ winner' = IF winner = 0 THEN l ELSE winner
    /\ lane' = [lane EXCEPT ![l].pc = IF winner = 0 THEN "tell" ELSE "done"]
    /\ UNCHANGED <<job, phase, plan, cancel, told, bounds, roots, line>>

TellLane(l) ==
    /\ phase = "lanes" /\ lane[l].pc = "tell"
    /\ IF told < Len(plan.entries)
       THEN told' = told + 1 /\ cancel' = [cancel EXCEPT ![told + 1] = TRUE] /\ UNCHANGED lane
       ELSE lane' = [lane EXCEPT ![l].pc = "done"] /\ UNCHANGED <<told, cancel>>
    /\ UNCHANGED <<job, phase, plan, proved, winner, bounds, roots, line>>

-----------------------------------------------------------------------------
(* The verdict of the portfolio, and the line. *)

Provers == {l \in Lanes : proved[l] > 0}

Mut_LaneZeroOnly == IF proved[1] > 0 THEN 1 ELSE 0

\* Lane 0 if it proved as well, the first one that did otherwise.
Pick == IF Provers = {} THEN 0 ELSE Min(Provers)

Mut_AnyLaneSettles ==
    [NoLine EXCEPT !.refuted = \E l \in Lanes : lane[l].refuted,
                   !.timeout = \A l \in Lanes : lane[l].timedOut]

\* Without an answer the unrestricted lane alone settles that there is none.
NoAnswerLine ==
    LET complete == Min({l \in Lanes : plan.entries[l].name = "unrestricted"})
    IN  [NoLine EXCEPT !.refuted = lane[complete].refuted, !.timeout = lane[complete].timedOut]

AnswerLine ==
    [NoLine EXCEPT !.accepted = TRUE, !.depth = proved[Pick],
                   !.via = IF plan.entries[Pick].name = "unrestricted" THEN "none"
                           ELSE plan.entries[Pick].name]

Join ==
    /\ phase = "lanes" /\ \A l \in Lanes : lane[l].pc = "done"
    /\ line' = IF Pick = 0 THEN NoAnswerLine ELSE AnswerLine
    /\ phase' = "done"
    /\ UNCHANGED <<job, plan, lane, cancel, judged, bounds, roots>>

-----------------------------------------------------------------------------
(* run_all_root_solutions: one search after the other, no lane. *)

Enumerate ==
    /\ phase = "plan" /\ config.all
    /\ phase' = "roots"
    /\ UNCHANGED <<job, plan, lane, cancel, judged, bounds, roots, line>>

PrintRoots(list) ==
    /\ phase' = "done"
    /\ line' = [NoLine EXCEPT !.accepted = list # <<>>, !.depth = IF list = <<>> THEN 0 ELSE MaxDepth,
                              !.timeout = list = <<>> /\ limited']

\* A limit met at the head of the loop ends it with what was found so far.
LimitAtTheHead ==
    /\ phase = "roots" /\ root <= RootMoves /\ "limits" \in faults
    /\ limited' = TRUE
    /\ PrintRoots(found)
    /\ UNCHANGED <<job, plan, lane, cancel, judged, bounds, root, found>>

\* A limit met inside the search of a move drops them all.
LimitInTheSearch ==
    /\ phase = "roots" /\ root <= RootMoves /\ "limits" \in faults
    /\ limited' = TRUE /\ found' = <<>>
    /\ PrintRoots(<<>>)
    /\ UNCHANGED <<job, plan, lane, cancel, judged, bounds, root>>

Mut_StopsAtTheKey ==
    /\ phase = "roots" /\ root <= RootMoves
    /\ found' = IF root \in keys THEN Append(found, root) ELSE found
    /\ root' = IF root \in keys THEN RootMoves + 1 ELSE root + 1
    /\ UNCHANGED <<job, phase, plan, lane, cancel, judged, bounds, limited, line>>

SearchRootMove ==
    /\ phase = "roots" /\ root <= RootMoves
    /\ found' = IF root \in keys THEN Append(found, root) ELSE found
    /\ root' = root + 1
    /\ UNCHANGED <<job, phase, plan, lane, cancel, judged, bounds, limited, line>>

RootsDone ==
    /\ phase = "roots" /\ root > RootMoves
    /\ UNCHANGED limited
    /\ PrintRoots(found)
    /\ UNCHANGED <<job, plan, lane, cancel, judged, bounds, root, found>>

-----------------------------------------------------------------------------
LaneStep(l) ==
    \/ LaneFails(l) \/ LaneRefutes(l) \/ LaneProves(l) \/ LaneTimesOut(l)
    \/ LaneGivesUp(l) \/ SplitGivesUp(l) \/ Accept(l) \/ TellLane(l)

Caller ==
    \/ Launch \/ Join
    \/ Enumerate \/ LimitAtTheHead \/ LimitInTheSearch \/ SearchRootMove \/ RootsDone

Next == Caller \/ \E l \in Lanes : LaneStep(l)

Done == phase = "done" /\ UNCHANGED vars

Spec == Init /\ [][Next \/ Done]_vars

-----------------------------------------------------------------------------
(* Properties. *)

\* solve.h:684-762.  An answer is a mate at least as long as the shortest, and it
\* is the shortest when the line names no restriction, though the winner may be
\* another lane than the one reported.
AnswerIsTrue ==
    line.accepted /\ ~config.all =>
        /\ line.depth \in shortest .. MaxDepth
        /\ line.via = "none" /\ ~config.direct => line.depth = shortest

\* solve.h:730-760, 979-987.  A line with neither an answer nor a timeout says
\* there is no mate within the depth, and one marked `refuted' that there is none
\* at any depth: no restricted, refused, cancelled or late lane makes it say so.
SilenceIsNoMate ==
    phase = "done" /\ ~line.accepted =>
        /\ ~line.timeout => shortest = Never
        /\ line.refuted => hopeless

\* routes.h:17-47.  A bound published before the search was cancelled is true,
\* whichever lane it comes from.
BoundsAreTrue == \A b \in bounds : ~b.cancelled => b.depth < shortest

\* routes.h:26-31 "a subtree abandoned on a node budget recorded no verdict ...
\* getting them wrong would publish a FALSE theorem": every published bound is true.
PublishedBoundsAreTrue == \A b \in bounds : b.depth < shortest

\* A lane is cancelled only when another has an answer that will be printed.
CancelledForAnAnswer ==
    (\E l \in Lanes : cancel[l]) => /\ winner # 0 /\ proved[winner] > 0
                                    /\ phase = "done" => line.accepted

\* routes.h:600-676.  The keys listed solve, each is listed once, and without a
\* limit they are all of them.
KeysAreExact ==
    config.all /\ phase = "done" =>
        /\ ToSet(found) \subseteq keys /\ Len(found) = Cardinality(ToSet(found))
        /\ ~limited => ToSet(found) = keys /\ ~line.timeout

=============================================================================

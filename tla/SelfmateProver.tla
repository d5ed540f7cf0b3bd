---------------------------- MODULE SelfmateProver ----------------------------
(***************************************************************************)
(* The selfmate prover: prove_selfmate_attacker, prove_selfmate_defender    *)
(* (prove.h) and the deepening of run_selfmate_route (routes.h), on one     *)
(* thread.                                                                  *)
(*                                                                          *)
(* The attacker is to be mated, so the goal is tested where he is to move   *)
(* and has none.  A failure carries the depth it was proved to              *)
(* (fail_depth), which may exceed the depth that was asked; the route then  *)
(* skips the levels between.  The game is any finite one, the recursion     *)
(* explicit, as in Prover.  Variants and the preconditioner are left out;   *)
(* ordering and hints only decide which move is tried next.                 *)
(***************************************************************************)
EXTENDS ProofEntry, FiniteSets

CONSTANTS
    Attackers,       \* positions with the attacker to move
    Defenders,       \* positions with the defender to move
    Root,
    Games,           \* the games: records of moves, replies and mated
    Settings,        \* the option sets to search under
    Interruptible,   \* a deadline, limit, stop flag or cancel flag exists
    AnyDepthFail,    \* kFailAnyDepth
    MaxStates        \* kMaxStates of selfmate_perpetual_check

Options == {"any_depth_refutations", "attacker_reject", "selfmate_bound",
            "selfmate_node_exit"}

ASSUME SelfmateNodesAssumption ==
    /\ Root \in Attackers /\ Attackers \cap Defenders = {}
    /\ AnyDepthFail \in Nat /\ AnyDepthFail > MaxDepth
ASSUME SelfmateGamesAssumption ==
    \A g \in Games :
        /\ g.moves \in [Attackers -> SUBSET Defenders] /\ g.moves[Root] # {}
        /\ g.replies \in [Defenders -> SUBSET Attackers]
        /\ g.mated \subseteq {n \in Attackers : g.moves[n] = {}}
ASSUME SelfmateFlagsAssumption ==
    /\ Settings \subseteq SUBSET Options /\ Interruptible \in BOOLEAN /\ MaxStates \in Nat

Nodes  == Attackers \cup Defenders
MaxPly == 2 * MaxDepth + 1

VARIABLES
    moves, replies,
    mated,           \* attacker positions without a move that are the goal
    dist,            \* shortest selfmate in defender moves, Never if none
    quiet,           \* defender positions with a king move that gives no check
    bare,            \* positions where the defender has only his king
    reach,           \* budget below which mate_out_of_reach rules a mate out
    options,
    table,
    pc, arg, ret,    \* the call in flight and its Proof
    frame, height,   \* the loops of the calls below it
    iteration,       \* the route's depth
    aborted,
    answer           \* proved_depth, NoAnswer for none

game  == <<moves, replies, mated, dist, quiet, bare, reach, options>>
call  == <<pc, arg, ret>>
stack == <<frame, height>>
vars  == <<game, table, call, stack, iteration, aborted, answer>>

NoAnswer == -1
Unset    == AnyDepthFail * 2        \* sm_node_fail before any child failed

-----------------------------------------------------------------------------
(* The truth, by the local equations that determine it. *)

AttackerEquation(a) ==
    /\ dist[a] = 0 <=> a \in mated
    /\ \A n \in Depths : dist[a] <= n <=> a \in mated \/ \E m \in moves[a] : dist[m] <= n

DefenderEquation(d) ==
    /\ dist[d] > 0
    /\ \A n \in Depths :
         dist[d] <= n <=> replies[d] # {} /\ \A r \in replies[d] : dist[r] < n

Truth ==
    /\ \A a \in Attackers : AttackerEquation(a)
    /\ \A d \in Defenders : DefenderEquation(d)

Successors(node) == IF node \in Attackers THEN moves[node] ELSE replies[node]

\* A lone king stays alone and never mates.
LoneKings ==
    {B \in SUBSET Nodes : B \cap mated = {} /\ \A n \in B : Successors(n) \subseteq B}

Fails(depth, forGood) == [ok |-> FALSE, refuted |-> forGood, fail |-> depth, line |-> 0]
Proves(plies) == [ok |-> TRUE, refuted |-> FALSE, fail |-> 0, line |-> plies]
Failure == Fails(0, FALSE)
NoFrame == [node |-> Root, depth |-> 0, left |-> {}, best |-> 0, fail |-> 0]

Play ==
    /\ table = [a \in Attackers |-> Absent]
    /\ pc = "idle" /\ arg = [node |-> Root, depth |-> 0] /\ ret = Failure
    /\ frame = [i \in 0 .. MaxPly |-> NoFrame] /\ height = 0
    /\ iteration = 1 /\ answer = NoAnswer
    /\ aborted = FALSE

\* What the shortcuts read off a position.
Seen ==
    /\ quiet \in IF options \cap {"attacker_reject", "selfmate_node_exit"} = {} THEN {{}}
                 ELSE SUBSET {d \in Defenders : \E r \in replies[d] : r \notin mated}
    /\ bare \in IF "any_depth_refutations" \in options THEN LoneKings ELSE {{}}
    /\ reach \in IF "selfmate_bound" \in options
                 THEN {[n \in Nodes |-> IF n \in S THEN dist[n] ELSE 0] : S \in {Attackers, Defenders}}
                 ELSE {[n \in Nodes |-> 0]}

Init ==
    /\ options \in Settings
    /\ \E g \in Games : moves = g.moves /\ replies = g.replies /\ mated = g.mated
    /\ dist \in [Nodes -> 0 .. Never] /\ Truth
    /\ Seen
    /\ Play

-----------------------------------------------------------------------------
(* Entering a node. *)

Return(node, d, v) == pc' = "return" /\ arg' = [node |-> node, depth |-> d] /\ ret' = v

Enter(child, d) == pc' = "enter" /\ arg' = [node |-> child, depth |-> d]

\* search_cancelled at the head of every node; timed_out is not read before the
\* search is over.
Cancel ==
    /\ pc = "enter" /\ (aborted \/ Interruptible)
    /\ aborted' = TRUE
    /\ Return(arg.node, arg.depth, Failure)
    /\ UNCHANGED <<game, table, stack, iteration, answer>>

Entering(side) == pc = "enter" /\ ~aborted /\ arg.node \in side

Says(v) ==
    /\ Return(arg.node, arg.depth, v)
    /\ UNCHANGED <<game, table, stack, iteration, aborted, answer>>

\* A bare defender king cannot deliver the mate, at any depth.
AxiomFires == "any_depth_refutations" \in options /\ arg.node \in bare

Refute == Entering(Attackers) /\ AxiomFires /\ Says(Fails(AnyDepthFail, TRUE))

Stuck == moves[arg.node] = {}

\* Mated is the goal; stalemated, or whatever else, ends the line for good.
NoMove ==
    /\ Entering(Attackers) /\ ~AxiomFires /\ Stuck
    /\ Says(IF arg.node \in mated THEN Proves(0) ELSE Fails(AnyDepthFail, FALSE))

\* The bound speaks of the budget left, and proves no depth.
OutOfReach == "selfmate_bound" \in options /\ arg.depth > 0 /\ arg.depth < reach[arg.node]
Alive      == Entering(Attackers) /\ ~AxiomFires /\ ~Stuck

Prune == Alive /\ OutOfReach /\ Says(Failure)

NoDepth == Alive /\ ~OutOfReach /\ arg.depth = 0 /\ Says(Failure)

Hit == Answer(table[arg.node], arg.depth).settled

TableAnswers ==
    /\ Alive /\ ~OutOfReach /\ arg.depth > 0 /\ Hit
    /\ LET found == Answer(table[arg.node], arg.depth) IN
       Says(IF found.ok THEN Proves(found.line) ELSE Fails(found.fail, found.refuted))

\* selfmate_node_exit: every move leaves the defender king a quiet step.
NodeExits == "selfmate_node_exit" \in options /\ arg.depth = 1 /\ moves[arg.node] \subseteq quiet

NodeExit == Alive /\ ~OutOfReach /\ arg.depth > 0 /\ ~Hit /\ NodeExits /\ Says(Failure)

Push(choices) ==
    /\ frame' = [frame EXCEPT ![height] = [node |-> arg.node, depth |-> arg.depth,
                                           left |-> choices, best |-> 0, fail |-> Unset]]
    /\ height' = height + 1 /\ pc' = "loop"
    /\ UNCHANGED <<game, table, arg, ret, iteration, aborted, answer>>

EnterAttacker ==
    /\ Alive /\ ~OutOfReach /\ arg.depth > 0 /\ ~Hit /\ ~NodeExits
    /\ Push(moves[arg.node])

\* King and queen against a king that is checked for ever: from every state of
\* the region some check leaves only replies into the region or captures that
\* lose the queen, and with her the last unit that could mate.
Mut_MateCountsAsCheck(d) ==
    \E region \in SUBSET Defenders :
        /\ d \in region /\ Cardinality(region) <= MaxStates
        /\ \A p \in region : \E check \in replies[p] : moves[check] \subseteq region \cup bare

PerpetualCheck(d) ==
    \E region \in SUBSET Defenders :
        /\ d \in region /\ Cardinality(region) <= MaxStates
        /\ \A p \in region :
             \E check \in replies[p] :
                 moves[check] # {} /\ moves[check] \subseteq region \cup bare

\* The material test and the choice of checks may make the rule miss.
Perpetual ==
    /\ Entering(Defenders) /\ "any_depth_refutations" \in options
    /\ PerpetualCheck(arg.node)
    /\ Says(Fails(0, TRUE))

PruneReplies == Entering(Defenders) /\ OutOfReach /\ Says(Failure)

\* Mated or stalemated, the defender has not mated anyone.
NoReply == Entering(Defenders) /\ ~OutOfReach /\ replies[arg.node] = {} /\ Says(Failure)

EnterDefender ==
    /\ Entering(Defenders) /\ ~OutOfReach /\ replies[arg.node] # {}
    /\ Push(replies[arg.node])

-----------------------------------------------------------------------------
(* The two loops. *)

Top == frame[height - 1]
InLoop(side) == pc = "loop" /\ height > 0 /\ Top.node \in side
SetTop(f) == frame' = [frame EXCEPT ![height - 1] = f]
Leave(v) == height' = height - 1 /\ Return(Top.node, Top.depth, v) /\ UNCHANGED frame

\* Only attacker nodes are stored, at the depth the failure was proved to.
Conclude(v) ==
    /\ table' = [table EXCEPT ![Top.node] =
                   Absorb(@, [ok |-> v.ok, bound |-> IF v.ok THEN Top.depth ELSE v.fail,
                              refuted |-> v.refuted, line |-> v.line])]
    /\ Leave(v)
    /\ UNCHANGED <<game, iteration, aborted, answer>>

Rejected(m) == "attacker_reject" \in options /\ Top.depth = 1 /\ m \in quiet

\* A quiet king move answers it: refuted without touching the subtree.
RejectMove ==
    /\ InLoop(Attackers)
    /\ \E m \in Top.left : Rejected(m) /\ SetTop([Top EXCEPT !.left = @ \ {m}])
    /\ UNCHANGED <<game, table, call, height, iteration, aborted, answer>>

TryMove ==
    /\ InLoop(Attackers)
    /\ \E m \in Top.left : /\ ~Rejected(m) /\ Enter(m, Top.depth)
                           /\ SetTop([Top EXCEPT !.left = @ \ {m}])
    /\ UNCHANGED <<game, table, ret, height, iteration, aborted, answer>>

Larger(m, n) == IF m > n THEN m ELSE n

NoMoveWorks ==
    /\ InLoop(Attackers) /\ Top.left = {}
    /\ Conclude(Fails(IF Top.fail = Unset THEN Top.depth ELSE Larger(Top.depth, Top.fail), FALSE))

\* The depth falls across the defender's move.
TryReply ==
    /\ InLoop(Defenders)
    /\ \E r \in Top.left : Enter(r, Top.depth - 1) /\ SetTop([Top EXCEPT !.left = @ \ {r}])
    /\ UNCHANGED <<game, table, ret, height, iteration, aborted, answer>>

EveryReplyMates ==
    /\ InLoop(Defenders) /\ Top.left = {}
    /\ Leave(Proves(Top.best))
    /\ UNCHANGED <<game, table, iteration, aborted, answer>>

-----------------------------------------------------------------------------
(* Returning to a loop. *)

Returning(side) == pc = "return" /\ height > 0 /\ Top.node \in side /\ ~aborted

Unwind ==
    /\ pc = "return" /\ height > 0 /\ aborted
    /\ Leave(Failure)
    /\ UNCHANGED <<game, table, iteration, aborted, answer>>

Resume(f) ==
    /\ SetTop(f) /\ pc' = "loop"
    /\ UNCHANGED <<game, table, arg, ret, height, iteration, aborted, answer>>

MoveProves == Returning(Attackers) /\ ret.ok /\ Conclude(Proves(ret.line + 1))

Mut_BestMoveCounts ==
    /\ Returning(Attackers) /\ ~ret.ok
    /\ Resume([Top EXCEPT !.fail = IF @ = Unset \/ ret.fail > @ THEN ret.fail ELSE @])

\* The node stands as far as its best move does: the minimum.  A failure of
\* depth 0 is not counted.
MoveFails ==
    /\ Returning(Attackers) /\ ~ret.ok
    /\ Resume([Top EXCEPT !.fail = IF ret.fail > 0 /\ ret.fail < @ THEN ret.fail ELSE @])

\* One defence that survives; the move that led to it is paid back.
ReplySurvives ==
    /\ Returning(Defenders) /\ ~ret.ok
    /\ Leave(Fails(Larger(Top.depth, ret.fail + 1), FALSE))
    /\ UNCHANGED <<game, table, iteration, aborted, answer>>

\* The line is that of the longest defence.
ReplyMates ==
    /\ Returning(Defenders) /\ ret.ok
    /\ Resume([Top EXCEPT !.best = Larger(@, ret.line + 1)])

-----------------------------------------------------------------------------
(* run_selfmate_route, and the world around it. *)

RootRefuted ==
    /\ pc = "idle" /\ "any_depth_refutations" \in options /\ Root \in bare
    /\ pc' = "done" /\ ret' = Fails(0, TRUE)
    /\ UNCHANGED <<game, table, arg, stack, iteration, aborted, answer>>

StartDepth ==
    /\ pc = "idle" /\ ~("any_depth_refutations" \in options /\ Root \in bare)
    /\ Enter(Root, iteration)
    /\ UNCHANGED <<game, table, ret, stack, iteration, aborted, answer>>

Mut_SkipsOneTooMany ==
    /\ pc = "return" /\ height = 0 /\ ~ret.ok /\ ~aborted
    /\ iteration' = Larger(iteration, ret.fail) + 2
    /\ pc' = IF iteration' > MaxDepth THEN "done" ELSE "idle"
    /\ UNCHANGED <<game, table, arg, ret, stack, aborted, answer>>

\* Level skipping: the next depth is the first one not disproved.
DepthFails ==
    /\ pc = "return" /\ height = 0 /\ ~ret.ok /\ ~aborted
    /\ iteration' = Larger(iteration, ret.fail) + 1
    /\ pc' = IF iteration' > MaxDepth THEN "done" ELSE "idle"
    /\ UNCHANGED <<game, table, arg, ret, stack, aborted, answer>>

DepthProves ==
    /\ pc = "return" /\ height = 0 /\ ret.ok /\ ~aborted
    /\ answer' = (ret.line + 1) \div 2 /\ pc' = "done"
    /\ UNCHANGED <<game, table, arg, ret, stack, iteration, aborted>>

Abandoned ==
    /\ pc = "return" /\ height = 0 /\ aborted
    /\ pc' = "done"
    /\ UNCHANGED <<game, table, arg, ret, stack, iteration, aborted, answer>>

AtRest == pc = "done" /\ UNCHANGED vars

Search ==
    \/ Cancel \/ Refute \/ NoMove \/ Prune \/ NoDepth \/ TableAnswers \/ NodeExit
    \/ EnterAttacker \/ Perpetual \/ PruneReplies \/ NoReply \/ EnterDefender
    \/ RejectMove \/ TryMove \/ NoMoveWorks \/ TryReply \/ EveryReplyMates
    \/ Unwind \/ MoveProves \/ MoveFails \/ ReplySurvives \/ ReplyMates
    \/ RootRefuted \/ StartDepth \/ DepthFails \/ DepthProves \/ Abandoned

Next == Search \/ AtRest

Spec == Init /\ [][Next]_vars

-----------------------------------------------------------------------------
\* The attacker is to move and it is over for good: kFailAnyDepth comes back.
DeadEnd(r) == r \notin mated /\ (moves[r] = {} \/ r \in bare)

\* A move attacker_reject refutes leaves sm_node_fail as it finds it.  That does
\* no harm unless the move stands beside one with a reply that is a dead end:
\* the node is then disproved to every depth by the one move that was searched.
RejectsAreHarmless ==
    "attacker_reject" \in options =>
        \A a \in Attackers :
            moves[a] \cap quiet # {} =>
                \A m \in moves[a] \ quiet : \A r \in replies[m] : ~DeadEnd(r)

\* What the failures depend on: selfmate_bound, which fails a node without saying
\* to what depth, is off, and attacker_reject, which is on, does no harm.
Exact == "selfmate_bound" \notin options /\ RejectsAreHarmless

\* A failure to depth f, or to kFailAnyDepth, leaves no selfmate within it.
TrueFailure(node, f) == f < dist[node] \/ dist[node] = Never

\* A selfmate that is claimed exists at the depth it is claimed for; a failure
\* holds at the depth asked where the options are Exact, and `refuted' -- the
\* lone king, the perpetual -- for good under any.
VerdictIsTrue ==
    pc = "return" /\ ~aborted =>
        /\ ret.ok => dist[arg.node] <= arg.depth
        /\ ret.refuted => dist[arg.node] = Never
        /\ ~ret.ok /\ Exact => dist[arg.node] > arg.depth

\* "fail_depth stays at the requested depth unless something genuinely
\* established more": where the options are Exact no failure, returned or
\* remembered, reaches past the truth.
FailureDepthIsTrue ==
    Exact => /\ pc = "return" /\ ~aborted /\ ~ret.ok => TrueFailure(arg.node, ret.fail)
             /\ \A n \in Attackers : TrueFailure(n, table[n].disproved)

\* The shortest selfmate is reported at its length: where the options are Exact
\* the levels that were skipped held none.
AnswerIsShortest ==
    pc = "done" /\ Exact =>
        /\ answer # NoAnswer => answer = dist[Root]
        /\ answer = NoAnswer /\ ~aborted => dist[Root] = Never

\* The same of what is reported under any options: a search that was not stopped
\* and is silent has found every level empty, "genuinely" (run_selfmate_route).
SilenceIsNoSelfmate ==
    pc = "done" /\ answer = NoAnswer /\ ~aborted => dist[Root] = Never
=============================================================================

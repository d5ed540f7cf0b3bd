------------------------------- MODULE Prover --------------------------------
(***************************************************************************)
(* The exact prover: run_dfpn_route's iterative deepening over the mutually *)
(* recursive prove_attacker and prove_defender (routes.h, prove.h), on one  *)
(* thread, with the table that outlives the iterations.                     *)
(*                                                                          *)
(* The game is any finite one.  A node is a position with a side to move;   *)
(* moves[a] are the attacker's moves after the lane's restriction,          *)
(* replies[d] the legal replies; an attacker in mates has a move besides      *)
(* that ends the game in his favour.  The recursion is explicit: `arg' is the call  *)
(* being entered or returned from, `ret' its result, `frame' the loops      *)
(* below it.  Move ordering, hints and lazy generation decide which move is *)
(* tried next, so any move may be.  Game-ending variants, the defender beam *)
(* (marked unsound by the program) and sub-root splitting are left out.     *)
(***************************************************************************)
EXTENDS ProofEntry, FiniteSets

CONSTANTS
    Attackers,       \* positions with the attacker to move
    Defenders,       \* positions with the defender to move
    Root,
    NoChild,         \* no call is outstanding
    KeepTable,       \* keep_iter_tt
    AnyDepth,        \* any_depth_refutations
    QuotaPlay,       \* a capture quota is in force: the axiom may stand down
    Limits,          \* a deadline, node limit or stop flag exists
    InLane,          \* a cancel flag exists
    MaxEvictions     \* bound of the model: entries the table forgets

ASSUME NodesAssumption ==
    /\ Root \in Attackers /\ Attackers \cap Defenders = {}
    /\ NoChild \notin Attackers \cup Defenders
ASSUME FlagsAssumption == {KeepTable, AnyDepth, QuotaPlay, Limits, InLane} \subseteq BOOLEAN
ASSUME EvictionsAssumption == MaxEvictions \in Nat

Nodes  == Attackers \cup Defenders
MaxPly == 2 * MaxDepth            \* the recursion never gets this deep

VARIABLES
    moves, replies, mates,
    dist,            \* depth of the shortest mate, Never if there is none
    standsDown,      \* move budget at which the axiom stops firing, 0: never fires
    table,           \* s.tt
    evictions,
    pc,              \* "enter", "loop", "return", "idle" or "done"
    arg,             \* the call entered, or returned from
    ret,             \* its Proof
    frame, height,   \* the loops of the calls below it
    iteration,       \* iteration_depth
    aborted, timedOut,
    cancelled,       \* *s.cancel, raised by another thread
    provenTo,        \* last depth of publish_proven_bound
    answer,          \* proved_depth, 0 for none
    refuted          \* result.proof.refuted

game    == <<moves, replies, mates, dist, standsDown>>
call    == <<pc, arg, ret>>
stack   == <<frame, height>>
route   == <<iteration, provenTo, answer, refuted>>
flags   == <<aborted, timedOut, cancelled>>
vars == <<game, table, evictions, call, stack, route, flags>>

-----------------------------------------------------------------------------
(* The truth, by the local equations that determine it. *)

AttackerEquation(a) ==
    \A n \in Depths :
        dist[a] <= n <=> a \in mates \/ \E m \in moves[a] : n > 1 /\ dist[m] <= n - 1

DefenderEquation(d) ==
    \A n \in Depths :
        dist[d] <= n <=> replies[d] # {} /\ \A r \in replies[d] : dist[r] <= n

Truth ==
    /\ \A a \in Attackers : AttackerEquation(a)
    /\ \A d \in Defenders : DefenderEquation(d)

\* A bare king cannot mate; under a quota, not before the quota is in reach.
AxiomHolds ==
    \A a \in Attackers :
        /\ standsDown[a] <= dist[a]
        /\ ~QuotaPlay => standsDown[a] \in {0, Never}

Fails(forGood) == [ok |-> FALSE, refuted |-> forGood, line |-> 0]
Failure == Fails(FALSE)
NoFrame == [node |-> Root, depth |-> 1, left |-> {}, child |-> NoChild,
            best |-> 0, hopeless |-> FALSE]

Play ==
    /\ table = [k \in Nodes |-> Absent] /\ evictions = 0
    /\ pc = "idle" /\ arg = [node |-> Root, depth |-> 1] /\ ret = Failure
    /\ frame = [i \in 0 .. MaxPly |-> NoFrame] /\ height = 0
    /\ iteration = 0 /\ provenTo = 0 /\ answer = 0 /\ refuted = FALSE
    /\ aborted = FALSE /\ timedOut = FALSE /\ cancelled = FALSE

Init ==
    /\ moves \in [Attackers -> SUBSET Defenders]
    /\ replies \in [Defenders -> SUBSET Attackers]
    /\ mates \in SUBSET Attackers
    /\ dist \in [Nodes -> 1 .. Never]
    /\ standsDown \in [Attackers -> 0 .. Never]
    /\ Truth /\ AxiomHolds
    /\ Play

-----------------------------------------------------------------------------
(* Entering a node. *)

Return(node, d, v) == /\ pc' = "return"
                      /\ arg' = [node |-> node, depth |-> d]
                      /\ ret' = v

\* store_exact_proof_table; nothing is written while the search unwinds.
Store(node, d, v) ==
    table' = IF aborted THEN table
             ELSE [table EXCEPT ![node] =
                     Absorb(@, [ok |-> v.ok, bound |-> d, refuted |-> v.refuted,
                                line |-> v.line])]

\* search_cancelled at the head of every node.
Mut_CancelIsNotAnAbort ==
    /\ pc = "enter"
    /\ \/ (aborted \/ cancelled) /\ UNCHANGED timedOut
       \/ Limits /\ timedOut' = TRUE
    /\ Return(arg.node, arg.depth, Failure)
    /\ UNCHANGED <<game, table, evictions, stack, route, aborted, cancelled>>

Cancel ==
    /\ pc = "enter"
    /\ \/ (aborted \/ cancelled) /\ UNCHANGED timedOut
       \/ Limits /\ timedOut' = TRUE
    /\ aborted' = TRUE
    /\ Return(arg.node, arg.depth, Failure)
    /\ UNCHANGED <<game, table, evictions, stack, route, cancelled>>

Entering(side) == pc = "enter" /\ ~aborted /\ ~cancelled /\ arg.node \in side

AxiomFires == AnyDepth /\ arg.node \in Attackers /\ arg.depth < standsDown[arg.node]
Hit        == Answer(table[arg.node], arg.depth).settled

Refute ==
    /\ Entering(Attackers) /\ AxiomFires
    /\ Return(arg.node, arg.depth, Fails(TRUE))
    /\ UNCHANGED <<game, table, evictions, stack, route, flags>>

TableAnswers ==
    /\ Entering(Nodes) /\ ~AxiomFires /\ Hit
    /\ LET found == Answer(table[arg.node], arg.depth) IN
       Return(arg.node, arg.depth,
              [ok |-> found.ok, refuted |-> found.refuted,
               line |-> IF found.ok THEN found.line ELSE 0])
    /\ UNCHANGED <<game, table, evictions, stack, route, flags>>

\* The coverage exit: no mate in one, seen without generating; nothing is stored.
CoverageExit ==
    /\ Entering(Attackers) /\ ~AxiomFires /\ ~Hit
    /\ arg.depth = 1 /\ ~AnyDepth
    /\ arg.node \notin mates
    /\ Return(arg.node, arg.depth, Failure)
    /\ UNCHANGED <<game, table, evictions, stack, route, flags>>

Push(options, open) ==
    /\ frame' = [frame EXCEPT ![height] =
                   [node |-> arg.node, depth |-> arg.depth, left |-> options,
                    child |-> NoChild, best |-> 0, hopeless |-> open]]
    /\ height' = height + 1
    /\ pc' = "loop"

\* No moves must not count as "every move is refuted".
EnterAttacker ==
    /\ Entering(Attackers) /\ ~AxiomFires /\ ~Hit
    /\ Push(moves[arg.node], AnyDepth /\ (moves[arg.node] # {} \/ arg.node \in mates))
    /\ UNCHANGED <<game, table, evictions, arg, ret, route, flags>>

\* A defender without a reply is stalemated: mate was tested before the call.
NoReply ==
    /\ Entering(Defenders) /\ ~Hit /\ replies[arg.node] = {}
    /\ Store(arg.node, arg.depth, Failure)
    /\ Return(arg.node, arg.depth, Failure)
    /\ UNCHANGED <<game, evictions, stack, route, flags>>

EnterDefender ==
    /\ Entering(Defenders) /\ ~Hit /\ replies[arg.node] # {}
    /\ Push(replies[arg.node], FALSE)
    /\ UNCHANGED <<game, table, evictions, arg, ret, route, flags>>

-----------------------------------------------------------------------------
(* The two loops. *)

Top == frame[height - 1]
InLoop(side) == pc = "loop" /\ height > 0 /\ Top.node \in side

SetTop(f) == frame' = [frame EXCEPT ![height - 1] = f]

Enter(child, d) == pc' = "enter" /\ arg' = [node |-> child, depth |-> d]

\* The loop's function returns: its frame goes, v is stored and handed down.
Conclude(v) ==
    /\ Store(Top.node, Top.depth, v)
    /\ height' = height - 1
    /\ Return(Top.node, Top.depth, v)
    /\ UNCHANGED frame

\* An attacker move that mates, or fills the quota, needs no search.
ImmediateWin ==
    /\ InLoop(Attackers) /\ Top.node \in mates
    /\ Conclude([ok |-> TRUE, refuted |-> FALSE, line |-> 1])
    /\ UNCHANGED <<game, evictions, route, flags>>

Mut_LastMoveIsSearched ==
    /\ InLoop(Attackers) /\ Top.depth = 1
    /\ \E m \in Top.left :
         /\ SetTop([Top EXCEPT !.left = @ \ {m}, !.child = m])
         /\ Enter(m, Top.depth - 1)
    /\ UNCHANGED <<game, table, evictions, ret, height, route, flags>>

Mut_ClaimSurvivesDepthOne ==
    /\ InLoop(Attackers) /\ Top.depth = 1
    /\ \E m \in Top.left : SetTop([Top EXCEPT !.left = @ \ {m}])
    /\ UNCHANGED <<game, table, evictions, call, height, route, flags>>

\* At depth 1 nothing below is searched, so nothing below is refuted; the axiom,
\* asked again after the move, says what it said before it: the men are the same.
LastMoveFails ==
    /\ InLoop(Attackers) /\ Top.depth = 1
    /\ \E m \in Top.left : SetTop([Top EXCEPT !.left = @ \ {m}, !.hopeless = FALSE])
    /\ UNCHANGED <<game, table, evictions, call, height, route, flags>>

Mut_MoveIsNotConsumed ==
    /\ InLoop(Attackers) /\ Top.depth > 1
    /\ \E m \in Top.left :
         /\ SetTop([Top EXCEPT !.child = m])
         /\ Enter(m, Top.depth - 1)
    /\ UNCHANGED <<game, table, evictions, ret, height, route, flags>>

TryMove ==
    /\ InLoop(Attackers) /\ Top.depth > 1
    /\ \E m \in Top.left :
         /\ SetTop([Top EXCEPT !.left = @ \ {m}, !.child = m])
         /\ Enter(m, Top.depth - 1)
    /\ UNCHANGED <<game, table, evictions, ret, height, route, flags>>

NoMoveWins ==
    /\ InLoop(Attackers) /\ Top.left = {} /\ Top.node \notin mates
    /\ Conclude(Fails(Top.hopeless))
    /\ UNCHANGED <<game, evictions, route, flags>>

Mut_ReplyGetsOneMoveLess ==
    /\ InLoop(Defenders)
    /\ \E r \in Top.left :
         /\ SetTop([Top EXCEPT !.left = @ \ {r}, !.child = r])
         /\ Enter(r, IF Top.depth > 1 THEN Top.depth - 1 ELSE 1)
    /\ UNCHANGED <<game, table, evictions, ret, height, route, flags>>

TryReply ==
    /\ InLoop(Defenders)
    /\ \E r \in Top.left :
         /\ SetTop([Top EXCEPT !.left = @ \ {r}, !.child = r])
         /\ Enter(r, Top.depth)
    /\ UNCHANGED <<game, table, evictions, ret, height, route, flags>>

EveryReplyLoses ==
    /\ InLoop(Defenders) /\ Top.left = {}
    /\ Conclude([ok |-> TRUE, refuted |-> FALSE, line |-> Top.best])
    /\ UNCHANGED <<game, evictions, route, flags>>

-----------------------------------------------------------------------------
(* Returning to a loop. *)

Returning(side) ==
    pc = "return" /\ height > 0 /\ Top.node \in side /\ ~aborted

Unwind ==
    /\ pc = "return" /\ height > 0 /\ aborted
    /\ height' = height - 1
    /\ Return(Top.node, Top.depth, Failure)
    /\ UNCHANGED <<game, table, evictions, frame, route, flags>>

Resume(f) == SetTop([f EXCEPT !.child = NoChild]) /\ pc' = "loop"

MoveProves ==
    /\ Returning(Attackers) /\ ret.ok
    /\ Conclude([ok |-> TRUE, refuted |-> FALSE, line |-> ret.line + 1])
    /\ UNCHANGED <<game, evictions, route, flags>>

\* OR composition: the node is refuted only if every move is.
MoveFails ==
    /\ Returning(Attackers) /\ ~ret.ok
    /\ Resume([Top EXCEPT !.hopeless = @ /\ ret.refuted])
    /\ UNCHANGED <<game, table, evictions, arg, ret, height, route, flags>>

\* AND composition: one reply that escapes for good refutes the node.
ReplyRefutes ==
    /\ Returning(Defenders) /\ ~ret.ok
    /\ Conclude(Fails(ret.refuted))
    /\ UNCHANGED <<game, evictions, route, flags>>

Mut_FirstReplyIsTheLine ==
    /\ Returning(Defenders) /\ ret.ok
    /\ Resume([Top EXCEPT !.best = IF @ = 0 THEN ret.line + 1 ELSE @])
    /\ UNCHANGED <<game, table, evictions, arg, ret, height, route, flags>>

\* The reported line is the longest defence.
ReplyLoses ==
    /\ Returning(Defenders) /\ ret.ok
    /\ Resume([Top EXCEPT !.best = IF ret.line + 1 > @ THEN ret.line + 1 ELSE @])
    /\ UNCHANGED <<game, table, evictions, arg, ret, height, route, flags>>

-----------------------------------------------------------------------------
(* The route, and the world around it. *)

\* s.aborted is cleared before each pass; the flags that raised it are not.
StartDepth ==
    /\ pc = "idle" /\ iteration < MaxDepth
    /\ iteration' = iteration + 1
    /\ aborted' = FALSE
    /\ table' = IF KeepTable THEN table ELSE [k \in Nodes |-> Absent]
    /\ Enter(Root, iteration + 1)
    /\ UNCHANGED <<game, evictions, ret, stack, provenTo, answer, refuted,
                   timedOut, cancelled>>

Mut_AbortedDepthIsPublished ==
    /\ pc = "return" /\ height = 0 /\ ~ret.ok
    /\ refuted' = ret.refuted
    /\ provenTo' = IF timedOut THEN provenTo ELSE iteration
    /\ pc' = IF timedOut \/ iteration = MaxDepth THEN "done" ELSE "idle"
    /\ UNCHANGED <<game, table, evictions, arg, ret, stack, iteration, answer,
                   flags>>

\* publish_proven_bound, unless the pass was abandoned.
DepthFails ==
    /\ pc = "return" /\ height = 0 /\ ~ret.ok
    /\ refuted' = ret.refuted
    /\ provenTo' = IF aborted \/ timedOut THEN provenTo ELSE iteration
    /\ pc' = IF timedOut \/ iteration = MaxDepth THEN "done" ELSE "idle"
    /\ UNCHANGED <<game, table, evictions, arg, ret, stack, iteration, answer,
                   flags>>

\* The depth that is reported is read off the line.
DepthProves ==
    /\ pc = "return" /\ height = 0 /\ ret.ok
    /\ answer' = (ret.line + 1) \div 2
    /\ refuted' = FALSE
    /\ pc' = "done"
    /\ UNCHANGED <<game, table, evictions, arg, ret, stack, iteration, provenTo,
                   flags>>

\* Whatever the replacement policy, an entry may be gone.
Evict(k) ==
    /\ evictions < MaxEvictions /\ pc # "done"
    /\ table[k] # Absent
    /\ table' = [table EXCEPT ![k] = Absent]
    /\ evictions' = evictions + 1
    /\ UNCHANGED <<game, call, stack, route, flags>>

\* Another lane, or a sibling's proof, makes this search pointless.
CancelLane ==
    /\ InLane /\ ~cancelled /\ pc # "done"
    /\ cancelled' = TRUE
    /\ UNCHANGED <<game, table, evictions, call, stack, route, aborted, timedOut>>

AtRest == pc = "done" /\ UNCHANGED vars

Search ==
    \/ Cancel \/ Refute \/ TableAnswers \/ CoverageExit \/ EnterAttacker
    \/ NoReply \/ EnterDefender
    \/ ImmediateWin \/ LastMoveFails \/ TryMove \/ NoMoveWins
    \/ TryReply \/ EveryReplyLoses
    \/ Unwind \/ MoveProves \/ MoveFails \/ ReplyRefutes \/ ReplyLoses
    \/ StartDepth \/ DepthFails \/ DepthProves

Next == Search \/ (\E k \in Nodes : Evict(k)) \/ CancelLane \/ AtRest

Spec == Init /\ [][Next]_vars

-----------------------------------------------------------------------------
Frame == [node : Nodes, depth : Depths, left : SUBSET Nodes,
          child : Nodes \cup {NoChild}, best : Nat, hopeless : BOOLEAN]

TypeOK ==
    /\ moves \in [Attackers -> SUBSET Defenders]
    /\ replies \in [Defenders -> SUBSET Attackers]
    /\ mates \subseteq Attackers
    /\ dist \in [Nodes -> 1 .. Never]
    /\ standsDown \in [Attackers -> 0 .. Never]
    /\ table \in [Nodes -> Entry] /\ evictions \in Nat
    /\ pc \in {"enter", "loop", "return", "idle", "done"}
    /\ arg \in [node : Nodes, depth : Depths]
    /\ ret \in [ok : BOOLEAN, refuted : BOOLEAN, line : Nat]
    /\ frame \in [0 .. MaxPly -> Frame] /\ height \in 0 .. MaxPly
    /\ iteration \in 0 .. MaxDepth /\ provenTo \in 0 .. MaxDepth
    /\ answer \in Nat /\ refuted \in BOOLEAN
    /\ aborted \in BOOLEAN /\ timedOut \in BOOLEAN /\ cancelled \in BOOLEAN

\* What the table remembers of a node is true of it, whatever was evicted,
\* abandoned or refuted on the way: "an exact memo of verdicts".
TableIsTrue == \A k \in Nodes : SoundEntry(table[k], dist[k], dist[k])

\* A node's verdict is true: a proof at its depth, a failure at its depth, and
\* `refuted' -- "no solution at ANY depth" -- for good.
VerdictIsTrue ==
    pc = "return" /\ ~aborted =>
        /\ ret.ok => dist[arg.node] <= arg.depth
        /\ ~ret.ok => dist[arg.node] > arg.depth
        /\ ret.refuted => dist[arg.node] = Never

\* "The depth completed and found nothing: that is a theorem, so say so."
ProvenBoundIsTrue == provenTo < dist[Root]

\* The shortest mate is found, its length is the one reported, and a search that
\* was not interrupted and found nothing has proved there is nothing.
AnswerIsShortest ==
    pc = "done" =>
        /\ answer # 0 => answer = dist[Root]
        /\ answer = 0 /\ ~timedOut /\ ~cancelled => dist[Root] = Never

\* "No solution at ANY depth", not merely none within the depth searched.
RefutedIsForGood == refuted => dist[Root] = Never

\* The same of what the route finally hands to the printer: no later depth is
\* left to overwrite it, so a mate the table holds to be refuted is lost.
ReportedRefutedIsForGood == pc = "done" /\ refuted => dist[Root] = Never

\* What the searching thread has left to do at a level of its stack: a call that
\* is entered has every choice before it, one that returned only its answer.
LeftToDo(i) ==
    IF i < height THEN Cardinality(frame[i].left) + 2
    ELSE IF i > height THEN 0
    ELSE CASE pc = "enter"  -> Cardinality(Nodes) + 3
           [] pc = "return" -> 1
           [] OTHER         -> 0

\* The search comes back although positions repeat, entries are forgotten and
\* passes are abandoned: each of its steps starts the next depth or leaves less to
\* do at some level of the stack and as much below it, and no level is forgotten.
EveryStepCounts ==
    [][evictions' = evictions /\ cancelled' = cancelled =>
         \/ iteration' > iteration
         \/ \E i \in 0 .. MaxPly :
              /\ LeftToDo(i)' < LeftToDo(i)
              /\ \A j \in 0 .. i - 1 : LeftToDo(j)' = LeftToDo(j)]_vars
=============================================================================

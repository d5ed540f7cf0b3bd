-------------------------------- MODULE Dfpn ---------------------------------
(***************************************************************************)
(* The proof-number preconditioner: dfpn_attacker and dfpn_defender, and    *)
(* their selfmate twins, with the table of numbers that forgets everything  *)
(* when it is full, the disproofs handed to the exact prover and the move   *)
(* hints.                                                                   *)
(*                                                                          *)
(* A position knows whose turn it is, so its key is position and depth.     *)
(* DFPN_INF is small, so that sums reach it.  How moves are generated, the  *)
(* restriction of the attacker's moves and the statistics are left out.     *)
(***************************************************************************)
EXTENDS Naturals, Sequences, FiniteSets, FiniteSetsExt, SequencesExt

CONSTANTS
    Attackers, Defenders,   \* positions, by the side to move
    Root,
    MaxDepth,
    Inf,                    \* DFPN_INF
    Cases                   \* [goal, options, capacity, moves, replies, ends]

ASSUME DfpnAssumption ==
    /\ Root \in Attackers /\ Attackers \cap Defenders = {}
    /\ MaxDepth \in Nat \ {0} /\ Inf \in Nat \ {0}
ASSUME CasesAssumption ==
    \A c \in Cases :
        /\ c.goal \in {"mate", "self"}
        /\ c.moves \in [Attackers -> Seq(Defenders)]
        /\ c.replies \in [Defenders -> Seq(Attackers)]
        /\ \A p \in c.ends : IF c.goal = "mate" THEN p \in Defenders /\ c.replies[p] = <<>>
                             ELSE p \in Attackers /\ c.moves[p] = <<>>

VARIABLES
    goal,           \* "mate" | "self"
    options,        \* subset of {"bias", "epsilon", "child_init", "clear", "faults"}
    capacity,       \* dfpn_capacity
    moves, replies, \* the moves of either side, in the order generated
    wins,           \* the truth: who wins within each depth
    ends,           \* where the goal stands: defenders mated, or attackers mated
    table,          \* dfpn_tt: [pn, dn] of the keys it holds
    at,             \* the call being entered, run or returned from
    stack,          \* the calls below it
    disproofs,      \* what the exact table was given: <<position, depth>>
    hint,           \* attacker_proofs
    stopping, aborted, spent,      \* "no", "clock" or "cancel"; Search::aborted; the node budget
    told            \* what the root call returned

game   == <<goal, options, capacity, moves, replies, ends, wins>>
limits == <<stopping, aborted, spent>>
vars   == <<game, table, at, stack, disproofs, hint, limits, told>>

Positions == Attackers \cup Defenders
Keys      == Positions \X (0 .. MaxDepth)
Nothing   == "nothing"

\* sat_add
SatAdd(x, y) == IF x + y >= Inf THEN Inf ELSE x + y
AtMost(x, y) == IF x < y THEN x ELSE y

PnDn(pn, dn) == [pn |-> pn, dn |-> dn]
Won     == PnDn(0, Inf)
Lost    == PnDn(Inf, 0)
Unknown == PnDn(1, 1)

Below(p) == IF p \in Attackers THEN moves[p] ELSE replies[p]

\* A move costs a depth when the attacker makes it, in a selfmate the defender.
ChildDepth(p, d) == IF (goal = "mate") = (p \in Attackers) THEN d - 1 ELSE d

-----------------------------------------------------------------------------
(* The truth: who wins from a position at a depth. *)

MateWins(d, before) ==
    LET attack == {p \in Attackers : d > 0 /\ ToSet(moves[p]) \cap (ends \cup before) # {}}
    IN  attack \cup {p \in Defenders : replies[p] # <<>> /\ ToSet(replies[p]) \subseteq attack}

SelfWins(d, before) ==
    LET defend == {p \in Defenders : replies[p] # <<>> /\ ToSet(replies[p]) \subseteq before}
    IN  defend \cup ends \cup {p \in Attackers : d > 0 /\ ToSet(moves[p]) \cap defend # {}}

\* `before' is who wins with one depth less.
WinsAt(d, before) == IF goal = "mate" THEN MateWins(d, before) ELSE SelfWins(d, before)

Wins[d \in 0 .. MaxDepth] == WinsAt(d, IF d = 0 THEN {} ELSE Wins[d - 1])

-----------------------------------------------------------------------------
NoCall == [pc |-> "idle", pos |-> Root, depth |-> 0, thpn |-> 0, thdn |-> 0, ret |-> Unknown]

Call(p, d, thpn, thdn) ==
    [pc |-> "enter", pos |-> p, depth |-> d, thpn |-> thpn, thdn |-> thdn, ret |-> Unknown]

Init ==
    /\ \E c \in Cases :
         /\ goal = c.goal /\ options = c.options /\ capacity = c.capacity
         /\ moves = c.moves /\ replies = c.replies /\ ends = c.ends
    /\ wins = Wins
    /\ table = [k \in {} |-> Unknown]
    /\ \E depth \in 1 .. MaxDepth : at = Call(Root, depth, Inf, Inf)
    /\ stack = <<>>
    /\ disproofs = {} /\ hint = [p \in Attackers |-> Nothing]
    /\ stopping = "no" /\ aborted = FALSE /\ spent = FALSE
    /\ told = Unknown

Key == <<at.pos, at.depth>>
Seen(k) == k \in DOMAIN table
Lookup(k) == IF Seen(k) THEN table[k] ELSE Unknown

Mut_KeyWithoutDepth(v) ==
    LET kept  == IF Cardinality(DOMAIN table) >= capacity /\ ~Seen(Key) THEN {} ELSE DOMAIN table
        same  == kept \cup {<<at.pos, d>> : d \in 0 .. MaxDepth}
    IN  table' = [k \in same |-> IF k[1] = at.pos THEN v ELSE table[k]]

\* A full table forgets everything before it takes a new key.
Put(v) ==
    LET kept == IF Cardinality(DOMAIN table) >= capacity /\ ~Seen(Key) THEN {} ELSE DOMAIN table
    IN  table' = [k \in kept \cup {Key} |-> IF k = Key THEN v ELSE table[k]]

Mut_PublishesAsIs(v) == disproofs' = IF goal = "mate" /\ v.pn >= Inf THEN disproofs \cup {Key} ELSE disproofs

\* Only what is disproved is handed to the exact prover.
Publish(v) == disproofs' = IF goal = "mate" /\ v.dn = 0 THEN disproofs \cup {Key} ELSE disproofs

Return(v) == at' = [at EXCEPT !.pc = "return", !.ret = v]

\* A value that is stored and published, and ends the call.
Settle(v) == Put(v) /\ Publish(v) /\ Return(v)

Entering == at.pc = "enter"

\* Neither stored nor published.
GiveUp ==
    /\ Entering
    /\ \/ stopping # "no" /\ aborted' = TRUE
       \/ (aborted \/ (spent /\ stopping # "cancel")) /\ UNCHANGED aborted
    /\ Return(Unknown)
    /\ UNCHANGED <<game, table, stack, disproofs, hint, stopping, spent, told>>

\* search_cancelled polls the clock, so it may pass for a while; the node that is
\* counted may be the one that exhausts --dfpn-node-limit.
Counted ==
    /\ Entering /\ ~aborted /\ ~spent /\ stopping # "cancel"
    /\ spent' \in (IF "faults" \in options THEN BOOLEAN ELSE {FALSE})
    /\ UNCHANGED <<stopping, aborted>>

MatingMoves == {i \in 1 .. Len(moves[at.pos]) : moves[at.pos][i] \in ends}

AttackerEnds ==
    /\ at.pos \in Attackers
    /\ \/ goal = "mate" /\ (at.depth = 0 \/ moves[at.pos] = <<>> \/ MatingMoves # {} \/ at.depth = 1)
       \/ goal = "self" /\ (moves[at.pos] = <<>> \/ at.depth = 0)

AttackerWinsHere ==
    IF goal = "mate" THEN at.depth > 0 /\ MatingMoves # {}
    ELSE moves[at.pos] = <<>> /\ at.pos \in ends

\* The mating move is the hint.
AttackerWins ==
    /\ Counted /\ AttackerEnds /\ AttackerWinsHere
    /\ Put(Won) /\ Return(Won)
    /\ hint' = IF goal = "mate" THEN [hint EXCEPT ![at.pos] = moves[at.pos][Min(MatingMoves)]] ELSE hint
    /\ UNCHANGED <<game, stack, disproofs, told>>

\* Out of depth, without a move, or with no mate on the last one.
AttackerLoses ==
    /\ Counted /\ AttackerEnds /\ ~AttackerWinsHere
    /\ Put(Lost) /\ Return(Lost)
    /\ IF at.depth = 0 THEN UNCHANGED disproofs ELSE Publish(Lost)
    /\ UNCHANGED <<game, stack, hint, told>>

\* Stalemated, or mated in a selfmate.
DefenderIsStuck ==
    /\ Counted /\ at.pos \in Defenders /\ replies[at.pos] = <<>>
    /\ Settle(Lost)
    /\ UNCHANGED <<game, stack, hint, told>>

Terminal == AttackerEnds \/ (at.pos \in Defenders /\ replies[at.pos] = <<>>)

\* A first visit: every child counts one.  dfpn_check_bias weighs quiet replies.
Guess ==
    LET n == Len(Below(at.pos))
    IN  IF at.pos \in Attackers THEN PnDn(1, AtMost(n, Inf))
        ELSE PnDn(AtMost(IF goal = "mate" /\ "bias" \in options THEN 2 * n ELSE n, Inf), 1)

Over(v) == v.pn >= at.thpn \/ v.dn >= at.thdn

GuessSuffices ==
    /\ Counted /\ ~Terminal /\ ~Seen(Key) /\ (Over(Guess) \/ spent')
    /\ Settle(Guess)
    /\ UNCHANGED <<game, stack, hint, told>>

Expand ==
    /\ Counted /\ ~Terminal /\ (Seen(Key) \/ ~(Over(Guess) \/ spent'))
    /\ at' = [at EXCEPT !.pc = "select"]
    /\ UNCHANGED <<game, table, stack, disproofs, hint, told>>

-----------------------------------------------------------------------------
(* The loop of a node: its numbers, and the child to go into. *)

Kids == [i \in 1 .. Len(Below(at.pos)) |-> <<Below(at.pos)[i], ChildDepth(at.pos, at.depth)>>]

\* dfpn_child_init: an unseen defender with flights counts for more.
KidValue(i) ==
    IF ~Seen(Kids[i]) /\ goal = "mate" /\ at.pos \in Attackers /\ "child_init" \in options
    THEN PnDn(1 + Len(replies[Kids[i][1]]), 1)
    ELSE Lookup(Kids[i])

\* What the side to move minimises over its moves, and what adds up.
Own(v)   == IF at.pos \in Attackers THEN v.pn ELSE v.dn
Sum(v)   == IF at.pos \in Attackers THEN v.dn ELSE v.pn
Value(own, sum) == IF at.pos \in Attackers THEN PnDn(own, sum) ELSE PnDn(sum, own)

\* The first child of the smallest number; the first of all when none is below Inf.
Best ==
    CHOOSE i \in DOMAIN Kids :
        \A k \in DOMAIN Kids : Own(KidValue(i)) < Own(KidValue(k))
                               \/ (Own(KidValue(i)) = Own(KidValue(k)) /\ i <= k)

Second == Min({Inf} \cup {Own(KidValue(k)) : k \in DOMAIN Kids \ {Best}})

Total[i \in 0 .. Len(Kids)] ==
    IF i = 0 THEN 0 ELSE SatAdd(Total[i - 1], Sum(KidValue(i)))

Here == Value(Own(KidValue(Best)), Total[Len(Kids)])

Selecting == at.pc = "select"
Enough    == Over(Here) \/ spent \/ aborted

\* A selfmate node that was abandoned below stores nothing.
AbandonedBelow == goal = "self" /\ aborted

Conclude ==
    /\ Selecting /\ Enough /\ ~AbandonedBelow
    /\ Settle(Here)
    /\ hint' = IF at.pos \in Attackers /\ Here.pn = 0
               THEN [hint EXCEPT ![at.pos] = moves[at.pos][Best]] ELSE hint
    /\ UNCHANGED <<game, stack, limits, told>>

Abandon ==
    /\ Selecting /\ AbandonedBelow
    /\ Return(Unknown)
    /\ UNCHANGED <<game, table, stack, disproofs, hint, limits, told>>

\* 1 + epsilon, in 64ths, lets a child go on working.
Widened(own, th) ==
    IF "epsilon" \in options /\ goal = "mate" /\ own < Inf
    THEN AtMost(th, AtMost((own * (64 + 32)) \div 64, Inf)) ELSE own

Mut_SecondIsTheLimit(th) == Widened(AtMost(th, Second), th)

\* The best child works until another one is better.
OwnLimit(th) == Widened(AtMost(th, SatAdd(Second, 1)), th)

\* ... or until it takes the sum past the limit; the subtraction cannot underflow.
SumLimit(th) == AtMost(Inf, th - Sum(Here) + Sum(Lookup(Kids[Best])))

Descend ==
    /\ Selecting /\ ~Enough
    /\ stack' = Append(stack, at)
    /\ at' = IF at.pos \in Attackers
             THEN Call(Kids[Best][1], Kids[Best][2], OwnLimit(at.thpn), SumLimit(at.thdn))
             ELSE Call(Kids[Best][1], Kids[Best][2], SumLimit(at.thpn), OwnLimit(at.thdn))
    /\ UNCHANGED <<game, table, disproofs, hint, limits, told>>

\* What a call returns is not read: the loop looks its children up again.
Back ==
    /\ at.pc = "return" /\ stack # <<>>
    /\ at' = [Last(stack) EXCEPT !.pc = "select"]
    /\ stack' = Front(stack)
    /\ UNCHANGED <<game, table, disproofs, hint, limits, told>>

\* The exact search of this depth found nothing; the one of the next depth is prepared,
\* or of a later one when the selfmate route skips levels.  The numbers stay, unless
\* --clear-iter-tt or that route drops them; a clock seen to run out ends the route.
NextDepth ==
    /\ at.pc = "return" /\ stack = <<>> /\ ~(aborted /\ stopping = "clock")
    /\ \E depth \in at.depth + 1 .. MaxDepth :
         /\ goal = "mate" => depth = at.depth + 1
         /\ at' = Call(Root, depth, Inf, Inf)
    /\ table' = IF goal = "self" \/ "clear" \in options THEN [k \in {} |-> Unknown] ELSE table
    /\ aborted' = FALSE
    /\ UNCHANGED <<game, stack, disproofs, hint, stopping, spent, told>>

Finish ==
    /\ at.pc = "return" /\ stack = <<>>
    /\ told' = at.ret
    /\ at' = NoCall
    /\ UNCHANGED <<game, table, stack, disproofs, hint, limits>>

-----------------------------------------------------------------------------
\* The clock runs out, or the lane is cancelled.
Interrupt ==
    /\ "faults" \in options /\ at.pc # "idle" /\ stopping = "no"
    /\ stopping' \in {"clock", "cancel"}
    /\ UNCHANGED <<game, table, at, stack, disproofs, hint, aborted, spent, told>>

Step ==
    \/ GiveUp \/ AttackerWins \/ AttackerLoses \/ DefenderIsStuck
    \/ GuessSuffices \/ Expand \/ Conclude \/ Abandon \/ Descend \/ Back
    \/ NextDepth \/ Finish

Next == Step \/ Interrupt

Done == at.pc = "idle" /\ UNCHANGED vars

Spec == Init /\ [][Next \/ Done]_vars

FairSpec == Spec /\ WF_vars(Step)

-----------------------------------------------------------------------------
(* Properties. *)

\* dfpn.h:25-40.  A zero is a verdict: proof number zero means the attacker wins
\* within the depth of the key, disproof number zero that he does not, though
\* sums saturate, tables are dropped and calls abandoned on the way.
ZeroIsAVerdict ==
    \A k \in DOMAIN table :
        /\ table[k].pn = 0 => k[1] \in wins[k[2]]
        /\ table[k].dn = 0 => k[1] \notin wins[k[2]]

\* dfpn.h:98-105.  Every disproof the exact prover is given is one.
DisproofsAreTrue == \A k \in disproofs : k[1] \notin wins[k[2]]

\* A search whose table holds every key of the game ends.
Termination == capacity >= Cardinality(Keys) => <>(at.pc = "idle")
=============================================================================

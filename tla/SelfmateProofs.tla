---------------------------- MODULE SelfmateProofs ----------------------------
(***************************************************************************)
(* What SelfmateProver computes is true, for every game, depth and order of *)
(* moves.  Proofs are true under every option.  That failures are, and so   *)
(* the reported length, is proved without selfmate_bound and, where         *)
(* attacker_reject is on (it is by default), of the games in which no move  *)
(* it rejects stands beside one with a reply that is a dead end (Exact).    *)
(*                                                                          *)
(* A failure speaks of two depths: the one asked, and fail_depth, which may *)
(* be greater.  A loop keeps, of the moves it has done with, that they all  *)
(* fail to both (FrameIsTrue); a failure of depth 0 is counted by none, and *)
(* may be, since a defender returns it only where there is no selfmate.  A  *)
(* move that was rejected fails to depth 1 only; a loop that has one must   *)
(* not claim more, and it does not, as what its other moves may claim is    *)
(* not more either (NoFurther).                                             *)
(***************************************************************************)
EXTENDS SelfmateProver, FiniteSetTheorems, TLAPS

Result == [ok : BOOLEAN, refuted : BOOLEAN, fail : Nat, line : Nat]

Frame == [node : Nodes, depth : Depths, left : SUBSET Nodes, best : Nat, fail : Nat]

\* An entry remembers failures past MaxDepth, kFailAnyDepth among them.
FarEntry == [disproved : Nat \cup {NoDisproof}, proved : Depths \cup {NoProof},
             refuted : BOOLEAN, gen : Nat, line : Nat]

GameType ==
    /\ moves \in [Attackers -> SUBSET Defenders] /\ moves[Root] # {}
    /\ replies \in [Defenders -> SUBSET Attackers]
    /\ mated \subseteq {n \in Attackers : moves[n] = {}}
    /\ dist \in [Nodes -> 0 .. Never]

TypeOK ==
    /\ GameType
    /\ table \in [Attackers -> FarEntry]
    /\ pc \in {"enter", "loop", "return", "idle", "done"}
    /\ arg \in [node : Nodes, depth : 0 .. MaxDepth] /\ ret \in Result
    /\ frame \in [0 .. MaxPly -> Frame \cup {NoFrame}] /\ height \in 0 .. MaxPly
    /\ iteration \in Nat \ {0} /\ aborted \in BOOLEAN

\* The plies below a node searched to depth n: the longest line it may return.
Plies(k, n) == IF k \in Attackers THEN 2 * n ELSE 2 * n - 1

Running == pc \in {"enter", "loop", "return"}

\* The loop on top waits for a call unless it is the one that runs.
Waits(i)  == i < height - 1 \/ pc # "loop"
Callee(i) == IF i < height - 1 THEN frame[i + 1].node ELSE arg.node

FrameFits(i) ==
    /\ frame[i] \in Frame
    /\ Plies(frame[i].node, frame[i].depth) = 2 * iteration - i
    /\ frame[i].left \subseteq Successors(frame[i].node)
    /\ Successors(frame[i].node) # {}
    /\ Waits(i) => Callee(i) \in Successors(frame[i].node)

\* The stack is a line of play from the root.
Shape ==
    /\ pc # "done" => iteration <= MaxDepth
    /\ pc \in {"idle", "done"} => height = 0
    /\ pc = "loop" => height > 0
    /\ pc \in {"enter", "return"} =>
         /\ Plies(arg.node, arg.depth) = 2 * iteration - height
         /\ height = 0 => arg.node = Root
    /\ height > 0 => frame[0].node = Root
    /\ \A i \in 0 .. height - 1 : FrameFits(i)

\* The choices a loop is done with.
Tried(i) ==
    Successors(frame[i].node) \ (frame[i].left \cup IF Waits(i) THEN {Callee(i)} ELSE {})

\* The moves attacker_reject refutes at a node searched to depth d.
RejectedAt(k, d) ==
    IF "attacker_reject" \in options /\ d = 1 THEN moves[k] \cap quiet ELSE {}

\* What a loop has learnt of them.
FrameIsTrue(i) ==
    /\ frame[i].node \in Attackers /\ Exact =>
         /\ \A m \in Tried(i) :
              /\ dist[m] > frame[i].depth
              /\ TrueFailure(m, frame[i].fail) \/ m \in RejectedAt(frame[i].node, frame[i].depth)
         /\ RejectedAt(frame[i].node, frame[i].depth) # {} =>
              frame[i].fail \in {Unset, 0, 1} /\ (Waits(i) => Callee(i) \notin quiet)
    /\ frame[i].node \in Defenders =>
         /\ frame[i].best <= 2 * frame[i].depth - 1
         /\ \A r \in Tried(i) : dist[r] < frame[i].depth /\ 2 * dist[r] + 1 <= frame[i].best

\* One move from the end a failure reaches no further than it was asked to,
\* unless there is a dead end to make it.
NoFurther(k, d, v) ==
    /\ k \in Attackers /\ d = 0 /\ ~DeadEnd(k) => v.fail = 0
    /\ k \in Defenders /\ d = 1 /\ (\A r \in replies[k] : ~DeadEnd(r)) => v.fail <= 1

VerdictFor(k, d, v) ==
    /\ v.ok => /\ ~v.refuted /\ dist[k] <= d
               /\ Plies(k, dist[k]) <= v.line /\ v.line <= Plies(k, d)
    /\ v.refuted => dist[k] = Never
    /\ ~v.ok /\ ~aborted /\ Exact =>
         /\ dist[k] > d /\ TrueFailure(k, v.fail)
         /\ k \in Defenders /\ v.fail = 0 => dist[k] = Never
         /\ NoFurther(k, d, v)

EntryIsTrue(e, k) ==
    /\ e.proved # NoProof => /\ dist[k] <= e.proved
                             /\ 2 * dist[k] <= e.line /\ e.line <= 2 * e.proved
    /\ e.refuted => dist[k] = Never
    /\ Exact => TrueFailure(k, e.disproved)

TableIsTrue == \A n \in Attackers : EntryIsTrue(table[n], n)

SearchIsTrue ==
    /\ TableIsTrue
    /\ \A i \in 0 .. height - 1 : FrameIsTrue(i)
    /\ pc = "return" => VerdictFor(arg.node, arg.depth, ret)

\* The levels below the one searched hold no selfmate.
RouteIsTrue ==
    /\ pc \in {"idle", "enter", "loop"} => ~aborted
    /\ pc = "return" /\ aborted => ~ret.ok
    /\ pc # "done" => answer = NoAnswer
    /\ pc # "done" /\ Exact => iteration <= dist[Root]
    /\ AnswerIsShortest

\* What the shortcuts read is true of the game.
SeenIsTrue ==
    /\ \A n \in bare : dist[n] = Never
    /\ \A d \in quiet : d \in Defenders /\ dist[d] > 1
    /\ bare \subseteq Nodes

IInv == TypeOK /\ Truth /\ SeenIsTrue /\ Shape /\ SearchIsTrue /\ RouteIsTrue

-----------------------------------------------------------------------------
(* Facts about the constants and the game. *)

LEMMA Constants ==
    /\ MaxDepth \in Nat /\ MaxDepth >= 1 /\ Never = MaxDepth + 1
    /\ MaxPly \in Nat /\ MaxPly = 2 * MaxDepth + 1
    /\ AnyDepthFail \in Nat /\ AnyDepthFail > MaxDepth /\ Unset \in Nat /\ Unset > Never
    /\ Root \in Attackers /\ Root \in Nodes
    /\ \A k \in Nodes : k \in Attackers <=> k \notin Defenders
    /\ Attackers \subseteq Nodes /\ Defenders \subseteq Nodes
BY DepthAssumption, SelfmateNodesAssumption DEF Never, MaxPly, Nodes, Unset

\* A nonempty set of naturals has a least element.
LEMMA LeastExists ==
    ASSUME NEW S \in SUBSET Nat, S # {}
    PROVE  \E x \in S : \A y \in S : x <= y
<1> DEFINE T == {0 .. n : n \in S}
<1>1. T \subseteq FiniteSubsetsOf(Nat) /\ T # {}
  <2>1. \A n \in Nat : IsFiniteSet(0 .. n)
    BY FS_Interval
  <2>2. \A n \in Nat : 0 .. n \in SUBSET Nat
    OBVIOUS
  <2>3. \A n \in S : 0 .. n \in FiniteSubsetsOf(Nat)
    BY <2>1, <2>2, Zenon DEF FiniteSubsetsOf
  <2> QED
    BY <2>3
<1>2. IsWellFoundedOn(StrictSubsetOrdering(Nat), FiniteSubsetsOf(Nat))
  BY FS_StrictSubsetOrderingWellFounded
<1>3. \E a \in T : \A b \in T : ~(<<b, a>> \in StrictSubsetOrdering(Nat))
  BY <1>1, <1>2, WFMin
<1>4. PICK x \in S : \A y \in S : ~(<<0 .. y, 0 .. x>> \in StrictSubsetOrdering(Nat))
  BY <1>3
<1>5. ASSUME NEW y \in S, y < x PROVE FALSE
  <2>1. 0 .. y \subseteq 0 .. x /\ 0 .. y # 0 .. x /\ 0 .. x \subseteq Nat
    BY <1>5
  <2> QED
    BY <1>4, <2>1 DEF StrictSubsetOrdering
<1> QED
  BY <1>5

\* The step of an argument by the length of the mate: of the positions that can be
\* mated, one is mated first.
LEMMA FirstMated ==
    ASSUME GameType, NEW P \in SUBSET Nodes, \E n \in P : dist[n] # Never
    PROVE  \E n \in P : /\ dist[n] \in 0 .. MaxDepth
                        /\ \A m \in P : dist[n] <= dist[m]
<1>1. \A n \in P : dist[n] \in 0 .. Never /\ dist[n] \in Nat
  BY Constants DEF GameType
<1> DEFINE S == {dist[n] : n \in P}
<1>2. S \in SUBSET Nat /\ S # {}
  BY <1>1
<1>3. PICK x \in S : \A y \in S : x <= y
  BY <1>2, LeastExists
<1>4. PICK n \in P : x = dist[n]
  OBVIOUS
<1>5. \A m \in P : dist[n] <= dist[m]
  BY <1>3, <1>4
<1>6. dist[n] # Never
  BY <1>1, <1>5, Constants
<1> QED
  BY <1>1, <1>5, <1>6, Constants

LEMMA Distances ==
    ASSUME GameType, Truth
    PROVE  /\ \A n \in Nodes : dist[n] \in 0 .. Never
           /\ \A d \in Defenders : dist[d] \in 1 .. Never /\ replies[d] \subseteq Attackers
           /\ \A a \in Attackers : /\ moves[a] \subseteq Defenders
                                   /\ dist[a] = 0 <=> a \in mated
                                   /\ a \in mated => moves[a] = {}
<1>1. \A n \in Nodes : dist[n] \in 0 .. Never
  BY DEF GameType
<1>2. \A d \in Defenders : dist[d] > 0 /\ d \in Nodes
  BY Constants DEF Truth, DefenderEquation
<1> QED
  BY <1>1, <1>2, Constants DEF GameType, Truth, AttackerEquation

\* What a move is worth, its position is worth.
LEMMA MoveMates ==
    ASSUME GameType, Truth, NEW a \in Attackers, NEW m \in moves[a]
    PROVE  dist[a] <= dist[m]
<1>1. /\ AttackerEquation(a) /\ dist[a] \in 0 .. Never /\ dist[m] \in 1 .. Never
  BY Distances, Constants DEF Truth
<1> QED
  BY <1>1, Constants DEF AttackerEquation, Depths

\* A position is not worth more than its moves are.
LEMMA MovesFail ==
    ASSUME GameType, Truth, NEW a \in Attackers, a \notin mated
    PROVE  /\ moves[a] = {} => dist[a] = Never
           /\ \A f \in Nat : (\A m \in moves[a] : dist[m] > f) => dist[a] > f \/ dist[a] = Never
           /\ \A f \in Nat : (\A m \in moves[a] : TrueFailure(m, f)) => TrueFailure(a, f)
<1>1. /\ AttackerEquation(a) /\ dist[a] \in 1 .. Never
      /\ \A m \in moves[a] : dist[m] \in 1 .. Never
  BY Distances, Constants DEF Truth
<1>2. CASE dist[a] = Never
  BY <1>1, <1>2 DEF TrueFailure
<1>3. CASE dist[a] # Never
  <2>1. PICK m \in moves[a] : dist[m] <= dist[a]
    BY <1>1, <1>3, Constants DEF AttackerEquation, Depths
  <2>2. dist[m] \in 1 .. MaxDepth
    BY <1>1, <1>3, <2>1, Constants
  <2> QED
    BY <1>1, <1>3, <2>1, <2>2, Constants DEF TrueFailure
<1> QED
  BY <1>2, <1>3

\* The defender is mated after each of his replies, or not at all.
LEMMA ReplyEscapes ==
    ASSUME GameType, Truth, NEW d \in Defenders
    PROVE  /\ replies[d] = {} => dist[d] = Never
           /\ \A r \in replies[d] : dist[r] < dist[d] \/ dist[d] = Never
           /\ \A r \in replies[d] : dist[r] = Never => dist[d] = Never
<1>1. DefenderEquation(d) /\ dist[d] \in 1 .. Never
      /\ \A r \in replies[d] : dist[r] \in 0 .. Never
  BY Distances, Constants DEF Truth
<1>2. dist[d] # Never => /\ replies[d] # {}
                         /\ \A r \in replies[d] : dist[r] < dist[d]
  BY <1>1, Constants DEF DefenderEquation, Depths
<1> QED
  BY <1>1, <1>2, Constants

\* If every reply mates the defender does, as late as the best of them.
LEMMA RepliesMate ==
    ASSUME GameType, Truth, NEW d \in Defenders, replies[d] # {}, NEW n \in Depths,
           NEW best \in Nat, best <= 2 * n - 1,
           \A r \in replies[d] : dist[r] < n /\ 2 * dist[r] + 1 <= best
    PROVE  dist[d] <= n /\ 2 * dist[d] - 1 <= best
<1>1. /\ DefenderEquation(d) /\ dist[d] \in 1 .. Never
      /\ \A r \in replies[d] : dist[r] \in 0 .. Never
  BY Distances, Constants DEF Truth
<1>2. PICK r \in replies[d] : TRUE
  OBVIOUS
<1> DEFINE k == (best + 1) \div 2
<1>3. k \in Int /\ (best + 1 = 2 * k \/ best + 1 = 2 * k + 1)
  OBVIOUS
<1> HIDE DEF k
<1>4. 2 * dist[r] + 1 <= best /\ dist[r] \in 0 .. Never
  BY <1>1, <1>2
<1>5. k \in Depths /\ k <= n
  BY <1>3, <1>4, Constants DEF Depths
<1>6. \A x \in replies[d] : dist[x] < k
  BY <1>1, <1>3
<1>7. dist[d] <= k
  BY <1>1, <1>5, <1>6 DEF DefenderEquation
<1> QED
  BY <1>1, <1>3, <1>5, <1>7 DEF Depths

\* position_is_refuted_axiomatically: no position a lone king can reach is mated.
LEMMA LoneKingsNeverMate ==
    ASSUME GameType, Truth, NEW B \in LoneKings
    PROVE  B \subseteq Nodes /\ \A n \in B : dist[n] = Never
<1>1. /\ B \in SUBSET Nodes /\ B \cap mated = {}
      /\ \A n \in B : Successors(n) \subseteq B
  BY DEF LoneKings
<1>2. ASSUME \E n \in B : dist[n] # Never PROVE FALSE
  <2>1. PICK n \in B : /\ dist[n] \in 0 .. MaxDepth
                       /\ \A m \in B : dist[n] <= dist[m]
    BY <1>1, <1>2, FirstMated
  <2>2. ASSUME NEW d \in B, d \in Defenders, dist[d] <= dist[n] PROVE FALSE
    <3>1. dist[d] \in Depths /\ DefenderEquation(d)
      BY <2>1, <2>2, Distances, Constants DEF Depths, Truth
    <3>2. PICK r \in replies[d] : dist[r] < dist[d]
      BY <3>1, Constants DEF DefenderEquation, Depths
    <3>3. r \in B /\ dist[r] \in 0 .. Never
      BY <1>1, <2>2, Constants, Distances DEF Successors
    <3> QED
      BY <2>1, <2>2, <3>1, <3>2, <3>3 DEF Depths
  <2>3. n \in Attackers
    BY <1>1, <2>1, <2>2 DEF Nodes
  <2>4. dist[n] \in Depths /\ AttackerEquation(n)
    BY <1>1, <2>1, <2>3, Distances DEF Depths, Truth
  <2>5. PICK m \in moves[n] : dist[m] <= dist[n]
    BY <1>1, <2>4, Constants DEF AttackerEquation, Depths
  <2>6. m \in B /\ m \in Defenders
    BY <1>1, <2>3, Distances DEF Successors
  <2> QED
    BY <2>2, <2>5, <2>6
<1> QED
  BY <1>1, <1>2

\* selfmate_perpetual_check: in the region of a perpetual check nobody is mated.
LEMMA PerpetualIsForGood ==
    ASSUME GameType, Truth, SeenIsTrue, NEW d \in Defenders, PerpetualCheck(d)
    PROVE  dist[d] = Never
<1>1. PICK region \in SUBSET Defenders :
        /\ d \in region
        /\ \A p \in region :
             \E check \in replies[p] :
                 moves[check] # {} /\ moves[check] \subseteq region \cup bare
  BY DEF PerpetualCheck
<1>2. ASSUME \E p \in region : dist[p] # Never PROVE FALSE
  <2>1. PICK p \in region : /\ dist[p] \in 0 .. MaxDepth
                            /\ \A q \in region : dist[p] <= dist[q]
    BY <1>2, FirstMated, Constants
  <2>2. PICK check \in replies[p] :
          moves[check] # {} /\ moves[check] \subseteq region \cup bare
    BY <1>1
  <2>3. /\ p \in Defenders /\ check \in Attackers /\ dist[p] \in 1 .. MaxDepth
        /\ dist[check] \in 0 .. Never /\ check \notin mated
    BY <2>1, <2>2, Distances, Constants
  <2>4. dist[check] < dist[p] /\ dist[check] \in Depths
    BY <2>1, <2>3, Distances, ReplyEscapes, Constants DEF Depths
  <2>5. PICK m \in moves[check] : dist[m] <= dist[check]
    BY <2>3, <2>4 DEF Truth, AttackerEquation
  <2>6. dist[m] \in 1 .. Never /\ (m \in region \/ m \in bare)
    BY <2>2, <2>3, Distances
  <2>7. m \notin bare
    BY <2>4, <2>5, Constants DEF SeenIsTrue, Depths
  <2> QED
    BY <2>1, <2>3, <2>4, <2>5, <2>6, <2>7
<1> QED
  BY <1>1, <1>2

-----------------------------------------------------------------------------
(* Results and what is kept of them. *)

LEMMA ResultType ==
    /\ \A f \in Nat, r \in BOOLEAN :
         /\ Fails(f, r) \in Result /\ ~Fails(f, r).ok
         /\ Fails(f, r).refuted = r /\ Fails(f, r).fail = f
    /\ \A n \in Nat :
         /\ Proves(n) \in Result /\ Proves(n).ok
         /\ ~Proves(n).refuted /\ Proves(n).line = n
<1>1. FALSE \in BOOLEAN /\ TRUE \in BOOLEAN /\ 0 \in Nat
  OBVIOUS
<1> QED
  BY <1>1, Zenon DEF Fails, Proves, Result

\* A node that says what it found, and one that was told to stop.
LEMMA FailuresAreResults ==
    Failure \in Result /\ ~Failure.ok /\ ~Failure.refuted /\ Failure.fail = 0
<1>1. FALSE \in BOOLEAN /\ 0 \in Nat
  OBVIOUS
<1> QED
  BY <1>1, ResultType DEF Failure

LEMMA ResultParts ==
    ASSUME NEW v \in Result
    PROVE  v.ok \in BOOLEAN /\ v.refuted \in BOOLEAN /\ v.fail \in Nat /\ v.line \in Nat
BY Zenon DEF Result

\* A failure that reaches nothing reaches no further than it was asked to, and no
\* other attacker is asked less than a move.
LEMMA NothingIsNoFurther ==
    ASSUME NEW k, NEW d, NEW v, v.fail = 0 \/ (k \notin Defenders /\ d # 0)
    PROVE  NoFurther(k, d, v)
BY DEF NoFurther

Kept(d, v) ==
    [ok |-> v.ok, bound |-> IF v.ok THEN d ELSE v.fail, refuted |-> v.refuted, line |-> v.line]

\* Absorbing a true verdict leaves an entry true.
LEMMA AbsorbTrue ==
    ASSUME GameType, NEW k \in Attackers, NEW d \in Depths, NEW v \in Result,
           NEW e \in FarEntry, EntryIsTrue(e, k), VerdictFor(k, d, v), ~aborted
    PROVE  Absorb(e, Kept(d, v)) \in FarEntry /\ EntryIsTrue(Absorb(e, Kept(d, v)), k)
<1> DEFINE w == Kept(d, v)
<1>1. v.ok \in BOOLEAN /\ v.refuted \in BOOLEAN /\ v.fail \in Nat /\ v.line \in Nat
  BY ResultParts
<1>2. /\ w.ok = v.ok /\ w.bound = (IF v.ok THEN d ELSE v.fail)
      /\ w.refuted = v.refuted /\ w.line = v.line
  BY DEF Kept
<1>3. /\ e.disproved \in Nat \cup {NoDisproof} /\ e.proved \in Depths \cup {NoProof}
      /\ e.refuted \in BOOLEAN /\ e.gen \in Nat /\ e.line \in Nat
  BY Zenon DEF FarEntry
<1> HIDE DEF w
<1> DEFINE a == Absorb(e, w)
<1>4. /\ a.disproved = (IF ~v.ok /\ v.fail > e.disproved THEN v.fail ELSE e.disproved)
      /\ a.proved = (IF v.ok /\ d < e.proved THEN d ELSE e.proved)
      /\ a.refuted = (e.refuted \/ v.refuted) /\ a.gen = e.gen
      /\ a.line = (IF v.ok /\ d < e.proved THEN v.line ELSE e.line)
  BY <1>2 DEF Absorb
<1>5. a = [disproved |-> a.disproved, proved |-> a.proved, refuted |-> a.refuted,
           gen |-> a.gen, line |-> a.line]
  BY DEF Absorb
<1> HIDE DEF a
<1>6. a \in FarEntry
  <2>1. /\ a.disproved \in Nat \cup {NoDisproof} /\ a.proved \in Depths \cup {NoProof}
        /\ a.gen \in Nat /\ a.line \in Nat
    BY <1>1, <1>3, <1>4
  <2>2. a.refuted \in BOOLEAN
    BY <1>1, <1>3, <1>4, Zenon
  <2> QED
    BY <1>5, <2>1, <2>2, Zenon DEF FarEntry
<1>7. EntryIsTrue(a, k)
  <2>1. dist[k] \in 0 .. Never
    BY Constants DEF GameType
  <2>2. a.proved # NoProof => /\ dist[k] <= a.proved
                              /\ 2 * dist[k] <= a.line /\ a.line <= 2 * a.proved
    BY <1>3, <1>4, <2>1, Constants DEF EntryIsTrue, VerdictFor, Plies
  <2>3. a.refuted => dist[k] = Never
    BY <1>4 DEF EntryIsTrue, VerdictFor
  <2>4. Exact => TrueFailure(k, a.disproved)
    BY <1>4 DEF EntryIsTrue, VerdictFor
  <2> QED
    BY <2>2, <2>3, <2>4 DEF EntryIsTrue
<1> QED
  BY <1>6, <1>7 DEF a, w

-----------------------------------------------------------------------------
(* Steps of the stack. *)

LEMMA GameKept ==
    ASSUME GameType, Truth, SeenIsTrue, UNCHANGED game
    PROVE  /\ GameType' /\ Truth' /\ SeenIsTrue'
           /\ moves' = moves /\ replies' = replies /\ mated' = mated /\ dist' = dist
           /\ quiet' = quiet /\ bare' = bare /\ options' = options
           /\ Exact' = Exact
<1>1. /\ moves' = moves /\ replies' = replies /\ mated' = mated /\ dist' = dist
      /\ quiet' = quiet /\ bare' = bare /\ options' = options
  BY DEF game
<1> QED
  BY <1>1
  DEF GameType, Truth, AttackerEquation, DefenderEquation, SeenIsTrue, Exact,
      RejectsAreHarmless, DeadEnd

\* A verdict on a game stays true of it.
LEMMA VerdictKept ==
    ASSUME GameType, Truth, SeenIsTrue, UNCHANGED <<game, aborted>>, NEW k, NEW d, NEW v,
           VerdictFor(k, d, v)
    PROVE  /\ v.ok => /\ ~v.refuted /\ dist'[k] <= d
                      /\ Plies(k, dist'[k]) <= v.line /\ v.line <= Plies(k, d)
           /\ v.refuted => dist'[k] = Never
           /\ ~v.ok /\ ~aborted' /\ Exact' =>
                /\ dist'[k] > d /\ (v.fail < dist'[k] \/ dist'[k] = Never)
                /\ k \in Defenders /\ v.fail = 0 => dist'[k] = Never
                /\ k \in Attackers /\ d = 0 /\ ~DeadEnd(k)' => v.fail = 0
                /\ k \in Defenders /\ d = 1 /\ (\A r \in replies'[k] : ~DeadEnd(r)')
                     => v.fail <= 1
<1>1. /\ dist' = dist /\ replies' = replies /\ moves' = moves /\ mated' = mated
      /\ bare' = bare /\ Exact' = Exact /\ aborted' = aborted
  BY GameKept
<1> QED
  BY <1>1 DEF VerdictFor, NoFurther, TrueFailure, DeadEnd

\* A loop that waits, and whose call in flight is the same, stays as it is.
LEMMA FrameKept ==
    ASSUME NEW i, GameType, Truth, SeenIsTrue, UNCHANGED <<game, iteration>>,
           frame'[i] = frame[i], Waits(i), Waits(i)', Callee(i)' = Callee(i),
           FrameFits(i), FrameIsTrue(i)
    PROVE  FrameFits(i)' /\ FrameIsTrue(i)'
<1>1. /\ moves' = moves /\ replies' = replies /\ dist' = dist /\ Exact' = Exact
      /\ quiet' = quiet /\ options' = options /\ iteration' = iteration
  BY GameKept
<1>2. FrameFits(i)'
  BY <1>1 DEF FrameFits, Successors, Plies
<1>3. Tried(i)' = Tried(i)
  BY <1>1 DEF Tried, Successors
<1> QED
  BY <1>1, <1>2, <1>3 DEF FrameIsTrue, TrueFailure, RejectedAt

LEMMA TableKept ==
    ASSUME GameType, Truth, SeenIsTrue, TableIsTrue, UNCHANGED <<game, table>>
    PROVE  TableIsTrue'
<1>1. dist' = dist /\ Exact' = Exact /\ table' = table
  BY GameKept
<1> QED
  BY <1>1 DEF TableIsTrue, EntryIsTrue, TrueFailure

\* The loop on top.
LEMMA TopFacts ==
    ASSUME IInv, height > 0
    PROVE  /\ height - 1 \in 0 .. height - 1 /\ height - 1 \in 0 .. MaxPly /\ height \in Nat
           /\ Top \in Frame /\ FrameFits(height - 1) /\ FrameIsTrue(height - 1)
           /\ Top.node \in Nodes /\ Top.depth \in Depths /\ Top.left \subseteq Nodes
           /\ Top.best \in Nat /\ Top.fail \in Nat
           /\ Plies(Top.node, Top.depth) = 2 * iteration - (height - 1)
           /\ Top.left \subseteq Successors(Top.node) /\ Successors(Top.node) # {}
<1>1. height - 1 \in 0 .. height - 1 /\ height - 1 \in 0 .. MaxPly /\ height \in Nat
  BY Constants DEF IInv, TypeOK
<1>2. FrameFits(height - 1) /\ FrameIsTrue(height - 1)
  BY <1>1 DEF IInv, Shape, SearchIsTrue
<1>3. Top \in Frame
  BY <1>2 DEF FrameFits, Top
<1>4. /\ Top.node \in Nodes /\ Top.depth \in Depths /\ Top.left \subseteq Nodes
      /\ Top.best \in Nat /\ Top.fail \in Nat
  BY <1>3, Zenon DEF Frame
<1> QED
  BY <1>1, <1>2, <1>3, <1>4 DEF FrameFits, Top

\* A choice is a node of the other side.
LEMMA ChoiceFacts ==
    ASSUME GameType, Truth, NEW k \in Nodes, NEW c \in Successors(k)
    PROVE  /\ c \in Nodes
           /\ k \in Attackers => c \in Defenders /\ c \in moves[k] /\ c \notin Attackers
           /\ k \in Defenders => c \in Attackers /\ c \in replies[k] /\ k \notin Attackers
BY Distances, Constants DEF Successors, Nodes

\* The route's own part of a step inside a level.
LEMMA RouteKept ==
    ASSUME IInv, Running, Running', UNCHANGED <<game, iteration, answer>>,
           pc' \in {"enter", "loop"} => ~aborted', pc' = "return" /\ aborted' => ~ret'.ok
    PROVE  RouteIsTrue'
<1>1. dist' = dist /\ Exact' = Exact
  BY GameKept DEF IInv, TypeOK
<1> QED
  BY <1>1 DEF IInv, RouteIsTrue, AnswerIsShortest, Running

\* A node that answers without a loop, or gives up.
LEMMA LeafStep ==
    ASSUME IInv, pc = "enter", NEW v \in Result, Return(arg.node, arg.depth, v),
           aborted' \in BOOLEAN, aborted' => ~v.ok, VerdictFor(arg.node, arg.depth, v)',
           UNCHANGED <<game, table, stack, iteration, answer>>
    PROVE  IInv'
<1>1. /\ pc' = "return" /\ arg' = arg /\ ret' = v /\ frame' = frame /\ height' = height
      /\ table' = table /\ iteration' = iteration /\ answer' = answer
  <2>1. arg = [node |-> arg.node, depth |-> arg.depth]
    BY DEF IInv, TypeOK
  <2> QED
    BY <2>1 DEF Return, stack
<1>2. /\ GameType' /\ Truth' /\ SeenIsTrue' /\ dist' = dist /\ Exact' = Exact
      /\ moves' = moves /\ replies' = replies
  BY GameKept DEF IInv, TypeOK
<1>3. TypeOK'
  BY <1>1, <1>2 DEF IInv, TypeOK
<1>4. ASSUME NEW i \in 0 .. height' - 1
      PROVE  FrameFits(i)' /\ FrameIsTrue(i)'
  <2>1. Waits(i) /\ Waits(i)' /\ Callee(i)' = Callee(i) /\ frame'[i] = frame[i]
    BY <1>1 DEF Waits, Callee
  <2>2. FrameFits(i) /\ FrameIsTrue(i)
    BY <1>1 DEF IInv, Shape, SearchIsTrue
  <2> QED
    BY <1>1, <2>1, <2>2, FrameKept DEF IInv, TypeOK
<1>5. Shape'
  <2>1. /\ pc' # "done" => iteration' <= MaxDepth
        /\ Plies(arg'.node, arg'.depth) = 2 * iteration' - height'
        /\ height' = 0 => arg'.node = Root
        /\ height' > 0 => frame'[0].node = Root
    BY <1>1 DEF IInv, Shape
  <2> QED
    BY <1>1, <1>4, <2>1 DEF Shape, Plies
<1>6. SearchIsTrue'
  <2>1. TableIsTrue'
    BY <1>1, TableKept DEF IInv, TypeOK, SearchIsTrue
  <2> QED
    BY <1>1, <1>4, <2>1 DEF SearchIsTrue
<1>7. RouteIsTrue'
  BY <1>1, RouteKept DEF Running
<1> QED
  BY <1>2, <1>3, <1>5, <1>6, <1>7 DEF IInv

\* A node that answers with the truth.
LEMMA SaysTrue ==
    ASSUME IInv, pc = "enter", ~aborted, NEW v \in Result, Says(v),
           VerdictFor(arg.node, arg.depth, v)
    PROVE  IInv'
<1>1. /\ Return(arg.node, arg.depth, v) /\ aborted' = aborted
      /\ UNCHANGED <<game, table, stack, iteration, answer>>
  BY DEF Says
<1>2. arg'.node = arg.node /\ arg'.depth = arg.depth /\ dist' = dist /\ Exact' = Exact
  BY <1>1, GameKept DEF Return, IInv, TypeOK
<1>3. VerdictFor(arg.node, arg.depth, v)'
  <2>1. PICK k, d : k = arg.node /\ d = arg.depth
    OBVIOUS
  <2>2. GameType /\ Truth /\ SeenIsTrue /\ VerdictFor(k, d, v)
    BY <2>1 DEF IInv, TypeOK
  <2>3. VerdictFor(k, d, v)'
    BY <1>1, <2>2, VerdictKept DEF VerdictFor, NoFurther, Plies, TrueFailure
  <2>4. arg'.node = k /\ arg'.depth = d
    BY <1>2, <2>1
  <2> QED
    BY <2>3, <2>4 DEF VerdictFor, NoFurther, Plies, TrueFailure, DeadEnd
<1>4. aborted' \in BOOLEAN
  BY <1>1 DEF IInv, TypeOK
<1> QED
  BY <1>1, <1>3, <1>4, LeafStep

\* The loop on top ends and hands its verdict down.
LEMMA PopStep ==
    ASSUME IInv, Running, height > 0, NEW v \in Result, Leave(v),
           VerdictFor(Top.node, Top.depth, v), aborted => ~v.ok,
           table' \in [Attackers -> FarEntry], TableIsTrue',
           UNCHANGED <<game, iteration, aborted, answer>>
    PROVE  IInv'
<1>1. /\ pc' = "return" /\ arg' = [node |-> Top.node, depth |-> Top.depth] /\ ret' = v
      /\ arg'.node = Top.node /\ arg'.depth = Top.depth
      /\ height' = height - 1 /\ frame' = frame
      /\ iteration' = iteration /\ aborted' = aborted /\ answer' = answer
  BY DEF Leave, Return
<1>2. /\ GameType' /\ Truth' /\ SeenIsTrue' /\ dist' = dist /\ Exact' = Exact
      /\ moves' = moves /\ replies' = replies
  BY GameKept DEF IInv, TypeOK
<1>3. /\ height \in Nat /\ height - 1 \in 0 .. MaxPly /\ Top.node \in Nodes
      /\ Top.depth \in Depths
      /\ Plies(Top.node, Top.depth) = 2 * iteration - (height - 1)
  BY TopFacts
<1>4. TypeOK'
  <2>1. arg' \in [node : Nodes, depth : 0 .. MaxDepth]
    BY <1>1, <1>3, Constants DEF Depths
  <2> QED
    BY <1>1, <1>2, <1>3, <2>1 DEF IInv, TypeOK
<1>5. ASSUME NEW i \in 0 .. height' - 1
      PROVE  FrameFits(i)' /\ FrameIsTrue(i)'
  <2>1. i \in 0 .. height - 1 /\ i < height - 1 /\ i <= height - 2
    BY <1>1, <1>3
  <2>2. Waits(i) /\ Waits(i)' /\ frame'[i] = frame[i]
    BY <1>1, <2>1 DEF Waits
  <2>3. Callee(i)' = Callee(i)
    <3>1. Callee(i) = frame[i + 1].node
      BY <2>1 DEF Callee
    <3>2. CASE i < height - 2
      BY <1>1, <1>3, <3>1, <3>2 DEF Callee
    <3>3. CASE i = height - 2
      BY <1>1, <1>3, <3>1, <3>3 DEF Callee, Top
    <3> QED
      BY <1>3, <2>1, <3>2, <3>3
  <2>4. FrameFits(i) /\ FrameIsTrue(i)
    BY <2>1 DEF IInv, Shape, SearchIsTrue
  <2> QED
    BY <1>1, <2>2, <2>3, <2>4, FrameKept DEF IInv, TypeOK
<1>6. Shape'
  <2>1. height' = 0 => arg'.node = Root
    <3>1. height = 1 => Top = frame[0]
      BY DEF Top
    <3>2. frame[0].node = Root
      BY DEF IInv, Shape
    <3> QED
      BY <1>1, <1>3, <3>1, <3>2
  <2>2. iteration' <= MaxDepth
    BY <1>1 DEF IInv, Shape, Running
  <2>3. Plies(arg'.node, arg'.depth) = 2 * iteration' - height'
    BY <1>1, <1>3
  <2>4. frame'[0].node = Root
    BY <1>1 DEF IInv, Shape
  <2> QED
    BY <1>1, <1>5, <2>1, <2>2, <2>3, <2>4 DEF Shape, Plies
<1>7. SearchIsTrue'
  <2>1. VerdictFor(arg.node, arg.depth, ret)'
    BY <1>1, <1>2, VerdictKept DEF VerdictFor, NoFurther, Plies, TrueFailure, IInv, TypeOK
  <2> QED
    BY <1>5, <2>1 DEF SearchIsTrue
<1>8. RouteIsTrue'
  BY <1>1, RouteKept DEF Running
<1> QED
  BY <1>2, <1>4, <1>6, <1>7, <1>8 DEF IInv

\* The frames below the one on top.
LEMMA Below ==
    ASSUME IInv, height > 0, UNCHANGED <<game, iteration, height>>, NEW f,
           SetTop(f), NEW i \in 0 .. height - 1, i # height - 1
    PROVE  /\ frame'[i] = frame[i]
           /\ f.node = Top.node => FrameFits(i)' /\ FrameIsTrue(i)'
<1>1. /\ height \in Nat /\ height - 1 \in 0 .. MaxPly /\ height' = height
      /\ frame \in [0 .. MaxPly -> Frame \cup {NoFrame}] /\ MaxPly \in Nat
  BY TopFacts, Constants DEF IInv, TypeOK
<1>2. /\ frame' = [frame EXCEPT ![height - 1] = f]
      /\ i \in 0 .. MaxPly /\ i < height - 1 /\ i + 1 \in 0 .. MaxPly
  BY <1>1 DEF SetTop
<1>3. frame'[i] = frame[i] /\ frame'[height - 1] = f
  BY <1>1, <1>2
<1>4. ASSUME f.node = Top.node
      PROVE  FrameFits(i)' /\ FrameIsTrue(i)'
  <2>1. Waits(i) /\ Waits(i)'
    BY <1>1, <1>2 DEF Waits
  <2>2. Callee(i)' = Callee(i)
    <3>1. /\ i + 1 \in 0 .. MaxPly /\ Callee(i) = frame[i + 1].node
          /\ Callee(i)' = frame'[i + 1].node
      BY <1>1, <1>2 DEF Callee
    <3>2. CASE i + 1 = height - 1
      BY <1>3, <1>4, <3>1, <3>2 DEF Top
    <3>3. CASE i + 1 # height - 1
      BY <1>1, <1>2, <3>1, <3>3
    <3> QED
      BY <3>2, <3>3
  <2>3. FrameFits(i) /\ FrameIsTrue(i)
    BY DEF IInv, Shape, SearchIsTrue
  <2> QED
    BY <1>3, <2>1, <2>2, <2>3, FrameKept DEF IInv, TypeOK
<1> QED
  BY <1>3, <1>4

\* The loop on top goes on: what has been tried is what is not left.
LEMMA GoesOnStep ==
    ASSUME IInv, height > 0, pc \in {"loop", "return"}, ~aborted, NEW f \in Frame, SetTop(f),
           f.node = Top.node, f.depth = Top.depth, f.left \subseteq Top.left, pc' = "loop",
           UNCHANGED <<game, table, arg, ret, height, iteration, aborted, answer>>,
           f.node \in Attackers /\ Exact =>
             /\ \A m \in Successors(f.node) \ f.left :
                  /\ dist[m] > f.depth
                  /\ TrueFailure(m, f.fail) \/ m \in RejectedAt(f.node, f.depth)
             /\ RejectedAt(f.node, f.depth) # {} => f.fail \in {Unset, 0, 1},
           f.node \in Defenders =>
             /\ f.best <= 2 * f.depth - 1
             /\ \A r \in Successors(f.node) \ f.left :
                  dist[r] < f.depth /\ 2 * dist[r] + 1 <= f.best
    PROVE  IInv'
<1>1. /\ height \in Nat /\ height - 1 \in 0 .. MaxPly /\ height' = height /\ arg' = arg
      /\ ret' = ret /\ table' = table /\ iteration' = iteration /\ aborted' = aborted
      /\ answer' = answer
      /\ frame \in [0 .. MaxPly -> Frame \cup {NoFrame}]
      /\ FrameFits(height - 1) /\ Top.left \subseteq Successors(Top.node)
  BY TopFacts DEF IInv, TypeOK
<1>2. /\ GameType' /\ Truth' /\ SeenIsTrue' /\ dist' = dist /\ Exact' = Exact
      /\ moves' = moves /\ replies' = replies /\ quiet' = quiet /\ options' = options
  BY GameKept DEF IInv, TypeOK
<1>3. frame' = [frame EXCEPT ![height - 1] = f] /\ frame'[height - 1] = f
  BY <1>1 DEF SetTop
<1>4. TypeOK'
  BY <1>1, <1>2, <1>3 DEF IInv, TypeOK
<1>5. FrameFits(height - 1)' /\ FrameIsTrue(height - 1)'
  <2>1. ~Waits(height - 1)'
    BY <1>1 DEF Waits
  <2>2. FrameFits(height - 1)'
    BY <1>1, <1>2, <1>3, <2>1 DEF FrameFits, Successors, Plies, Top
  <2>3. Tried(height - 1)' = Successors(f.node) \ f.left
    BY <1>2, <1>3, <2>1 DEF Tried, Successors
  <2> QED
    BY <1>2, <1>3, <2>1, <2>2, <2>3 DEF FrameIsTrue, TrueFailure, RejectedAt
<1>6. \A i \in 0 .. height' - 1 : FrameFits(i)' /\ FrameIsTrue(i)'
  BY <1>1, <1>5, Below
<1>7. Shape'
  <2>1. frame'[0].node = Root
    <3>1. CASE height = 1
      BY <1>3, <3>1 DEF Top, IInv, Shape
    <3>2. CASE height # 1
      BY <1>1, <1>3, <3>2 DEF IInv, Shape
    <3> QED
      BY <3>1, <3>2
  <2> QED
    BY <1>1, <1>6, <2>1 DEF IInv, Shape
<1>8. SearchIsTrue'
  <2>1. TableIsTrue'
    BY TableKept DEF IInv, TypeOK, SearchIsTrue
  <2> QED
    BY <1>6, <2>1 DEF SearchIsTrue
<1>9. RouteIsTrue'
  BY <1>1, RouteKept DEF Running
<1> QED
  BY <1>2, <1>4, <1>7, <1>8, <1>9 DEF IInv

\* The loop on top calls for one of the choices it has left.
LEMMA CallStep ==
    ASSUME IInv, height > 0, pc = "loop", NEW c \in Top.left, NEW d \in 0 .. MaxDepth,
           SetTop([Top EXCEPT !.left = @ \ {c}]), Enter(c, d),
           Plies(c, d) = Plies(Top.node, Top.depth) - 1,
           Top.node \in Attackers /\ RejectedAt(Top.node, Top.depth) # {} => c \notin quiet,
           UNCHANGED <<game, table, ret, height, iteration, aborted, answer>>
    PROVE  IInv'
<1> DEFINE f == [Top EXCEPT !.left = @ \ {c}]
<1>1. /\ height \in Nat /\ height - 1 \in 0 .. MaxPly /\ height' = height
      /\ ret' = ret /\ table' = table /\ iteration' = iteration /\ aborted' = aborted
      /\ answer' = answer
      /\ frame \in [0 .. MaxPly -> Frame \cup {NoFrame}]
      /\ FrameFits(height - 1) /\ FrameIsTrue(height - 1) /\ Top \in Frame
      /\ Top.node \in Nodes /\ c \in Successors(Top.node)
      /\ Plies(Top.node, Top.depth) = 2 * iteration - (height - 1)
  BY TopFacts DEF IInv, TypeOK
<1>2. /\ GameType' /\ Truth' /\ SeenIsTrue' /\ dist' = dist /\ Exact' = Exact
      /\ moves' = moves /\ replies' = replies /\ quiet' = quiet /\ options' = options
  BY GameKept DEF IInv, TypeOK
<1>3. /\ f \in Frame /\ f.node = Top.node /\ f.depth = Top.depth /\ f.best = Top.best
      /\ f.fail = Top.fail /\ f.left = Top.left \ {c}
  BY <1>1 DEF Frame
<1>4. SetTop(f)
  OBVIOUS
<1> HIDE DEF f
<1>5. /\ frame' = [frame EXCEPT ![height - 1] = f] /\ frame'[height - 1] = f
      /\ pc' = "enter" /\ arg' = [node |-> c, depth |-> d]
      /\ arg'.node = c /\ arg'.depth = d
  BY <1>1, <1>4 DEF SetTop, Enter
<1>6. c \in Nodes
  BY <1>1, ChoiceFacts DEF IInv, TypeOK
<1>7. TypeOK'
  <2>1. arg' \in [node : Nodes, depth : 0 .. MaxDepth]
    BY <1>5, <1>6
  <2> QED
    BY <1>1, <1>2, <1>3, <1>5, <2>1 DEF IInv, TypeOK
<1>8. FrameFits(height - 1)' /\ FrameIsTrue(height - 1)'
  <2>1. ~Waits(height - 1) /\ Waits(height - 1)' /\ Callee(height - 1)' = c
    BY <1>1, <1>5 DEF Waits, Callee
  <2>2. FrameFits(height - 1)'
    BY <1>1, <1>2, <1>3, <1>5, <2>1 DEF FrameFits, Successors, Plies, Top
  <2>3. Tried(height - 1)' \subseteq Tried(height - 1)
    BY <1>2, <1>3, <1>5, <2>1 DEF Tried, Successors, Top
  <2> QED
    BY <1>1, <1>2, <1>3, <1>5, <2>1, <2>2, <2>3
    DEF FrameIsTrue, TrueFailure, RejectedAt, Top
<1>9. \A i \in 0 .. height' - 1 : FrameFits(i)' /\ FrameIsTrue(i)'
  BY <1>1, <1>3, <1>4, <1>8, Below
<1>10. Shape'
  <2>1. frame'[0].node = Root
    <3>1. CASE height = 1
      BY <1>3, <1>5, <3>1 DEF Top, IInv, Shape
    <3>2. CASE height # 1
      BY <1>1, <1>5, <3>2 DEF IInv, Shape
    <3> QED
      BY <3>1, <3>2
  <2>2. Plies(arg'.node, arg'.depth) = 2 * iteration' - height' /\ iteration' <= MaxDepth
    <3>1. iteration \in Nat
      BY DEF IInv, TypeOK
    <3> QED
      BY <1>1, <1>5, <3>1 DEF IInv, Shape
  <2> QED
    BY <1>1, <1>5, <1>9, <2>1, <2>2 DEF Shape, Plies
<1>11. SearchIsTrue'
  <2>1. TableIsTrue'
    BY TableKept DEF IInv, TypeOK, SearchIsTrue
  <2> QED
    BY <1>5, <1>9, <2>1 DEF SearchIsTrue
<1>12. RouteIsTrue'
  <2>1. ~aborted'
    BY <1>1 DEF IInv, RouteIsTrue
  <2> QED
    BY <1>1, <1>5, <2>1, RouteKept DEF Running
<1> QED
  BY <1>2, <1>7, <1>10, <1>11, <1>12 DEF IInv

\* Entering a loop: nothing has been tried, and a ply is left for it.
LEMMA PushStep ==
    ASSUME IInv, pc = "enter", ~aborted, arg.depth \in Depths,
           Successors(arg.node) # {}, Push(Successors(arg.node))
    PROVE  IInv'
<1> DEFINE f == [node |-> arg.node, depth |-> arg.depth, left |-> Successors(arg.node),
                 best |-> 0, fail |-> Unset]
<1>1. /\ height \in Nat /\ frame \in [0 .. MaxPly -> Frame \cup {NoFrame}]
      /\ arg.node \in Nodes /\ iteration \in Nat
      /\ Plies(arg.node, arg.depth) = 2 * iteration - height /\ iteration <= MaxDepth
  BY DEF IInv, TypeOK, Shape
<1>2. /\ GameType' /\ Truth' /\ SeenIsTrue' /\ dist' = dist /\ Exact' = Exact
      /\ moves' = moves /\ replies' = replies
  BY GameKept DEF IInv, TypeOK, Push
<1>3. height \in 0 .. MaxPly /\ height + 1 \in 0 .. MaxPly
  BY <1>1, Constants DEF Plies, Depths
<1>4. /\ f \in Frame /\ f.node = arg.node /\ f.depth = arg.depth
      /\ f.left = Successors(arg.node) /\ f.best = 0 /\ f.fail = Unset
  <2>1. Successors(arg.node) \subseteq Nodes /\ 0 \in Nat /\ Unset \in Nat
    BY <1>1, ChoiceFacts, Constants DEF IInv, TypeOK
  <2> QED
    BY <1>1, <2>1, Zenon DEF Frame
<1>5. /\ frame' = [frame EXCEPT ![height] = f] /\ height' = height + 1 /\ pc' = "loop"
      /\ UNCHANGED <<game, table, arg, ret, iteration, aborted, answer>>
  BY DEF Push
<1> HIDE DEF f
<1>6. frame'[height] = f /\ \A i \in 0 .. height - 1 : frame'[i] = frame[i]
  BY <1>1, <1>3, <1>5
<1>7. TypeOK'
  BY <1>1, <1>2, <1>3, <1>4, <1>5 DEF IInv, TypeOK
<1>9. ASSUME NEW i \in 0 .. height' - 1
      PROVE  FrameFits(i)' /\ FrameIsTrue(i)'
  <2>1. CASE i = height
    <3>1. ~Waits(i)' /\ frame'[i] = f
      BY <1>1, <1>5, <1>6, <2>1 DEF Waits
    <3>2. FrameFits(i)'
      BY <1>1, <1>2, <1>4, <1>5, <2>1, <3>1 DEF FrameFits, Successors, Plies
    <3>3. Tried(i)' = {}
      BY <1>2, <1>4, <3>1 DEF Tried, Successors
    <3>4. 0 <= 2 * arg.depth - 1
      BY Constants DEF Depths
    <3> QED
      BY <1>4, <3>1, <3>2, <3>3, <3>4 DEF FrameIsTrue
  <2>2. CASE i # height
    <3>1. i \in 0 .. height - 1 /\ frame'[i] = frame[i]
      BY <1>1, <1>5, <1>6, <2>2
    <3>2. Waits(i) /\ Waits(i)'
      BY <1>1, <1>5, <3>1 DEF Waits
    <3>3. Callee(i)' = Callee(i)
      <4>1. CASE i = height - 1
        BY <1>1, <1>4, <1>5, <1>6, <4>1 DEF Callee
      <4>2. CASE i # height - 1
        <5>1. i + 1 \in 0 .. height - 1 /\ i < height - 1 /\ i < height' - 1
          BY <1>1, <1>5, <3>1, <4>2
        <5> QED
          BY <1>6, <5>1 DEF Callee
      <4> QED
        BY <4>1, <4>2
    <3>4. FrameFits(i) /\ FrameIsTrue(i)
      BY <3>1 DEF IInv, Shape, SearchIsTrue
    <3> QED
      BY <1>5, <3>1, <3>2, <3>3, <3>4, FrameKept DEF IInv, TypeOK
  <2> QED
    BY <2>1, <2>2
<1>10. Shape'
  <2>1. frame'[0].node = Root
    <3>1. CASE height = 0
      BY <1>4, <1>6, <3>1 DEF IInv, Shape
    <3>2. CASE height # 0
      BY <1>1, <1>6, <3>2 DEF IInv, Shape
    <3> QED
      BY <3>1, <3>2
  <2> QED
    BY <1>1, <1>5, <1>9, <2>1 DEF Shape
<1>11. SearchIsTrue'
  <2>1. TableIsTrue'
    BY <1>5, TableKept DEF IInv, TypeOK, SearchIsTrue
  <2> QED
    BY <1>5, <1>9, <2>1 DEF SearchIsTrue
<1>12. RouteIsTrue'
  BY <1>5, RouteKept DEF Running
<1> QED
  BY <1>2, <1>7, <1>10, <1>11, <1>12 DEF IInv

-----------------------------------------------------------------------------
(* The actions. *)

LEMMA Here ==
    ASSUME IInv, pc = "enter"
    PROVE  /\ GameType /\ Truth /\ SeenIsTrue /\ ~aborted
           /\ arg.node \in Nodes /\ arg.depth \in 0 .. MaxDepth
           /\ dist[arg.node] \in 0 .. Never
           /\ arg.node \in Defenders => arg.depth \in Depths /\ arg.node \notin Attackers
<1>1. /\ GameType /\ Truth /\ SeenIsTrue /\ ~aborted
      /\ arg.node \in Nodes /\ arg.depth \in 0 .. MaxDepth
      /\ Plies(arg.node, arg.depth) = 2 * iteration - height
      /\ height = 0 => arg.node = Root
      /\ height \in Nat /\ iteration \in Nat
  BY DEF IInv, TypeOK, Shape, RouteIsTrue
<1>2. dist[arg.node] \in 0 .. Never
  BY <1>1 DEF GameType
<1>3. ASSUME arg.node \in Defenders PROVE arg.depth \in Depths /\ arg.node \notin Attackers
  <2>1. arg.node \notin Attackers /\ height > 0
    BY <1>1, <1>3, Constants
  <2>2. /\ Plies(Top.node, Top.depth) = 2 * iteration - (height - 1)
        /\ Top.depth \in Depths
    BY <2>1, TopFacts
  <2>3. Plies(Top.node, Top.depth) >= 1
    BY <2>2 DEF Plies, Depths
  <2> QED
    BY <1>1, <2>1, <2>2, <2>3 DEF Plies, Depths
<1> QED
  BY <1>1, <1>2, <1>3

\* What fails for good fails to any depth.
LEMMA NeverFails ==
    ASSUME NEW k \in Nodes, NEW d \in 0 .. MaxDepth, NEW v, ~v.ok, dist[k] = Never,
           NoFurther(k, d, v)
    PROVE  VerdictFor(k, d, v)
BY Constants DEF VerdictFor, TrueFailure

\* The table answers with what is true of the node.
LEMMA TableAnswersTrue ==
    ASSUME IInv, pc = "enter", arg.node \in Attackers, arg.depth > 0, Hit,
           NEW found, found = Answer(table[arg.node], arg.depth),
           NEW v, v = IF found.ok THEN Proves(found.line) ELSE Fails(found.fail, found.refuted)
    PROVE  v \in Result /\ VerdictFor(arg.node, arg.depth, v)
<1> DEFINE k == arg.node
           d == arg.depth
           e == table[k]
<1>1. /\ EntryIsTrue(e, k) /\ e \in FarEntry /\ d \in Depths /\ dist[k] \in 0 .. Never
      /\ k \in Attackers
  BY Here DEF IInv, SearchIsTrue, TableIsTrue, TypeOK, Depths
<1>2. /\ e.disproved \in Nat \cup {NoDisproof} /\ e.proved \in Depths \cup {NoProof}
      /\ e.refuted \in BOOLEAN /\ e.line \in Nat
  BY <1>1, Zenon DEF FarEntry
<1>3. /\ found.settled = (e.refuted \/ d >= e.proved \/ d <= e.disproved)
      /\ found.ok = (~e.refuted /\ d >= e.proved) /\ found.refuted = e.refuted
      /\ found.fail = (IF e.refuted THEN 0 ELSE e.disproved) /\ found.line = e.line
  BY DEF Answer
<1>4. found.settled
  BY DEF Hit
<1> HIDE DEF e, k, d
<1>5. CASE found.ok
  <2>1. v = Proves(e.line) /\ v \in Result /\ v.ok /\ ~v.refuted /\ v.line = e.line
    BY <1>2, <1>3, <1>5, ResultType
  <2>2. e.proved \in Depths /\ e.proved <= d /\ e.proved # NoProof
    <3>1. d >= e.proved
      BY <1>3, <1>5, Zenon
    <3> QED
      BY <1>1, <1>2, <3>1, Constants DEF NoProof, Depths
  <2>3. dist[k] <= e.proved /\ 2 * dist[k] <= e.line /\ e.line <= 2 * e.proved
    BY <1>1, <2>2 DEF EntryIsTrue
  <2>4. dist[k] <= d /\ 2 * dist[k] <= e.line /\ e.line <= 2 * d
    BY <1>1, <1>2, <2>2, <2>3, Constants DEF Depths
  <2> QED
    BY <1>1, <2>1, <2>4 DEF VerdictFor, Plies, k, d
<1>6. CASE ~found.ok
  <2>1. found.fail \in Nat /\ (~e.refuted => d <= e.disproved)
    BY <1>1, <1>2, <1>3, <1>4, <1>6 DEF Depths, NoDisproof
  <2>2. /\ v = Fails(found.fail, e.refuted) /\ v \in Result /\ ~v.ok
        /\ v.refuted = e.refuted /\ v.fail = found.fail
    BY <1>2, <1>3, <1>6, <2>1, ResultType
  <2>3. k \in Nodes /\ k \notin Defenders /\ d \in 0 .. MaxDepth /\ d # 0
    BY <1>1, Constants DEF Depths
  <2>4. CASE e.refuted
    <3>1. dist[k] = Never
      BY <1>1, <2>4 DEF EntryIsTrue
    <3>2. NoFurther(k, d, v)
      BY <2>3, NothingIsNoFurther
    <3>3. VerdictFor(k, d, v)
      BY <2>2, <2>3, <3>1, <3>2, NeverFails
    <3> QED
      BY <2>2, <3>3 DEF k, d
  <2>5. CASE ~e.refuted
    <3>1. v.fail = e.disproved /\ d <= e.disproved /\ ~v.refuted
      BY <1>3, <2>1, <2>2, <2>5
    <3>2. Exact => TrueFailure(k, v.fail)
      BY <1>1, <3>1 DEF EntryIsTrue
    <3>3. Exact => dist[k] > d
      BY <1>1, <1>2, <3>1, <3>2, Constants DEF TrueFailure, Depths, NoDisproof
    <3>4. NoFurther(k, d, v)
      BY <2>3, NothingIsNoFurther
    <3>5. VerdictFor(k, d, v)
      BY <2>2, <2>3, <3>1, <3>2, <3>3, <3>4 DEF VerdictFor
    <3> QED
      BY <2>2, <3>5 DEF k, d
  <2> QED
    BY <2>4, <2>5
<1> QED
  BY <1>5, <1>6

LEMMA EnterAttackerStep ==
    ASSUME IInv, Refute \/ NoMove \/ Prune \/ NoDepth \/ TableAnswers \/ NodeExit
                   \/ EnterAttacker
    PROVE  IInv'
<1> DEFINE k == arg.node
           d == arg.depth
<1>1. /\ pc = "enter" /\ k \in Attackers /\ ~aborted
  BY DEF Refute, NoMove, Prune, NoDepth, TableAnswers, NodeExit, EnterAttacker, Alive,
         Entering
<1>2. /\ GameType /\ Truth /\ SeenIsTrue /\ k \in Nodes /\ k \notin Defenders
      /\ d \in 0 .. MaxDepth /\ dist[k] \in 0 .. Never
  BY <1>1, Here, Constants
<1>3. ASSUME Alive PROVE k \notin mated /\ moves[k] # {} /\ dist[k] \in 1 .. Never
  BY <1>1, <1>2, <1>3, Distances, Constants DEF Alive, Stuck
<1>4. CASE Refute
  <2>1. dist[k] = Never /\ Says(Fails(AnyDepthFail, TRUE))
    BY <1>2, <1>4 DEF Refute, AxiomFires, SeenIsTrue
  <2>2. Fails(AnyDepthFail, TRUE) \in Result /\ ~Fails(AnyDepthFail, TRUE).ok
    BY ResultType, Constants
  <2>3. k \in bare /\ k \notin mated
    BY <1>1, <1>2, <1>4, <2>1, Distances, Constants DEF Refute, AxiomFires
  <2>4. NoFurther(k, d, Fails(AnyDepthFail, TRUE))
    BY <1>2, <2>3 DEF NoFurther, DeadEnd
  <2> QED
    BY <1>1, <1>2, <2>1, <2>2, <2>4, NeverFails, SaysTrue
<1>5. CASE NoMove
  <2>1. CASE k \in mated
    <3>1. Says(Proves(0)) /\ dist[k] = 0
      BY <1>1, <1>2, <1>5, <2>1, Distances DEF NoMove
    <3>2. Proves(0) \in Result /\ Proves(0).ok /\ ~Proves(0).refuted /\ Proves(0).line = 0
      BY ResultType
    <3>3. VerdictFor(k, d, Proves(0))
      BY <1>1, <1>2, <3>1, <3>2 DEF VerdictFor, Plies
    <3> QED
      BY <1>1, <3>1, <3>2, <3>3, SaysTrue
  <2>2. CASE k \notin mated
    <3>1. Says(Fails(AnyDepthFail, FALSE)) /\ dist[k] = Never
      BY <1>1, <1>2, <1>5, <2>2, MovesFail DEF NoMove, Stuck
    <3>2. Fails(AnyDepthFail, FALSE) \in Result /\ ~Fails(AnyDepthFail, FALSE).ok
      BY ResultType, Constants
    <3>3. NoFurther(k, d, Fails(AnyDepthFail, FALSE))
      BY <1>2, <1>5, <2>2 DEF NoFurther, DeadEnd, NoMove, Stuck
    <3> QED
      BY <1>1, <1>2, <3>1, <3>2, <3>3, NeverFails, SaysTrue
  <2> QED
    BY <2>1, <2>2
<1>6. CASE Prune
  <2>1. Says(Failure) /\ ~Exact
    BY <1>6 DEF Prune, OutOfReach, Exact
  <2>2. VerdictFor(k, d, Failure)
    BY <2>1, FailuresAreResults DEF VerdictFor
  <2> QED
    BY <1>1, <2>1, <2>2, FailuresAreResults, SaysTrue
<1>7. CASE NoDepth
  <2>1. Says(Failure) /\ d = 0 /\ dist[k] \in 1 .. Never
    BY <1>3, <1>7 DEF NoDepth
  <2>2. VerdictFor(k, d, Failure)
    BY <1>2, <2>1, FailuresAreResults, Constants DEF VerdictFor, NoFurther, TrueFailure
  <2> QED
    BY <1>1, <2>1, <2>2, FailuresAreResults, SaysTrue
<1>8. CASE TableAnswers
  <2> DEFINE found == Answer(table[k], d)
             v == IF found.ok THEN Proves(found.line) ELSE Fails(found.fail, found.refuted)
  <2>1. Says(v) /\ d > 0 /\ Hit
    BY <1>8 DEF TableAnswers
  <2>2. v \in Result /\ VerdictFor(k, d, v)
    BY <1>1, <2>1, TableAnswersTrue
  <2> HIDE DEF v
  <2> QED
    BY <1>1, <2>1, <2>2, SaysTrue
<1>9. CASE NodeExit
  <2>1. Says(Failure) /\ d = 1 /\ moves[k] \subseteq quiet /\ dist[k] \in 1 .. Never
        /\ k \notin mated
    BY <1>3, <1>9 DEF NodeExit, NodeExits
  <2>2. \A m \in moves[k] : dist[m] > 1
    BY <1>2, <2>1 DEF SeenIsTrue
  <2>3. dist[k] > 1
    BY <1>1, <1>2, <2>1, <2>2, MovesFail, Constants
  <2>4. VerdictFor(k, d, Failure)
    BY <1>2, <2>1, <2>3, FailuresAreResults, Constants
    DEF VerdictFor, NoFurther, TrueFailure
  <2> QED
    BY <1>1, <2>1, <2>4, FailuresAreResults, SaysTrue
<1>10. CASE EnterAttacker
  <2>1. d \in Depths /\ moves[k] # {} /\ Push(moves[k]) /\ Successors(k) = moves[k]
    BY <1>1, <1>2, <1>3, <1>10 DEF EnterAttacker, Depths, Successors
  <2> QED
    BY <1>1, <2>1, PushStep
<1> QED
  BY <1>4, <1>5, <1>6, <1>7, <1>8, <1>9, <1>10

LEMMA EnterDefenderStep ==
    ASSUME IInv, Perpetual \/ PruneReplies \/ NoReply \/ EnterDefender
    PROVE  IInv'
<1> DEFINE k == arg.node
           d == arg.depth
<1>1. /\ pc = "enter" /\ k \in Defenders /\ ~aborted
  BY DEF Perpetual, PruneReplies, NoReply, EnterDefender, Entering
<1>2. /\ GameType /\ Truth /\ SeenIsTrue /\ k \in Nodes /\ k \notin Attackers
      /\ d \in 0 .. MaxDepth /\ d \in Depths
  BY <1>1, Here, Constants
<1>3. CASE Perpetual
  <2>1. Says(Fails(0, TRUE)) /\ dist[k] = Never
    BY <1>1, <1>2, <1>3, PerpetualIsForGood DEF Perpetual
  <2>2. Fails(0, TRUE) \in Result /\ ~Fails(0, TRUE).ok /\ Fails(0, TRUE).fail = 0
    BY ResultType
  <2>3. NoFurther(k, d, Fails(0, TRUE))
    BY <2>2, NothingIsNoFurther
  <2> QED
    BY <1>1, <1>2, <2>1, <2>2, <2>3, NeverFails, SaysTrue
<1>4. CASE PruneReplies
  <2>1. Says(Failure) /\ ~Exact
    BY <1>4 DEF PruneReplies, OutOfReach, Exact
  <2>2. VerdictFor(k, d, Failure)
    BY <2>1, FailuresAreResults DEF VerdictFor
  <2> QED
    BY <1>1, <2>1, <2>2, FailuresAreResults, SaysTrue
<1>5. CASE NoReply
  <2>1. Says(Failure) /\ dist[k] = Never
    BY <1>1, <1>2, <1>5, ReplyEscapes DEF NoReply
  <2>2. NoFurther(k, d, Failure)
    BY FailuresAreResults DEF NoFurther
  <2> QED
    BY <1>1, <1>2, <2>1, <2>2, NeverFails, FailuresAreResults, SaysTrue
<1>6. CASE EnterDefender
  <2>1. replies[k] # {} /\ Push(replies[k]) /\ Successors(k) = replies[k]
    BY <1>2, <1>6 DEF EnterDefender, Successors
  <2> QED
    BY <1>1, <1>2, <2>1, PushStep
<1> QED
  BY <1>3, <1>4, <1>5, <1>6

\* What the loop that runs knows, and what it knows when its call returns.
LEMMA LoopFacts ==
    ASSUME IInv, height > 0, pc = "loop"
    PROVE  /\ Top.node \in Attackers /\ Exact =>
                /\ \A m \in Successors(Top.node) \ Top.left :
                     /\ dist[m] > Top.depth
                     /\ TrueFailure(m, Top.fail) \/ m \in RejectedAt(Top.node, Top.depth)
                /\ RejectedAt(Top.node, Top.depth) # {} => Top.fail \in {Unset, 0, 1}
           /\ Top.node \in Defenders =>
                /\ Top.best <= 2 * Top.depth - 1
                /\ \A r \in Successors(Top.node) \ Top.left :
                     dist[r] < Top.depth /\ 2 * dist[r] + 1 <= Top.best
           /\ ~aborted
<1>1. FrameIsTrue(height - 1) /\ height \in Nat
  BY TopFacts
<1>2. Tried(height - 1) = Successors(Top.node) \ Top.left
  BY <1>1 DEF Tried, Waits, Top
<1> QED
  BY <1>1, <1>2 DEF FrameIsTrue, Top, IInv, RouteIsTrue

LEMMA ReturnFacts ==
    ASSUME IInv, height > 0, pc = "return"
    PROVE  /\ Top.node \in Attackers /\ Exact =>
                /\ \A m \in Successors(Top.node) \ Top.left :
                     m # arg.node =>
                       /\ dist[m] > Top.depth
                       /\ TrueFailure(m, Top.fail) \/ m \in RejectedAt(Top.node, Top.depth)
                /\ RejectedAt(Top.node, Top.depth) # {} =>
                     Top.fail \in {Unset, 0, 1} /\ arg.node \notin quiet
           /\ Top.node \in Defenders =>
                /\ Top.best <= 2 * Top.depth - 1
                /\ \A r \in Successors(Top.node) \ Top.left :
                     r # arg.node => dist[r] < Top.depth /\ 2 * dist[r] + 1 <= Top.best
           /\ arg.node \in Successors(Top.node) /\ arg.node \in Nodes
           /\ Top.node \in Attackers => arg.node \in Defenders /\ arg.depth = Top.depth
           /\ Top.node \in Defenders => arg.node \in Attackers /\ arg.depth = Top.depth - 1
           /\ VerdictFor(arg.node, arg.depth, ret) /\ ret \in Result
           /\ dist[arg.node] \in 0 .. Never
<1>1. /\ FrameIsTrue(height - 1) /\ FrameFits(height - 1) /\ height \in Nat
      /\ Top.node \in Nodes /\ Top.depth \in Depths
      /\ Plies(Top.node, Top.depth) = 2 * iteration - (height - 1)
  BY TopFacts
<1>2. Waits(height - 1) /\ Callee(height - 1) = arg.node
  BY <1>1 DEF Waits, Callee
<1>3. Tried(height - 1) = Successors(Top.node) \ (Top.left \cup {arg.node})
  BY <1>2 DEF Tried, Top
<1>4. arg.node \in Successors(Top.node)
  BY <1>1, <1>2 DEF FrameFits, Top
<1>5. /\ GameType /\ Truth /\ arg.node \in Nodes /\ arg.depth \in 0 .. MaxDepth
      /\ ret \in Result /\ iteration \in Nat
      /\ Plies(arg.node, arg.depth) = 2 * iteration - height
      /\ VerdictFor(arg.node, arg.depth, ret)
  BY DEF IInv, TypeOK, Shape, SearchIsTrue
<1>6. dist[arg.node] \in 0 .. Never
  BY <1>5 DEF GameType
<1>7. /\ Top.node \in Attackers => arg.node \in Defenders /\ arg.node \notin Attackers
      /\ Top.node \in Defenders => arg.node \in Attackers /\ Top.node \notin Attackers
  BY <1>1, <1>4, <1>5, ChoiceFacts
<1>8. /\ Top.node \in Attackers => arg.depth = Top.depth
      /\ Top.node \in Defenders => arg.depth = Top.depth - 1
  BY <1>1, <1>5, <1>7, Constants DEF Plies, Depths
<1> QED
  BY <1>1, <1>2, <1>3, <1>4, <1>5, <1>6, <1>7, <1>8 DEF FrameIsTrue, Top

\* A loop over moves that ends stores what it returns.
LEMMA ConcludeStep ==
    ASSUME IInv, Running, height > 0, Top.node \in Attackers, ~aborted, NEW v \in Result,
           Conclude(v), VerdictFor(Top.node, Top.depth, v)
    PROVE  IInv'
<1>1. /\ Leave(v) /\ UNCHANGED <<game, iteration, aborted, answer>>
      /\ table' = [table EXCEPT ![Top.node] = Absorb(table[Top.node], Kept(Top.depth, v))]
  BY DEF Conclude, Kept
<1>2. /\ table \in [Attackers -> FarEntry] /\ GameType /\ Truth /\ SeenIsTrue /\ TableIsTrue
      /\ Top.depth \in Depths
  BY TopFacts DEF IInv, TypeOK, SearchIsTrue
<1>3. /\ Absorb(table[Top.node], Kept(Top.depth, v)) \in FarEntry
      /\ EntryIsTrue(Absorb(table[Top.node], Kept(Top.depth, v)), Top.node)
  BY <1>2, AbsorbTrue DEF TableIsTrue
<1>4. table' \in [Attackers -> FarEntry]
  BY <1>1, <1>2, <1>3
<1>5. dist' = dist /\ Exact' = Exact
  BY <1>1, <1>2, GameKept
<1>6. ASSUME NEW n \in Attackers PROVE EntryIsTrue(table[n], n)'
  <2>1. EntryIsTrue(table'[n], n)
    BY <1>1, <1>2, <1>3 DEF TableIsTrue
  <2> QED
    BY <1>5, <2>1 DEF EntryIsTrue, TrueFailure
<1>7. TableIsTrue'
  BY <1>6 DEF TableIsTrue
<1> QED
  BY <1>1, <1>4, <1>7, PopStep

LEMMA AttackerLoopStep ==
    ASSUME IInv, RejectMove \/ TryMove \/ NoMoveWorks
    PROVE  IInv'
<1>1. /\ pc = "loop" /\ height > 0 /\ Top.node \in Attackers /\ ~aborted
  BY LoopFacts DEF RejectMove, TryMove, NoMoveWorks, InLoop
<1>2. /\ Top \in Frame /\ Top.node \in Nodes /\ Top.depth \in Depths
      /\ Top.left \subseteq Successors(Top.node) /\ Successors(Top.node) # {}
      /\ Top.fail \in Nat /\ GameType /\ Truth /\ Top.node \notin Defenders
  BY <1>1, TopFacts, Constants DEF IInv, TypeOK
<1>3. CASE RejectMove
  <2>1. PICK m \in Top.left : Rejected(m) /\ SetTop([Top EXCEPT !.left = @ \ {m}])
    BY <1>3 DEF RejectMove
  <2> DEFINE f == [Top EXCEPT !.left = @ \ {m}]
  <2>2. f \in Frame /\ f.node = Top.node /\ f.depth = Top.depth /\ f.left \subseteq Top.left
    BY <1>2 DEF Frame
  <2>3. /\ f.left = Top.left \ {m} /\ f.fail = Top.fail /\ Top.depth = 1
        /\ m \in RejectedAt(Top.node, Top.depth) /\ dist[m] > 1
    BY <1>1, <1>2, <2>1 DEF Rejected, RejectedAt, Successors, SeenIsTrue, IInv
  <2>4. /\ UNCHANGED <<game, table, arg, ret, height, iteration, aborted, answer>>
        /\ pc' = "loop" /\ SetTop(f)
    BY <1>1, <1>3, <2>1 DEF RejectMove, call
  <2> HIDE DEF f
  <2>5. ASSUME Exact
        PROVE  /\ \A n \in Successors(f.node) \ f.left :
                    /\ dist[n] > f.depth
                    /\ TrueFailure(n, f.fail) \/ n \in RejectedAt(f.node, f.depth)
               /\ f.fail \in {Unset, 0, 1}
    <3>1. /\ \A n \in Successors(Top.node) \ Top.left :
               /\ dist[n] > Top.depth
               /\ TrueFailure(n, Top.fail) \/ n \in RejectedAt(Top.node, Top.depth)
          /\ Top.fail \in {Unset, 0, 1}
      BY <1>1, <2>3, <2>5, LoopFacts
    <3> QED
      BY <2>2, <2>3, <3>1
  <2> QED
    BY <1>1, <1>2, <2>2, <2>4, <2>5, GoesOnStep
<1>4. CASE TryMove
  <2>1. PICK m \in Top.left : /\ ~Rejected(m) /\ Enter(m, Top.depth)
                              /\ SetTop([Top EXCEPT !.left = @ \ {m}])
    BY <1>4 DEF TryMove
  <2>2. Plies(m, Top.depth) = Plies(Top.node, Top.depth) - 1 /\ Top.depth \in 0 .. MaxDepth
    BY <1>1, <1>2, ChoiceFacts, Constants DEF Plies, Depths
  <2>3. UNCHANGED <<game, table, ret, height, iteration, aborted, answer>>
    BY <1>4 DEF TryMove
  <2>4. RejectedAt(Top.node, Top.depth) # {} => m \notin quiet
    BY <2>1 DEF Rejected, RejectedAt
  <2> QED
    BY <1>1, <2>1, <2>2, <2>3, <2>4, CallStep
<1>5. CASE NoMoveWorks
  <2> DEFINE k == Top.node
             d == Top.depth
             F == IF Top.fail = Unset THEN d ELSE Larger(d, Top.fail)
             v == Fails(F, FALSE)
  <2>1. Conclude(v) /\ Top.left = {}
    BY <1>5 DEF NoMoveWorks
  <2>2. F \in Nat /\ (F = d \/ F = Top.fail)
    BY <1>2 DEF Larger, Depths
  <2>3. v \in Result /\ ~v.ok /\ ~v.refuted /\ v.fail = F
    BY <2>2, ResultType
  <2>4. ASSUME Exact PROVE dist[k] > d /\ TrueFailure(k, F)
    <3>1. /\ \A m \in moves[k] : dist[m] > d
          /\ \A m \in moves[k] : TrueFailure(m, Top.fail) \/ m \in RejectedAt(k, d)
          /\ RejectedAt(k, d) # {} => Top.fail \in {Unset, 0, 1}
          /\ moves[k] # {} /\ k \notin mated /\ dist[k] \in 0 .. Never
      BY <1>1, <1>2, <2>1, <2>4, LoopFacts, Distances DEF Successors
    <3>2. dist[k] > d
      <4>1. k \in Attackers /\ d \in Nat /\ d <= MaxDepth
        BY <1>1, <1>2, Constants DEF Depths
      <4>2. dist[k] > d \/ dist[k] = Never
        BY <1>2, <3>1, <4>1, MovesFail
      <4> QED
        BY <4>1, <4>2, Constants
    <3>3. CASE RejectedAt(k, d) = {}
      <4>1. TrueFailure(k, Top.fail)
        BY <1>1, <1>2, <3>1, <3>3, MovesFail
      <4> QED
        BY <1>2, <2>2, <3>1, <3>2, <4>1, Constants DEF TrueFailure, Depths
    <3>4. CASE RejectedAt(k, d) # {}
      <4>1. d = 1 /\ F = 1
        BY <3>1, <3>4 DEF RejectedAt, Larger
      <4> QED
        BY <3>1, <3>2, <4>1, Constants DEF TrueFailure
    <3> QED
      BY <3>3, <3>4
  <2> HIDE DEF F
  <2>5. VerdictFor(k, d, v)
    <3>1. k \notin Defenders /\ d # 0
      BY <1>1, <1>2, Constants DEF Depths
    <3>2. NoFurther(k, d, v)
      BY <3>1, NothingIsNoFurther
    <3> QED
      BY <2>3, <2>4, <3>1, <3>2 DEF VerdictFor
  <2> QED
    BY <1>1, <2>1, <2>3, <2>5, ConcludeStep DEF Running
<1> QED
  BY <1>3, <1>4, <1>5

LEMMA DefenderLoopStep ==
    ASSUME IInv, TryReply \/ EveryReplyMates
    PROVE  IInv'
<1>1. /\ pc = "loop" /\ height > 0 /\ Top.node \in Defenders /\ ~aborted
  BY LoopFacts DEF TryReply, EveryReplyMates, InLoop
<1>2. /\ Top.node \in Nodes /\ Top.depth \in Depths /\ Top.node \notin Attackers
      /\ Top.left \subseteq Successors(Top.node) /\ Successors(Top.node) # {}
      /\ Top.best \in Nat /\ GameType /\ Truth
  BY <1>1, TopFacts, Constants DEF IInv, TypeOK
<1>3. CASE TryReply
  <2>1. PICK r \in Top.left : /\ Enter(r, Top.depth - 1)
                              /\ SetTop([Top EXCEPT !.left = @ \ {r}])
    BY <1>3 DEF TryReply
  <2>2. /\ Plies(r, Top.depth - 1) = Plies(Top.node, Top.depth) - 1
        /\ Top.depth - 1 \in 0 .. MaxDepth
    BY <1>1, <1>2, ChoiceFacts, Constants DEF Plies, Depths
  <2>3. UNCHANGED <<game, table, ret, height, iteration, aborted, answer>>
    BY <1>3 DEF TryReply
  <2>4. Top.node \notin Attackers
    BY <1>2
  <2> QED
    BY <1>1, <2>1, <2>2, <2>3, <2>4, CallStep
<1>4. CASE EveryReplyMates
  <2> DEFINE k == Top.node
             v == Proves(Top.best)
  <2>1. Leave(v) /\ Top.left = {} /\ UNCHANGED <<game, table, iteration, aborted, answer>>
    BY <1>4 DEF EveryReplyMates
  <2>2. v \in Result /\ v.ok /\ ~v.refuted /\ v.line = Top.best
    BY <1>2, ResultType
  <2>3. /\ replies[k] # {} /\ Top.best <= 2 * Top.depth - 1
        /\ \A r \in replies[k] : dist[r] < Top.depth /\ 2 * dist[r] + 1 <= Top.best
    BY <1>1, <1>2, <2>1, LoopFacts DEF Successors
  <2>4. dist[k] <= Top.depth /\ 2 * dist[k] - 1 <= Top.best
    BY <1>1, <1>2, <2>3, RepliesMate
  <2>5. VerdictFor(k, Top.depth, v)
    BY <1>2, <2>2, <2>3, <2>4 DEF VerdictFor, Plies
  <2>6. table' \in [Attackers -> FarEntry] /\ TableIsTrue'
    BY <2>1, TableKept DEF IInv, TypeOK, SearchIsTrue
  <2> HIDE DEF v
  <2> QED
    BY <1>1, <2>1, <2>2, <2>5, <2>6, PopStep DEF Running
<1> QED
  BY <1>3, <1>4

LEMMA AttackerReturnStep ==
    ASSUME IInv, MoveProves \/ MoveFails
    PROVE  IInv'
<1>1. /\ pc = "return" /\ height > 0 /\ Top.node \in Attackers /\ ~aborted
  BY DEF MoveProves, MoveFails, Returning
<1>2. /\ Top \in Frame /\ Top.node \in Nodes /\ Top.depth \in Depths
      /\ Top.fail \in Nat /\ GameType /\ Truth /\ Top.node \notin Defenders
      /\ dist[Top.node] \in 0 .. Never
  BY <1>1, TopFacts, Distances, Constants DEF IInv, TypeOK
<1>3. /\ arg.node \in moves[Top.node] /\ arg.node \in Defenders /\ arg.depth = Top.depth
      /\ arg.node \notin Attackers
      /\ VerdictFor(arg.node, arg.depth, ret) /\ ret \in Result
      /\ dist[arg.node] \in 0 .. Never
  BY <1>1, ReturnFacts, Constants DEF Successors
<1>4. ret.fail \in Nat /\ ret.line \in Nat
  BY <1>3, ResultParts
<1>5. CASE MoveProves
  <2> DEFINE k == Top.node
             v == Proves(ret.line + 1)
  <2>1. Conclude(v) /\ ret.ok
    BY <1>5 DEF MoveProves
  <2>2. v \in Result /\ v.ok /\ ~v.refuted /\ v.line = ret.line + 1
    BY <1>4, ResultType
  <2>3. /\ dist[arg.node] <= Top.depth
        /\ 2 * dist[arg.node] - 1 <= ret.line /\ ret.line <= 2 * Top.depth - 1
    BY <1>3, <2>1 DEF VerdictFor, Plies
  <2>4. dist[k] <= dist[arg.node]
    BY <1>1, <1>2, <1>3, MoveMates
  <2>5. VerdictFor(k, Top.depth, v)
    <3>1. /\ dist[k] <= Top.depth /\ 2 * dist[k] <= ret.line + 1
          /\ ret.line + 1 <= 2 * Top.depth
      BY <1>2, <1>3, <1>4, <2>3, <2>4, Constants DEF Depths
    <3> QED
      BY <1>1, <2>2, <3>1 DEF VerdictFor, Plies
  <2> HIDE DEF v
  <2> QED
    BY <1>1, <2>1, <2>2, <2>5, ConcludeStep DEF Running
<1>6. CASE MoveFails
  <2> DEFINE F == IF ret.fail > 0 /\ ret.fail < Top.fail THEN ret.fail ELSE Top.fail
             f == [Top EXCEPT !.fail = F]
  <2>1. /\ ~ret.ok /\ SetTop(f) /\ pc' = "loop"
        /\ UNCHANGED <<game, table, arg, ret, height, iteration, aborted, answer>>
    BY <1>6 DEF MoveFails, Resume
  <2>2. F \in Nat /\ F <= Top.fail /\ (ret.fail = 0 \/ F <= ret.fail)
    BY <1>2, <1>4
  <2> HIDE DEF F
  <2>3. /\ f \in Frame /\ f.node = Top.node /\ f.depth = Top.depth /\ f.left = Top.left
        /\ f.fail = F
    BY <1>2, <2>2 DEF Frame
  <2>4. ASSUME Exact, NEW m \in Successors(Top.node) \ Top.left
        PROVE  /\ dist[m] > Top.depth
               /\ TrueFailure(m, F) \/ m \in RejectedAt(Top.node, Top.depth)
    <3>1. CASE m = arg.node
      <4>1. /\ dist[m] > Top.depth /\ TrueFailure(m, ret.fail)
            /\ ret.fail = 0 => dist[m] = Never
        BY <1>1, <1>3, <2>1, <2>4, <3>1 DEF VerdictFor
      <4> QED
        BY <1>3, <1>4, <2>2, <3>1, <4>1, Constants DEF TrueFailure
    <3>2. CASE m # arg.node
      <4>1. /\ dist[m] > Top.depth
            /\ TrueFailure(m, Top.fail) \/ m \in RejectedAt(Top.node, Top.depth)
        BY <1>1, <2>4, <3>2, ReturnFacts
      <4>2. dist[m] \in 0 .. Never
        BY <1>2, ChoiceFacts, Distances
      <4> QED
        BY <1>2, <2>2, <4>1, <4>2, Constants DEF TrueFailure
    <3> QED
      BY <3>1, <3>2
  <2>5. ASSUME Exact, RejectedAt(Top.node, Top.depth) # {} PROVE F \in {Unset, 0, 1}
    <3>1. /\ Top.fail \in {Unset, 0, 1} /\ arg.node \notin quiet
          /\ NoFurther(arg.node, arg.depth, ret)
      BY <1>1, <1>3, <2>1, <2>5, ReturnFacts DEF VerdictFor
    <3>2. /\ "attacker_reject" \in options /\ Top.depth = 1
          /\ moves[Top.node] \cap quiet # {}
      BY <2>5 DEF RejectedAt
    <3>3. \A r \in replies[arg.node] : ~DeadEnd(r)
      BY <1>1, <1>3, <2>5, <3>1, <3>2 DEF Exact, RejectsAreHarmless
    <3>4. ret.fail <= 1
      BY <1>3, <3>1, <3>2, <3>3 DEF NoFurther
    <3> QED
      BY <1>4, <3>1, <3>4 DEF F
  <2> HIDE DEF f
  <2> QED
    BY <1>1, <1>2, <2>1, <2>3, <2>4, <2>5, GoesOnStep
<1> QED
  BY <1>5, <1>6

LEMMA DefenderReturnStep ==
    ASSUME IInv, ReplySurvives \/ ReplyMates
    PROVE  IInv'
<1>1. /\ pc = "return" /\ height > 0 /\ Top.node \in Defenders /\ ~aborted
  BY DEF ReplySurvives, ReplyMates, Returning
<1>2. /\ Top \in Frame /\ Top.node \in Nodes /\ Top.depth \in Depths
      /\ Top.best \in Nat /\ GameType /\ Truth /\ Top.node \notin Attackers
      /\ dist[Top.node] \in 0 .. Never
  BY <1>1, TopFacts, Distances, Constants DEF IInv, TypeOK
<1>3. /\ arg.node \in replies[Top.node] /\ arg.node \in Attackers
      /\ arg.depth = Top.depth - 1
      /\ VerdictFor(arg.node, arg.depth, ret) /\ ret \in Result
      /\ dist[arg.node] \in 0 .. Never
  BY <1>1, <1>2, ReturnFacts DEF Successors
<1>4. ret.fail \in Nat /\ ret.line \in Nat
  BY <1>3, ResultParts
<1>5. CASE ReplySurvives
  <2> DEFINE k == Top.node
             F == Larger(Top.depth, ret.fail + 1)
             v == Fails(F, FALSE)
  <2>1. Leave(v) /\ ~ret.ok /\ UNCHANGED <<game, table, iteration, aborted, answer>>
    BY <1>5 DEF ReplySurvives
  <2>2. F \in Nat /\ F >= 1 /\ (F = Top.depth \/ F = ret.fail + 1)
    BY <1>2, <1>4 DEF Larger, Depths
  <2>3. v \in Result /\ ~v.ok /\ ~v.refuted /\ v.fail = F
    BY <2>2, ResultType
  <2>4. ASSUME Exact PROVE dist[k] > Top.depth /\ TrueFailure(k, F)
    <3>1. dist[arg.node] > Top.depth - 1 /\ TrueFailure(arg.node, ret.fail)
      BY <1>1, <1>3, <2>1, <2>4 DEF VerdictFor
    <3>2. /\ dist[arg.node] < dist[k] \/ dist[k] = Never
          /\ dist[arg.node] = Never => dist[k] = Never
      BY <1>1, <1>2, <1>3, ReplyEscapes
    <3>3. dist[k] > Top.depth
      BY <1>2, <1>3, <3>1, <3>2, Constants DEF Depths
    <3> QED
      BY <1>2, <1>3, <1>4, <2>2, <3>1, <3>2, <3>3, Constants DEF TrueFailure, Depths
  <2>5. ASSUME Exact PROVE NoFurther(k, Top.depth, v)
    <3>1. ASSUME Top.depth = 1, \A r \in replies[k] : ~DeadEnd(r) PROVE v.fail <= 1
      <4>1. ret.fail = 0
        BY <1>1, <1>3, <2>1, <2>5, <3>1 DEF VerdictFor, NoFurther
      <4>2. F = 1
        BY <3>1, <4>1 DEF Larger
      <4>3. F <= 1
        BY <4>2
      <4> QED
        BY <2>3, <4>3
    <3> QED
      BY <1>2, <3>1 DEF NoFurther
  <2> HIDE DEF F, v
  <2>7. VerdictFor(k, Top.depth, v)
    <3>1. v.fail # 0
      BY <2>2, <2>3
    <3> QED
      BY <2>3, <2>4, <2>5, <3>1, Zenon DEF VerdictFor
  <2>6. table' \in [Attackers -> FarEntry] /\ TableIsTrue'
    BY <2>1, TableKept DEF IInv, TypeOK, SearchIsTrue
  <2> QED
    BY <1>1, <2>1, <2>3, <2>6, <2>7, PopStep DEF Running
<1>6. CASE ReplyMates
  <2> DEFINE B == Larger(Top.best, ret.line + 1)
             f == [Top EXCEPT !.best = B]
  <2>1. /\ ret.ok /\ SetTop(f) /\ pc' = "loop"
        /\ UNCHANGED <<game, table, arg, ret, height, iteration, aborted, answer>>
    BY <1>6 DEF ReplyMates, Resume
  <2>2. B \in Nat /\ B >= Top.best /\ B >= ret.line + 1 /\ (B = Top.best \/ B = ret.line + 1)
    BY <1>2, <1>4 DEF Larger
  <2> HIDE DEF B
  <2>3. /\ f \in Frame /\ f.node = Top.node /\ f.depth = Top.depth /\ f.left = Top.left
        /\ f.best = B
    BY <1>2, <2>2 DEF Frame
  <2>4. /\ dist[arg.node] <= Top.depth - 1
        /\ 2 * dist[arg.node] <= ret.line /\ ret.line <= 2 * (Top.depth - 1)
    BY <1>3, <2>1 DEF VerdictFor, Plies
  <2>5. B <= 2 * Top.depth - 1
    BY <1>1, <1>2, <1>4, <2>2, <2>4, ReturnFacts DEF Depths
  <2>6. ASSUME NEW r \in Successors(Top.node) \ Top.left
        PROVE  dist[r] < Top.depth /\ 2 * dist[r] + 1 <= B
    <3>1. CASE r = arg.node
      BY <1>2, <1>3, <1>4, <2>2, <2>4, <3>1, Constants DEF Depths
    <3>2. CASE r # arg.node
      <4>1. dist[r] < Top.depth /\ 2 * dist[r] + 1 <= Top.best
        BY <1>1, <3>2, ReturnFacts
      <4>2. dist[r] \in 0 .. Never
        BY <1>2, ChoiceFacts, Distances
      <4> QED
        BY <1>2, <2>2, <4>1, <4>2, Constants
    <3> QED
      BY <3>1, <3>2
  <2> HIDE DEF f
  <2> QED
    BY <1>1, <1>2, <2>1, <2>3, <2>5, <2>6, GoesOnStep
<1> QED
  BY <1>5, <1>6

\* search_cancelled, and the way out of the stack it leaves.
LEMMA CancelStep ==
    ASSUME IInv, Cancel \/ Unwind
    PROVE  IInv'
<1>1. CASE Cancel
  <2>1. /\ pc = "enter" /\ aborted' = TRUE /\ Return(arg.node, arg.depth, Failure)
        /\ UNCHANGED <<game, table, stack, iteration, answer>>
    BY <1>1 DEF Cancel
  <2>2. VerdictFor(arg.node, arg.depth, Failure)'
    BY <2>1, FailuresAreResults DEF VerdictFor, Failure, Fails
  <2> QED
    BY <2>1, <2>2, FailuresAreResults, LeafStep
<1>2. CASE Unwind
  <2>1. /\ pc = "return" /\ height > 0 /\ aborted /\ Leave(Failure)
        /\ UNCHANGED <<game, table, iteration, aborted, answer>>
    BY <1>2 DEF Unwind
  <2>2. VerdictFor(Top.node, Top.depth, Failure)
    BY <2>1, FailuresAreResults DEF VerdictFor
  <2>3. table' \in [Attackers -> FarEntry] /\ TableIsTrue'
    BY <2>1, TableKept DEF IInv, TypeOK, SearchIsTrue
  <2> QED
    BY <2>1, <2>2, <2>3, FailuresAreResults, PopStep DEF Running
<1> QED
  BY <1>1, <1>2

\* A step of the route between two levels.
LEMMA BetweenStep ==
    ASSUME IInv, height = 0, UNCHANGED <<game, table, arg, stack, aborted>>,
           pc' \in {"idle", "done"}, ret' \in Result, iteration' \in Nat \ {0},
           pc' = "idle" => iteration' <= MaxDepth, RouteIsTrue'
    PROVE  IInv'
<1>1. height' = 0 /\ frame' = frame /\ table' = table /\ arg' = arg /\ aborted' = aborted
  BY DEF stack
<1>2. GameType' /\ Truth' /\ SeenIsTrue'
  BY GameKept DEF IInv, TypeOK
<1>3. TypeOK'
  BY <1>1, <1>2 DEF IInv, TypeOK
<1>4. Shape'
  BY <1>1 DEF Shape
<1>5. SearchIsTrue'
  <2>1. TableIsTrue'
    BY TableKept DEF IInv, TypeOK, SearchIsTrue
  <2> QED
    BY <1>1, <2>1 DEF SearchIsTrue
<1> QED
  BY <1>2, <1>3, <1>4, <1>5 DEF IInv

LEMMA StartStep ==
    ASSUME IInv, StartDepth
    PROVE  IInv'
<1>1. /\ pc = "idle" /\ pc' = "enter" /\ arg' = [node |-> Root, depth |-> iteration]
      /\ arg'.node = Root /\ arg'.depth = iteration /\ height = 0 /\ height' = 0
      /\ frame' = frame /\ table' = table /\ ret' = ret /\ iteration' = iteration
      /\ aborted' = aborted /\ answer' = answer
  BY DEF StartDepth, Enter, stack, IInv, Shape
<1>2. /\ GameType' /\ Truth' /\ SeenIsTrue' /\ dist' = dist /\ Exact' = Exact
  BY GameKept DEF IInv, TypeOK, StartDepth
<1>3. iteration \in Nat \ {0} /\ iteration <= MaxDepth
  BY <1>1 DEF IInv, TypeOK, Shape
<1>4. TypeOK'
  <2>1. arg' \in [node : Nodes, depth : 0 .. MaxDepth]
    BY <1>1, <1>3, Constants
  <2> QED
    BY <1>1, <1>2, <2>1 DEF IInv, TypeOK
<1>5. Shape'
  BY <1>1, <1>3, Constants DEF Shape, Plies
<1>6. SearchIsTrue'
  <2>1. TableIsTrue'
    BY TableKept DEF IInv, TypeOK, SearchIsTrue, StartDepth
  <2> QED
    BY <1>1, <2>1 DEF SearchIsTrue
<1>7. RouteIsTrue'
  BY <1>1, <1>2 DEF IInv, RouteIsTrue, AnswerIsShortest
<1> QED
  BY <1>2, <1>4, <1>5, <1>6, <1>7 DEF IInv

\* What a level says when it returns.
LEMMA LevelFacts ==
    ASSUME IInv, pc = "return", height = 0
    PROVE  /\ arg.node = Root /\ arg.depth = iteration /\ VerdictFor(Root, iteration, ret)
           /\ iteration \in Nat \ {0} /\ iteration <= MaxDepth /\ answer = NoAnswer
           /\ Exact => iteration <= dist[Root]
           /\ dist[Root] \in 0 .. Never
           /\ ret \in Result /\ ret.fail \in Nat /\ ret.line \in Nat
<1>1. /\ arg.node = Root /\ arg.depth \in 0 .. MaxDepth /\ iteration \in Nat \ {0}
      /\ Plies(arg.node, arg.depth) = 2 * iteration /\ iteration <= MaxDepth
      /\ VerdictFor(arg.node, arg.depth, ret) /\ answer = NoAnswer
      /\ Exact => iteration <= dist[Root]
      /\ ret \in Result /\ GameType
  BY DEF IInv, TypeOK, Shape, SearchIsTrue, RouteIsTrue
<1>2. arg.depth = iteration
  BY <1>1, Constants DEF Plies
<1>3. dist[Root] \in 0 .. Never
  BY <1>1, Constants DEF GameType
<1> QED
  BY <1>1, <1>2, <1>3, ResultParts

LEMMA RouteStep ==
    ASSUME IInv, RootRefuted \/ DepthFails \/ DepthProves \/ Abandoned
    PROVE  IInv'
<1>1. /\ dist' = dist /\ Exact' = Exact /\ game' = game /\ table' = table /\ arg' = arg
      /\ stack' = stack /\ aborted' = aborted
  <2>1. UNCHANGED <<game, table, arg, stack, aborted>>
    BY DEF RootRefuted, DepthFails, DepthProves, Abandoned
  <2> QED
    BY <2>1, GameKept DEF IInv, TypeOK
<1>2. CASE RootRefuted
  <2>1. /\ pc = "idle" /\ Root \in bare /\ pc' = "done" /\ ret' = Fails(0, TRUE)
        /\ iteration' = iteration /\ answer' = answer
    BY <1>2 DEF RootRefuted
  <2>2. /\ height = 0 /\ answer = NoAnswer /\ iteration \in Nat \ {0}
        /\ dist[Root] = Never
    BY <2>1 DEF IInv, TypeOK, Shape, RouteIsTrue, SeenIsTrue
  <2>3. RouteIsTrue'
    BY <1>1, <2>1, <2>2 DEF RouteIsTrue, AnswerIsShortest
  <2> QED
    BY <1>1, <2>1, <2>2, <2>3, BetweenStep, ResultType
<1>3. CASE DepthFails
  <2>1. /\ pc = "return" /\ height = 0 /\ ~ret.ok /\ ~aborted
        /\ iteration' = Larger(iteration, ret.fail) + 1
        /\ pc' = (IF iteration' > MaxDepth THEN "done" ELSE "idle")
        /\ ret' = ret /\ answer' = answer
    BY <1>3 DEF DepthFails
  <2>2. /\ iteration' \in Nat \ {0} /\ iteration' > iteration
        /\ iteration' = iteration + 1 \/ iteration' = ret.fail + 1
    BY <2>1, LevelFacts DEF Larger
  <2>3. ASSUME Exact PROVE dist[Root] >= iteration' \/ dist[Root] = Never
    <3>1. dist[Root] > iteration /\ TrueFailure(Root, ret.fail)
      BY <2>1, <2>3, LevelFacts DEF VerdictFor
    <3> QED
      BY <2>1, <2>2, <3>1, LevelFacts DEF TrueFailure
  <2>4. pc' = "idle" => iteration' <= MaxDepth
    BY <2>1, <2>2, Constants
  <2>5. pc' = "done" => iteration' > MaxDepth
    BY <2>1
  <2>6. RouteIsTrue'
    <3>1. ASSUME Exact PROVE pc' # "done" => iteration' <= dist[Root]
      BY <2>1, <2>2, <2>3, <2>4, <3>1, LevelFacts, Constants
    <3>2. ASSUME Exact PROVE pc' = "done" => dist[Root] = Never
      BY <2>1, <2>2, <2>3, <2>5, <3>2, LevelFacts, Constants
    <3> QED
      BY <1>1, <2>1, <3>1, <3>2, LevelFacts DEF RouteIsTrue, AnswerIsShortest
  <2>7. pc' \in {"idle", "done"} /\ ret' \in Result
    BY <2>1, LevelFacts
  <2> QED
    BY <1>1, <2>1, <2>2, <2>4, <2>6, <2>7, BetweenStep
<1>4. CASE DepthProves
  <2>1. /\ pc = "return" /\ height = 0 /\ ret.ok /\ ~aborted
        /\ answer' = (ret.line + 1) \div 2 /\ pc' = "done"
        /\ ret' = ret /\ iteration' = iteration
    BY <1>4 DEF DepthProves
  <2>2. /\ dist[Root] <= iteration /\ 2 * dist[Root] <= ret.line
        /\ ret.line <= 2 * iteration
    BY <2>1, LevelFacts, Constants DEF VerdictFor, Plies
  <2>3. answer' >= 0 /\ (Exact => answer' = dist[Root])
    <3>1. answer' \in Int /\ 2 * answer' <= ret.line + 1 /\ ret.line + 1 <= 2 * answer' + 1
      BY <2>1, LevelFacts
    <3> QED
      BY <2>1, <2>2, <3>1, LevelFacts
  <2>4. RouteIsTrue'
    BY <1>1, <2>1, <2>3 DEF RouteIsTrue, AnswerIsShortest, NoAnswer
  <2>5. iteration' \in Nat \ {0} /\ ret' \in Result
    BY <2>1, LevelFacts
  <2> QED
    BY <1>1, <2>1, <2>4, <2>5, BetweenStep
<1>5. CASE Abandoned
  <2>1. /\ pc = "return" /\ height = 0 /\ aborted /\ pc' = "done"
        /\ ret' = ret /\ iteration' = iteration /\ answer' = answer
    BY <1>5 DEF Abandoned
  <2>2. RouteIsTrue'
    BY <1>1, <2>1, LevelFacts DEF RouteIsTrue, AnswerIsShortest
  <2>3. iteration' \in Nat \ {0} /\ ret' \in Result
    BY <2>1, LevelFacts
  <2> QED
    BY <1>1, <2>1, <2>2, <2>3, BetweenStep
<1> QED
  BY <1>2, <1>3, <1>4, <1>5

-----------------------------------------------------------------------------
(* The invariant. *)

LEMMA SeenIsTrueAtFirst ==
    ASSUME GameType, Truth, Seen
    PROVE  SeenIsTrue
<1>1. bare = {} \/ bare \in LoneKings
  BY DEF Seen
<1>2. bare \subseteq Nodes /\ \A n \in bare : dist[n] = Never
  BY <1>1, LoneKingsNeverMate
<1>3. ASSUME NEW d \in quiet PROVE d \in Defenders /\ dist[d] > 1
  <2>1. d \in Defenders /\ \E r \in replies[d] : r \notin mated
    BY <1>3 DEF Seen
  <2>2. PICK r \in replies[d] : r \notin mated
    BY <2>1
  <2>3. /\ dist[d] \in 1 .. Never /\ r \in Attackers /\ dist[r] \in 0 .. Never
        /\ dist[r] # 0
    BY <2>1, <2>2, Distances, Constants
  <2>4. dist[r] < dist[d] \/ dist[d] = Never
    BY <2>1, <2>2, ReplyEscapes
  <2> QED
    BY <2>1, <2>3, <2>4, Constants
<1> QED
  BY <1>2, <1>3 DEF SeenIsTrue

LEMMA InitInv == Init => IInv
<1> SUFFICES ASSUME Init PROVE IInv
  OBVIOUS
<1>1. /\ \E g \in Games : moves = g.moves /\ replies = g.replies /\ mated = g.mated
      /\ dist \in [Nodes -> 0 .. Never] /\ Truth /\ Seen /\ Play
  BY DEF Init
<1>2. GameType
  BY <1>1, SelfmateGamesAssumption DEF GameType
<1>3. /\ table = [a \in Attackers |-> Absent] /\ pc = "idle" /\ ret = Failure
      /\ arg = [node |-> Root, depth |-> 0] /\ frame = [i \in 0 .. MaxPly |-> NoFrame]
      /\ height = 0 /\ iteration = 1 /\ answer = NoAnswer /\ aborted = FALSE
  BY <1>1 DEF Play
<1>4. Absent \in FarEntry
  <2>1. FALSE \in BOOLEAN /\ NoProof \in Depths \cup {NoProof} /\ 0 \in Nat
        /\ NoDisproof \in Nat \cup {NoDisproof}
    OBVIOUS
  <2> QED
    BY <2>1, Zenon DEF Absent, FarEntry
<1>5. TypeOK
  <2>1. arg \in [node : Nodes, depth : 0 .. MaxDepth]
    BY <1>3, Constants
  <2>2. table \in [Attackers -> FarEntry]
    BY <1>3, <1>4
  <2>3. frame \in [0 .. MaxPly -> Frame \cup {NoFrame}]
    BY <1>3
  <2>4. height \in 0 .. MaxPly /\ iteration \in Nat \ {0}
    BY <1>3, Constants
  <2>5. aborted \in BOOLEAN
    BY <1>3, Zenon
  <2> QED
    BY <1>2, <1>3, <2>1, <2>2, <2>3, <2>4, <2>5, FailuresAreResults DEF TypeOK
<1>6. TableIsTrue
  <2>1. ASSUME NEW n \in Attackers PROVE EntryIsTrue(Absent, n)
    <3>1. dist[n] \in 0 .. Never
      BY <1>2, Constants DEF GameType
    <3> QED
      BY <3>1 DEF EntryIsTrue, Absent, TrueFailure, NoDisproof
  <2> QED
    BY <1>3, <2>1 DEF TableIsTrue
<1>7. Shape /\ SearchIsTrue
  BY <1>3, <1>6, Constants DEF Shape, SearchIsTrue
<1>8. RouteIsTrue
  <2>1. Root \notin mated /\ dist[Root] \in 0 .. Never
    BY <1>2, Constants DEF GameType
  <2>2. dist[Root] >= 1
    BY <1>1, <1>2, <2>1, Distances, Constants
  <2> QED
    BY <1>3, <2>2 DEF RouteIsTrue, AnswerIsShortest
<1> QED
  BY <1>1, <1>2, <1>5, <1>7, <1>8, SeenIsTrueAtFirst DEF IInv

LEMMA NextInv == IInv /\ [Next]_vars => IInv'
<1> SUFFICES ASSUME IInv, [Next]_vars PROVE IInv'
  OBVIOUS
<1>1. CASE Search
  BY <1>1, EnterAttackerStep, EnterDefenderStep, AttackerLoopStep, DefenderLoopStep,
     AttackerReturnStep, DefenderReturnStep, CancelStep, StartStep, RouteStep DEF Search
<1>2. CASE UNCHANGED vars
  <2>1. /\ UNCHANGED <<game, table, call, frame, height, iteration, aborted, answer>>
        /\ pc' = pc /\ arg' = arg /\ ret' = ret /\ frame' = frame /\ height' = height
        /\ table' = table /\ iteration' = iteration /\ aborted' = aborted
        /\ answer' = answer
    BY <1>2 DEF vars, call, stack
  <2>2. /\ GameType' /\ Truth' /\ SeenIsTrue' /\ dist' = dist /\ Exact' = Exact
        /\ moves' = moves /\ replies' = replies /\ mated' = mated
        /\ quiet' = quiet /\ bare' = bare /\ options' = options
    BY <2>1, GameKept DEF IInv, TypeOK
  <2>3. TypeOK'
    BY <2>1, <2>2 DEF IInv, TypeOK
  <2>4. Shape'
    BY <2>1, <2>2 DEF IInv, Shape, FrameFits, Plies, Successors, Waits, Callee
  <2>5. TableIsTrue'
    BY <2>1, TableKept DEF IInv, TypeOK, SearchIsTrue
  <2>6. ASSUME NEW i \in 0 .. height' - 1 PROVE FrameIsTrue(i)'
    <3>1. FrameIsTrue(i)
      BY <2>1 DEF IInv, SearchIsTrue
    <3>2. Tried(i)' = Tried(i)
      BY <2>1, <2>2 DEF Tried, Successors, Waits, Callee
    <3> QED
      BY <2>1, <2>2, <3>1, <3>2
      DEF FrameIsTrue, TrueFailure, RejectedAt, Waits, Callee
  <2>7. SearchIsTrue'
    BY <2>1, <2>2, <2>5, <2>6
    DEF IInv, SearchIsTrue, VerdictFor, NoFurther, DeadEnd, Plies, TrueFailure
  <2>8. RouteIsTrue'
    BY <2>1, <2>2 DEF IInv, RouteIsTrue, AnswerIsShortest
  <2> QED
    BY <2>2, <2>3, <2>4, <2>7, <2>8 DEF IInv
<1> QED
  BY <1>1, <1>2 DEF Next, AtRest

\* Every reachable state satisfies the invariant.
THEOREM Invariance == Spec => []IInv
BY InitInv, NextInv, PTL DEF Spec

\* prove_selfmate_attacker and prove_selfmate_defender: a selfmate they claim is
\* there within the depth it is claimed for, and what is `refuted' is so for good,
\* under any options; a failure holds at the depth asked where they are Exact.
THEOREM VerdictsAreTrue == Spec => []VerdictIsTrue
<1>1. IInv => VerdictIsTrue
  BY DEF IInv, SearchIsTrue, VerdictFor, VerdictIsTrue
<1> QED
  BY <1>1, Invariance, PTL

\* fail_depth: no failure, returned to a loop or remembered in the table, reaches
\* past the truth, by whatever minimum and increment it was made.  It is said of a
\* search without selfmate_bound, and of one with attacker_reject, the default,
\* in a game where no move it rejects stands beside one with a dead end.
THEOREM FailuresReachNoFurther == Spec => []FailureDepthIsTrue
<1>1. IInv => FailureDepthIsTrue
  BY DEF IInv, SearchIsTrue, TableIsTrue, EntryIsTrue, VerdictFor, FailureDepthIsTrue
<1> QED
  BY <1>1, Invariance, PTL

\* run_selfmate_route: the levels it skips on the word of fail_depth held nothing,
\* so the first one proved is the shortest.  Exact is a premise here too: the run
\* selfmate_reject skips a level that holds one.
THEOREM ShortestIsReported == Spec => []AnswerIsShortest
<1>1. IInv => AnswerIsShortest
  BY DEF IInv, RouteIsTrue
<1> QED
  BY <1>1, Invariance, PTL

=============================================================================

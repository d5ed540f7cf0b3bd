------------------------------ MODULE DfpnProofs ------------------------------
(***************************************************************************)
(* The numbers of the preconditioner are verdicts when they are zero, on    *)
(* any game, with any options, room and interruptions.                      *)
(*                                                                          *)
(* The truth of a key is that of its children (Truth), so a node whose      *)
(* numbers are its children's (Here) has a true zero when they have: a      *)
(* minimum is zero if one child is, a saturating sum if all are (TotalIsZero).*)
(* The invariant adds that a node in its loop is not decided by itself      *)
(* (Looping), without which a position without a move would be a minimum    *)
(* over nothing.                                                            *)
(***************************************************************************)
EXTENDS Dfpn, FiniteSetTheorems, SequenceTheorems, TLAPS

Numbers == [pn : Nat, dn : Nat]
Labels  == {"idle", "enter", "select", "return"}
Calls   == [pc : Labels, pos : Positions, depth : 0 .. MaxDepth, thpn : Nat, thdn : Nat, ret : Numbers]

GameFits ==
    /\ goal \in {"mate", "self"}
    /\ moves \in [Attackers -> Seq(Defenders)] /\ replies \in [Defenders -> Seq(Attackers)]
    /\ \A p \in ends : IF goal = "mate" THEN p \in Defenders /\ replies[p] = <<>>
                       ELSE p \in Attackers /\ moves[p] = <<>>

\* Who wins, by the position's moves.
AttackerWinsBy(p, d) ==
    \/ goal = "self" /\ p \in ends
    \/ /\ d > 0
       /\ \E i \in 1 .. Len(moves[p]) : \/ goal = "mate" /\ moves[p][i] \in ends
                                        \/ moves[p][i] \in wins[ChildDepth(p, d)]

DefenderLosesBy(p, d) ==
    /\ replies[p] # <<>> /\ (goal = "self" => d > 0)
    /\ \A i \in 1 .. Len(replies[p]) : replies[p][i] \in wins[ChildDepth(p, d)]

Truth ==
    \A d \in 0 .. MaxDepth :
        /\ \A p \in Attackers : p \in wins[d] <=> AttackerWinsBy(p, d)
        /\ \A p \in Defenders : p \in wins[d] <=> DefenderLosesBy(p, d)

\* A zero in v is a verdict about the key k.
VerdictAt(k, v) == (v.pn = 0 => k[1] \in wins[k[2]]) /\ (v.dn = 0 => k[1] \notin wins[k[2]])

\* A defender is only asked about while he has a move to answer.
DepthLeft(c) == c.pos \in Defenders => c.depth > 0

\* A node in its loop: it has moves, and none of them decides it at once.
Looping(c) ==
    /\ Below(c.pos) # <<>>
    /\ c.pos \in Attackers =>
         /\ c.depth > 0
         /\ goal = "mate" => c.depth > 1 /\ \A i \in 1 .. Len(moves[c.pos]) : moves[c.pos][i] \notin ends

CallsFit ==
    /\ at \in Calls /\ DepthLeft(at) /\ (at.pc = "select" => Looping(at))
    /\ stack \in Seq(Calls)
    /\ \A i \in 1 .. Len(stack) : DepthLeft(stack[i]) /\ Looping(stack[i])

TableFits == \A k \in DOMAIN table : k \in Keys /\ table[k] \in Numbers

IInv ==
    /\ GameFits /\ Truth /\ CallsFit /\ TableFits
    /\ ZeroIsAVerdict /\ DisproofsAreTrue

-----------------------------------------------------------------------------
(* Least elements and recursion. *)

\* A nonempty set of naturals has a least element, the one Min chooses.
LEMMA MinIsLeast ==
    ASSUME NEW S \in SUBSET Nat, S # {}
    PROVE  Min(S) \in S /\ \A y \in S : Min(S) <= y
<1> DEFINE T == {0 .. n : n \in S}
<1>1. T \subseteq FiniteSubsetsOf(Nat) /\ T # {}
  <2>1. \A n \in Nat : IsFiniteSet(0 .. n)
    BY FS_Interval
  <2>2. \A n \in Nat : 0 .. n \in SUBSET Nat
    OBVIOUS
  <2>3. \A n \in S : 0 .. n \in FiniteSubsetsOf(Nat)
    BY <2>1, <2>2, Zenon DEF FiniteSubsetsOf
  <2> QED
    BY <2>3
<1>2. IsWellFoundedOn(StrictSubsetOrdering(Nat), FiniteSubsetsOf(Nat))
  BY FS_StrictSubsetOrderingWellFounded
<1>3. \E a \in T : \A b \in T : ~(<<b, a>> \in StrictSubsetOrdering(Nat))
  BY <1>1, <1>2, WFMin
<1>4. PICK x \in S : \A y \in S : ~(<<0 .. y, 0 .. x>> \in StrictSubsetOrdering(Nat))
  BY <1>3
<1>5. ASSUME NEW y \in S, y < x PROVE FALSE
  <2>1. 0 .. y \subseteq 0 .. x /\ 0 .. y # 0 .. x /\ 0 .. x \subseteq Nat
    BY <1>5
  <2> QED
    BY <1>4, <2>1 DEF StrictSubsetOrdering
<1>6. \E z \in S : \A y \in S : z <= y
  BY <1>5
<1> QED
  BY <1>6 DEF Min

\* f starts at first, and each of its n steps is the step.
Follows(f, n, first, step) == f[0] = first /\ \A i \in 1 .. n : f[i] = step[<<i, f[i - 1]>>]

LEMMA Recursion ==
    ASSUME NEW n \in Nat, NEW S, NEW first \in S, NEW step \in [(1 .. n) \X S -> S]
    PROVE  \E f \in [0 .. n -> S] : Follows(f, n, first, step)
<1> USE DEF Follows
<1> DEFINE Reached(m) == \E f \in [0 .. m -> S] : Follows(f, m, first, step)
           Bad == {m \in 0 .. n : ~Reached(m)}
<1>1. Reached(0)
  <2> DEFINE f == [i \in 0 .. 0 |-> first]
  <2>1. f \in [0 .. 0 -> S] /\ f[0] = first
    OBVIOUS
  <2>2. \A i \in 1 .. 0 : FALSE
    OBVIOUS
  <2> QED
    BY <2>1, <2>2
<1>2. ASSUME NEW m \in 1 .. n, Reached(m - 1) PROVE Reached(m)
  <2>1. PICK f \in [0 .. m - 1 -> S] : Follows(f, m - 1, first, step)
    BY <1>2
  <2> DEFINE h == [i \in 0 .. m |-> IF i = m THEN step[<<m, f[m - 1]>>] ELSE f[i]]
  <2>2. step[<<m, f[m - 1]>>] \in S
    BY <2>1
  <2>3. h \in [0 .. m -> S] /\ h[m] = step[<<m, f[m - 1]>>] /\ \A i \in 0 .. m - 1 : h[i] = f[i]
    BY <2>1, <2>2
  <2>4. h[0] = first
    BY <2>1, <2>3
  <2>5. ASSUME NEW i \in 1 .. m PROVE h[i] = step[<<i, h[i - 1]>>]
    <3>1. CASE i = m
      <4>1. m - 1 \in 0 .. m - 1 /\ i - 1 = m - 1
        BY <3>1
      <4> QED
        BY <2>3, <3>1, <4>1
    <3>2. CASE i # m
      <4>1. i \in 1 .. m - 1 /\ i \in 0 .. m - 1 /\ i - 1 \in 0 .. m - 1
        BY <3>2
      <4>2. f[i] = step[<<i, f[i - 1]>>]
        BY <2>1, <4>1
      <4>3. h[i] = f[i] /\ h[i - 1] = f[i - 1]
        BY <2>3, <4>1
      <4> QED
        BY <4>2, <4>3
    <3> QED
      BY <3>1, <3>2
  <2> HIDE DEF h
  <2> QED
    BY <2>3, <2>4, <2>5
<1>3. Bad = {}
  <2>1. SUFFICES ASSUME Bad # {} PROVE FALSE
    OBVIOUS
  <2>2. Bad \in SUBSET Nat
    OBVIOUS
  <2> HIDE DEF Reached
  <2>3. PICK m \in Bad : \A y \in Bad : m <= y
    <3> HIDE DEF Bad
    <3> QED
      BY <2>1, <2>2, MinIsLeast
  <2>4. m # 0
    BY <1>1, <2>3
  <2>5. m \in 1 .. n /\ m - 1 \in 0 .. n /\ m - 1 \notin Bad
    BY <2>3, <2>4
  <2>6. Reached(m - 1)
    BY <2>5
  <2> QED
    BY <1>2, <2>3, <2>5, <2>6
<1> QED
  <2>1. n \in 0 .. n
    OBVIOUS
  <2> QED
    BY <1>3, <2>1

-----------------------------------------------------------------------------
(* The truth, from its recursive definition. *)

LEMMA WinsRecurs ==
    /\ Wins \in [0 .. MaxDepth -> SUBSET (Positions \cup ends)]
    /\ \A d \in 0 .. MaxDepth : Wins[d] = WinsAt(d, IF d = 0 THEN {} ELSE Wins[d - 1])
<1> DEFINE S == SUBSET (Positions \cup ends)
           step == [x \in (1 .. MaxDepth) \X S |-> WinsAt(x[1], x[2])]
<1>1. \A d, X : WinsAt(d, X) \in S
  BY DEF WinsAt, MateWins, SelfWins, Positions
<1>2. MaxDepth \in Nat
  BY DfpnAssumption
<1>3. step \in [(1 .. MaxDepth) \X S -> S]
  BY <1>1
<1>4. \A d \in 1 .. MaxDepth, X \in S : step[<<d, X>>] = WinsAt(d, X)
  OBVIOUS
<1> DEFINE zero == WinsAt(0, {})
<1>5. zero \in S
  BY <1>1
<1> HIDE DEF step, S, zero
<1>6. PICK f \in [0 .. MaxDepth -> S] : Follows(f, MaxDepth, zero, step)
  BY <1>2, <1>3, <1>5, Recursion, Zenon
<1>7. ASSUME NEW d \in 0 .. MaxDepth
      PROVE  f[d] = WinsAt(d, IF d = 0 THEN {} ELSE f[d - 1])
  <2>1. CASE d = 0
    BY <1>6, <2>1 DEF zero, Follows
  <2>2. CASE d # 0
    <3>1. d \in 1 .. MaxDepth /\ d - 1 \in 0 .. MaxDepth
      BY <1>2, <2>2
    <3>2. f[d - 1] \in S
      BY <3>1
    <3>3. f[d] = WinsAt(d, f[d - 1])
      BY <1>4, <1>6, <3>1, <3>2 DEF Follows
    <3> QED
      BY <2>2, <3>3
  <2> QED
    BY <2>1, <2>2
<1>8. f = [d \in 0 .. MaxDepth |-> WinsAt(d, IF d = 0 THEN {} ELSE f[d - 1])]
  BY <1>7
<1>9. Wins = [d \in 0 .. MaxDepth |-> WinsAt(d, IF d = 0 THEN {} ELSE Wins[d - 1])]
  BY <1>8, Zenon DEF Wins
<1> HIDE DEF Wins
<1>10. \A d \in 0 .. MaxDepth : Wins[d] = WinsAt(d, IF d = 0 THEN {} ELSE Wins[d - 1])
  BY <1>9, Zenon
<1>11. Wins \in [0 .. MaxDepth -> S]
  BY <1>1, <1>9, <1>10
<1> QED
  BY <1>10, <1>11 DEF S

LEMMA SetOfMoves ==
    ASSUME NEW S, NEW s \in Seq(S), NEW X
    PROVE  /\ ToSet(s) \cap X # {} <=> \E i \in 1 .. Len(s) : s[i] \in X
           /\ ToSet(s) \subseteq X <=> \A i \in 1 .. Len(s) : s[i] \in X
           /\ \A i \in 1 .. Len(s) : s[i] \in S
           /\ Len(s) \in Nat /\ (s # <<>> => Len(s) > 0)
<1>1. ToSet(s) = {s[i] : i \in 1 .. Len(s)}
  BY DEF ToSet
<1> QED
  BY <1>1

LEMMA MateTruth ==
    ASSUME GameFits, wins = Wins, goal = "mate" PROVE Truth
<1>1. SUFFICES ASSUME NEW d \in 0 .. MaxDepth
               PROVE  /\ \A p \in Attackers : p \in wins[d] <=> AttackerWinsBy(p, d)
                      /\ \A p \in Defenders : p \in wins[d] <=> DefenderLosesBy(p, d)
  BY DEF Truth
<1>2. PICK before : before = IF d = 0 THEN {} ELSE wins[d - 1]
  OBVIOUS
<1> DEFINE attack == {p \in Attackers : d > 0 /\ ToSet(moves[p]) \cap (ends \cup before) # {}}
<1>3. wins[d] = attack \cup {p \in Defenders : replies[p] # <<>> /\ ToSet(replies[p]) \subseteq attack}
  BY <1>2, WinsRecurs DEF WinsAt, MateWins
<1>4. \A p \in Attackers : p \notin Defenders
  BY DfpnAssumption
<1>5. \A p \in Attackers : moves[p] \in Seq(Defenders)
  BY DEF GameFits
<1>6. \A p \in Defenders : replies[p] \in Seq(Attackers)
  BY DEF GameFits
<1>7. ASSUME NEW p \in Attackers PROVE p \in attack <=> AttackerWinsBy(p, d)
  <2>1. CASE d = 0
    BY <2>1 DEF AttackerWinsBy
  <2>2. CASE d # 0
    <3>1. before = wins[ChildDepth(p, d)] /\ d > 0
      BY <1>2, <2>2 DEF ChildDepth
    <3>2. ToSet(moves[p]) \cap (ends \cup before) # {} <=>
            \E i \in 1 .. Len(moves[p]) : moves[p][i] \in ends \cup before
      BY <1>5, SetOfMoves
    <3> QED
      BY <3>1, <3>2 DEF AttackerWinsBy
  <2> QED
    BY <2>1, <2>2
<1>8. \A p \in Attackers : p \in wins[d] <=> p \in attack
  BY <1>3, <1>4
<1> HIDE DEF attack
<1>9. ASSUME NEW p \in Defenders PROVE p \in wins[d] <=> DefenderLosesBy(p, d)
  <2>1. p \in wins[d] <=> replies[p] # <<>> /\ ToSet(replies[p]) \subseteq attack
    BY <1>3, <1>4 DEF attack
  <2>2. ToSet(replies[p]) \subseteq attack <=>
          \A i \in 1 .. Len(replies[p]) : replies[p][i] \in attack
    BY <1>6, SetOfMoves
  <2>3. \A i \in 1 .. Len(replies[p]) : replies[p][i] \in Attackers
    BY <1>6, SetOfMoves
  <2>4. ChildDepth(p, d) = d
    BY <1>4 DEF ChildDepth
  <2> QED
    BY <1>8, <2>1, <2>2, <2>3, <2>4 DEF DefenderLosesBy
<1> QED
  BY <1>7, <1>8, <1>9

LEMMA SelfTruth ==
    ASSUME GameFits, wins = Wins, goal = "self" PROVE Truth
<1>1. SUFFICES ASSUME NEW d \in 0 .. MaxDepth
               PROVE  /\ \A p \in Attackers : p \in wins[d] <=> AttackerWinsBy(p, d)
                      /\ \A p \in Defenders : p \in wins[d] <=> DefenderLosesBy(p, d)
  BY DEF Truth
<1>2. PICK before : before = IF d = 0 THEN {} ELSE wins[d - 1]
  OBVIOUS
<1> DEFINE defend == {p \in Defenders : replies[p] # <<>> /\ ToSet(replies[p]) \subseteq before}
<1>3. wins[d] = defend \cup ends \cup {p \in Attackers : d > 0 /\ ToSet(moves[p]) \cap defend # {}}
  BY <1>2, WinsRecurs DEF WinsAt, SelfWins
<1>4. \A p \in Attackers : p \notin Defenders
  BY DfpnAssumption
<1>5. \A p \in Attackers : moves[p] \in Seq(Defenders)
  BY DEF GameFits
<1>6. \A p \in Defenders : replies[p] \in Seq(Attackers) /\ p \notin ends
  BY <1>4 DEF GameFits
<1>7. ASSUME NEW p \in Defenders PROVE p \in defend <=> DefenderLosesBy(p, d)
  <2>1. ToSet(replies[p]) \subseteq before <=>
          \A i \in 1 .. Len(replies[p]) : replies[p][i] \in before
    BY <1>6, SetOfMoves
  <2>2. CASE d = 0
    <3>1. replies[p] # <<>> => \E i \in 1 .. Len(replies[p]) : replies[p][i] \notin before
      <4>1. replies[p] # <<>> => Len(replies[p]) \in Nat /\ Len(replies[p]) > 0
        BY <1>6, SetOfMoves
      <4>2. replies[p] # <<>> => 1 \in 1 .. Len(replies[p])
        BY <4>1
      <4> QED
        BY <1>2, <2>2, <4>2
    <3> QED
      BY <2>1, <2>2, <3>1 DEF DefenderLosesBy
  <2>3. CASE d # 0
    <3>1. before = wins[ChildDepth(p, d)] /\ d > 0
      BY <1>2, <1>4, <2>3 DEF ChildDepth
    <3> QED
      BY <2>1, <3>1 DEF DefenderLosesBy
  <2> QED
    BY <2>2, <2>3
<1>8. \A p \in Defenders : p \in wins[d] <=> p \in defend
  BY <1>3, <1>4, <1>6
<1> HIDE DEF defend
<1>9. ASSUME NEW p \in Attackers PROVE p \in wins[d] <=> AttackerWinsBy(p, d)
  <2>1. p \in wins[d] <=> p \in ends \/ (d > 0 /\ ToSet(moves[p]) \cap defend # {})
    BY <1>3, <1>4 DEF defend
  <2>2. ToSet(moves[p]) \cap defend # {} <=>
          \E i \in 1 .. Len(moves[p]) : moves[p][i] \in defend
    BY <1>5, SetOfMoves
  <2>3. \A i \in 1 .. Len(moves[p]) : moves[p][i] \in Defenders
    BY <1>5, SetOfMoves
  <2>4. ChildDepth(p, d) = d
    BY DEF ChildDepth
  <2> QED
    BY <1>8, <2>1, <2>2, <2>3, <2>4 DEF AttackerWinsBy
<1> QED
  BY <1>7, <1>8, <1>9

LEMMA InitInv == Init => IInv
<1>1. SUFFICES ASSUME Init PROVE IInv
  OBVIOUS
<1>2. PICK c \in Cases :
        /\ goal = c.goal /\ options = c.options /\ capacity = c.capacity
        /\ moves = c.moves /\ replies = c.replies /\ ends = c.ends
  BY <1>1 DEF Init
<1>3. GameFits
  BY <1>2, CasesAssumption DEF GameFits
<1>4. Truth
  <2>1. goal = "mate" \/ goal = "self"
    BY <1>3 DEF GameFits
  <2> QED
    BY <1>1, <1>3, <2>1, MateTruth, SelfTruth DEF Init
<1>5. /\ DOMAIN table = {} /\ disproofs = {} /\ stack = <<>>
      /\ \E depth \in 1 .. MaxDepth : at = Call(Root, depth, Inf, Inf)
  BY <1>1 DEF Init
<1>6. at \in Calls /\ at.pos = Root /\ at.pc = "enter"
  BY <1>5, DfpnAssumption DEF Call, Calls, Labels, Positions, Numbers, Unknown, PnDn
<1>7. CallsFit
  BY <1>5, <1>6, DfpnAssumption DEF CallsFit, DepthLeft
<1>8. TableFits /\ ZeroIsAVerdict /\ DisproofsAreTrue
  BY <1>5 DEF TableFits, ZeroIsAVerdict, DisproofsAreTrue
<1> QED
  BY <1>3, <1>4, <1>7, <1>8 DEF IInv

-----------------------------------------------------------------------------
(* A node in its loop. *)

LEMMA LookupFacts ==
    ASSUME IInv, NEW k
    PROVE  Lookup(k) \in Numbers /\ VerdictAt(k, Lookup(k))
<1>1. CASE k \in DOMAIN table
  BY <1>1 DEF IInv, TableFits, ZeroIsAVerdict, Lookup, Seen, VerdictAt
<1>2. CASE k \notin DOMAIN table
  <2>1. Lookup(k) = Unknown /\ 1 \in Nat /\ 1 # 0
    BY <1>2 DEF Lookup, Seen
  <2> QED
    BY <2>1 DEF Unknown, PnDn, Numbers, VerdictAt
<1> QED
  BY <1>1, <1>2

LEMMA CallFacts ==
    ASSUME IInv
    PROVE  /\ at.pos \in Positions /\ at.depth \in 0 .. MaxDepth /\ at.depth \in Nat
           /\ MaxDepth \in Nat /\ Key \in Keys /\ at.pc \in Labels
           /\ at.pos \in Attackers <=> at.pos \notin Defenders
           /\ at.pos \in Attackers => moves[at.pos] \in Seq(Defenders)
           /\ at.pos \in Defenders => replies[at.pos] \in Seq(Attackers)
           /\ at.thpn \in Nat /\ at.thdn \in Nat /\ at.ret \in Numbers
           /\ goal \in {"mate", "self"}
<1>1. at \in Calls /\ GameFits
  BY DEF IInv, CallsFit
<1>2. /\ at.pos \in Positions /\ at.depth \in 0 .. MaxDepth /\ at.pc \in Labels
      /\ at.thpn \in Nat /\ at.thdn \in Nat /\ at.ret \in Numbers
  BY <1>1, Zenon DEF Calls
<1>3. MaxDepth \in Nat /\ at.depth \in Nat
  BY <1>2, DfpnAssumption
<1> QED
  BY <1>1, <1>2, <1>3, DfpnAssumption DEF GameFits, Positions, Key, Keys

\* The children of a node are keys of the other side, at a depth that is left.
LEMMA KidFacts ==
    ASSUME IInv, Selecting
    PROVE  /\ Len(Kids) \in Nat \ {0} /\ Len(Kids) = Len(Below(at.pos))
           /\ DOMAIN Kids = 1 .. Len(Kids)
           /\ \A i \in 1 .. Len(Kids) :
                /\ Kids[i] = <<Below(at.pos)[i], ChildDepth(at.pos, at.depth)>>
                /\ Below(at.pos)[i] \in Positions
                /\ ChildDepth(at.pos, at.depth) \in 0 .. MaxDepth
                /\ Below(at.pos)[i] \in Defenders => ChildDepth(at.pos, at.depth) > 0
<1>1. Looping(at) /\ DepthLeft(at)
  BY DEF IInv, CallsFit, Selecting
<1> DEFINE s == Below(at.pos)
<1>2. s # <<>> /\ s \in Seq(Positions) /\ (at.pos \in Attackers => s \in Seq(Defenders))
      /\ (at.pos \in Defenders => s \in Seq(Attackers))
  <2>1. CASE at.pos \in Attackers
    BY <1>1, <2>1, CallFacts DEF Looping, Below, Positions
  <2>2. CASE at.pos \in Defenders
    BY <1>1, <2>2, CallFacts DEF Looping, Below, Positions
  <2> QED
    BY <2>1, <2>2, CallFacts
<1>3. Len(s) \in Nat \ {0} /\ \A i \in 1 .. Len(s) : s[i] \in Positions
  BY <1>2
<1>4. ChildDepth(at.pos, at.depth) \in 0 .. MaxDepth
      /\ (at.pos \in Attackers => ChildDepth(at.pos, at.depth) > 0)
  BY <1>1, CallFacts DEF ChildDepth, Looping, DepthLeft
<1>5. \A i \in 1 .. Len(s) : s[i] \in Defenders => at.pos \in Attackers
  <2>1. \A i \in 1 .. Len(s) : at.pos \in Defenders => s[i] \in Attackers
    BY <1>2
  <2> QED
    BY <2>1, CallFacts, DfpnAssumption
<1> HIDE DEF s
<1>6. Kids = [i \in 1 .. Len(s) |-> <<s[i], ChildDepth(at.pos, at.depth)>>]
  BY DEF Kids, s
<1>7. Len(Kids) = Len(s) /\ DOMAIN Kids = 1 .. Len(s)
  BY <1>3, <1>6
<1> QED
  BY <1>3, <1>4, <1>5, <1>6, <1>7 DEF s

LEMMA KidValueFacts ==
    ASSUME IInv, Selecting, NEW i \in 1 .. Len(Kids)
    PROVE  KidValue(i) \in Numbers /\ VerdictAt(Kids[i], KidValue(i))
           /\ KidValue(i).pn \in Nat /\ KidValue(i).dn \in Nat
<1>1. KidValue(i) \in Numbers /\ VerdictAt(Kids[i], KidValue(i))
  <2>1. CASE KidValue(i) = Lookup(Kids[i])
    BY <2>1, LookupFacts
  <2>2. CASE /\ at.pos \in Attackers
             /\ KidValue(i) = PnDn(1 + Len(replies[Kids[i][1]]), 1)
    <3>1. Kids[i][1] = moves[at.pos][i] /\ i \in 1 .. Len(moves[at.pos])
      BY <2>2, KidFacts DEF Below
    <3>2. Kids[i][1] \in Defenders
      BY <2>2, <3>1, CallFacts
    <3>3. Len(replies[Kids[i][1]]) \in Nat
      BY <3>2 DEF IInv, GameFits
    <3> DEFINE n == Len(replies[Kids[i][1]])
    <3> HIDE DEF n
    <3>4. 1 + n \in Nat /\ 1 + n # 0 /\ 1 \in Nat /\ 1 # 0
      BY <3>3 DEF n
    <3>5. KidValue(i) = [pn |-> 1 + n, dn |-> 1]
      BY <2>2 DEF n, PnDn
    <3> QED
      BY <3>4, <3>5 DEF Numbers, VerdictAt
  <2> QED
    BY <2>1, <2>2 DEF KidValue
<1> QED
  BY <1>1 DEF Numbers

\* The saturating sum: zero if every summand is.
LEMMA TotalIsZero ==
    ASSUME IInv, Selecting
    PROVE  /\ Total[Len(Kids)] \in Nat
           /\ Total[Len(Kids)] = 0 => \A i \in 1 .. Len(Kids) : Sum(KidValue(i)) = 0
<1> DEFINE n == Len(Kids)
           step == [x \in (1 .. n) \X Nat |-> SatAdd(x[2], Sum(KidValue(x[1])))]
<1>1. n \in Nat /\ 0 \in Nat /\ n \in 0 .. n
  BY KidFacts
<1>2. \A i \in 1 .. n : Sum(KidValue(i)) \in Nat
  BY KidValueFacts DEF Sum
<1>3. \A x \in Nat, y \in Nat : SatAdd(x, y) \in Nat /\ (SatAdd(x, y) = 0 => x = 0 /\ y = 0)
  BY DfpnAssumption DEF SatAdd
<1>4. step \in [(1 .. n) \X Nat -> Nat]
  BY <1>2, <1>3
<1>5. \A i \in 1 .. n, x \in Nat : step[<<i, x>>] = SatAdd(x, Sum(KidValue(i)))
  OBVIOUS
<1> HIDE DEF step
<1>6. PICK f \in [0 .. n -> Nat] : Follows(f, n, 0, step)
  <2> HIDE DEF n
  <2> QED
    BY <1>1, <1>4, Recursion, Zenon
<1>7. ASSUME NEW i \in 1 .. n PROVE f[i] = SatAdd(f[i - 1], Sum(KidValue(i))) /\ f[i - 1] \in Nat
  <2>1. i - 1 \in 0 .. n
    BY <1>1
  <2>2. f[i] = step[<<i, f[i - 1]>>] /\ f[i - 1] \in Nat
    BY <1>6, <2>1 DEF Follows
  <2> QED
    BY <1>5, <2>2
<1>8. f = [i \in 0 .. n |-> IF i = 0 THEN 0 ELSE SatAdd(f[i - 1], Sum(KidValue(i)))]
  <2>1. ASSUME NEW i \in 0 .. n
        PROVE  f[i] = IF i = 0 THEN 0 ELSE SatAdd(f[i - 1], Sum(KidValue(i)))
    <3>1. CASE i = 0
      BY <1>6, <3>1 DEF Follows
    <3>2. CASE i # 0
      BY <1>1, <1>7, <3>2
    <3> QED
      BY <3>1, <3>2
  <2> QED
    BY <1>6, <2>1
<1>9. Total = [i \in 0 .. n |-> IF i = 0 THEN 0 ELSE SatAdd(Total[i - 1], Sum(KidValue(i)))]
  BY <1>8, Zenon DEF Total
<1> HIDE DEF Total
<1>10. Total[0] = 0 /\ \A i \in 1 .. n : Total[i] = SatAdd(Total[i - 1], Sum(KidValue(i)))
  <2>1. \A i \in 0 .. n : Total[i] = IF i = 0 THEN 0 ELSE SatAdd(Total[i - 1], Sum(KidValue(i)))
    BY <1>9, Zenon
  <2> QED
    BY <1>1, <2>1
<1> DEFINE Off == {i \in 0 .. n : \/ Total[i] \notin Nat
                                  \/ Total[i] = 0 /\ \E k \in 1 .. i : Sum(KidValue(k)) # 0}
<1>11. Off = {}
  <2>1. SUFFICES ASSUME Off # {} PROVE FALSE
    OBVIOUS
  <2>2. PICK i \in Off : \A k \in Off : i <= k
    <3>1. Off \in SUBSET Nat
      OBVIOUS
    <3> HIDE DEF Off
    <3> QED
      BY <2>1, <3>1, MinIsLeast
  <2>3. i # 0
    BY <1>10, <2>2
  <2>4. i \in 1 .. n /\ i - 1 \in 0 .. n /\ i - 1 \notin Off
    BY <1>1, <2>2, <2>3
  <2>5. /\ Total[i - 1] \in Nat
        /\ Total[i - 1] = 0 => \A k \in 1 .. i - 1 : Sum(KidValue(k)) = 0
    BY <2>4
  <2>6. Total[i] = SatAdd(Total[i - 1], Sum(KidValue(i))) /\ Sum(KidValue(i)) \in Nat
    BY <1>2, <1>10, <2>4
  <2>7. /\ Total[i] \in Nat
        /\ Total[i] = 0 => Total[i - 1] = 0 /\ Sum(KidValue(i)) = 0
    BY <1>3, <2>5, <2>6
  <2>8. \A k \in 1 .. i : k = i \/ k \in 1 .. i - 1
    BY <2>4
  <2> QED
    BY <2>2, <2>5, <2>7, <2>8
<1> QED
  BY <1>1, <1>11

\* The child that is gone into has the least number of all.
LEMMA BestIsLeast ==
    ASSUME IInv, Selecting
    PROVE  /\ Best \in 1 .. Len(Kids)
           /\ \A k \in 1 .. Len(Kids) : Own(KidValue(Best)) <= Own(KidValue(k))
<1> DEFINE n == Len(Kids)
           own == [k \in 1 .. n |-> Own(KidValue(k))]
<1>1. n \in Nat /\ n > 0 /\ DOMAIN Kids = 1 .. n
  BY KidFacts
<1>2. \A k \in 1 .. n : own[k] = Own(KidValue(k)) /\ own[k] \in Nat
  BY KidValueFacts DEF Own
<1> HIDE DEF own, n
<1>3. PICK x \in {own[k] : k \in 1 .. n} : \A y \in {own[k] : k \in 1 .. n} : x <= y
  <2> DEFINE S == {own[k] : k \in 1 .. n}
  <2>1. S \in SUBSET Nat
    BY <1>2
  <2>2. 1 \in 1 .. n
    BY <1>1
  <2>3. S # {}
    BY <2>2
  <2> HIDE DEF S
  <2>4. Min(S) \in S /\ \A y \in S : Min(S) <= y
    BY <2>1, <2>3, MinIsLeast
  <2> QED
    BY <2>4 DEF S
<1>4. PICK i \in {k \in 1 .. n : own[k] = x} : \A j \in {k \in 1 .. n : own[k] = x} : i <= j
  <2> DEFINE S == {k \in 1 .. n : own[k] = x}
  <2>1. S \in SUBSET Nat /\ S # {}
    BY <1>3
  <2> HIDE DEF S
  <2>2. Min(S) \in S /\ \A y \in S : Min(S) <= y
    BY <2>1, MinIsLeast
  <2> QED
    BY <2>2 DEF S
<1>5. ASSUME NEW k \in 1 .. n PROVE own[i] < own[k] \/ (own[i] = own[k] /\ i <= k)
  <2>1. own[i] = x /\ x <= own[k] /\ own[k] \in Nat /\ x \in Nat
    BY <1>2, <1>3, <1>4
  <2>2. CASE own[k] = x
    BY <1>4, <2>1, <2>2
  <2>3. CASE own[k] # x
    BY <2>1, <2>3
  <2> QED
    BY <2>2, <2>3
<1>6. \A k \in 1 .. n : Own(KidValue(i)) < Own(KidValue(k))
                        \/ (Own(KidValue(i)) = Own(KidValue(k)) /\ i <= k)
  BY <1>2, <1>5
<1>7. /\ Best \in 1 .. n
      /\ \A k \in 1 .. n : Own(KidValue(Best)) < Own(KidValue(k))
                           \/ (Own(KidValue(Best)) = Own(KidValue(k)) /\ Best <= k)
  BY <1>1, <1>6, Zenon DEF Best
<1>8. \A k \in 1 .. n : Own(KidValue(k)) \in Nat
  BY <1>2
<1> QED
  BY <1>7, <1>8 DEF n

LEMMA SecondFacts ==
    ASSUME IInv, Selecting
    PROVE  Second \in Nat
<1> DEFINE S == {Inf} \cup {Own(KidValue(k)) : k \in DOMAIN Kids \ {Best}}
<1>1. \A k \in DOMAIN Kids : Own(KidValue(k)) \in Nat
  BY KidFacts, KidValueFacts DEF Own
<1>2. S \in SUBSET Nat /\ S # {}
  BY <1>1, DfpnAssumption
<1>3. Second = Min(S)
  BY DEF Second
<1> HIDE DEF S
<1> QED
  BY <1>2, <1>3, MinIsLeast

LEMMA HereFacts ==
    ASSUME IInv, Selecting
    PROVE  /\ Here \in Numbers /\ Here.pn \in Nat /\ Here.dn \in Nat
           /\ at.pos \in Attackers => Here.pn = KidValue(Best).pn /\ Here.dn = Total[Len(Kids)]
           /\ at.pos \in Defenders => Here.dn = KidValue(Best).dn /\ Here.pn = Total[Len(Kids)]
<1>1. Total[Len(Kids)] \in Nat /\ KidValue(Best).pn \in Nat /\ KidValue(Best).dn \in Nat
  BY TotalIsZero, BestIsLeast, KidValueFacts
<1>2. CASE at.pos \in Attackers
  BY <1>1, <1>2, CallFacts DEF Here, Value, Own, PnDn, Numbers
<1>3. CASE at.pos \in Defenders
  BY <1>1, <1>3, CallFacts DEF Here, Value, Own, PnDn, Numbers
<1> QED
  BY <1>2, <1>3, CallFacts

\* What a node's numbers say is true of it when its children's are.
LEMMA HereIsTrue ==
    ASSUME IInv, Selecting
    PROVE  VerdictAt(Key, Here)
<1>1. /\ Looping(at) /\ Truth /\ at.depth \in 0 .. MaxDepth
      /\ Key[1] = at.pos /\ Key[2] = at.depth
  BY CallFacts DEF IInv, CallsFit, Selecting, Key
<1> DEFINE n == Len(Kids)
           below == wins[ChildDepth(at.pos, at.depth)]
<1>2. n = Len(Below(at.pos)) /\ n > 0
  BY KidFacts
<1>3. \A i \in 1 .. n : /\ KidValue(i).pn = 0 => Below(at.pos)[i] \in below
                        /\ KidValue(i).dn = 0 => Below(at.pos)[i] \notin below
  BY KidFacts, KidValueFacts DEF VerdictAt
<1>4. Best \in 1 .. n
  BY BestIsLeast
<1>5. CASE at.pos \in Attackers
  <2>1. Below(at.pos) = moves[at.pos] /\ at.depth > 0
        /\ (goal = "mate" => \A i \in 1 .. n : moves[at.pos][i] \notin ends)
    BY <1>1, <1>2, <1>5 DEF Looping, Below
  <2>2. goal = "self" => at.pos \notin ends
    BY <1>1, <1>5, CallFacts DEF IInv, GameFits, Looping, Below
  <2>3. at.pos \in wins[at.depth] <=> \E i \in 1 .. n : moves[at.pos][i] \in below
    BY <1>1, <1>2, <1>5, <2>1, <2>2 DEF Truth, AttackerWinsBy
  <2>4. Here.pn = 0 => moves[at.pos][Best] \in below
    BY <1>3, <1>4, <1>5, <2>1, HereFacts
  <2>5. Here.dn = 0 => \A i \in 1 .. n : moves[at.pos][i] \notin below
    BY <1>3, <1>5, <2>1, HereFacts, TotalIsZero DEF Sum
  <2> QED
    BY <1>1, <1>4, <2>3, <2>4, <2>5 DEF VerdictAt
<1>6. CASE at.pos \in Defenders
  <2>1. Below(at.pos) = replies[at.pos] /\ replies[at.pos] # <<>> /\ at.pos \notin Attackers
    BY <1>1, <1>6, CallFacts DEF Looping, Below
  <2>2. at.depth > 0
    BY <1>6 DEF IInv, CallsFit, DepthLeft
  <2>3. at.pos \in wins[at.depth] <=> \A i \in 1 .. n : replies[at.pos][i] \in below
    BY <1>1, <1>2, <1>6, <2>1, <2>2 DEF Truth, DefenderLosesBy
  <2>4. Here.dn = 0 => replies[at.pos][Best] \notin below
    BY <1>3, <1>4, <1>6, <2>1, HereFacts
  <2>5. Here.pn = 0 => \A i \in 1 .. n : replies[at.pos][i] \in below
    BY <1>3, <1>6, <2>1, HereFacts, TotalIsZero DEF Sum
  <2> QED
    BY <1>1, <1>4, <2>3, <2>4, <2>5 DEF VerdictAt
<1> QED
  BY <1>5, <1>6, CallFacts

-----------------------------------------------------------------------------
(* What an action leaves alone, and what it stores. *)

LEMMA GameKept ==
    ASSUME IInv, UNCHANGED game
    PROVE  /\ GameFits' /\ Truth'
           /\ goal' = goal /\ moves' = moves /\ replies' = replies /\ ends' = ends /\ wins' = wins
<1>1. goal' = goal /\ moves' = moves /\ replies' = replies /\ ends' = ends /\ wins' = wins
  BY DEF game
<1>2. GameFits'
  BY <1>1 DEF IInv, GameFits
<1>3. \A p, d : ChildDepth(p, d)' = ChildDepth(p, d)
  BY <1>1 DEF ChildDepth
<1>4. \A p, d : /\ AttackerWinsBy(p, d)' <=> AttackerWinsBy(p, d)
                /\ DefenderLosesBy(p, d)' <=> DefenderLosesBy(p, d)
  BY <1>1, <1>3 DEF AttackerWinsBy, DefenderLosesBy
<1>5. Truth'
  BY <1>1, <1>4 DEF IInv, Truth
<1> QED
  BY <1>1, <1>2, <1>5

LEMMA StackKept ==
    ASSUME IInv, UNCHANGED game
    PROVE  \A c : (DepthLeft(c)' <=> DepthLeft(c)) /\ (Looping(c)' <=> Looping(c))
<1>1. \A p : Below(p)' = Below(p)
  BY GameKept DEF Below
<1> QED
  BY <1>1, GameKept DEF DepthLeft, Looping

\* A call that moves on in its own node.
LEMMA SamePlace ==
    ASSUME IInv, UNCHANGED <<game, stack>>, at' \in Calls,
           at'.pos = at.pos, at'.depth = at.depth, at'.pc = "select" => Looping(at)
    PROVE  CallsFit'
<1>1. DepthLeft(at)' /\ (at'.pc = "select" => Looping(at)')
  <2>1. DepthLeft(at)
    BY DEF IInv, CallsFit
  <2>2. \A p : Below(p)' = Below(p)
    BY GameKept DEF Below
  <2> QED
    BY <2>1, <2>2, GameKept DEF DepthLeft, Looping
<1>2. \A i \in 1 .. Len(stack) : DepthLeft(stack[i])' /\ Looping(stack[i])'
  BY StackKept DEF IInv, CallsFit, DepthLeft, Looping
<1> QED
  BY <1>1, <1>2 DEF CallsFit, IInv

LEMMA ReturnFits ==
    ASSUME IInv, UNCHANGED <<game, stack>>, NEW v \in Numbers, Return(v)
    PROVE  CallsFit'
<1>1. at \in Calls
  BY DEF IInv, CallsFit
<1>2. /\ at' \in Calls /\ at'.pos = at.pos /\ at'.depth = at.depth /\ at'.pc = "return"
  BY <1>1 DEF Return, Calls, Labels
<1> QED
  BY <1>2, SamePlace

LEMMA PutTrue ==
    ASSUME IInv, UNCHANGED game, NEW v \in Numbers, VerdictAt(Key, v), Put(v)
    PROVE  TableFits' /\ ZeroIsAVerdict'
<1>1. PICK kept \in SUBSET DOMAIN table :
        table' = [k \in kept \cup {Key} |-> IF k = Key THEN v ELSE table[k]]
  BY DEF Put
<1>2. \A k \in DOMAIN table' : \/ k = Key /\ table'[k] = v
                               \/ k \in DOMAIN table /\ table'[k] = table[k]
  BY <1>1
<1>3. TableFits'
  BY <1>2, CallFacts DEF IInv, TableFits
<1>4. ZeroIsAVerdict'
  BY <1>2, GameKept DEF IInv, ZeroIsAVerdict, VerdictAt
<1> QED
  BY <1>3, <1>4

LEMMA TableKept ==
    ASSUME IInv, UNCHANGED <<game, table>>
    PROVE  TableFits' /\ ZeroIsAVerdict'
<1> QED
  BY GameKept DEF IInv, TableFits, ZeroIsAVerdict

LEMMA PublishTrue ==
    ASSUME IInv, UNCHANGED game, NEW v, VerdictAt(Key, v), Publish(v) \/ disproofs' = disproofs
    PROVE  DisproofsAreTrue'
<1> QED
  BY GameKept DEF IInv, DisproofsAreTrue, VerdictAt, Publish

\* A value that is stored, published and returned.
LEMMA SettleInv ==
    ASSUME IInv, UNCHANGED <<game, stack>>, NEW v \in Numbers, VerdictAt(Key, v), Put(v), Return(v),
           Publish(v) \/ disproofs' = disproofs
    PROVE  IInv'
<1> QED
  BY GameKept, ReturnFits, PutTrue, PublishTrue DEF IInv

\* Nothing is stored or published.
LEMMA QuietInv ==
    ASSUME IInv, UNCHANGED <<game, table, disproofs>>, CallsFit' PROVE IInv'
<1> QED
  BY GameKept, TableKept DEF IInv, DisproofsAreTrue

LEMMA ConstantNumbers ==
    /\ Won \in Numbers /\ Lost \in Numbers /\ Unknown \in Numbers
    /\ Won.dn # 0 /\ Lost.pn # 0 /\ Won.pn = 0 /\ Lost.dn = 0
<1>1. Inf \in Nat /\ Inf # 0 /\ 0 \in Nat /\ 1 \in Nat
  BY DfpnAssumption
<1> QED
  BY <1>1 DEF Won, Lost, Unknown, PnDn, Numbers

-----------------------------------------------------------------------------
(* The actions. *)

LEMMA GiveUpInv == ASSUME IInv, GiveUp PROVE IInv'
<1>1. CallsFit'
  BY ConstantNumbers, ReturnFits DEF GiveUp
<1> QED
  BY <1>1, QuietInv DEF GiveUp

\* Where the attacker's search ends, the mating moves or the goal decide.
LEMMA EndsDecide ==
    ASSUME IInv, AttackerEnds
    PROVE  Key[1] \in wins[Key[2]] <=> AttackerWinsHere
<1>1. /\ at.pos \in Attackers /\ at.depth \in 0 .. MaxDepth /\ at.depth \in Nat
      /\ moves[at.pos] \in Seq(Defenders)
      /\ GameFits /\ Truth /\ Key[1] = at.pos /\ Key[2] = at.depth
  BY CallFacts DEF IInv, AttackerEnds, Key
<1>2. at.pos \in wins[at.depth] <=> AttackerWinsBy(at.pos, at.depth)
  BY <1>1 DEF Truth
<1> DEFINE n == Len(moves[at.pos])
<1>3. n \in Nat /\ (moves[at.pos] = <<>> => n = 0) /\ \A i \in 1 .. n : moves[at.pos][i] \in Defenders
  BY <1>1
<1>4. CASE goal = "mate"
  <2>1. AttackerWinsHere <=> at.depth > 0 /\ \E i \in 1 .. n : moves[at.pos][i] \in ends
    BY <1>4 DEF AttackerWinsHere, MatingMoves
  <2>2. AttackerWinsBy(at.pos, at.depth) <=>
          at.depth > 0 /\ \E i \in 1 .. n : \/ moves[at.pos][i] \in ends
                                            \/ moves[at.pos][i] \in wins[at.depth - 1]
    BY <1>1, <1>4 DEF AttackerWinsBy, ChildDepth
  <2>3. at.depth = 0 \/ n = 0 \/ (\E i \in 1 .. n : moves[at.pos][i] \in ends) \/ at.depth = 1
    BY <1>3, <1>4 DEF AttackerEnds, MatingMoves
  <2>4. ASSUME NEW i \in 1 .. n, at.depth = 1 PROVE moves[at.pos][i] \notin wins[at.depth - 1]
    <3>1. 0 \in 0 .. MaxDepth /\ at.depth - 1 = 0
      BY <2>4, DfpnAssumption
    <3> DEFINE q == moves[at.pos][i]
    <3>2. q \in Defenders /\ q \notin Attackers /\ replies[q] \in Seq(Attackers)
      BY <1>1, <1>3, DfpnAssumption DEF GameFits
    <3> HIDE DEF q
    <3>3. \A p \in Attackers : p \notin wins[0]
      BY <1>1, <1>4, <3>1 DEF Truth, AttackerWinsBy
    <3>4. ~DefenderLosesBy(q, 0)
      <4>1. ChildDepth(q, 0) = 0
        BY <1>4, <3>2 DEF ChildDepth
      <4>2. replies[q] # <<>> => 1 \in 1 .. Len(replies[q]) /\ replies[q][1] \in Attackers
        BY <3>2
      <4> QED
        BY <3>3, <4>1, <4>2 DEF DefenderLosesBy
    <3> QED
      BY <1>1, <3>1, <3>2, <3>4 DEF Truth, q
  <2>5. \A i \in 1 .. n : n # 0
    BY <1>3
  <2> QED
    BY <1>1, <1>2, <2>1, <2>2, <2>3, <2>4, <2>5
<1>5. CASE goal = "self"
  <2>1. AttackerWinsHere <=> moves[at.pos] = <<>> /\ at.pos \in ends
    BY <1>5 DEF AttackerWinsHere
  <2>2. at.pos \in ends => moves[at.pos] = <<>>
    BY <1>1, <1>5 DEF GameFits
  <2>3. n = 0 \/ ~(at.depth > 0)
    BY <1>1, <1>3, <1>5 DEF AttackerEnds
  <2>4. AttackerWinsBy(at.pos, at.depth) <=> at.pos \in ends
    BY <1>3, <1>5, <2>3 DEF AttackerWinsBy
  <2> QED
    BY <1>1, <1>2, <2>1, <2>2, <2>4
<1> QED
  BY <1>4, <1>5, CallFacts

LEMMA AttackerWinsInv == ASSUME IInv, AttackerWins PROVE IInv'
<1>1. VerdictAt(Key, Won)
  BY EndsDecide, ConstantNumbers DEF AttackerWins, VerdictAt
<1> QED
  BY <1>1, ConstantNumbers, SettleInv DEF AttackerWins

LEMMA AttackerLosesInv == ASSUME IInv, AttackerLoses PROVE IInv'
<1>1. VerdictAt(Key, Lost)
  BY EndsDecide, ConstantNumbers DEF AttackerLoses, VerdictAt
<1> QED
  BY <1>1, ConstantNumbers, SettleInv DEF AttackerLoses

LEMMA DefenderIsStuckInv == ASSUME IInv, DefenderIsStuck PROVE IInv'
<1>1. /\ at.pos \in Defenders /\ replies[at.pos] = <<>> /\ at.depth \in 0 .. MaxDepth /\ Truth
      /\ Key[1] = at.pos /\ Key[2] = at.depth
  BY CallFacts DEF IInv, DefenderIsStuck, Key
<1>2. at.pos \notin wins[at.depth]
  BY <1>1 DEF Truth, DefenderLosesBy
<1>3. VerdictAt(Key, Lost)
  BY <1>1, <1>2, ConstantNumbers DEF VerdictAt
<1> QED
  BY <1>3, ConstantNumbers, SettleInv DEF DefenderIsStuck, Settle

\* A node that does not end here has moves, and is not decided by one of them.
LEMMA NotTerminal ==
    ASSUME IInv, ~Terminal
    PROVE  Looping(at) /\ Len(Below(at.pos)) \in Nat /\ Len(Below(at.pos)) > 0
<1>1. DepthLeft(at)
  BY DEF IInv, CallsFit
<1>2. CASE at.pos \in Attackers
  <2>1. /\ moves[at.pos] # <<>> /\ at.depth # 0
        /\ goal = "mate" => at.depth # 1 /\ MatingMoves = {}
    BY <1>2, CallFacts DEF Terminal, AttackerEnds
  <2>2. goal = "mate" => \A i \in 1 .. Len(moves[at.pos]) : moves[at.pos][i] \notin ends
    BY <2>1 DEF MatingMoves
  <2>3. Looping(at)
    BY <1>2, <2>1, <2>2, CallFacts DEF Looping, Below
  <2>4. Len(moves[at.pos]) \in Nat /\ Len(moves[at.pos]) > 0
    BY <1>2, <2>1, CallFacts
  <2> QED
    BY <1>2, <2>3, <2>4 DEF Below
<1>3. CASE at.pos \in Defenders
  <2>1. replies[at.pos] # <<>> /\ at.pos \notin Attackers
    BY <1>3, CallFacts DEF Terminal
  <2>2. Len(replies[at.pos]) \in Nat /\ Len(replies[at.pos]) > 0
    BY <1>3, <2>1, CallFacts
  <2> QED
    BY <2>1, <2>2 DEF Looping, Below
<1> QED
  BY <1>2, <1>3, CallFacts

LEMMA GuessSufficesInv == ASSUME IInv, GuessSuffices PROVE IInv'
<1> DEFINE n == Len(Below(at.pos))
<1>1. n \in Nat /\ n > 0 /\ 2 * n \in Nat /\ 2 * n > 0
  BY NotTerminal DEF GuessSuffices
<1>2. Inf \in Nat /\ Inf > 0 /\ 1 \in Nat /\ 1 # 0
  BY DfpnAssumption
<1>3. \E x, y \in Nat : x # 0 /\ y # 0 /\ Guess = PnDn(x, y)
  <2>1. \A x \in Nat : x > 0 => AtMost(x, Inf) \in Nat /\ AtMost(x, Inf) # 0
    BY <1>2 DEF AtMost
  <2> HIDE DEF n
  <2>2. CASE at.pos \in Attackers
    BY <1>1, <1>2, <2>1, <2>2 DEF Guess, n
  <2>3. CASE at.pos \notin Attackers
    BY <1>1, <1>2, <2>1, <2>3 DEF Guess, n
  <2> QED
    BY <2>2, <2>3
<1>4. Guess \in Numbers /\ VerdictAt(Key, Guess)
  BY <1>3 DEF PnDn, Numbers, VerdictAt
<1> QED
  BY <1>4, SettleInv DEF GuessSuffices, Settle

LEMMA ExpandInv == ASSUME IInv, Expand PROVE IInv'
<1>1. at \in Calls /\ Looping(at)
  BY NotTerminal DEF IInv, CallsFit, Expand
<1>2. at' \in Calls /\ at'.pos = at.pos /\ at'.depth = at.depth
  BY <1>1 DEF Expand, Calls, Labels
<1>3. CallsFit'
  BY <1>1, <1>2, SamePlace DEF Expand
<1> QED
  BY <1>3, QuietInv DEF Expand

LEMMA ConcludeInv == ASSUME IInv, Conclude PROVE IInv'
<1> QED
  BY HereIsTrue, HereFacts, SettleInv DEF Conclude, Settle

LEMMA AbandonInv == ASSUME IInv, Abandon PROVE IInv'
<1>1. CallsFit'
  BY ConstantNumbers, ReturnFits DEF Abandon
<1> QED
  BY <1>1, QuietInv DEF Abandon

\* The thresholds of a child are numbers: the subtraction does not underflow.
LEMMA LimitsAreNumbers ==
    ASSUME IInv, Selecting, ~Over(Here)
    PROVE  /\ OwnLimit(at.thpn) \in Nat /\ OwnLimit(at.thdn) \in Nat
           /\ at.pos \in Attackers => SumLimit(at.thdn) \in Nat
           /\ at.pos \notin Attackers => SumLimit(at.thpn) \in Nat
<1>1. /\ Inf \in Nat /\ at.thpn \in Nat /\ at.thdn \in Nat /\ Second \in Nat
      /\ Here.pn \in Nat /\ Here.dn \in Nat
  BY DfpnAssumption, CallFacts, SecondFacts, HereFacts
<1>2. Here.pn < at.thpn /\ Here.dn < at.thdn
  BY <1>1 DEF Over
<1>3. \A x, y \in Nat : AtMost(x, y) \in Nat /\ SatAdd(x, y) \in Nat
  BY <1>1 DEF AtMost, SatAdd
<1>4. \A own, th \in Nat : Widened(own, th) \in Nat
  <2>1. \A x \in Nat : (x * (64 + 32)) \div 64 \in Nat
    OBVIOUS
  <2> QED
    BY <1>1, <1>3, <2>1 DEF Widened
<1>5. OwnLimit(at.thpn) \in Nat /\ OwnLimit(at.thdn) \in Nat
  BY <1>1, <1>3, <1>4 DEF OwnLimit
<1> DEFINE kid == Lookup(Kids[Best])
<1>6. kid.pn \in Nat /\ kid.dn \in Nat
  BY LookupFacts DEF Numbers
<1> HIDE DEF kid
<1>7. CASE at.pos \in Attackers
  <2>1. Sum(Here) = Here.dn /\ Sum(kid) = kid.dn
    BY <1>7 DEF Sum
  <2>2. at.thdn - Here.dn + kid.dn \in Nat
    BY <1>1, <1>2, <1>6
  <2> QED
    BY <1>1, <1>3, <1>5, <1>7, <2>1, <2>2 DEF SumLimit, kid
<1>8. CASE at.pos \notin Attackers
  <2>1. Sum(Here) = Here.pn /\ Sum(kid) = kid.pn
    BY <1>8 DEF Sum
  <2>2. at.thpn - Here.pn + kid.pn \in Nat
    BY <1>1, <1>2, <1>6
  <2> QED
    BY <1>1, <1>3, <1>5, <1>8, <2>1, <2>2 DEF SumLimit, kid
<1> QED
  BY <1>7, <1>8

LEMMA DescendInv == ASSUME IInv, Descend PROVE IInv'
<1>1. Selecting /\ ~Over(Here) /\ UNCHANGED game /\ stack' = Append(stack, at)
  BY DEF Descend, Enough
<1>2. /\ at \in Calls /\ stack \in Seq(Calls) /\ DepthLeft(at) /\ Looping(at)
      /\ \A i \in 1 .. Len(stack) : DepthLeft(stack[i]) /\ Looping(stack[i])
  BY <1>1 DEF IInv, CallsFit, Selecting
<1>3. PICK p \in Positions, d \in 0 .. MaxDepth, x, y \in Nat :
        at' = Call(p, d, x, y) /\ (p \in Defenders => d > 0)
  <2>1. /\ Best \in 1 .. Len(Kids)
        /\ Kids[Best][1] \in Positions /\ Kids[Best][2] \in 0 .. MaxDepth
        /\ Kids[Best][1] \in Defenders => Kids[Best][2] > 0
    BY <1>1, KidFacts, BestIsLeast
  <2> DEFINE p == Kids[Best][1]
             d == Kids[Best][2]
  <2> HIDE DEF p, d
  <2>2. CASE at.pos \in Attackers
    <3>1. at' = Call(p, d, OwnLimit(at.thpn), SumLimit(at.thdn))
      BY <2>2 DEF Descend, p, d
    <3> QED
      BY <1>1, <2>1, <2>2, <3>1, LimitsAreNumbers DEF p, d
  <2>3. CASE at.pos \notin Attackers
    <3>1. at' = Call(p, d, SumLimit(at.thpn), OwnLimit(at.thdn))
      BY <2>3 DEF Descend, p, d
    <3> QED
      BY <1>1, <2>1, <2>3, <3>1, LimitsAreNumbers DEF p, d
  <2> QED
    BY <2>2, <2>3
<1>4. at' \in Calls /\ at'.pos = p /\ at'.depth = d /\ at'.pc = "enter"
  BY <1>3, ConstantNumbers DEF Call, Calls, Labels
<1>5. stack' \in Seq(Calls) /\ Len(stack') = Len(stack) + 1
      /\ \A i \in 1 .. Len(stack') : stack'[i] = at \/ (i \in 1 .. Len(stack) /\ stack'[i] = stack[i])
  BY <1>1, <1>2
<1>6. \A i \in 1 .. Len(stack') : DepthLeft(stack'[i]) /\ Looping(stack'[i])
  BY <1>2, <1>5
<1>7. \A i \in 1 .. Len(stack') : DepthLeft(stack[i])' /\ Looping(stack[i])'
  <2>1. \A p1 : Below(p1)' = Below(p1)
    BY <1>1, GameKept DEF Below
  <2> QED
    BY <1>1, <1>6, <2>1, GameKept DEF DepthLeft, Looping
<1>8. CallsFit'
  BY <1>3, <1>4, <1>5, <1>7 DEF CallsFit, DepthLeft
<1> QED
  BY <1>8, QuietInv DEF Descend

LEMMA BackInv == ASSUME IInv, Back PROVE IInv'
<1>1. /\ UNCHANGED game /\ stack \in Seq(Calls) /\ stack # <<>>
      /\ at' = [Last(stack) EXCEPT !.pc = "select"] /\ stack' = Front(stack)
      /\ \A i \in 1 .. Len(stack) : DepthLeft(stack[i]) /\ Looping(stack[i])
  BY DEF IInv, CallsFit, Back
<1>2. Len(stack) \in Nat /\ Len(stack) \in 1 .. Len(stack)
  BY <1>1
<1>3. PICK c \in Calls : c = Last(stack) /\ DepthLeft(c) /\ Looping(c)
  BY <1>1, <1>2 DEF Last
<1>4. at' \in Calls /\ at'.pos = c.pos /\ at'.depth = c.depth
  BY <1>1, <1>3 DEF Calls, Labels
<1>5. /\ stack' \in Seq(Calls) /\ Len(stack') = Len(stack) - 1
      /\ \A i \in 1 .. Len(stack') : stack'[i] = stack[i] /\ i \in 1 .. Len(stack)
  <2>1. PICK n \in Nat : n = Len(stack) - 1
    BY <1>2
  <2>2. stack' = SubSeq(stack, 1, n)
    BY <1>1, <2>1 DEF Front
  <2>3. 1 \in Int /\ n \in Int /\ \A i \in 1 .. n : stack[i] \in Calls
    BY <1>1, <1>2, <2>1
  <2>4. SubSeq(stack, 1, n) \in Seq(Calls)
    BY <2>3, SubSeqProperties
  <2>5. Len(SubSeq(stack, 1, n)) = IF 1 <= n THEN n - 1 + 1 ELSE 0
    BY <2>3, SubSeqProperties
  <2>6. \A i \in 1 .. n : SubSeq(stack, 1, n)[i] = stack[i]
    BY <2>3, SubSeqProperties
  <2>7. Len(stack') = n
    BY <2>2, <2>5
  <2> QED
    BY <1>2, <2>1, <2>2, <2>4, <2>6, <2>7
<1>6. \A p : Below(p)' = Below(p)
  BY <1>1, GameKept DEF Below
<1>7. DepthLeft(at)' /\ Looping(at)'
  BY <1>1, <1>3, <1>4, <1>6, GameKept DEF DepthLeft, Looping
<1>8. \A i \in 1 .. Len(stack') : DepthLeft(stack[i])' /\ Looping(stack[i])'
  BY <1>1, <1>5, <1>6, GameKept DEF DepthLeft, Looping
<1>9. CallsFit'
  BY <1>4, <1>5, <1>7, <1>8 DEF CallsFit
<1> QED
  BY <1>9, QuietInv DEF Back

\* The next depth starts over, with the numbers of the last one or with none.
LEMMA NextDepthInv == ASSUME IInv, NextDepth PROVE IInv'
<1>1. UNCHANGED <<game, stack, disproofs>>
  BY DEF NextDepth
<1>2. PICK depth \in 1 .. MaxDepth : at' = Call(Root, depth, Inf, Inf)
  <2>1. PICK depth \in at.depth + 1 .. MaxDepth : at' = Call(Root, depth, Inf, Inf)
    BY DEF NextDepth
  <2> QED
    BY <2>1, CallFacts
<1>3. at' \in Calls /\ at'.pos = Root /\ at'.pc = "enter"
  BY <1>2, ConstantNumbers, DfpnAssumption DEF Call, Calls, Labels, Positions
<1>4. DepthLeft(at)'
  BY <1>3, DfpnAssumption DEF DepthLeft
<1>5. \A i \in 1 .. Len(stack) : DepthLeft(stack[i])' /\ Looping(stack[i])'
  BY <1>1, StackKept DEF IInv, CallsFit, DepthLeft, Looping
<1>6. CallsFit'
  BY <1>1, <1>3, <1>4, <1>5 DEF CallsFit, IInv
<1>7. CASE table' = table
  BY <1>1, <1>6, <1>7, QuietInv
<1>8. CASE DOMAIN table' = {}
  <2>1. GameFits' /\ Truth' /\ DisproofsAreTrue'
    BY <1>1, GameKept DEF IInv, DisproofsAreTrue
  <2>2. TableFits' /\ ZeroIsAVerdict'
    BY <1>8 DEF TableFits, ZeroIsAVerdict
  <2> QED
    BY <1>6, <2>1, <2>2 DEF IInv
<1>9. table' = table \/ DOMAIN table' = {}
  BY DEF NextDepth
<1> QED
  BY <1>7, <1>8, <1>9

LEMMA FinishInv == ASSUME IInv, Finish PROVE IInv'
<1>1. at' = NoCall /\ UNCHANGED <<game, stack>>
  BY DEF Finish
<1>2. at' \in Calls /\ at'.pc = "idle" /\ at'.pos = Root
  BY <1>1, ConstantNumbers, DfpnAssumption DEF NoCall, Calls, Labels, Positions
<1>3. DepthLeft(at)'
  BY <1>2, DfpnAssumption DEF DepthLeft
<1>4. \A i \in 1 .. Len(stack) : DepthLeft(stack[i])' /\ Looping(stack[i])'
  BY <1>1, StackKept DEF IInv, CallsFit, DepthLeft, Looping
<1>5. CallsFit'
  BY <1>1, <1>2, <1>3, <1>4 DEF CallsFit, IInv
<1> QED
  BY <1>5, QuietInv DEF Finish

LEMMA IdleInv == ASSUME IInv, UNCHANGED <<game, table, at, stack, disproofs>> PROVE IInv'
<1>1. at \in Calls /\ (at.pc = "select" => Looping(at))
  BY DEF IInv, CallsFit
<1>2. CallsFit'
  BY <1>1, SamePlace
<1> QED
  BY <1>2, QuietInv

\* Every step keeps the invariant.
THEOREM Invariance == Spec => []IInv
<1>1. IInv /\ [Next \/ Done]_vars => IInv'
  <2>1. SUFFICES ASSUME IInv, [Next \/ Done]_vars PROVE IInv'
    OBVIOUS
  <2>2. CASE Step
    BY <2>1, <2>2, GiveUpInv, AttackerWinsInv, AttackerLosesInv, DefenderIsStuckInv,
       GuessSufficesInv, ExpandInv, ConcludeInv, AbandonInv, DescendInv, BackInv,
       NextDepthInv, FinishInv DEF Step
  <2>3. CASE Interrupt
    BY <2>1, <2>3, IdleInv DEF Interrupt
  <2>4. CASE UNCHANGED vars
    BY <2>1, <2>4, IdleInv DEF vars
  <2> QED
    BY <2>1, <2>2, <2>3, <2>4 DEF Next, Done
<1> QED
  BY InitInv, <1>1, PTL DEF Spec

\* dfpn.h:25-40.  On every game, with every set of options and any room in the
\* table: a proof number of zero says that the attacker wins within the depth of
\* the key, a disproof number of zero that he does not.
THEOREM ZerosAreVerdicts == Spec => []ZeroIsAVerdict
<1>1. IInv => ZeroIsAVerdict
  BY DEF IInv
<1> QED
  BY Invariance, <1>1, PTL

\* dfpn.h:98-105.  Nothing is handed to the exact prover as disproved that is not.
THEOREM DisproofsHold == Spec => []DisproofsAreTrue
<1>1. IInv => DisproofsAreTrue
  BY DEF IInv
<1> QED
  BY Invariance, <1>1, PTL
=============================================================================

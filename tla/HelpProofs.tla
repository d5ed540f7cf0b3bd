----------------------------- MODULE HelpProofs ------------------------------
(***************************************************************************)
(* The line a help route reports is a shortest one, its silence means that   *)
(* there is none, and its list of lines is exact: on any game, with any      *)
(* number of threads, and whatever interrupts it.                            *)
(*                                                                           *)
(* The argument has five parts, each an invariant:                           *)
(*   Fits          the frames of a searcher are a path of the game below the *)
(*                 position it was asked about;                              *)
(*   SearchesTrue  what a table holds and what a call returns is true, and   *)
(*                 the moves a frame has passed do not solve it;             *)
(*   PoolTrue      the workers of a split drop a task only when it is barren *)
(*                 or something excuses them: an earlier task solved, the    *)
(*                 lane cancelled, the clock run out;                        *)
(*   RouteTrue     the iterations that are over had no line;                 *)
(*   EnumTrue      the lines listed are the solutions that come before the   *)
(*                 frames of the enumeration.                                *)
(***************************************************************************)
EXTENDS HelpSearch, FiniteSetTheorems, SequenceTheorems, TLAPS

Verdicts == [ok : BOOLEAN, line : Seq(Nat)]
Labels ==
    {"idle", "enter", "loop", "return", "claim", "announce", "clear", "recheck", "record",
     "notify", "leave"}
States == [pc : Labels, pos : Positions, plies : 0 .. MaxPlies, ret : Verdicts]
Frames == [pos : Positions, plies : 1 .. MaxPlies, move : Nat \ {0}]
Slots  == [current : Nat, cancel : BOOLEAN]
Duties == [task : Nat, look : SUBSET Workers, hit : SUBSET Workers]

Pairs  == (Nat \ {0}) \X (Nat \ {0})

\* The type invariant, in parts: the game, the searchers, the split, the route, the lines.
GameOK ==
    /\ moves \in [Positions -> Seq(Positions)] /\ goals \subseteq Positions
    /\ "last_ply" \in options => goals \subseteq checks

SearchOK ==
    /\ table \in [Tables -> [Positions -> [1 .. MaxPlies -> Seq(Nat)]]]
    /\ at \in [Searchers -> States] /\ stack \in [Searchers -> Seq(Frames)]
    /\ aborted \in [Searchers -> BOOLEAN] /\ timedOut \in [Searchers -> BOOLEAN]

SplitOK ==
    /\ tasks \in Seq(Pairs) /\ results \in Seq(Verdicts)
    /\ nextIndex \in Nat /\ best \in Nat
    /\ slot \in [Workers -> Slots] /\ duty \in [Workers -> Duties]

RouteOK ==
    /\ depth \in 1 .. MaxDepth /\ phase \in {"deepen", "search", "join", "done"}
    /\ sols \in Seq(Seq(Nat)) /\ answer \in Seq(Nat)
    /\ late \in BOOLEAN /\ cancelled \in BOOLEAN

LinesOK ==
    /\ lines \in [0 .. MaxPlies -> [Positions -> SUBSET Seq(Nat \ {0})]]
    /\ lines[0] = Ending /\ \A k \in 1 .. MaxPlies : lines[k] = Longer(lines[k - 1])

TypeOK == GameOK /\ LinesOK /\ SearchOK /\ SplitOK /\ RouteOK

Searching == {"enter", "loop", "return"}

\* The position and the plies of the search a searcher is running.
AskedPos(x) == IF x = Main THEN Root ELSE After(Task(x))
AskedPlies(x) ==
    IF x = Main THEN IF "all" \in options THEN MaxPlies ELSE 2 * depth ELSE 2 * depth - 2

\* The position frame d stands for: a searcher asked about p, with the frames s.
CalledPos(s, p, d) == IF d = 1 THEN p ELSE moves[s[d - 1].pos][s[d - 1].move]

\* Frame d is one ply below the frame it was called from, by a legal move.
FrameFits(s, p, k, d) ==
    /\ s[d].pos = CalledPos(s, p, d) /\ s[d].plies = k - (d - 1)
    /\ d < Len(s) => s[d].move \in MovesOf(s[d].pos)

\* What a searcher at c is doing fits its frames s, asked about p with k plies.
StateFits(c, s, p, k) ==
    /\ c.pc = "enter" => c.pos = CalledPos(s, p, Len(s) + 1) /\ c.plies = k - Len(s)
    /\ c.pc \in {"enter", "return"} /\ Len(s) > 0 => s[Len(s)].move \in MovesOf(s[Len(s)].pos)
    /\ c.pc = "loop" => Len(s) > 0
    /\ c.pc \notin Searching => s = <<>>

ShapedAs(c, s, p, k) == StateFits(c, s, p, k) /\ \A d \in 1 .. Len(s) : FrameFits(s, p, k, d)

Shaped(x) == ShapedAs(at[x], stack[x], AskedPos(x), AskedPlies(x))

\* A worker that holds a task it has not dropped.
OnTask == Searching \cup {"announce", "clear", "recheck", "record", "notify"}

\* s holds every pair of one of the first m root moves and a reply, and nothing illegal.
ListFits(s, m) ==
    /\ \A i \in 1 .. Len(s) :
         s[i][1] \in MovesOf(Root) /\ s[i][2] \in MovesOf(moves[Root][s[i][1]])
    /\ \A j \in 1 .. m : \A r \in MovesOf(moves[Root][j]) : \E i \in 1 .. Len(s) : s[i] = <<j, r>>

\* While the workers run: their tasks are all the pairs, and they hold only those.
SplitFits ==
    /\ Splits /\ "all" \notin options /\ ListFits(tasks, Len(moves[Root]))
    /\ Len(results) = NumTasks /\ best <= NumTasks
    /\ \A w \in Workers : at[w].pc \in OnTask => duty[w].task < NumTasks

\* Who may be doing what in which phase.
Roles ==
    /\ at[Main].pc \in (IF phase = "search" THEN Searching ELSE {"idle"})
    /\ phase # "join" => \A w \in Workers : at[w].pc = "idle"
    /\ phase = "join" => SplitFits
    /\ "all" \in options => ~cancelled
    /\ "direct_depth" \in options => depth = MaxDepth

Shape == Roles /\ \A x \in Searchers : Shaped(x)
Fits == TypeOK /\ Shape

-----------------------------------------------------------------------------
\* Every entry of every table is right, Fail included.
TableTrue ==
    \A t \in Tables, p \in Positions, k \in 1 .. MaxPlies :
        \/ table[t][p][k] = Unknown
        \/ table[t][p][k] = Fail /\ lines[k][p] = {}
        \/ table[t][p][k] \in lines[k][p]

\* The enumeration returns no verdict.
Judges(x) == x = Main => "all" \notin options

\* The moves a frame has passed lead to no line.
FrameTrue(f) ==
    \A m \in MovesOf(f.pos) : m < f.move => lines[f.plies - 1][moves[f.pos][m]] = {}

\* What the innermost call of a searcher has to find.
Wanted(s, p, k) == lines[k - Len(s)][CalledPos(s, p, Len(s) + 1)]

\* What a call returned, unless it was abandoned.
ReturnTrue(ret, abandoned, wanted) ==
    /\ ret.ok => ret.line \in wanted
    /\ ~ret.ok /\ ~abandoned => wanted = {}

TrueAs(c, s, p, k, abandoned) ==
    /\ \A d \in 1 .. Len(s) : FrameTrue(s[d])
    /\ c.pc \in {"return", "record"} => ReturnTrue(c.ret, abandoned, Wanted(s, p, k))
    /\ c.pc = "record" => c.ret.ok

SearchTrue(x) ==
    Judges(x) => TrueAs(at[x], stack[x], AskedPos(x), AskedPlies(x), aborted[x])

SearchesTrue == TableTrue /\ \A x \in Searchers : SearchTrue(x)

-----------------------------------------------------------------------------
\* Why a task may have been dropped.
Excused == best < NumTasks \/ cancelled \/ \E w \in Workers : timedOut[w]

\* A worker is still on task i.
InHand(i) ==
    \E w \in Workers : duty[w].task = i /\ at[w].pc \in OnTask \ {"notify"}

\* The best result is a line of this iteration.
BestTrue ==
    best < NumTasks => results[best + 1].ok /\ results[best + 1].line \in Solutions(2 * depth)

\* A worker is stopped only for a reason.
CancelTrue ==
    \A w \in Workers :
        /\ slot[w].cancel \/ at[w].pc = "notify" => best < NumTasks
        /\ aborted[w] => timedOut[w] \/ cancelled \/ best < NumTasks

\* Every task handed out is in hand, barren or excused.
Covered ==
    \A i \in 0 .. NumTasks - 1 :
        i < nextIndex => Excused \/ InHand(i) \/ lines[2 * depth - 2][After(tasks[i + 1])] = {}

\* The caller works too, and leaves only when no task is left or for a reason.
PoolTrue ==
    /\ phase = "join" => BestTrue /\ CancelTrue /\ Covered
    /\ phase = "join" /\ at[Caller].pc \in {"idle", "leave"} => nextIndex >= NumTasks \/ Excused
    /\ phase # "join" => \A w \in Workers : ~aborted[w]

-----------------------------------------------------------------------------
\* No line in fewer moves of each side than d.
NoneBelow(d) == \A k \in 1 .. d - 1 : Solutions(2 * k) = {}

\* A cancelled lane runs through its iterations without a search.
Skipped ==
    /\ cancelled /\ Splits /\ phase \in {"deepen", "join"}
    /\ phase = "join" =>
         best = NumTasks /\ \A w \in Workers : at[w].pc \in {"idle", "claim", "leave"}

OneLength == options \cap {"direct_depth", "all"} # {}

\* What a route that was not stopped says with NoLine.
Silent == IF OneLength THEN Solutions(MaxPlies) = {} ELSE NoneBelow(MaxDepth + 1)

RouteTrue ==
    /\ phase # "done" => answer = NoLine /\ (OneLength \/ NoneBelow(depth) \/ Skipped)
    /\ answer # NoLine =>
         /\ answer \in Solutions(2 * (IF "all" \in options THEN MaxDepth ELSE depth))
         /\ OneLength \/ NoneBelow(depth)
    /\ phase = "done" /\ answer = NoLine /\ ~timedOut[Main] /\ ~cancelled => Silent
    /\ aborted[Main] =>
         /\ (timedOut[Main] \/ cancelled) /\ phase \in {"search", "done"}
         /\ at[Main].pc \in {"return", "idle"}

-----------------------------------------------------------------------------
\* A line against the frames s: it takes their first d moves, or one of them has passed it.
Along(s, line, d) == \A i \in 1 .. d : line[i] = s[i].move
Passed(s, line) == \E d \in 1 .. Len(s) : Along(s, line, d - 1) /\ line[d] < s[d].move

\* The enumeration has gone past this line.
Before(line) ==
    \/ Passed(stack[Main], line)
    \/ at[Main].pc = "return" /\ Along(stack[Main], line, Len(stack[Main]))

Listed(line) == \E i \in 1 .. Len(sols) : sols[i] = line

\* The list is the solutions it has gone past, each once.
EnumTrue ==
    "all" \in options =>
      /\ \A i \in 1 .. Len(sols) : sols[i] \in Solutions(MaxPlies)
      /\ \A i, j \in 1 .. Len(sols) : sols[i] = sols[j] => i = j
      /\ phase = "deepen" => sols = <<>>
      /\ phase = "search" /\ ~aborted[Main] /\ Len(sols) < Limit =>
           \A line \in Solutions(MaxPlies) : Before(line) <=> Listed(line)
      /\ phase = "done" /\ ~timedOut[Main] /\ Len(sols) < Limit =>
           \A line \in Solutions(MaxPlies) : Listed(line)

IInv == Fits /\ SearchesTrue /\ PoolTrue /\ RouteTrue /\ EnumTrue
-----------------------------------------------------------------------------
(* Least elements and recursion. *)

\* A nonempty set of naturals has a least element.
LEMMA LeastExists ==
    ASSUME NEW S \in SUBSET Nat, S # {}
    PROVE  \E x \in S : \A y \in S : x <= y
<1> DEFINE T == {0 .. n : n \in S}
<1>1. T \subseteq FiniteSubsetsOf(Nat) /\ T # {}
  <2>1. \A n \in Nat : IsFiniteSet(0 .. n)
    BY FS_Interval
  <2>2. \A n \in Nat : 0 .. n \in SUBSET Nat
    OBVIOUS
  <2>3. \A n \in S : 0 .. n \in FiniteSubsetsOf(Nat)
    BY <2>1, <2>2, Zenon DEF FiniteSubsetsOf
  <2> QED
    BY <2>3
<1>2. \E a \in T : \A b \in T : ~(<<b, a>> \in StrictSubsetOrdering(Nat))
  BY <1>1, FS_StrictSubsetOrderingWellFounded, WFMin
<1>3. PICK x \in S : \A y \in S : ~(<<0 .. y, 0 .. x>> \in StrictSubsetOrdering(Nat))
  BY <1>2
<1>4. ASSUME NEW y \in S, y < x PROVE FALSE
  <2>1. 0 .. y \subseteq 0 .. x /\ 0 .. y # 0 .. x /\ 0 .. x \subseteq Nat
    BY <1>4
  <2> QED
    BY <1>3, <2>1 DEF StrictSubsetOrdering
<1> QED
  BY <1>4

\* f starts at first, and each of its n steps is the step.
Follows(f, n, first, step) == f[0] = first /\ \A i \in 1 .. n : f[i] = step[<<i, f[i - 1]>>]

\* A function defined by recursion on the numbers up to n exists.
LEMMA Recursion ==
    ASSUME NEW n \in Nat, NEW S, NEW first \in S, NEW step \in [(1 .. n) \X S -> S]
    PROVE  \E f \in [0 .. n -> S] : Follows(f, n, first, step)
<1> USE DEF Follows
<1> DEFINE Extends(m) == \E f \in [0 .. m -> S] : Follows(f, m, first, step)
           Bad == {m \in 0 .. n : ~Extends(m)}
<1>1. Extends(0)
  <2> DEFINE f == [i \in 0 .. 0 |-> first]
  <2>1. f \in [0 .. 0 -> S] /\ f[0] = first
    OBVIOUS
  <2>2. \A i \in 1 .. 0 : FALSE
    OBVIOUS
  <2> QED
    BY <2>1, <2>2
<1>2. ASSUME NEW m \in 1 .. n, Extends(m - 1) PROVE Extends(m)
  <2>1. PICK f \in [0 .. m - 1 -> S] : Follows(f, m - 1, first, step)
    BY <1>2
  <2> DEFINE h == [i \in 0 .. m |-> IF i = m THEN step[<<m, f[m - 1]>>] ELSE f[i]]
  <2>2. step[<<m, f[m - 1]>>] \in S
    BY <2>1
  <2>3. h \in [0 .. m -> S] /\ h[m] = step[<<m, f[m - 1]>>] /\ \A i \in 0 .. m - 1 : h[i] = f[i]
    BY <2>1, <2>2
  <2>4. h[0] = first
    BY <2>1, <2>3
  <2>5. ASSUME NEW i \in 1 .. m PROVE h[i] = step[<<i, h[i - 1]>>]
    <3>1. CASE i = m
      <4>1. m - 1 \in 0 .. m - 1 /\ i - 1 = m - 1
        BY <3>1
      <4> QED
        BY <2>3, <3>1, <4>1
    <3>2. CASE i # m
      <4>1. i \in 1 .. m - 1 /\ i \in 0 .. m - 1 /\ i - 1 \in 0 .. m - 1
        BY <3>2
      <4>2. f[i] = step[<<i, f[i - 1]>>]
        BY <2>1, <4>1
      <4>3. h[i] = f[i] /\ h[i - 1] = f[i - 1]
        BY <2>3, <4>1
      <4> QED
        BY <4>2, <4>3
    <3> QED
      BY <3>1, <3>2
  <2> HIDE DEF h
  <2> QED
    BY <2>3, <2>4, <2>5
<1>3. Bad = {}
  <2>1. SUFFICES ASSUME Bad # {} PROVE FALSE
    OBVIOUS
  <2>2. Bad \in SUBSET Nat
    OBVIOUS
  <2> HIDE DEF Reached
  <2>3. PICK m \in Bad : \A y \in Bad : m <= y
    <3> HIDE DEF Bad
    <3> QED
      BY <2>1, <2>2, LeastExists
  <2>4. m # 0
    BY <1>1, <2>3
  <2>5. m \in 1 .. n /\ m - 1 \in 0 .. n /\ m - 1 \notin Bad
    BY <2>3, <2>4
  <2>6. Extends(m - 1)
    BY <2>5
  <2> QED
    BY <1>2, <2>3, <2>5, <2>6
<1> QED
  <2>1. n \in 0 .. n
    OBVIOUS
  <2> QED
    BY <1>3, <2>1

-----------------------------------------------------------------------------
(* The lines of a game. *)

LineSets == [Positions -> SUBSET Seq(Nat \ {0})]

LEMMA LongerTyped ==
    ASSUME GameOK, NEW S \in LineSets PROVE Longer(S) \in LineSets
<1>1. ASSUME NEW p \in Positions, NEW m \in MovesOf(p), NEW rest \in S[moves[p][m]]
      PROVE  <<m>> \o rest \in Seq(Nat \ {0})
  <2>1. moves[p] \in Seq(Positions) /\ m \in 1 .. Len(moves[p])
    BY DEF GameOK, MovesOf
  <2>2. moves[p][m] \in Positions /\ m \in Nat \ {0}
    BY <2>1
  <2>3. rest \in Seq(Nat \ {0})
    BY <2>2 DEF LineSets
  <2> QED
    BY <2>2, <2>3
<1>2. ASSUME NEW p \in Positions
      PROVE  UNION {{<<m>> \o rest : rest \in S[moves[p][m]]} : m \in MovesOf(p)}
                 \in SUBSET Seq(Nat \ {0})
  <2>1. ASSUME NEW m \in MovesOf(p)
        PROVE  {<<m>> \o rest : rest \in S[moves[p][m]]} \subseteq Seq(Nat \ {0})
    BY <1>1
  <2> QED
    BY <2>1, Zenon
<1> QED
  BY <1>2 DEF Longer, LineSets

LEMMA EndingTyped == Ending \in LineSets
<1>1. <<>> \in Seq(Nat \ {0})
  OBVIOUS
<1> QED
  BY <1>1 DEF Ending, LineSets

LEMMA PliesFacts == MaxDepth \in Nat \ {0} /\ MaxPlies \in Nat /\ MaxPlies = 2 * MaxDepth
BY HelpAssumption DEF MaxPlies

LEMMA LinesRecur == ASSUME GameOK, lines = Lines PROVE LinesOK
<1> DEFINE step == [x \in (1 .. MaxPlies) \X LineSets |-> Longer(x[2])]
<1>1. step \in [(1 .. MaxPlies) \X LineSets -> LineSets]
  BY LongerTyped
<1>2. \A k \in 1 .. MaxPlies, S \in LineSets : step[<<k, S>>] = Longer(S)
  OBVIOUS
<1> HIDE DEF step
<1>3. PICK f \in [0 .. MaxPlies -> LineSets] : Follows(f, MaxPlies, Ending, step)
  BY <1>1, EndingTyped, PliesFacts, Recursion, Zenon
<1>4. f[0] = Ending /\ \A k \in 1 .. MaxPlies : f[k] = Longer(f[k - 1])
  <2>1. f[0] = Ending
    BY <1>3 DEF Follows
  <2>2. ASSUME NEW k \in 1 .. MaxPlies PROVE f[k] = Longer(f[k - 1])
    <3>1. f[k - 1] \in LineSets
      BY <1>3, PliesFacts
    <3>2. f[k] = step[<<k, f[k - 1]>>]
      BY <1>3 DEF Follows
    <3> QED
      BY <1>2, <3>1, <3>2
  <2> QED
    BY <2>1, <2>2
<1>5. f = [k \in 0 .. MaxPlies |-> IF k = 0 THEN Ending ELSE Longer(f[k - 1])]
  BY <1>4, PliesFacts
<1>6. Lines = [k \in 0 .. MaxPlies |-> IF k = 0 THEN Ending ELSE Longer(Lines[k - 1])]
  BY <1>5, Zenon DEF Lines
<1> HIDE DEF Lines
<1>7. \A k \in 0 .. MaxPlies : Lines[k] = IF k = 0 THEN Ending ELSE Longer(Lines[k - 1])
  BY <1>6, Zenon
<1>8. ASSUME NEW k \in 0 .. MaxPlies, Lines[k] \notin LineSets PROVE FALSE
  <2> DEFINE Bad == {i \in 0 .. MaxPlies : Lines[i] \notin LineSets}
  <2>1. PICK i \in Bad : \A j \in Bad : i <= j
    <3>1. Bad \in SUBSET Nat /\ Bad # {}
      BY <1>8
    <3> HIDE DEF Bad
    <3> QED
      BY <3>1, LeastExists
  <2>2. CASE i = 0
    BY <1>7, <2>1, <2>2, EndingTyped
  <2>3. CASE i # 0
    <3>1. i - 1 \in 0 .. MaxPlies /\ i - 1 \notin Bad
      BY <2>1, <2>3, PliesFacts
    <3>2. Lines[i - 1] \in LineSets
      BY <3>1
    <3> QED
      BY <1>7, <2>1, <2>3, <3>2, LongerTyped
  <2> QED
    BY <2>2, <2>3
<1>9. Lines \in [0 .. MaxPlies -> LineSets]
  BY <1>6, <1>8
<1> QED
  BY <1>7, <1>9, PliesFacts DEF LinesOK, LineSets

LEMMA LinesFacts ==
    ASSUME GameOK, LinesOK, NEW p \in Positions
    PROVE  /\ \A l : l \in lines[0][p] <=> p \in goals /\ l = <<>>
           /\ \A k \in 1 .. MaxPlies : \A l :
                l \in lines[k][p] <=>
                    \E m \in MovesOf(p) : \E rest \in lines[k - 1][moves[p][m]] : l = <<m>> \o rest
<1>1. \A l : l \in lines[0][p] <=> p \in goals /\ l = <<>>
  BY DEF LinesOK, Ending
<1>2. ASSUME NEW k \in 1 .. MaxPlies
      PROVE  lines[k][p] = UNION {{<<m>> \o rest : rest \in lines[k - 1][moves[p][m]]} : m \in MovesOf(p)}
  BY DEF LinesOK, Longer
<1>3. ASSUME NEW k \in 1 .. MaxPlies, NEW l
      PROVE  l \in lines[k][p] <=>
                 \E m \in MovesOf(p) : \E rest \in lines[k - 1][moves[p][m]] : l = <<m>> \o rest
  <2> DEFINE Part(m) == {<<m>> \o rest : rest \in lines[k - 1][moves[p][m]]}
  <2>1. lines[k][p] = UNION {Part(m) : m \in MovesOf(p)}
    BY <1>2
  <2>2. \A m : l \in Part(m) <=> \E rest \in lines[k - 1][moves[p][m]] : l = <<m>> \o rest
    OBVIOUS
  <2> HIDE DEF Part
  <2>3. l \in UNION {Part(m) : m \in MovesOf(p)} <=> \E m \in MovesOf(p) : l \in Part(m)
    BY Zenon
  <2> QED
    BY <2>1, <2>2, <2>3, Zenon
<1> QED
  BY <1>1, <1>3, Zenon

LEMMA StepFacts ==
    ASSUME GameOK, NEW p \in Positions, NEW m \in MovesOf(p)
    PROVE  m \in Nat \ {0} /\ m <= Len(moves[p]) /\ moves[p][m] \in Positions
<1>1. moves[p] \in Seq(Positions) /\ m \in 1 .. Len(moves[p])
  BY DEF GameOK, MovesOf
<1> QED
  BY <1>1

\* A line of k plies is a sequence of k move indices.
LEMMA LinesTyped ==
    ASSUME GameOK, LinesOK, NEW k \in 0 .. MaxPlies, NEW p \in Positions, NEW l \in lines[k][p]
    PROVE  l \in Seq(Nat \ {0}) /\ Len(l) = k
<1>1. \A i \in 0 .. MaxPlies, q \in Positions : lines[i][q] \subseteq Seq(Nat \ {0})
  BY DEF LinesOK
<1> DEFINE Bad == {i \in 0 .. MaxPlies : \E q \in Positions : \E r \in lines[i][q] : Len(r) # i}
<1>2. Bad = {}
  <2>1. SUFFICES ASSUME Bad # {} PROVE FALSE
    OBVIOUS
  <2>2. PICK i \in Bad : \A j \in Bad : i <= j
    <3>1. Bad \in SUBSET Nat
      OBVIOUS
    <3> HIDE DEF Bad
    <3> QED
      BY <2>1, <3>1, LeastExists
  <2>3. PICK q \in Positions : \E r \in lines[i][q] : Len(r) # i
    BY <2>2
  <2>6. PICK r \in lines[i][q] : Len(r) # i
    BY <2>3
  <2>4. CASE i = 0
    BY <2>4, <2>6, LinesFacts
  <2>5. CASE i # 0
    <3>1. i \in 1 .. MaxPlies /\ i - 1 \in 0 .. MaxPlies /\ i - 1 \notin Bad
      BY <2>2, <2>5, PliesFacts
    <3>2. PICK m \in MovesOf(q) : \E rest \in lines[i - 1][moves[q][m]] : r = <<m>> \o rest
      <4>1. \A s : s \in lines[i][q] <=>
                      \E m \in MovesOf(q) : \E rest \in lines[i - 1][moves[q][m]] : s = <<m>> \o rest
        BY <3>1, LinesFacts
      <4>2. r \in lines[i][q]
        BY <2>6
      <4> QED
        BY <4>1, <4>2, Zenon
    <3>6. PICK rest \in lines[i - 1][moves[q][m]] : r = <<m>> \o rest
      BY <3>2
    <3>3. moves[q][m] \in Positions /\ m \in Nat \ {0}
      BY StepFacts
    <3>4. Len(rest) = i - 1 /\ rest \in Seq(Nat \ {0})
      BY <1>1, <3>1, <3>3
    <3>5. Len(r) = i
      BY <3>1, <3>3, <3>4, <3>6
    <3> QED
      BY <2>6, <3>5
  <2> QED
    BY <2>4, <2>5
<1>3. k \notin Bad
  BY <1>2
<1> QED
  BY <1>1, <1>3

LEMMA Prefixed ==
    ASSUME GameOK, LinesOK, NEW k \in 1 .. MaxPlies, NEW p \in Positions, NEW m \in MovesOf(p),
           NEW rest \in lines[k - 1][moves[p][m]]
    PROVE  <<m>> \o rest \in lines[k][p]
<1>1. \A s : s \in lines[k][p] <=>
              \E j \in MovesOf(p) : \E r \in lines[k - 1][moves[p][j]] : s = <<j>> \o r
  BY LinesFacts
<1> QED
  BY <1>1, Zenon

LEMMA Stuck ==
    ASSUME GameOK, LinesOK, NEW k \in 1 .. MaxPlies, NEW p \in Positions,
           \A m \in MovesOf(p) : lines[k - 1][moves[p][m]] = {}
    PROVE  lines[k][p] = {}
<1>1. \A s : s \in lines[k][p] <=>
              \E j \in MovesOf(p) : \E r \in lines[k - 1][moves[p][j]] : s = <<j>> \o r
  BY LinesFacts
<1>2. \A s : s \notin lines[k][p]
  BY <1>1, Zenon
<1> QED
  BY <1>2

\* Two plies at once.
LEMMA TwoPlies ==
    ASSUME GameOK, LinesOK, NEW k \in 2 .. MaxPlies, NEW p \in Positions
    PROVE  /\ \A m \in MovesOf(p) : \A r \in MovesOf(moves[p][m]) :
                \A rest \in lines[k - 2][moves[moves[p][m]][r]] : <<m, r>> \o rest \in lines[k][p]
           /\ (\A m \in MovesOf(p) : \A r \in MovesOf(moves[p][m]) :
                   lines[k - 2][moves[moves[p][m]][r]] = {}) => lines[k][p] = {}
<1>1. k \in 1 .. MaxPlies /\ k - 1 \in 1 .. MaxPlies /\ k - 2 \in 0 .. MaxPlies /\ (k - 1) - 1 = k - 2
  BY PliesFacts
<1>2. ASSUME NEW m \in MovesOf(p), NEW r \in MovesOf(moves[p][m]),
             NEW rest \in lines[k - 2][moves[moves[p][m]][r]]
      PROVE  <<m, r>> \o rest \in lines[k][p]
  <2>1. moves[p][m] \in Positions /\ m \in Nat \ {0}
    BY StepFacts
  <2>2. moves[moves[p][m]][r] \in Positions /\ r \in Nat \ {0}
    BY <2>1, StepFacts
  <2>3. <<r>> \o rest \in lines[k - 1][moves[p][m]]
    BY <1>1, <2>1, Prefixed
  <2>4. <<m>> \o (<<r>> \o rest) \in lines[k][p]
    BY <1>1, <2>3, Prefixed
  <2>5. rest \in Seq(Nat \ {0})
    BY <1>1, <2>2, LinesTyped
  <2>6. <<m>> \in Seq(Nat \ {0}) /\ <<r>> \in Seq(Nat \ {0})
    BY <2>1, <2>2
  <2>7. (<<m>> \o <<r>>) \o rest = <<m>> \o (<<r>> \o rest)
    BY <2>5, <2>6, ConcatAssociative
  <2>8. <<m>> \o <<r>> = <<m, r>>
    <3>1. Len(<<m>>) = 1 /\ Len(<<r>>) = 1 /\ <<m>>[1] = m /\ <<r>>[1] = r
      OBVIOUS
    <3>2. /\ <<m>> \o <<r>> \in Seq(Nat \ {0}) /\ Len(<<m>> \o <<r>>) = 2
          /\ (<<m>> \o <<r>>)[1] = m /\ (<<m>> \o <<r>>)[2] = r
      BY <2>6, <3>1, ConcatProperties
    <3>3. <<m, r>> \in Seq(Nat \ {0}) /\ Len(<<m, r>>) = 2 /\ <<m, r>>[1] = m /\ <<m, r>>[2] = r
      BY <2>1, <2>2
    <3> DEFINE u == <<m>> \o <<r>>
               v == <<m, r>>
    <3>4. \A i \in 1 .. Len(u) : u[i] = v[i]
      <4>1. \A i \in 1 .. 2 : i = 1 \/ i = 2
        OBVIOUS
      <4> QED
        BY <3>2, <3>3, <4>1
    <3>5. Len(u) = Len(v) /\ u \in Seq(Nat \ {0}) /\ v \in Seq(Nat \ {0})
      BY <3>2, <3>3
    <3> HIDE DEF u, v
    <3>6. u = v
      BY <3>4, <3>5, SeqEqual
    <3> QED
      BY <3>6 DEF u, v
  <2> QED
    BY <2>4, <2>7, <2>8
<1>3. ASSUME \A m \in MovesOf(p) : \A r \in MovesOf(moves[p][m]) :
                 lines[k - 2][moves[moves[p][m]][r]] = {}
      PROVE  lines[k][p] = {}
  <2>1. ASSUME NEW m \in MovesOf(p) PROVE lines[k - 1][moves[p][m]] = {}
    <3>1. moves[p][m] \in Positions
      BY StepFacts
    <3>2. \A r \in MovesOf(moves[p][m]) : lines[(k - 1) - 1][moves[moves[p][m]][r]] = {}
      BY <1>1, <1>3
    <3> QED
      BY <1>1, <3>1, <3>2, Stuck
  <2> QED
    BY <1>1, <2>1, Stuck
<1> QED
  BY <1>2, <1>3

-----------------------------------------------------------------------------
(* The tasks of the split. *)

LEMMA TasksOfTyped ==
    ASSUME GameOK, NEW m \in MovesOf(Root)
    PROVE  /\ TasksOf(m) \in Seq(Pairs) /\ Len(TasksOf(m)) = Len(moves[moves[Root][m]])
           /\ \A i \in 1 .. Len(TasksOf(m)) : TasksOf(m)[i] = <<m, i>>
<1>1. moves[Root][m] \in Positions /\ m \in Nat \ {0}
  BY StepFacts, HelpAssumption
<1>2. moves[moves[Root][m]] \in Seq(Positions)
  BY <1>1 DEF GameOK
<1>3. \A r \in 1 .. Len(moves[moves[Root][m]]) : <<m, r>> \in Pairs
  BY <1>1, <1>2 DEF Pairs
<1> QED
  BY <1>2, <1>3 DEF TasksOf, MovesOf

LEMMA TasksRecur ==
    ASSUME GameOK
    PROVE  /\ TasksTo[0] = <<>>
           /\ \A m \in MovesOf(Root) : TasksTo[m] = TasksTo[m - 1] \o TasksOf(m)
           /\ \A m \in 0 .. Len(moves[Root]) : TasksTo[m] \in Seq(Pairs)
<1> DEFINE n == Len(moves[Root])
           step == [x \in (1 .. n) \X Seq(Pairs) |-> x[2] \o TasksOf(x[1])]
<1>1. n \in Nat /\ MovesOf(Root) = 1 .. n
  BY HelpAssumption DEF GameOK, MovesOf
<1>2. ASSUME NEW m \in 1 .. n, NEW s \in Seq(Pairs) PROVE s \o TasksOf(m) \in Seq(Pairs)
  BY <1>1, TasksOfTyped
<1>3. step \in [(1 .. n) \X Seq(Pairs) -> Seq(Pairs)]
  BY <1>2
<1>4. \A m \in 1 .. n, s \in Seq(Pairs) : step[<<m, s>>] = s \o TasksOf(m)
  OBVIOUS
<1>5. <<>> \in Seq(Pairs)
  OBVIOUS
<1> HIDE DEF step, n
<1>6. PICK f \in [0 .. n -> Seq(Pairs)] : Follows(f, n, <<>>, step)
  BY <1>1, <1>3, <1>5, Recursion, Zenon
<1>7. f[0] = <<>> /\ \A m \in 1 .. n : f[m] = f[m - 1] \o TasksOf(m)
  <2>1. f[0] = <<>>
    BY <1>6 DEF Follows
  <2>2. ASSUME NEW m \in 1 .. n PROVE f[m] = f[m - 1] \o TasksOf(m)
    <3>1. f[m - 1] \in Seq(Pairs)
      BY <1>1, <1>6
    <3>2. f[m] = step[<<m, f[m - 1]>>]
      BY <1>6 DEF Follows
    <3> QED
      BY <1>4, <3>1, <3>2
  <2> QED
    BY <2>1, <2>2
<1>14. \A m \in 0 .. n : f[m] = IF m = 0 THEN <<>> ELSE f[m - 1] \o TasksOf(m)
  <2>1. ASSUME NEW m \in 0 .. n, m # 0 PROVE m \in 1 .. n
    BY <1>1, <2>1
  <2> QED
    BY <1>7, <2>1, Zenon
<1>8. f = [m \in 0 .. n |-> IF m = 0 THEN <<>> ELSE f[m - 1] \o TasksOf(m)]
  BY <1>6, <1>14, Zenon
<1>9. TasksTo = [m \in 0 .. n |-> IF m = 0 THEN <<>> ELSE TasksTo[m - 1] \o TasksOf(m)]
  BY <1>8, Zenon DEF TasksTo, n
<1> HIDE DEF TasksTo
<1>10. \A m \in 0 .. n : TasksTo[m] = IF m = 0 THEN <<>> ELSE TasksTo[m - 1] \o TasksOf(m)
  BY <1>9, Zenon
<1>11. ASSUME NEW k \in 0 .. n, TasksTo[k] \notin Seq(Pairs) PROVE FALSE
  <2> DEFINE Bad == {i \in 0 .. n : TasksTo[i] \notin Seq(Pairs)}
  <2>1. PICK i \in Bad : \A j \in Bad : i <= j
    <3>1. Bad \in SUBSET Nat
      BY <1>1
    <3>2. k \in Bad
      BY <1>11
    <3> HIDE DEF Bad
    <3> QED
      BY <3>1, <3>2, LeastExists
  <2>2. CASE i = 0
    BY <1>5, <1>10, <2>1, <2>2
  <2>3. CASE i # 0
    <3>1. i \in 1 .. n /\ i - 1 \in 0 .. n /\ i - 1 \notin Bad
      BY <1>1, <2>1, <2>3
    <3>2. TasksTo[i - 1] \in Seq(Pairs)
      BY <3>1
    <3>3. TasksTo[i] = TasksTo[i - 1] \o TasksOf(i)
      BY <1>10, <2>1, <2>3
    <3> QED
      BY <1>2, <2>1, <3>1, <3>2, <3>3
  <2> QED
    BY <2>2, <2>3
<1>12. ASSUME NEW m \in MovesOf(Root) PROVE TasksTo[m] = TasksTo[m - 1] \o TasksOf(m)
  <2>1. m \in 0 .. n /\ m # 0
    BY <1>1
  <2> QED
    BY <1>10, <2>1
<1>13. TasksTo[0] = <<>>
  BY <1>1, <1>10
<1> QED
  BY <1>11, <1>12, <1>13 DEF n

\* Every pair of a root move and a reply is a task, and nothing else is.
LEMMA TaskListFits ==
    ASSUME GameOK
    PROVE  TaskList \in Seq(Pairs) /\ ListFits(TaskList, Len(moves[Root]))
<1> DEFINE n == Len(moves[Root])
           Bad == {i \in 0 .. n : ~ListFits(TasksTo[i], i)}
<1>1. n \in Nat /\ MovesOf(Root) = 1 .. n
  BY HelpAssumption DEF GameOK, MovesOf
<1>2. \A m \in 0 .. n : TasksTo[m] \in Seq(Pairs)
  BY TasksRecur
<1> HIDE DEF n
<1>3. Bad = {}
  <2>1. SUFFICES ASSUME Bad # {} PROVE FALSE
    OBVIOUS
  <2>2. PICK m \in Bad : \A j \in Bad : m <= j
    <3>1. Bad \in SUBSET Nat
      BY <1>1
    <3> HIDE DEF Bad
    <3> QED
      BY <2>1, <3>1, LeastExists
  <2>3. CASE m = 0
    <3>1. TasksTo[0] = <<>>
      BY TasksRecur
    <3>2. ListFits(TasksTo[0], 0)
      BY <3>1 DEF ListFits
    <3> QED
      BY <2>2, <2>3, <3>2
  <2>4. CASE m # 0
    <3>1. m \in 1 .. n /\ m - 1 \in 0 .. n /\ m - 1 \notin Bad
      BY <1>1, <2>2, <2>4
    <3> DEFINE s == TasksTo[m - 1]
               u == TasksOf(m)
    <3>2. ListFits(s, m - 1) /\ s \in Seq(Pairs)
      BY <1>2, <3>1
    <3>3. /\ u \in Seq(Pairs) /\ Len(u) = Len(moves[moves[Root][m]])
          /\ \A i \in 1 .. Len(u) : u[i] = <<m, i>>
      BY <1>1, <3>1, TasksOfTyped
    <3>4. TasksTo[m] = s \o u
      BY <1>1, <3>1, TasksRecur
    <3> HIDE DEF s, u
    <3> DEFINE both == s \o u
    <3>9. /\ Len(both) = Len(s) + Len(u) /\ Len(s) \in Nat /\ Len(u) \in Nat
          /\ \A i \in 1 .. Len(s) + Len(u) : both[i] = IF i <= Len(s) THEN s[i] ELSE u[i - Len(s)]
      <4>1. Len(s) \in Nat /\ Len(u) \in Nat
        BY <3>2, <3>3
      <4>2. Len(s \o u) = Len(s) + Len(u)
        BY <3>2, <3>3, ConcatProperties
      <4>3. \A i \in 1 .. Len(s) + Len(u) : (s \o u)[i] = IF i <= Len(s) THEN s[i] ELSE u[i - Len(s)]
        BY <3>2, <3>3, ConcatProperties
      <4> QED
        BY <4>1, <4>2, <4>3
    <3> HIDE DEF both
    <3>5. /\ Len(both) = Len(s) + Len(u) /\ Len(s) \in Nat /\ Len(u) \in Nat
          /\ \A i \in 1 .. Len(s) : both[i] = s[i]
          /\ \A i \in 1 .. Len(u) : both[Len(s) + i] = u[i]
          /\ \A i \in Len(s) + 1 .. Len(both) : both[i] = u[i - Len(s)] /\ i - Len(s) \in 1 .. Len(u)
      BY <3>9
    <3>6. ASSUME NEW i \in 1 .. Len(both)
          PROVE  both[i][1] \in MovesOf(Root) /\ both[i][2] \in MovesOf(moves[Root][both[i][1]])
      <4>1. CASE i \in 1 .. Len(s)
        BY <3>2, <3>5, <4>1 DEF ListFits
      <4>2. CASE i \notin 1 .. Len(s)
        <5>1. i \in Len(s) + 1 .. Len(both)
          BY <3>5, <4>2
        <5>2. both[i] = <<m, i - Len(s)>> /\ i - Len(s) \in 1 .. Len(u)
          BY <3>3, <3>5, <5>1
        <5> QED
          BY <1>1, <3>1, <3>3, <5>2 DEF MovesOf
      <4> QED
        BY <4>1, <4>2
    <3>7. ASSUME NEW j \in 1 .. m, NEW r \in MovesOf(moves[Root][j])
          PROVE  \E i \in 1 .. Len(both) : both[i] = <<j, r>>
      <4>1. CASE j = m
        <5>1. r \in 1 .. Len(u)
          BY <3>3, <4>1 DEF MovesOf
        <5>2. both[Len(s) + r] = <<j, r>> /\ Len(s) + r \in 1 .. Len(both)
          BY <3>3, <3>5, <4>1, <5>1
        <5> QED
          BY <5>2
      <4>2. CASE j # m
        <5>1. j \in 1 .. m - 1
          BY <3>1, <4>2
        <5>2. PICK i \in 1 .. Len(s) : s[i] = <<j, r>>
          BY <3>2, <5>1 DEF ListFits
        <5>3. i \in 1 .. Len(both) /\ both[i] = <<j, r>>
          BY <3>5, <5>2
        <5> QED
          BY <5>3
      <4> QED
        BY <4>1, <4>2
    <3>8. ListFits(both, m)
      BY <3>6, <3>7 DEF ListFits
    <3> QED
      BY <2>2, <3>4, <3>8 DEF both
  <2> QED
    BY <2>3, <2>4
<1>4. n \in 0 .. n /\ n \notin Bad
  BY <1>1, <1>3
<1>5. TasksTo[n] \in Seq(Pairs) /\ ListFits(TasksTo[n], n)
  BY <1>2, <1>4
<1> QED
  BY <1>5 DEF TaskList, n

-----------------------------------------------------------------------------
(* Frames and states. *)

LEMMA FrameParts ==
    ASSUME NEW s \in Seq(Frames)
    PROVE  /\ Len(s) \in Nat /\ (s # <<>> <=> Len(s) > 0)
           /\ \A d \in 1 .. Len(s) :
                /\ s[d] \in Frames /\ s[d].pos \in Positions /\ s[d].plies \in 1 .. MaxPlies
                /\ s[d].move \in Nat \ {0}
<1>1. Len(s) \in Nat /\ (s # <<>> <=> Len(s) > 0) /\ \A d \in 1 .. Len(s) : s[d] \in Frames
  OBVIOUS
<1>2. \A f \in Frames : f.pos \in Positions /\ f.plies \in 1 .. MaxPlies /\ f.move \in Nat \ {0}
  BY DEF Frames
<1> QED
  BY <1>1, <1>2

LEMMA PushFacts ==
    ASSUME NEW s \in Seq(Frames), NEW p \in Positions, NEW k \in 1 .. MaxPlies
    PROVE  LET f == [pos |-> p, plies |-> k, move |-> 1]
               u == Append(s, f)
           IN  /\ u \in Seq(Frames) /\ Len(u) = Len(s) + 1 /\ u[Len(s) + 1] = f
               /\ \A d \in 1 .. Len(s) : u[d] = s[d]
<1> DEFINE f == [pos |-> p, plies |-> k, move |-> 1]
<1>1. f \in Frames
  BY DEF Frames
<1> HIDE DEF f
<1>2. /\ Append(s, f) \in Seq(Frames) /\ Len(Append(s, f)) = Len(s) + 1
      /\ Append(s, f)[Len(s) + 1] = f /\ \A d \in 1 .. Len(s) : Append(s, f)[d] = s[d]
  BY <1>1, AppendProperties
<1> QED
  BY <1>2 DEF f

LEMMA PopFacts ==
    ASSUME NEW s \in Seq(Frames), s # <<>>
    PROVE  /\ Front(s) \in Seq(Frames) /\ Len(Front(s)) = Len(s) - 1
           /\ \A d \in 1 .. Len(s) - 1 : Front(s)[d] = s[d]
<1>6. Len(s) \in Nat /\ Len(s) > 0
  BY FrameParts
<1>1. PICK n \in Nat : n = Len(s) - 1 /\ Len(s) = n + 1
  <2>1. Len(s) - 1 \in Nat /\ Len(s) = (Len(s) - 1) + 1
    BY <1>6
  <2> QED
    BY <2>1
<1>2. \A d \in 1 .. n : s[d] \in Frames
  BY <1>1, FrameParts
<1>3. SubSeq(s, 1, n) = [d \in 1 .. n |-> s[d]]
  BY <1>1
<1>4. [d \in 1 .. n |-> s[d]] \in Seq(Frames) /\ Len([d \in 1 .. n |-> s[d]]) = n
  BY <1>2
<1>5. \A d \in 1 .. n : SubSeq(s, 1, n)[d] = s[d]
  BY <1>3
<1> QED
  BY <1>1, <1>3, <1>4, <1>5 DEF Front

\* u is s with its last frame one move on.
MovedOn(s, u) ==
    /\ u \in Seq(Frames) /\ Len(u) = Len(s)
    /\ \A d \in 1 .. Len(s) - 1 : u[d] = s[d]
    /\ u[Len(s)].pos = s[Len(s)].pos /\ u[Len(s)].plies = s[Len(s)].plies
    /\ u[Len(s)].move = s[Len(s)].move + 1

LEMMA MoveFacts ==
    ASSUME NEW s \in Seq(Frames), s # <<>>
    PROVE  MovedOn(s, [s EXCEPT ![Len(s)].move = @ + 1])
<1> DEFINE f == [s[Len(s)] EXCEPT !.move = @ + 1]
           u == [s EXCEPT ![Len(s)] = f]
<1>1. Len(s) \in 1 .. Len(s) /\ s[Len(s)] \in Frames
  BY FrameParts
<1>2. f \in Frames /\ f.pos = s[Len(s)].pos /\ f.plies = s[Len(s)].plies /\ f.move = s[Len(s)].move + 1
  <2>1. /\ s[Len(s)].pos \in Positions /\ s[Len(s)].plies \in 1 .. MaxPlies
        /\ s[Len(s)].move \in Nat \ {0}
    BY <1>1, FrameParts
  <2>2. s[Len(s)].move + 1 \in Nat \ {0}
    BY <2>1
  <2> QED
    BY <1>1, <2>1, <2>2 DEF Frames
<1> HIDE DEF f
<1>3. /\ u \in Seq(Frames) /\ Len(u) = Len(s) /\ u[Len(s)] = f
      /\ \A d \in 1 .. Len(s) - 1 : u[d] = s[d]
  BY <1>1, <1>2
<1>4. [s EXCEPT ![Len(s)].move = @ + 1] = u
  BY DEF f
<1> HIDE DEF u
<1>5. MovedOn(s, u)
  BY <1>2, <1>3 DEF MovedOn
<1> QED
  BY <1>4, <1>5

LEMMA VerdictFacts ==
    /\ Nothing \in Verdicts /\ ~Nothing.ok
    /\ \A l \in Seq(Nat) : Found(l) \in Verdicts /\ Found(l).ok /\ Found(l).line = l
<1>1. FALSE \in BOOLEAN /\ TRUE \in BOOLEAN /\ <<>> \in Seq(Nat)
  OBVIOUS
<1>2. Nothing \in Verdicts /\ \A l \in Seq(Nat) : Found(l) \in Verdicts
  BY <1>1, Zenon DEF Nothing, Found, Verdicts
<1> QED
  BY <1>2 DEF Nothing, Found

LEMMA StateFacts ==
    ASSUME NEW c \in States
    PROVE  /\ c.pc \in Labels /\ c.pos \in Positions /\ c.plies \in 0 .. MaxPlies /\ c.ret \in Verdicts
           /\ \A l \in Labels :
                /\ [c EXCEPT !.pc = l] \in States
                /\ [c EXCEPT !.pc = l].pc = l /\ [c EXCEPT !.pc = l].pos = c.pos
                /\ [c EXCEPT !.pc = l].plies = c.plies /\ [c EXCEPT !.pc = l].ret = c.ret
           /\ \A v \in Verdicts :
                /\ [c EXCEPT !.pc = "return", !.ret = v] \in States
                /\ [c EXCEPT !.pc = "return", !.ret = v].pc = "return"
                /\ [c EXCEPT !.pc = "return", !.ret = v].ret = v
<1>1. "return" \in Labels
  BY DEF Labels
<1> QED
  BY <1>1 DEF States

LEMMA EnterFacts ==
    ASSUME NEW p \in Positions, NEW k \in 0 .. MaxPlies
    PROVE  LET c == [pc |-> "enter", pos |-> p, plies |-> k, ret |-> Nothing]
           IN  c \in States /\ c.pc = "enter" /\ c.pos = p /\ c.plies = k
<1>1. "enter" \in Labels
  BY DEF Labels
<1> QED
  BY <1>1, VerdictFacts DEF States

LEMMA IdleFacts == Idle \in States /\ Idle.pc = "idle"
<1>1. "idle" \in Labels /\ Root \in Positions /\ 0 \in 0 .. MaxPlies
  BY HelpAssumption, PliesFacts DEF Labels
<1> QED
  BY <1>1, VerdictFacts DEF Idle, States

-----------------------------------------------------------------------------
(* How the frames of one searcher change. *)

LEMMA ShapeReturns ==
    ASSUME NEW c, NEW s, NEW p, NEW k, ShapedAs(c, s, p, k), c.pc = "enter",
           NEW c2, c2.pc = "return"
    PROVE  ShapedAs(c2, s, p, k)
BY DEF ShapedAs, StateFits, Searching

LEMMA ShapeTries ==
    ASSUME NEW c, NEW s \in Seq(Frames), NEW p, NEW k \in Int, ShapedAs(c, s, p, k), c.pc = "loop",
           s[Len(s)].move \in MovesOf(s[Len(s)].pos),
           NEW c2, c2.pc = "enter", c2.pos = moves[s[Len(s)].pos][s[Len(s)].move],
           c2.plies = s[Len(s)].plies - 1
    PROVE  ShapedAs(c2, s, p, k)
<1>1. Len(s) \in Nat /\ Len(s) > 0
  BY FrameParts DEF ShapedAs, StateFits
<1>2. FrameFits(s, p, k, Len(s))
  BY <1>1 DEF ShapedAs
<1>3. c2.plies = k - Len(s)
  BY <1>1, <1>2, FrameParts DEF FrameFits
<1>4. c2.pos = CalledPos(s, p, Len(s) + 1)
  BY <1>1 DEF CalledPos
<1> QED
  BY <1>3, <1>4 DEF ShapedAs, StateFits, Searching

LEMMA ShapeOpens ==
    ASSUME NEW c \in States, NEW s \in Seq(Frames), NEW p, NEW k \in Int, ShapedAs(c, s, p, k),
           c.pc = "enter", c.plies > 0,
           NEW s2, s2 = Append(s, [pos |-> c.pos, plies |-> c.plies, move |-> 1]),
           NEW c2, c2.pc = "loop"
    PROVE  ShapedAs(c2, s2, p, k) /\ s2 \in Seq(Frames)
<1> DEFINE n == Len(s)
<1>1. n \in Nat
  BY FrameParts
<1>2. c.pos \in Positions /\ c.plies \in 1 .. MaxPlies
  <2>1. c.pos \in Positions /\ c.plies \in 0 .. MaxPlies
    BY StateFacts
  <2> QED
    BY <2>1, PliesFacts
<1>3. /\ s2 \in Seq(Frames) /\ Len(s2) = n + 1
      /\ s2[n + 1].pos = c.pos /\ s2[n + 1].plies = c.plies
      /\ \A d \in 1 .. n : s2[d] = s[d]
  BY <1>2, PushFacts
<1>4. ASSUME NEW d \in 1 .. n PROVE FrameFits(s2, p, k, d)
  <2>1. FrameFits(s, p, k, d) /\ s2[d] = s[d]
    BY <1>3 DEF ShapedAs
  <2>2. CalledPos(s2, p, d) = CalledPos(s, p, d)
    BY <1>1, <1>3 DEF CalledPos
  <2>3. s[d].move \in MovesOf(s[d].pos)
    BY <1>1, <2>1 DEF FrameFits, ShapedAs, StateFits
  <2> QED
    BY <2>1, <2>2, <2>3 DEF FrameFits
<1>5. FrameFits(s2, p, k, n + 1)
  <2>1. c.pos = CalledPos(s, p, n + 1) /\ c.plies = k - n
    BY DEF ShapedAs, StateFits
  <2>2. CalledPos(s2, p, n + 1) = CalledPos(s, p, n + 1)
    BY <1>1, <1>3 DEF CalledPos
  <2>3. ~(n + 1 < Len(s2)) /\ k - n = k - ((n + 1) - 1)
    BY <1>1, <1>3
  <2> QED
    BY <1>3, <2>1, <2>2, <2>3 DEF FrameFits
<1>6. \A d \in 1 .. Len(s2) : FrameFits(s2, p, k, d)
  <2>1. \A d \in 1 .. Len(s2) : d \in 1 .. n \/ d = n + 1
    BY <1>1, <1>3
  <2> QED
    BY <1>4, <1>5, <2>1
<1>7. StateFits(c2, s2, p, k)
  BY <1>1, <1>3 DEF StateFits, Searching
<1> QED
  BY <1>3, <1>6, <1>7 DEF ShapedAs

LEMMA ShapeMoves ==
    ASSUME NEW c, NEW s \in Seq(Frames), s # <<>>, NEW p, NEW k \in Int, ShapedAs(c, s, p, k),
           NEW s2, MovedOn(s, s2),
           NEW c2, c2.pc = "loop"
    PROVE  ShapedAs(c2, s2, p, k) /\ s2 \in Seq(Frames)
<1> DEFINE n == Len(s)
<1>1. n \in Nat /\ n > 0
  BY FrameParts
<1>2. /\ s2 \in Seq(Frames) /\ Len(s2) = n
      /\ s2[n].pos = s[n].pos /\ s2[n].plies = s[n].plies
      /\ \A d \in 1 .. n - 1 : s2[d] = s[d]
  BY DEF MovedOn
<1>3. ASSUME NEW d \in 1 .. n PROVE FrameFits(s2, p, k, d)
  <2>1. FrameFits(s, p, k, d) /\ (d < n => s2[d] = s[d])
    BY <1>1, <1>2 DEF ShapedAs
  <2>2. CalledPos(s2, p, d) = CalledPos(s, p, d)
    BY <1>1, <1>2 DEF CalledPos
  <2>3. s2[d].pos = s[d].pos /\ s2[d].plies = s[d].plies
    BY <1>1, <1>2, <2>1
  <2> QED
    BY <1>2, <2>1, <2>2, <2>3 DEF FrameFits
<1>4. StateFits(c2, s2, p, k)
  BY <1>1, <1>2 DEF StateFits, Searching
<1> QED
  BY <1>2, <1>3, <1>4 DEF ShapedAs

LEMMA ShapePops ==
    ASSUME NEW c, NEW s \in Seq(Frames), s # <<>>, NEW p, NEW k \in Int, ShapedAs(c, s, p, k),
           NEW c2, c2.pc = "return"
    PROVE  ShapedAs(c2, Front(s), p, k) /\ Front(s) \in Seq(Frames)
<1> DEFINE n == Len(s) - 1
           s2 == Front(s)
<1>1. n \in Nat /\ Len(s) = n + 1
  BY FrameParts
<1>2. s2 \in Seq(Frames) /\ Len(s2) = n /\ \A d \in 1 .. n : s2[d] = s[d]
  BY PopFacts
<1> HIDE DEF s2
<1>3. ASSUME NEW d \in 1 .. n PROVE FrameFits(s2, p, k, d) /\ s2[d].move \in MovesOf(s2[d].pos)
  <2>1. FrameFits(s, p, k, d) /\ s2[d] = s[d] /\ d < Len(s)
    BY <1>1, <1>2 DEF ShapedAs
  <2>2. CalledPos(s2, p, d) = CalledPos(s, p, d)
    BY <1>1, <1>2 DEF CalledPos
  <2> QED
    BY <2>1, <2>2 DEF FrameFits
<1>4. StateFits(c2, s2, p, k)
  BY <1>1, <1>2, <1>3 DEF StateFits, Searching
<1> QED
  BY <1>2, <1>3, <1>4 DEF ShapedAs, s2

-----------------------------------------------------------------------------
(* A step of one searcher. *)

Others(x) == \A y \in Searchers \ {x} : at'[y] = at[y] /\ stack'[y] = stack[y]

Local(x) ==
    /\ at' \in [Searchers -> States] /\ stack' \in [Searchers -> Seq(Frames)]
    /\ at[x].pc \in Searching /\ at'[x].pc \in Searching
    /\ ShapedAs(at'[x], stack'[x], AskedPos(x), AskedPlies(x))
    /\ Others(x)

LEMMA SearcherFacts ==
    ASSUME Fits, NEW x \in Searchers
    PROVE  /\ at[x] \in States /\ at[x].pc \in Labels /\ at[x].pos \in Positions
           /\ at[x].plies \in 0 .. MaxPlies /\ at[x].ret \in Verdicts
           /\ stack[x] \in Seq(Frames) /\ ShapedAs(at[x], stack[x], AskedPos(x), AskedPlies(x))
           /\ AskedPlies(x) \in 0 .. MaxPlies
<1>1. at[x] \in States /\ stack[x] \in Seq(Frames)
  BY DEF Fits, TypeOK, SearchOK
<1>2. ShapedAs(at[x], stack[x], AskedPos(x), AskedPlies(x))
  BY DEF Fits, Shape, Shaped
<1>3. depth \in 1 .. MaxDepth
  BY DEF Fits, TypeOK, RouteOK
<1>4. AskedPlies(x) \in 0 .. MaxPlies
  BY <1>3, PliesFacts DEF AskedPlies
<1> QED
  BY <1>1, <1>2, <1>4, StateFacts

LEMMA Becomes ==
    ASSUME Fits, NEW x \in Searchers, NEW c \in States, Do(x, c)
    PROVE  /\ at' \in [Searchers -> States] /\ at'[x] = c
           /\ \A y \in Searchers \ {x} : at'[y] = at[y]
BY DEF Fits, TypeOK, SearchOK, Do

LEMMA Returned ==
    ASSUME Fits, NEW x \in Searchers, NEW v \in Verdicts, Return(x, v)
    PROVE  /\ at' \in [Searchers -> States] /\ at'[x].pc = "return" /\ at'[x].ret = v
           /\ \A y \in Searchers \ {x} : at'[y] = at[y]
<1> DEFINE c == [at[x] EXCEPT !.pc = "return", !.ret = v]
<1>1. c \in States /\ c.pc = "return" /\ c.ret = v
  BY SearcherFacts, StateFacts, ZenonT(60)
<1>2. Do(x, c)
  BY DEF Return
<1> HIDE DEF c
<1> QED
  BY <1>1, <1>2, Becomes

LEMMA Labelled ==
    ASSUME Fits, NEW x \in Searchers, NEW l \in Labels, Do(x, [at[x] EXCEPT !.pc = l])
    PROVE  /\ at' \in [Searchers -> States] /\ at'[x].pc = l /\ at'[x].ret = at[x].ret
           /\ \A y \in Searchers \ {x} : at'[y] = at[y]
<1> DEFINE c == [at[x] EXCEPT !.pc = l]
<1>1. c \in States /\ c.pc = l /\ c.ret = at[x].ret
  BY SearcherFacts, StateFacts
<1>2. Do(x, c)
  OBVIOUS
<1> HIDE DEF c
<1> QED
  BY <1>1, <1>2, Becomes

LEMMA Entered ==
    ASSUME Fits, NEW x \in Searchers, NEW p \in Positions, NEW k \in 0 .. MaxPlies, Enter(x, p, k)
    PROVE  /\ at' \in [Searchers -> States]
           /\ at'[x].pc = "enter" /\ at'[x].pos = p /\ at'[x].plies = k
           /\ \A y \in Searchers \ {x} : at'[y] = at[y]
<1> DEFINE c == [pc |-> "enter", pos |-> p, plies |-> k, ret |-> Nothing]
<1>1. c \in States /\ c.pc = "enter" /\ c.pos = p /\ c.plies = k
  BY EnterFacts
<1>2. Do(x, c)
  BY DEF Enter
<1> HIDE DEF c
<1> QED
  BY <1>1, <1>2, Becomes

LEMMA Stacked ==
    ASSUME Fits, NEW x \in Searchers, NEW s \in Seq(Frames), stack' = [stack EXCEPT ![x] = s]
    PROVE  /\ stack' \in [Searchers -> Seq(Frames)] /\ stack'[x] = s
           /\ \A y \in Searchers \ {x} : stack'[y] = stack[y]
BY DEF Fits, TypeOK, SearchOK

\* What a searcher in its loop, or back from a move, stands on.
LEMMA TopFacts ==
    ASSUME Fits, NEW x \in Searchers, stack[x] # <<>>
    PROVE  /\ Top(x) = stack[x][Len(stack[x])] /\ Len(stack[x]) \in 1 .. Len(stack[x])
           /\ Top(x).pos \in Positions /\ Top(x).plies \in 1 .. MaxPlies /\ Top(x).move \in Nat \ {0}
           /\ Advanced(x) = [stack EXCEPT ![x] = [stack[x] EXCEPT ![Len(stack[x])].move = @ + 1]]
<1>1. Top(x) = stack[x][Len(stack[x])]
  BY DEF Top, Last
<1>2. Advanced(x) = [stack EXCEPT ![x] = [stack[x] EXCEPT ![Len(stack[x])].move = @ + 1]]
  BY DEF Advanced, Fits, TypeOK, SearchOK
<1>3. Len(stack[x]) \in 1 .. Len(stack[x])
  BY SearcherFacts, FrameParts
<1> QED
  BY <1>1, <1>2, <1>3, SearcherFacts, FrameParts

LEMMA ReturnLocal ==
    ASSUME Fits, NEW x \in Searchers, NEW v \in Verdicts, Return(x, v), at[x].pc = "enter",
           stack' = stack
    PROVE  Local(x)
<1>1. /\ at' \in [Searchers -> States] /\ at'[x].pc = "return"
      /\ \A y \in Searchers \ {x} : at'[y] = at[y]
  BY Returned
<1>2. ShapedAs(at'[x], stack[x], AskedPos(x), AskedPlies(x))
  BY <1>1, SearcherFacts, ShapeReturns
<1>3. stack' \in [Searchers -> Seq(Frames)]
  BY DEF Fits, TypeOK, SearchOK
<1> QED
  BY <1>1, <1>2, <1>3 DEF Local, Others, Searching

LEMMA PopLocal ==
    ASSUME Fits, NEW x \in Searchers, NEW v \in Verdicts, Return(x, v), at[x].pc \in Searching,
           stack[x] # <<>>, stack' = [stack EXCEPT ![x] = Front(@)]
    PROVE  Local(x) /\ stack'[x] = Front(stack[x])
<1>1. /\ at' \in [Searchers -> States] /\ at'[x].pc = "return"
      /\ \A y \in Searchers \ {x} : at'[y] = at[y]
  BY Returned
<1>2. /\ ShapedAs(at'[x], Front(stack[x]), AskedPos(x), AskedPlies(x))
      /\ Front(stack[x]) \in Seq(Frames)
  <2>1. AskedPlies(x) \in Int
    BY SearcherFacts
  <2> QED
    BY <1>1, <2>1, SearcherFacts, ShapePops
<1>3. stack' = [stack EXCEPT ![x] = Front(stack[x])]
  BY DEF Fits, TypeOK, SearchOK
<1>4. /\ stack' \in [Searchers -> Seq(Frames)] /\ stack'[x] = Front(stack[x])
      /\ \A y \in Searchers \ {x} : stack'[y] = stack[y]
  BY <1>2, <1>3, Stacked
<1> QED
  BY <1>1, <1>2, <1>4 DEF Local, Others, Searching

LEMMA AdvanceLocal ==
    ASSUME Fits, NEW x \in Searchers, NEW c \in States, c.pc = "loop", Do(x, c),
           at[x].pc \in Searching, stack[x] # <<>>, stack' = Advanced(x)
    PROVE  Local(x) /\ MovedOn(stack[x], stack'[x])
<1> DEFINE s == [stack[x] EXCEPT ![Len(stack[x])].move = @ + 1]
<1>1. /\ at' \in [Searchers -> States] /\ at'[x].pc = "loop"
      /\ \A y \in Searchers \ {x} : at'[y] = at[y]
  BY Becomes
<1>2. ShapedAs(at'[x], s, AskedPos(x), AskedPlies(x)) /\ s \in Seq(Frames)
  <2>1. /\ AskedPlies(x) \in Int /\ stack[x] \in Seq(Frames)
        /\ ShapedAs(at[x], stack[x], AskedPos(x), AskedPlies(x))
    BY SearcherFacts
  <2> DEFINE c1 == at[x]
             c2 == at'[x]
             q == AskedPos(x)
             k == AskedPlies(x)
             r == stack[x]
  <2>2. /\ c2.pc = "loop" /\ k \in Int /\ ShapedAs(c1, r, q, k) /\ r \in Seq(Frames) /\ r # <<>>
        /\ MovedOn(r, s)
    BY <1>1, <2>1, MoveFacts
  <2> HIDE DEF c1, c2, q, k, s, r
  <2>3. ShapedAs(c2, s, q, k) /\ s \in Seq(Frames)
    BY <2>2, ShapeMoves
  <2> QED
    BY <2>3 DEF c2, q, k
<1>3. stack' = [stack EXCEPT ![x] = s]
  BY TopFacts
<1>6. MovedOn(stack[x], s)
  BY SearcherFacts, MoveFacts
<1> HIDE DEF s
<1>4. /\ stack' \in [Searchers -> Seq(Frames)] /\ stack'[x] = s
      /\ \A y \in Searchers \ {x} : stack'[y] = stack[y]
  BY <1>2, <1>3, Stacked
<1>5. Local(x)
  BY <1>1, <1>2, <1>4 DEF Local, Others, Searching
<1> QED
  BY <1>4, <1>5, <1>6

LEMMA OpenLocal ==
    ASSUME Fits, NEW x \in Searchers, at[x].pc = "enter", at[x].plies > 0,
           stack' = [stack EXCEPT ![x] = Append(@, [pos |-> at[x].pos, plies |-> at[x].plies, move |-> 1])],
           Do(x, [at[x] EXCEPT !.pc = "loop"])
    PROVE  /\ Local(x)
           /\ stack'[x] = Append(stack[x], [pos |-> at[x].pos, plies |-> at[x].plies, move |-> 1])
<1> DEFINE s == Append(stack[x], [pos |-> at[x].pos, plies |-> at[x].plies, move |-> 1])
<1>0. "loop" \in Labels
  BY DEF Labels
<1>1. /\ at' \in [Searchers -> States] /\ at'[x].pc = "loop"
      /\ \A y \in Searchers \ {x} : at'[y] = at[y]
  BY <1>0, Labelled
<1>2. ShapedAs(at'[x], s, AskedPos(x), AskedPlies(x)) /\ s \in Seq(Frames)
  <2>1. /\ AskedPlies(x) \in Int /\ at[x] \in States /\ stack[x] \in Seq(Frames)
        /\ ShapedAs(at[x], stack[x], AskedPos(x), AskedPlies(x))
    BY SearcherFacts
  <2> DEFINE c2 == at'[x]
             q == AskedPos(x)
             k == AskedPlies(x)
  <2>2. c2.pc = "loop" /\ k \in Int /\ ShapedAs(at[x], stack[x], q, k)
    BY <1>1, <2>1
  <2> HIDE DEF c2, q, k
  <2>3. ShapedAs(c2, s, q, k) /\ s \in Seq(Frames)
    BY <2>1, <2>2, ShapeOpens
  <2> QED
    BY <2>3 DEF c2, q, k
<1>3. stack' = [stack EXCEPT ![x] = s]
  BY DEF Fits, TypeOK, SearchOK
<1> HIDE DEF s
<1>4. /\ stack' \in [Searchers -> Seq(Frames)] /\ stack'[x] = s
      /\ \A y \in Searchers \ {x} : stack'[y] = stack[y]
  BY <1>2, <1>3, Stacked
<1>5. Local(x)
  BY <1>1, <1>2, <1>4 DEF Local, Others, Searching
<1> QED
  BY <1>4, <1>5 DEF s

LEMMA TryLocal == ASSUME Fits, NEW x \in Searchers, TryMove(x) PROVE Local(x)
<1>1. at[x].pc = "loop" /\ Top(x).move \in MovesOf(Top(x).pos) /\ stack' = stack
      /\ Enter(x, moves[Top(x).pos][Top(x).move], Top(x).plies - 1)
  BY DEF TryMove, HasMove
<1>2. stack[x] # <<>> /\ stack[x] \in Seq(Frames)
  BY <1>1, SearcherFacts, FrameParts DEF ShapedAs, StateFits
<1>3. /\ Top(x) = stack[x][Len(stack[x])] /\ Top(x).pos \in Positions
      /\ Top(x).plies \in 1 .. MaxPlies
  BY <1>2, TopFacts
<1>4. moves[Top(x).pos][Top(x).move] \in Positions
  BY <1>1, <1>3, StepFacts DEF Fits, TypeOK
<1>5. Top(x).plies - 1 \in 0 .. MaxPlies
  BY <1>3, PliesFacts
<1>6. /\ at' \in [Searchers -> States] /\ at'[x].pc = "enter"
      /\ at'[x].pos = moves[Top(x).pos][Top(x).move] /\ at'[x].plies = Top(x).plies - 1
      /\ \A y \in Searchers \ {x} : at'[y] = at[y]
  BY <1>1, <1>4, <1>5, Entered
<1>7. ShapedAs(at'[x], stack[x], AskedPos(x), AskedPlies(x))
  <2>1. AskedPlies(x) \in Int /\ ShapedAs(at[x], stack[x], AskedPos(x), AskedPlies(x))
    BY SearcherFacts
  <2> QED
    BY <1>1, <1>2, <1>3, <1>6, <2>1, ShapeTries
<1>8. stack' \in [Searchers -> Seq(Frames)]
  BY <1>1 DEF Fits, TypeOK, SearchOK
<1> QED
  BY <1>1, <1>6, <1>7, <1>8 DEF Local, Others, Searching

\* What a searcher was asked stays what it is while the tasks and the depth do.
LEMMA AskedKept ==
    ASSUME UNCHANGED <<game, depth, tasks>>, NEW x, x # Main => duty'[x].task = duty[x].task
    PROVE  AskedPos(x)' = AskedPos(x) /\ AskedPlies(x)' = AskedPlies(x)
<1>1. Main' = Main /\ MaxPlies' = MaxPlies
  BY DEF Main, MaxPlies
<1> QED
  BY <1>1 DEF AskedPos, AskedPlies, After, Task, game

LEMMA ShapedKept ==
    ASSUME UNCHANGED game, NEW x, AskedPos(x)' = AskedPos(x), AskedPlies(x)' = AskedPlies(x),
           ShapedAs(at'[x], stack'[x], AskedPos(x), AskedPlies(x))
    PROVE  Shaped(x)'
BY DEF Shaped, ShapedAs, StateFits, FrameFits, CalledPos, MovesOf, Searching, game

LEMMA GameKept ==
    ASSUME GameOK, LinesOK, UNCHANGED game PROVE GameOK' /\ LinesOK'
<1>1. GameOK'
  BY DEF GameOK, game
<1>2. lines' = lines /\ Ending' = Ending /\ MaxPlies' = MaxPlies
  BY DEF Ending, game, MaxPlies
<1>3. \A k : Longer(lines[k - 1])' = Longer(lines[k - 1])
  BY DEF Longer, MovesOf, game
<1>4. LinesOK'
  BY <1>2, <1>3 DEF LinesOK
<1> QED
  BY <1>1, <1>4

LEMMA LocalFits ==
    ASSUME Fits, NEW x \in Searchers, Local(x), UNCHANGED <<game, pool, route, env>>,
           table' \in [Tables -> [Positions -> [1 .. MaxPlies -> Seq(Nat)]]],
           aborted' \in [Searchers -> BOOLEAN], timedOut' \in [Searchers -> BOOLEAN],
           sols' \in Seq(Seq(Nat))
    PROVE  Fits'
<1>1. TypeOK'
  <2>1. GameOK' /\ LinesOK'
    BY GameKept DEF Fits, TypeOK
  <2>2. SearchOK'
    BY DEF Local, SearchOK, MaxPlies, Searchers, Tables
  <2>3. SplitOK'
    BY DEF Fits, TypeOK, SplitOK, pool, route
  <2>4. RouteOK'
    BY DEF Fits, TypeOK, RouteOK, route, env
  <2> QED
    BY <2>1, <2>2, <2>3, <2>4 DEF TypeOK
<1>2. \A y \in Searchers : AskedPos(y)' = AskedPos(y) /\ AskedPlies(y)' = AskedPlies(y)
  BY AskedKept DEF pool, route
<1>3. ASSUME NEW y \in Searchers PROVE Shaped(y)'
  <2>1. CASE y = x
    BY <1>2, <2>1, ShapedKept DEF Local
  <2>2. CASE y # x
    <3>1. at'[y] = at[y] /\ stack'[y] = stack[y]
      BY <2>2 DEF Local, Others
    <3>2. ShapedAs(at'[y], stack'[y], AskedPos(y), AskedPlies(y))
      BY <3>1, SearcherFacts
    <3> QED
      BY <1>2, <3>2, ShapedKept
  <2> QED
    BY <2>1, <2>2
<1>4. Roles'
  <2>1. Roles /\ Main \in Searchers /\ Workers \subseteq Searchers
    BY DEF Fits, Shape, Searchers
  <2>2. "idle" \notin Searching
    BY DEF Searching
  <2>3. ASSUME NEW y \in Searchers
        PROVE  at'[y].pc = at[y].pc \/ (at[y].pc \in Searching /\ at'[y].pc \in Searching)
    <3>1. CASE y = x
      BY <3>1 DEF Local
    <3>2. CASE y # x
      <4>1. at'[y] = at[y]
        BY <3>2 DEF Local, Others
      <4> QED
        BY <4>1
    <3> QED
      BY <3>1, <3>2
  <2>4. at'[Main].pc \in (IF phase = "search" THEN Searching ELSE {"idle"})
    BY <2>1, <2>2, <2>3 DEF Roles
  <2>5. phase # "join" => \A w \in Workers : at'[w].pc = "idle"
    BY <2>1, <2>2, <2>3 DEF Roles
  <2>6. ASSUME phase = "join" PROVE SplitFits'
    <3>1. SplitFits
      BY <2>1, <2>6 DEF Roles
    <3>2. \A w \in Workers : at'[w].pc \in OnTask => at[w].pc \in OnTask
      BY <2>1, <2>3 DEF OnTask
    <3> QED
      BY <3>1, <3>2 DEF SplitFits, Splits, ListFits, MovesOf, NumTasks, OnTask, Searching, pool, route, game
  <2> QED
    BY <2>1, <2>4, <2>5, <2>6 DEF Roles, route, env, game, Main, Searching
<1> QED
  BY <1>1, <1>3, <1>4 DEF Fits, Shape, Searchers, Main

LEMMA LoopFacts == ASSUME Fits, NEW x \in Searchers, at[x].pc = "loop" PROVE stack[x] # <<>>
BY SearcherFacts, FrameParts DEF ShapedAs, StateFits

LEMMA EntryTyped ==
    ASSUME Fits, NEW x \in Searchers, NEW p \in Positions, NEW k \in 1 .. MaxPlies
    PROVE  TableOf(x) \in Tables /\ table[TableOf(x)][p][k] \in Seq(Nat)
<1>1. TableOf(x) \in Tables
  BY DEF TableOf, Tables
<1>2. table \in [Tables -> [Positions -> [1 .. MaxPlies -> Seq(Nat)]]]
  BY DEF Fits, TypeOK, SearchOK
<1>3. table[TableOf(x)][p] \in [1 .. MaxPlies -> Seq(Nat)]
  BY <1>1, <1>2
<1> QED
  BY <1>1, <1>3

\* One entry is written.
Written(x, entry) ==
    \A t \in Tables, p \in Positions, k \in 1 .. MaxPlies :
        table'[t][p][k] = IF t = TableOf(x) /\ p = Top(x).pos /\ k = Top(x).plies
                          THEN entry ELSE table[t][p][k]

LEMMA StoreTyped ==
    ASSUME Fits, NEW x \in Searchers, stack[x] # <<>>, NEW entry \in Seq(Nat), Store(x, entry)
    PROVE  /\ table' \in [Tables -> [Positions -> [1 .. MaxPlies -> Seq(Nat)]]]
           /\ Written(x, entry)
<1> DEFINE a == TableOf(x)
           b == Top(x).pos
           c == Top(x).plies
           inner == [table[a][b] EXCEPT ![c] = entry]
           middle == [table[a] EXCEPT ![b] = inner]
<1>1. b \in Positions /\ c \in 1 .. MaxPlies
  BY TopFacts
<1>2. table \in [Tables -> [Positions -> [1 .. MaxPlies -> Seq(Nat)]]] /\ a \in Tables
  BY <1>1, EntryTyped DEF Fits, TypeOK, SearchOK
<1>3. table' = [table EXCEPT ![a] = middle]
  BY DEF Store
<1> HIDE DEF a, b, c
<1>4. table[a] \in [Positions -> [1 .. MaxPlies -> Seq(Nat)]] /\ table[a][b] \in [1 .. MaxPlies -> Seq(Nat)]
  BY <1>1, <1>2
<1>5. /\ inner \in [1 .. MaxPlies -> Seq(Nat)]
      /\ \A k \in 1 .. MaxPlies : inner[k] = IF k = c THEN entry ELSE table[a][b][k]
  BY <1>1, <1>4
<1> HIDE DEF inner
<1>6. /\ middle \in [Positions -> [1 .. MaxPlies -> Seq(Nat)]]
      /\ \A p \in Positions : middle[p] = IF p = b THEN inner ELSE table[a][p]
  BY <1>1, <1>4, <1>5
<1> HIDE DEF middle
<1>7. /\ table' \in [Tables -> [Positions -> [1 .. MaxPlies -> Seq(Nat)]]]
      /\ \A t \in Tables : table'[t] = IF t = a THEN middle ELSE table[t]
  BY <1>2, <1>3, <1>6
<1>8. ASSUME NEW t \in Tables, NEW p \in Positions, NEW k \in 1 .. MaxPlies
      PROVE  table'[t][p][k] = IF t = a /\ p = b /\ k = c THEN entry ELSE table[t][p][k]
  BY <1>5, <1>6, <1>7
<1> QED
  BY <1>7, <1>8 DEF Written, a, b, c

LEMMA FailTyped == Fail \in Seq(Nat) /\ Unknown \in Seq(Nat) /\ NoLine \in Seq(Nat)
BY DEF Fail, Unknown, NoLine

LEMMA VerdictParts == \A v \in Verdicts : v.line \in Seq(Nat)
BY DEF Verdicts

\* What is found by a move is the move before what was found after it.
LEMMA FoundTyped ==
    ASSUME Fits, NEW x \in Searchers, stack[x] # <<>>
    PROVE  <<Top(x).move>> \o at[x].ret.line \in Seq(Nat)
<1>1. Top(x).move \in Nat /\ at[x].ret.line \in Seq(Nat)
  BY TopFacts, SearcherFacts, VerdictParts
<1> QED
  BY <1>1

LEMMA SaysFits ==
    ASSUME Fits, NEW x \in Searchers, NEW v \in Verdicts, at[x].pc = "enter", Says(x, v)
    PROVE  Local(x) /\ Fits'
<1>1. Return(x, v) /\ UNCHANGED <<game, table, stack, aborted, timedOut, pool, route, sols, env>>
  BY DEF Says
<1>2. Local(x)
  BY <1>1, ReturnLocal
<1>3. Fits'
  BY <1>1, <1>2, LocalFits DEF Fits, TypeOK, SearchOK, RouteOK
<1> QED
  BY <1>2, <1>3

LEMMA CancelFits == ASSUME Fits, NEW x \in Searchers, Cancel(x) PROVE Local(x) /\ Fits'
<1>1. /\ Return(x, Nothing) /\ at[x].pc = "enter" /\ aborted' = [aborted EXCEPT ![x] = TRUE]
      /\ UNCHANGED <<game, table, stack, pool, route, sols, env>>
  BY DEF Cancel
<1>2. PICK expired \in BOOLEAN : timedOut' = [timedOut EXCEPT ![x] = @ \/ expired]
  BY Zenon DEF Cancel
<1>3. aborted' \in [Searchers -> BOOLEAN] /\ timedOut' \in [Searchers -> BOOLEAN]
  <2>1. aborted \in [Searchers -> BOOLEAN] /\ timedOut \in [Searchers -> BOOLEAN]
    BY DEF Fits, TypeOK, SearchOK
  <2>2. (timedOut[x] \/ expired) \in BOOLEAN /\ TRUE \in BOOLEAN
    BY Zenon
  <2> QED
    BY <1>1, <1>2, <2>1, <2>2, Zenon
<1>4. Local(x)
  BY <1>1, VerdictFacts, ReturnLocal
<1>5. Fits'
  BY <1>1, <1>3, <1>4, LocalFits DEF Fits, TypeOK, SearchOK, RouteOK
<1> QED
  BY <1>4, <1>5

\* The steps of the searches that return at once or move in the frames alone.
LEMMA ProveFits == ASSUME Fits, NEW x \in Searchers, Prove(x) PROVE Local(x) /\ Fits'
<1> DEFINE Same == UNCHANGED <<game, pool, route, env, aborted, timedOut, sols>>
<1>1. Nothing \in Verdicts /\ \A l \in Seq(Nat) : Found(l) \in Verdicts
  BY VerdictFacts
<1>2. ASSUME Local(x), Same, table' \in [Tables -> [Positions -> [1 .. MaxPlies -> Seq(Nat)]]]
      PROVE  Local(x) /\ Fits'
  BY <1>2, LocalFits DEF Fits, TypeOK, SearchOK, RouteOK
<1>3. table \in [Tables -> [Positions -> [1 .. MaxPlies -> Seq(Nat)]]]
  BY DEF Fits, TypeOK, SearchOK
<1>4. CASE Cancel(x)
  BY <1>4, CancelFits
<1>5. CASE Leaf(x)
  <2>1. (IF at[x].pos \in goals THEN Found(<<>>) ELSE Nothing) \in Verdicts
    <3>1. <<>> \in Seq(Nat)
      OBVIOUS
    <3> QED
      BY <1>1, <3>1
  <2> QED
    BY <1>5, <2>1, SaysFits DEF Leaf, Proving
<1>6. CASE Prune(x)
  BY <1>1, <1>6, SaysFits DEF Prune, Proving
<1>7. CASE TableAnswers(x)
  <2>1. at[x].pos \in Positions /\ at[x].plies \in 1 .. MaxPlies
    <3>1. at[x].pos \in Positions /\ at[x].plies \in 0 .. MaxPlies /\ at[x].plies > 0
      BY <1>7, SearcherFacts DEF TableAnswers
    <3> QED
      BY <3>1, PliesFacts
  <2>2. Entry(x) \in Seq(Nat)
    BY <2>1, EntryTyped DEF Entry
  <2>3. (IF Entry(x) = Fail THEN Nothing ELSE Found(Entry(x))) \in Verdicts
    BY <1>1, <2>2
  <2> QED
    BY <1>7, <2>3, SaysFits DEF TableAnswers, Proving
<1>8. CASE Open(x)
  <2>1. /\ at[x].pc = "enter" /\ at[x].plies > 0 /\ Same /\ table' = table
        /\ stack' = [stack EXCEPT ![x] = Append(@, [pos |-> at[x].pos, plies |-> at[x].plies, move |-> 1])]
        /\ Do(x, [at[x] EXCEPT !.pc = "loop"])
    BY <1>8 DEF Open, Proving
  <2>2. Local(x)
    BY <2>1, OpenLocal
  <2> QED
    BY <1>2, <1>3, <2>1, <2>2
<1>9. CASE SkipMove(x)
  <2>1. at[x].pc = "loop" /\ stack' = Advanced(x) /\ at' = at /\ Same /\ table' = table
    BY <1>9 DEF SkipMove, HasMove
  <2>2. at[x] \in States /\ Do(x, at[x]) /\ at[x].pc \in Searching /\ stack[x] # <<>>
    BY <2>1, SearcherFacts, LoopFacts DEF Do, Fits, TypeOK, SearchOK, Searching
  <2>3. Local(x)
    BY <2>1, <2>2, AdvanceLocal
  <2> QED
    BY <1>2, <1>3, <2>1, <2>3
<1>10. CASE TryMove(x)
  <2>1. Same /\ table' = table
    BY <1>10 DEF TryMove
  <2> QED
    BY <1>2, <1>3, <1>10, <2>1, TryLocal
<1>11. CASE NoMoveSolves(x)
  <2>1. /\ at[x].pc = "loop" /\ Store(x, Fail) /\ stack' = [stack EXCEPT ![x] = Front(@)]
        /\ Return(x, Nothing) /\ Same
    BY <1>11 DEF NoMoveSolves
  <2>2. stack[x] # <<>> /\ at[x].pc \in Searching
    BY <2>1, LoopFacts DEF Searching
  <2>3. Local(x)
    BY <1>1, <2>1, <2>2, PopLocal
  <2>4. table' \in [Tables -> [Positions -> [1 .. MaxPlies -> Seq(Nat)]]]
    BY <2>1, <2>2, FailTyped, StoreTyped
  <2> QED
    BY <1>2, <2>1, <2>3, <2>4
<1>12. CASE Unwind(x)
  <2>1. /\ at[x].pc = "return" /\ stack[x] # <<>> /\ stack' = [stack EXCEPT ![x] = Front(@)]
        /\ Return(x, Nothing) /\ Same /\ table' = table
    BY <1>12 DEF Unwind, Back
  <2>2. Local(x)
    BY <1>1, <2>1, PopLocal DEF Searching
  <2> QED
    BY <1>2, <1>3, <2>1, <2>2
<1>13. CASE MoveFails(x)
  <2>1. /\ at[x].pc = "return" /\ stack[x] # <<>> /\ stack' = Advanced(x)
        /\ Do(x, [at[x] EXCEPT !.pc = "loop"]) /\ Same /\ table' = table
    BY <1>13 DEF MoveFails, Back
  <2> DEFINE c == [at[x] EXCEPT !.pc = "loop"]
  <2>2. c \in States /\ c.pc = "loop"
    <3>1. "loop" \in Labels
      BY DEF Labels
    <3> QED
      BY <3>1, SearcherFacts, StateFacts, ZenonT(60)
  <2> HIDE DEF c
  <2>3. Local(x)
    BY <2>1, <2>2, AdvanceLocal DEF Searching, c
  <2> QED
    BY <1>2, <1>3, <2>1, <2>3
<1>14. CASE MoveSolves(x)
  <2> DEFINE line == <<Top(x).move>> \o at[x].ret.line
  <2>1. /\ at[x].pc = "return" /\ stack[x] # <<>> /\ stack' = [stack EXCEPT ![x] = Front(@)]
        /\ Store(x, line) /\ Return(x, Found(line)) /\ Same
    BY <1>14 DEF MoveSolves, Back
  <2>2. line \in Seq(Nat)
    BY <2>1, FoundTyped
  <2> HIDE DEF line
  <2>3. Local(x)
    BY <1>1, <2>1, <2>2, PopLocal DEF Searching
  <2>4. table' \in [Tables -> [Positions -> [1 .. MaxPlies -> Seq(Nat)]]]
    BY <2>1, <2>2, StoreTyped
  <2> QED
    BY <1>2, <2>1, <2>3, <2>4
<1> QED
  BY <1>4, <1>5, <1>6, <1>7, <1>8, <1>9, <1>10, <1>11, <1>12, <1>13, <1>14 DEF Prove

LEMMA MainFacts ==
    ASSUME Fits PROVE Main \in Searchers /\ stack[Main] \in Seq(Frames) /\ sols \in Seq(Seq(Nat))
BY SearcherFacts DEF Searchers, Fits, TypeOK, RouteOK

LEMMA PlayedTyped == ASSUME Fits PROVE Played \in Seq(Nat) /\ Len(Played) = Len(stack[Main])
<1>1. Len(stack[Main]) \in Nat /\ \A i \in 1 .. Len(stack[Main]) : stack[Main][i].move \in Nat
  BY MainFacts, FrameParts
<1> QED
  BY <1>1 DEF Played

LEMMA CollectFits == ASSUME Fits, Collect PROVE Local(Main) /\ Fits'
<1> DEFINE Same == UNCHANGED <<game, pool, route, env, aborted, timedOut, table>>
<1>1. Nothing \in Verdicts /\ Main \in Searchers
  BY VerdictFacts, MainFacts
<1>2. ASSUME Local(Main), Same, sols' \in Seq(Seq(Nat)) PROVE Local(Main) /\ Fits'
  BY <1>1, <1>2, LocalFits DEF Fits, TypeOK, SearchOK, RouteOK
<1>3. sols \in Seq(Seq(Nat))
  BY MainFacts
<1>4. CASE CollectLeaf
  <2>1. /\ at[Main].pc = "enter" /\ Return(Main, Nothing) /\ Same /\ stack' = stack
        /\ sols' = IF at[Main].pos \in goals THEN Append(sols, Played) ELSE sols
    BY <1>4 DEF CollectLeaf
  <2>2. sols' \in Seq(Seq(Nat))
    BY <1>3, <2>1, PlayedTyped
  <2> QED
    BY <1>1, <1>2, <2>1, <2>2, ReturnLocal
<1>5. CASE CollectOpen
  <2>1. /\ at[Main].pc = "enter" /\ at[Main].plies > 0 /\ Same /\ sols' = sols
        /\ stack' = [stack EXCEPT ![Main] =
                        Append(@, [pos |-> at[Main].pos, plies |-> at[Main].plies, move |-> 1])]
        /\ Do(Main, [at[Main] EXCEPT !.pc = "loop"])
    BY <1>5 DEF CollectOpen
  <2>2. Local(Main)
    BY <1>1, <2>1, OpenLocal
  <2> QED
    BY <1>2, <1>3, <2>1, <2>2
<1>6. CASE CollectLeave
  <2>1. /\ Exhausted \/ Reached \/ GivenUp
        /\ stack' = [stack EXCEPT ![Main] = IF at[Main].pc = "enter" THEN @ ELSE Front(@)]
        /\ Return(Main, Nothing) /\ Same /\ sols' = sols
    BY <1>6 DEF CollectLeave
  <2>2. CASE at[Main].pc = "enter"
    <3>1. stack' = stack
      BY <1>1, <2>1, <2>2 DEF Fits, TypeOK, SearchOK
    <3> QED
      BY <1>1, <1>2, <1>3, <2>1, <2>2, <3>1, ReturnLocal
  <2>3. CASE at[Main].pc # "enter"
    <3>1. at[Main].pc \in Searching /\ stack[Main] # <<>>
      BY <1>1, <2>1, <2>3, LoopFacts DEF Exhausted, Reached, GivenUp, Searching
    <3>2. stack' = [stack EXCEPT ![Main] = Front(@)]
      BY <2>1, <2>3
    <3> QED
      BY <1>1, <1>2, <1>3, <2>1, <3>1, <3>2, PopLocal
  <2> QED
    BY <2>2, <2>3
<1>7. CASE CollectNext
  <2>1. /\ at[Main].pc = "return" /\ stack[Main] # <<>> /\ stack' = Advanced(Main)
        /\ Do(Main, [at[Main] EXCEPT !.pc = "loop"]) /\ Same /\ sols' = sols
    BY <1>7 DEF CollectNext
  <2> DEFINE c == [at[Main] EXCEPT !.pc = "loop"]
  <2>2. c \in States /\ c.pc = "loop"
    <3>1. "loop" \in Labels
      BY DEF Labels
    <3> QED
      BY <1>1, <3>1, SearcherFacts, StateFacts, ZenonT(60)
  <2> HIDE DEF c
  <2>3. Local(Main)
    BY <1>1, <2>1, <2>2, AdvanceLocal DEF Searching, c
  <2> QED
    BY <1>2, <1>3, <2>1, <2>3
<1> QED
  BY <1>4, <1>5, <1>6, <1>7 DEF Collect

-----------------------------------------------------------------------------
(* The workers. *)

LEMMA SlotFacts ==
    ASSUME NEW s \in Slots
    PROVE  /\ s.current \in Nat
           /\ \A i \in Nat : [s EXCEPT !.current = i] \in Slots /\ [s EXCEPT !.current = i].cancel = s.cancel
           /\ \A b \in BOOLEAN : [s EXCEPT !.cancel = b] \in Slots /\ [s EXCEPT !.cancel = b].cancel = b
<1>1. s.current \in Nat /\ s.cancel \in BOOLEAN /\ s = [current |-> s.current, cancel |-> s.cancel]
  BY Zenon DEF Slots
<1>2. ASSUME NEW i \in Nat
      PROVE  [s EXCEPT !.current = i] \in Slots /\ [s EXCEPT !.current = i].cancel = s.cancel
  <2>1. [s EXCEPT !.current = i] = [current |-> i, cancel |-> s.cancel]
    BY <1>1
  <2>2. [current |-> i, cancel |-> s.cancel] \in Slots
    BY <1>1, Zenon DEF Slots
  <2> QED
    BY <2>1, <2>2
<1>3. ASSUME NEW b \in BOOLEAN
      PROVE  [s EXCEPT !.cancel = b] \in Slots /\ [s EXCEPT !.cancel = b].cancel = b
  <2>1. [s EXCEPT !.cancel = b] = [current |-> s.current, cancel |-> b]
    BY <1>1
  <2>2. [current |-> s.current, cancel |-> b] \in Slots
    BY <1>1, Zenon DEF Slots
  <2> QED
    BY <2>1, <2>2
<1> QED
  BY <1>1, <1>2, <1>3

LEMMA DutyFacts ==
    ASSUME NEW d \in Duties
    PROVE  /\ d.task \in Nat /\ d.look \in SUBSET Workers /\ d.hit \in SUBSET Workers
           /\ \A i \in Nat : [d EXCEPT !.task = i] \in Duties /\ [d EXCEPT !.task = i].task = i
           /\ \A S \in SUBSET Workers :
                /\ [d EXCEPT !.look = S] \in Duties /\ [d EXCEPT !.look = S].task = d.task
                /\ [d EXCEPT !.hit = S] \in Duties /\ [d EXCEPT !.hit = S].task = d.task
BY DEF Duties

\* A step of a worker keeps everything in place that it does not disturb.
LEMMA WorkerFits ==
    ASSUME Fits, NEW w \in Workers, phase = "join",
           UNCHANGED <<game, table, stack, timedOut, route, sols, env>>,
           at' \in [Searchers -> States], \A y \in Searchers \ {w} : at'[y] = at[y],
           SplitOK', aborted' \in [Searchers -> BOOLEAN],
           Len(results') = NumTasks, best' <= NumTasks,
           at'[w].pc \in OnTask => duty'[w].task < NumTasks,
           \A y \in Workers \ {w} : duty'[y].task = duty[y].task,
           Shaped(w)'
    PROVE  Fits'
<1>1. TypeOK'
  <2>1. GameOK' /\ LinesOK'
    BY GameKept DEF Fits, TypeOK
  <2>2. SearchOK'
    BY DEF SearchOK, Fits, TypeOK, MaxPlies, Searchers, Tables
  <2>3. RouteOK'
    BY DEF Fits, TypeOK, RouteOK, route, env
  <2> QED
    BY <2>1, <2>2, <2>3 DEF TypeOK
<1>2. Main \notin Workers /\ Main \in Searchers
  BY HelpAssumption DEF Searchers
<1>3. ASSUME NEW y \in Searchers, y # w PROVE Shaped(y)'
  <2>1. y # Main => duty'[y].task = duty[y].task
    BY <1>3 DEF Searchers
  <2>2. AskedPos(y)' = AskedPos(y) /\ AskedPlies(y)' = AskedPlies(y)
    BY <2>1, AskedKept DEF route
  <2>3. at'[y] = at[y] /\ stack'[y] = stack[y]
    BY <1>3
  <2>4. ShapedAs(at'[y], stack'[y], AskedPos(y), AskedPlies(y))
    BY <2>3, SearcherFacts
  <2> QED
    BY <2>2, <2>4, ShapedKept
<1>4. Roles'
  <2>1. Roles /\ SplitFits
    BY DEF Fits, Shape, Roles
  <2>2. at'[Main] = at[Main]
    BY <1>2
  <2>3. \A y \in Workers : at'[y].pc \in OnTask => duty'[y].task < NumTasks
    <3>1. ASSUME NEW y \in Workers, y # w, at'[y].pc \in OnTask PROVE duty'[y].task < NumTasks
      <4>1. at'[y] = at[y] /\ duty'[y].task = duty[y].task
        BY <3>1 DEF Searchers
      <4> QED
        BY <2>1, <3>1, <4>1 DEF SplitFits
    <3> QED
      BY <3>1
  <2>4. SplitFits'
    BY <2>1, <2>3, ZenonT(60) DEF SplitFits, Splits, ListFits, MovesOf, NumTasks, OnTask, Searching, route, game
  <2> QED
    BY <2>1, <2>2, <2>4 DEF Roles, route, env, game, Main, Searching
<1> QED
  BY <1>1, <1>3, <1>4 DEF Fits, Shape, Searchers, Main

\* A worker that is not in a search has no frames.
LEMMA RestShaped ==
    ASSUME Fits, NEW w \in Workers, UNCHANGED <<game, stack>>, stack[w] = <<>>,
           at'[w].pc \notin Searching
    PROVE  Shaped(w)'
<1>1. stack'[w] = <<>>
  OBVIOUS
<1> QED
  BY <1>1 DEF Shaped, ShapedAs, StateFits, Searching

LEMMA WorkerFacts ==
    ASSUME Fits, NEW w \in Workers
    PROVE  /\ w \in Searchers /\ slot[w] \in Slots /\ duty[w] \in Duties
           /\ slot \in [Workers -> Slots] /\ duty \in [Workers -> Duties]
           /\ nextIndex \in Nat /\ best \in Nat /\ results \in Seq(Verdicts)
           /\ tasks \in Seq(Pairs) /\ NumTasks \in Nat
           /\ at[w].pc # "idle" => phase = "join" /\ SplitFits
           /\ at[w].pc \notin Searching => stack[w] = <<>>
<1>1. NumTasks \in Nat
  BY DEF Fits, TypeOK, SplitOK, NumTasks
<1>2. w \in Searchers
  BY DEF Searchers
<1>3. at[w].pc \notin Searching => stack[w] = <<>>
  BY <1>2, SearcherFacts DEF ShapedAs, StateFits
<1>4. at[w].pc # "idle" => phase = "join" /\ SplitFits
  BY DEF Fits, Shape, Roles
<1> QED
  BY <1>1, <1>2, <1>3, <1>4 DEF Fits, TypeOK, SplitOK

\* Where a worker goes next, and that nobody else moves.
LEMMA NowFacts ==
    ASSUME Fits, NEW w \in Workers, NEW l \in Labels, Now(w, l)
    PROVE  /\ at' \in [Searchers -> States] /\ at'[w].pc = l /\ at'[w].ret = at[w].ret
           /\ \A y \in Searchers \ {w} : at'[y] = at[y]
BY Labelled DEF Now, Searchers

LEMMA LabelFacts ==
    /\ "idle" \in Labels /\ "claim" \in Labels /\ "announce" \in Labels /\ "clear" \in Labels
    /\ "recheck" \in Labels /\ "record" \in Labels /\ "notify" \in Labels /\ "leave" \in Labels
    /\ \A l \in Labels \ Searching :
         l \in {"idle", "claim", "announce", "clear", "recheck", "record", "notify", "leave"}
    /\ "idle" \notin Searching /\ "claim" \notin Searching /\ "announce" \notin Searching
    /\ "clear" \notin Searching /\ "recheck" \notin Searching /\ "record" \notin Searching
    /\ "notify" \notin Searching /\ "leave" \notin Searching
    /\ "claim" \notin OnTask /\ "leave" \notin OnTask /\ "idle" \notin OnTask
    /\ "announce" \in OnTask /\ "clear" \in OnTask /\ "recheck" \in OnTask
    /\ "record" \in OnTask /\ "notify" \in OnTask /\ Searching \subseteq OnTask
BY DEF Labels, Searching, OnTask

LEMMA SplitKept ==
    ASSUME Fits, UNCHANGED tasks, nextIndex' \in Nat, best' \in Nat, results' \in Seq(Verdicts),
           slot' \in [Workers -> Slots], duty' \in [Workers -> Duties]
    PROVE  SplitOK'
BY DEF Fits, TypeOK, SplitOK, Slots, Duties, Verdicts, Pairs

LEMMA ClaimFits == ASSUME Fits, NEW w \in Workers, Claim(w) PROVE Fits'
<1> DEFINE l == IF nextIndex >= NumTasks \/ nextIndex > best \/ cancelled THEN "leave" ELSE "announce"
<1>1. /\ at[w].pc = "claim" /\ nextIndex' = nextIndex + 1
      /\ duty' = [duty EXCEPT ![w].task = nextIndex] /\ Now(w, l)
      /\ UNCHANGED <<game, table, stack, aborted, timedOut, best, results, slot, route, sols, env>>
  BY DEF Claim
<1>2. l \in Labels /\ l \notin Searching /\ (l \in OnTask => nextIndex < NumTasks)
  <2>1. nextIndex \in Nat /\ NumTasks \in Nat
    BY WorkerFacts
  <2> QED
    BY <2>1, LabelFacts
<1> HIDE DEF l
<1>3. /\ at' \in [Searchers -> States] /\ at'[w].pc = l
      /\ \A y \in Searchers \ {w} : at'[y] = at[y]
  BY <1>1, <1>2, NowFacts
<1>4. /\ phase = "join" /\ SplitFits /\ stack[w] = <<>>
      /\ nextIndex \in Nat /\ best \in Nat /\ results \in Seq(Verdicts)
      /\ slot \in [Workers -> Slots] /\ duty \in [Workers -> Duties]
  BY <1>1, WorkerFacts, LabelFacts
<1>5. /\ duty' \in [Workers -> Duties] /\ duty'[w].task = nextIndex
      /\ \A y \in Workers \ {w} : duty'[y] = duty[y]
  <2>1. [duty[w] EXCEPT !.task = nextIndex] \in Duties /\ [duty[w] EXCEPT !.task = nextIndex].task = nextIndex
    BY <1>4, DutyFacts
  <2> QED
    BY <1>1, <1>4, <2>1
<1>6. SplitOK'
  BY <1>1, <1>4, <1>5, SplitKept DEF route
<1>7. Shaped(w)'
  BY <1>1, <1>2, <1>3, <1>4, RestShaped
<1>8. aborted' \in [Searchers -> BOOLEAN] /\ Len(results') = NumTasks /\ best' <= NumTasks
  BY <1>1, <1>4 DEF SplitFits, Fits, TypeOK, SearchOK
<1> QED
  BY <1>1, <1>2, <1>3, <1>4, <1>5, <1>6, <1>7, <1>8, WorkerFits

\* A worker at a label of its own, whose duty stays what it is.
LEMMA QuietFits ==
    ASSUME Fits, NEW w \in Workers, at[w].pc # "idle", stack[w] = <<>>, NEW l \in Labels \ Searching,
           Now(w, l), l \in OnTask => at[w].pc \in OnTask,
           UNCHANGED <<game, table, stack, timedOut, route, sols, env, nextIndex>>,
           aborted' \in [Searchers -> BOOLEAN],
           slot' \in [Workers -> Slots], duty' \in [Workers -> Duties],
           \A y \in Workers : duty'[y].task = duty[y].task,
           results' \in Seq(Verdicts), best' \in Nat, Len(results') = Len(results), best' <= best
    PROVE  Fits'
<1>1. /\ at' \in [Searchers -> States] /\ at'[w].pc = l
      /\ \A y \in Searchers \ {w} : at'[y] = at[y]
  BY NowFacts
<1>2. /\ phase = "join" /\ SplitFits /\ nextIndex \in Nat /\ best \in Nat /\ NumTasks \in Nat
  BY WorkerFacts
<1>3. SplitOK'
  BY <1>2, SplitKept DEF route
<1>4. Shaped(w)'
  BY <1>1, RestShaped
<1>5. Len(results') = NumTasks /\ best' <= NumTasks
  BY <1>2 DEF SplitFits
<1>6. at'[w].pc \in OnTask => duty'[w].task < NumTasks
  BY <1>1, <1>2 DEF SplitFits
<1> QED
  BY <1>1, <1>2, <1>3, <1>4, <1>5, <1>6, WorkerFits

LEMMA StillFits ==
    ASSUME Fits, NEW w \in Workers, at[w].pc # "idle", stack[w] = <<>>, NEW l \in Labels \ Searching,
           Now(w, l), at[w].pc \in OnTask,
           UNCHANGED <<game, table, stack, timedOut, route, sols, env>>,
           UNCHANGED <<nextIndex, best, results, duty>>,
           aborted' \in [Searchers -> BOOLEAN], slot' \in [Workers -> Slots]
    PROVE  Fits'
<1>1. /\ nextIndex' = nextIndex /\ duty' \in [Workers -> Duties]
      /\ \A y \in Workers : duty'[y].task = duty[y].task
      /\ results' \in Seq(Verdicts) /\ best' \in Nat /\ Len(results') = Len(results) /\ best' <= best
  BY WorkerFacts
<1> QED
  BY <1>1, QuietFits

LEMMA FlagsTyped ==
    ASSUME Fits
    PROVE  /\ aborted \in [Searchers -> BOOLEAN] /\ timedOut \in [Searchers -> BOOLEAN]
           /\ slot \in [Workers -> Slots]
BY DEF Fits, TypeOK, SearchOK, SplitOK

LEMMA AnnounceFits == ASSUME Fits, NEW w \in Workers, Announce(w) PROVE Fits'
<1>1. /\ at[w].pc = "announce" /\ slot' = [slot EXCEPT ![w].current = duty[w].task] /\ Now(w, "clear")
      /\ UNCHANGED <<game, table, stack, aborted, timedOut, nextIndex, best, results, duty, route, sols, env>>
  BY DEF Announce
<1>2. slot' \in [Workers -> Slots]
  <2>1. [slot[w] EXCEPT !.current = duty[w].task] \in Slots
    BY WorkerFacts, DutyFacts, SlotFacts
  <2> QED
    BY <1>1, <2>1, WorkerFacts
<1>3. at[w].pc # "idle" /\ stack[w] = <<>> /\ at[w].pc \in OnTask /\ "clear" \in Labels \ Searching
  BY <1>1, WorkerFacts, LabelFacts
<1> QED
  BY <1>1, <1>2, <1>3, FlagsTyped, StillFits

LEMMA ClearFits == ASSUME Fits, NEW w \in Workers, Clear(w) PROVE Fits'
<1>1. /\ at[w].pc = "clear" /\ slot' = [slot EXCEPT ![w].cancel = FALSE] /\ Now(w, "recheck")
      /\ aborted' = [aborted EXCEPT ![w] = FALSE]
      /\ UNCHANGED <<game, table, stack, timedOut, nextIndex, best, results, duty, route, sols, env>>
  BY DEF Clear
<1>2. slot' \in [Workers -> Slots]
  <2>1. FALSE \in BOOLEAN
    OBVIOUS
  <2>2. [slot[w] EXCEPT !.cancel = FALSE] \in Slots
    BY <2>1, WorkerFacts, SlotFacts
  <2> QED
    BY <1>1, <2>2, WorkerFacts
<1>3. at[w].pc # "idle" /\ stack[w] = <<>> /\ at[w].pc \in OnTask /\ "recheck" \in Labels \ Searching
  BY <1>1, WorkerFacts, LabelFacts
<1>4. aborted' \in [Searchers -> BOOLEAN]
  <2>1. aborted \in [Searchers -> BOOLEAN] /\ FALSE \in BOOLEAN
    BY DEF Fits, TypeOK, SearchOK
  <2> QED
    BY <1>1, <2>1, Zenon
<1> QED
  BY <1>1, <1>2, <1>3, <1>4, StillFits

LEMMA JudgeFits == ASSUME Fits, NEW w \in Workers, Judge(w) PROVE Fits'
<1> DEFINE l == CASE timedOut[w] -> "leave"
                  [] ~timedOut[w] /\ (aborted[w] \/ ~at[w].ret.ok) -> "claim"
                  [] OTHER -> "record"
<1>1. /\ at[w].pc = "return" /\ stack[w] = <<>> /\ Now(w, l)
      /\ UNCHANGED <<game, table, stack, aborted, timedOut, pool, route, sols, env>>
  BY DEF Judge
<1>2. l \in Labels \ Searching
  BY LabelFacts
<1>3. at[w].pc # "idle" /\ at[w].pc \in OnTask
  BY <1>1 DEF OnTask, Searching
<1> HIDE DEF l
<1> QED
  BY <1>1, <1>2, <1>3, FlagsTyped, StillFits DEF pool

LEMMA UnlockFits == ASSUME Fits, NEW w \in Workers, Unlock(w) PROVE Fits'
<1>1. /\ at[w].pc = "notify" /\ Now(w, "claim")
      /\ UNCHANGED <<game, table, stack, aborted, timedOut, pool, route, sols, env>>
  BY DEF Unlock
<1>2. at[w].pc # "idle" /\ stack[w] = <<>> /\ at[w].pc \in OnTask /\ "claim" \in Labels \ Searching
  BY <1>1, WorkerFacts, LabelFacts
<1> QED
  BY <1>1, <1>2, FlagsTyped, StillFits DEF pool

LEMMA TaskFacts ==
    ASSUME Fits, NEW w \in Workers, at[w].pc \in OnTask
    PROVE  /\ duty[w].task + 1 \in 1 .. NumTasks /\ duty[w].task \in 0 .. NumTasks - 1
           /\ Task(w) = tasks[duty[w].task + 1] /\ Task(w) \in Pairs
           /\ Task(w)[1] \in MovesOf(Root) /\ Task(w)[2] \in MovesOf(moves[Root][Task(w)[1]])
           /\ After(Task(w)) \in Positions
<1>1. at[w].pc # "idle"
  BY LabelFacts
<1>2. SplitFits /\ duty[w].task \in Nat /\ NumTasks \in Nat /\ tasks \in Seq(Pairs)
  BY <1>1, WorkerFacts, DutyFacts
<1>3. duty[w].task < NumTasks
  BY <1>2 DEF SplitFits
<1>4. duty[w].task + 1 \in 1 .. NumTasks /\ duty[w].task \in 0 .. NumTasks - 1
  BY <1>2, <1>3
<1>5. Task(w) \in Pairs
  BY <1>2, <1>4 DEF Task, NumTasks
<1>6. Task(w)[1] \in MovesOf(Root) /\ Task(w)[2] \in MovesOf(moves[Root][Task(w)[1]])
  BY <1>2, <1>4 DEF Task, NumTasks, SplitFits, ListFits
<1>7. moves[Root][Task(w)[1]] \in Positions
  BY <1>6, HelpAssumption, StepFacts DEF Fits, TypeOK
<1>8. After(Task(w)) \in Positions
  BY <1>6, <1>7, StepFacts DEF Fits, TypeOK, After
<1> QED
  BY <1>4, <1>5, <1>6, <1>8 DEF Task

LEMMA RecheckFits == ASSUME Fits, NEW w \in Workers, Recheck(w) PROVE Fits'
<1>1. /\ at[w].pc = "recheck"
      /\ UNCHANGED <<game, table, stack, aborted, timedOut, pool, route, sols, env>>
  BY DEF Recheck
<1>2. /\ at[w].pc # "idle" /\ stack[w] = <<>> /\ at[w].pc \in OnTask
      /\ "claim" \in Labels \ Searching /\ phase = "join" /\ SplitFits /\ w \in Searchers
  BY <1>1, WorkerFacts, LabelFacts
<1>3. CASE duty[w].task > best
  <2>1. Now(w, "claim")
    BY <1>3 DEF Recheck
  <2> QED
    BY <1>1, <1>2, <2>1, FlagsTyped, StillFits DEF pool
<1>4. CASE ~(duty[w].task > best)
  <2>1. Enter(w, After(Task(w)), 2 * depth - 2)
    BY <1>4 DEF Recheck
  <2>2. w # Main
    BY HelpAssumption
  <2>3. /\ AskedPos(w) = After(Task(w)) /\ AskedPlies(w) = 2 * depth - 2
        /\ AskedPlies(w) \in 0 .. MaxPlies /\ After(Task(w)) \in Positions
    BY <1>2, <2>2, SearcherFacts, TaskFacts DEF AskedPos, AskedPlies
  <2>4. /\ at' \in [Searchers -> States] /\ at'[w].pc = "enter"
        /\ at'[w].pos = AskedPos(w) /\ at'[w].plies = AskedPlies(w)
        /\ \A y \in Searchers \ {w} : at'[y] = at[y]
    BY <1>2, <2>1, <2>3, Entered
  <2>5. ShapedAs(at'[w], stack'[w], AskedPos(w), AskedPlies(w))
    <3>1. stack'[w] = <<>>
      BY <1>1, <1>2
    <3> QED
      BY <2>3, <2>4, <3>1 DEF ShapedAs, StateFits, CalledPos, Searching
  <2>6. AskedPos(w)' = AskedPos(w) /\ AskedPlies(w)' = AskedPlies(w)
    BY <1>1, AskedKept DEF route, pool
  <2>7. Shaped(w)'
    BY <1>1, <2>5, <2>6, ShapedKept
  <2>8. SplitOK' /\ aborted' \in [Searchers -> BOOLEAN]
    BY <1>1, WorkerFacts, SplitKept DEF pool, route, Fits, TypeOK, SearchOK
  <2>9. duty'[w].task < NumTasks /\ Len(results') = NumTasks /\ best' <= NumTasks
    BY <1>1, <1>2 DEF SplitFits, pool
  <2> QED
    BY <1>1, <1>2, <2>4, <2>7, <2>8, <2>9, WorkerFits DEF pool
<1> QED
  BY <1>3, <1>4

LEMMA PairFacts == ASSUME NEW u \in Pairs PROVE u = <<u[1], u[2]>> /\ u \in Seq(Nat)
<1>1. PICK m \in Nat, r \in Nat : u = <<m, r>>
  BY DEF Pairs
<1>2. <<m, r>> \in Seq(Nat)
  OBVIOUS
<1> QED
  BY <1>1, <1>2

LEMMA DutyKept ==
    ASSUME Fits, NEW w \in Workers, NEW d \in Duties, duty' = [duty EXCEPT ![w] = d],
           d.task = duty[w].task
    PROVE  duty' \in [Workers -> Duties] /\ \A y \in Workers : duty'[y].task = duty[y].task
<1>1. duty \in [Workers -> Duties]
  BY WorkerFacts
<1>2. duty' \in [Workers -> Duties] /\ duty'[w] = d /\ \A y \in Workers \ {w} : duty'[y] = duty[y]
  BY <1>1
<1> QED
  BY <1>2

LEMMA RecordFits == ASSUME Fits, NEW w \in Workers, Record(w) PROVE Fits'
<1> DEFINE found == Found(Task(w) \o at[w].ret.line)
           i == duty[w].task + 1
           d == [duty[w] EXCEPT !.look = Workers]
<1>1. /\ at[w].pc = "record" /\ results' = [results EXCEPT ![i] = found]
      /\ best' = (IF duty[w].task < best THEN duty[w].task ELSE best)
      /\ duty' = [duty EXCEPT ![w] = d] /\ Now(w, "notify")
      /\ UNCHANGED <<game, table, stack, aborted, timedOut, nextIndex, slot, route, sols, env>>
  BY DEF Record
<1>2. /\ at[w].pc # "idle" /\ stack[w] = <<>> /\ at[w].pc \in OnTask
      /\ "notify" \in Labels \ Searching /\ w \in Searchers
  BY <1>1, WorkerFacts, LabelFacts
<1>3. SplitFits /\ results \in Seq(Verdicts) /\ best \in Nat /\ duty[w].task \in Nat
  BY <1>2, WorkerFacts, DutyFacts
<1>4. i \in 1 .. Len(results)
  BY <1>2, <1>3, TaskFacts DEF SplitFits
<1>5. found \in Verdicts
  <2>1. Task(w) \in Seq(Nat) /\ at[w].ret.line \in Seq(Nat)
    BY <1>2, TaskFacts, PairFacts, SearcherFacts, VerdictParts
  <2>2. Task(w) \o at[w].ret.line \in Seq(Nat)
    BY <2>1
  <2> QED
    BY <2>2, VerdictFacts
<1>6. d \in Duties /\ d.task = duty[w].task
  BY WorkerFacts, DutyFacts
<1> HIDE DEF found, i, d
<1>7. results' \in Seq(Verdicts) /\ Len(results') = Len(results)
  BY <1>1, <1>3, <1>4, <1>5
<1>8. best' \in Nat /\ best' <= best
  BY <1>1, <1>3
<1>9. duty' \in [Workers -> Duties] /\ \A y \in Workers : duty'[y].task = duty[y].task
  BY <1>1, <1>6, DutyKept
<1>10. aborted' \in [Searchers -> BOOLEAN] /\ slot' \in [Workers -> Slots]
  BY <1>1, FlagsTyped
<1> QED
  BY <1>1, <1>2, <1>7, <1>8, <1>9, <1>10, QuietFits

\* A worker that stays at its label, and its duty and the slots that change.
LEMMA NotifyFits ==
    ASSUME Fits, NEW w \in Workers, at[w].pc = "notify",
           UNCHANGED <<game, table, at, stack, aborted, timedOut, nextIndex, best, results, route, sols, env>>,
           slot' \in [Workers -> Slots], duty' \in [Workers -> Duties],
           \A y \in Workers : duty'[y].task = duty[y].task
    PROVE  Fits'
<1>1. /\ at[w].pc # "idle" /\ stack[w] = <<>> /\ at[w].pc \in OnTask
      /\ phase = "join" /\ SplitFits /\ nextIndex \in Nat /\ best \in Nat /\ results \in Seq(Verdicts)
  BY WorkerFacts, LabelFacts
<1>2. SplitOK'
  BY <1>1, SplitKept DEF route
<1>3. at' \in [Searchers -> States] /\ aborted' \in [Searchers -> BOOLEAN]
  BY DEF Fits, TypeOK, SearchOK
<1>4. Shaped(w)'
  BY <1>1, RestShaped, LabelFacts
<1>5. Len(results') = NumTasks /\ best' <= NumTasks /\ duty'[w].task < NumTasks
  BY <1>1 DEF SplitFits
<1> QED
  BY <1>1, <1>2, <1>3, <1>4, <1>5, WorkerFits

LEMMA LookFits == ASSUME Fits, NEW w \in Workers, Look(w) PROVE Fits'
<1>1. PICK o \in duty[w].look :
        duty' = [duty EXCEPT ![w].look = @ \ {o},
                             ![w].hit = IF slot[o].current > best THEN {o} ELSE {}]
  BY DEF Look
<1> DEFINE c == [duty[w] EXCEPT !.look = @ \ {o}]
           h == IF slot[o].current > best THEN {o} ELSE {}
           d == [c EXCEPT !.hit = h]
<1>2. duty[w] \in Duties /\ duty[w].look \ {o} \in SUBSET Workers /\ h \in SUBSET Workers
  BY WorkerFacts, DutyFacts
<1>3. c \in Duties /\ c.task = duty[w].task
  BY <1>2, DutyFacts
<1>4. d \in Duties /\ d.task = duty[w].task
  <2> HIDE DEF c, h
  <2> QED
    BY <1>2, <1>3, DutyFacts
<1>5. duty' = [duty EXCEPT ![w] = d]
  BY <1>1, WorkerFacts
<1> HIDE DEF d
<1>6. duty' \in [Workers -> Duties] /\ \A y \in Workers : duty'[y].task = duty[y].task
  BY <1>4, <1>5, DutyKept
<1>7. /\ at[w].pc = "notify"
      /\ UNCHANGED <<game, table, at, stack, aborted, timedOut, nextIndex, best, results, slot, route, sols, env>>
  BY DEF Look
<1> QED
  BY <1>6, <1>7, FlagsTyped, NotifyFits

LEMMA CancelSlotFits == ASSUME Fits, NEW w \in Workers, CancelSlot(w) PROVE Fits'
<1> DEFINE d == [duty[w] EXCEPT !.hit = {}]
<1>1. /\ at[w].pc = "notify"
      /\ slot' = [o \in Workers |-> IF o \in duty[w].hit THEN [slot[o] EXCEPT !.cancel = TRUE] ELSE slot[o]]
      /\ duty' = [duty EXCEPT ![w] = d]
      /\ UNCHANGED <<game, table, at, stack, aborted, timedOut, nextIndex, best, results, route, sols, env>>
  BY DEF CancelSlot
<1>2. d \in Duties /\ d.task = duty[w].task
  <2>1. {} \in SUBSET Workers /\ duty[w] \in Duties
    BY WorkerFacts
  <2> QED
    BY <2>1, DutyFacts
<1> HIDE DEF d
<1>3. duty' \in [Workers -> Duties] /\ \A y \in Workers : duty'[y].task = duty[y].task
  BY <1>1, <1>2, DutyKept
<1>4. slot' \in [Workers -> Slots]
  <2>1. TRUE \in BOOLEAN
    OBVIOUS
  <2>2. \A o \in Workers : slot[o] \in Slots /\ [slot[o] EXCEPT !.cancel = TRUE] \in Slots
    BY <2>1, FlagsTyped, SlotFacts
  <2> QED
    BY <1>1, <2>2
<1> QED
  BY <1>1, <1>3, <1>4, NotifyFits

LEMMA LeaveFits == ASSUME Fits, NEW w \in Workers, Leave(w) PROVE Fits'
<1>1. /\ at[w].pc = "leave" /\ slot' = [slot EXCEPT ![w].current = NumTasks] /\ Do(w, Idle)
      /\ UNCHANGED <<game, table, stack, aborted, timedOut, nextIndex, best, results, duty, route, sols, env>>
  BY DEF Leave
<1>2. /\ at[w].pc # "idle" /\ stack[w] = <<>> /\ phase = "join" /\ SplitFits /\ w \in Searchers
      /\ nextIndex \in Nat /\ best \in Nat /\ results \in Seq(Verdicts) /\ NumTasks \in Nat
      /\ duty \in [Workers -> Duties] /\ slot \in [Workers -> Slots]
  BY <1>1, WorkerFacts, LabelFacts
<1>3. slot' \in [Workers -> Slots]
  <2>1. [slot[w] EXCEPT !.current = NumTasks] \in Slots
    BY <1>2, SlotFacts
  <2> QED
    BY <1>1, <1>2, <2>1
<1>4. /\ at' \in [Searchers -> States] /\ at'[w].pc = "idle"
      /\ \A y \in Searchers \ {w} : at'[y] = at[y]
  BY <1>1, <1>2, IdleFacts, Becomes
<1>5. SplitOK'
  BY <1>1, <1>2, <1>3, SplitKept DEF route
<1>6. Shaped(w)'
  BY <1>1, <1>2, <1>4, LabelFacts, RestShaped
<1>7. Len(results') = NumTasks /\ best' <= NumTasks /\ aborted' \in [Searchers -> BOOLEAN]
  BY <1>1, <1>2, FlagsTyped DEF SplitFits
<1>8. at'[w].pc \notin OnTask /\ \A y \in Workers \ {w} : duty'[y].task = duty[y].task
  BY <1>1, <1>4, LabelFacts
<1> QED
  BY <1>1, <1>2, <1>4, <1>5, <1>6, <1>7, <1>8, WorkerFits

LEMMA WorkFits == ASSUME Fits, NEW w \in Workers, Work(w) PROVE Fits'
BY ClaimFits, AnnounceFits, ClearFits, RecheckFits, JudgeFits, RecordFits, LookFits, CancelSlotFits,
   UnlockFits, LeaveFits DEF Work

-----------------------------------------------------------------------------
(* The route. *)

\* A step of the route while no worker runs.
LEMMA RestedFits ==
    ASSUME Fits, UNCHANGED <<game, stack, table, sols, env, tasks, pool>>,
           at' \in [Searchers -> States],
           \A w \in Workers : at[w].pc = "idle" /\ at'[w] = at[w],
           aborted' \in [Searchers -> BOOLEAN], timedOut' \in [Searchers -> BOOLEAN],
           depth' \in 1 .. MaxDepth, depth' >= depth, answer' \in Seq(Nat),
           phase' \in {"deepen", "search", "done"},
           at'[Main].pc \in (IF phase' = "search" THEN Searching ELSE {"idle"}), Shaped(Main)'
    PROVE  Fits'
<1>1. TypeOK'
  <2>1. GameOK' /\ LinesOK'
    BY GameKept DEF Fits, TypeOK
  <2>2. SearchOK'
    BY DEF SearchOK, Fits, TypeOK, MaxPlies, Searchers, Tables
  <2>3. SplitOK'
    BY DEF Fits, TypeOK, SplitOK, pool
  <2>4. RouteOK'
    BY DEF Fits, TypeOK, RouteOK, env
  <2> QED
    BY <2>1, <2>2, <2>3, <2>4 DEF TypeOK
<1>2. ASSUME NEW w \in Workers PROVE Shaped(w)'
  <2>1. stack[w] = <<>> /\ at'[w].pc \notin Searching
    BY WorkerFacts, LabelFacts
  <2> QED
    BY <2>1, RestShaped
<1>3. Roles'
  <2>1. Roles /\ depth \in 1 .. MaxDepth
    BY DEF Fits, Shape, TypeOK, RouteOK
  <2>2. "direct_depth" \in options => depth' = MaxDepth
    BY <2>1, PliesFacts DEF Roles
  <2> QED
    BY <2>1, <2>2 DEF Roles, env, game, Main, Searching
<1> QED
  BY <1>1, <1>2, <1>3 DEF Fits, Shape, Searchers, Main

LEMMA SettleFacts ==
    ASSUME Fits, NEW proof \in Verdicts, Settle(proof)
    PROVE  /\ depth' \in 1 .. MaxDepth /\ depth' >= depth /\ answer' \in Seq(Nat)
           /\ phase' \in {"deepen", "done"}
<1>1. depth \in 1 .. MaxDepth /\ answer \in Seq(Nat) /\ proof.line \in Seq(Nat) /\ MaxDepth \in Nat
  BY VerdictParts, PliesFacts DEF Fits, TypeOK, RouteOK
<1> QED
  BY <1>1 DEF Settle

\* No worker runs but in a split.
LEMMA RouteFacts ==
    ASSUME Fits
    PROVE  /\ phase # "join" => \A w \in Workers : at[w].pc = "idle"
           /\ at[Main].pc \in (IF phase = "search" THEN Searching ELSE {"idle"})
           /\ depth \in 1 .. MaxDepth /\ answer \in Seq(Nat) /\ sols \in Seq(Seq(Nat))
           /\ at \in [Searchers -> States] /\ stack \in [Searchers -> Seq(Frames)]
           /\ Main \in Searchers /\ Main \notin Workers /\ MaxDepth \in Nat
           /\ phase # "search" => stack[Main] = <<>>
<1>1. /\ phase # "join" => \A w \in Workers : at[w].pc = "idle"
      /\ at[Main].pc \in (IF phase = "search" THEN Searching ELSE {"idle"})
  BY DEF Fits, Shape, Roles
<1>2. /\ depth \in 1 .. MaxDepth /\ answer \in Seq(Nat) /\ sols \in Seq(Seq(Nat))
      /\ at \in [Searchers -> States] /\ stack \in [Searchers -> Seq(Frames)]
  BY DEF Fits, TypeOK, RouteOK, SearchOK
<1>3. Main \in Searchers /\ Main \notin Workers /\ MaxDepth \in Nat
  BY HelpAssumption, PliesFacts DEF Searchers
<1>4. at[Main].pc \notin Searching => stack[Main] = <<>>
  BY <1>3, SearcherFacts DEF ShapedAs, StateFits
<1> QED
  BY <1>1, <1>2, <1>3, <1>4, LabelFacts

\* The caller's own search begins.
LEMMA BeginFits ==
    ASSUME Fits, phase = "deepen", phase' = "search",
           Enter(Main, Root, IF "all" \in options THEN MaxPlies ELSE 2 * depth),
           UNCHANGED <<game, table, stack, aborted, timedOut, pool, sols, env, depth, tasks, answer>>
    PROVE  Fits'
<1> DEFINE k == IF "all" \in options THEN MaxPlies ELSE 2 * depth
<1>1. k = AskedPlies(Main) /\ k \in 0 .. MaxPlies /\ Root = AskedPos(Main) /\ Root \in Positions
  BY RouteFacts, SearcherFacts, HelpAssumption DEF AskedPlies, AskedPos
<1> HIDE DEF k
<1>2. /\ at' \in [Searchers -> States] /\ at'[Main].pc = "enter"
      /\ at'[Main].pos = AskedPos(Main) /\ at'[Main].plies = AskedPlies(Main)
      /\ \A y \in Searchers \ {Main} : at'[y] = at[y]
  BY <1>1, RouteFacts, Entered DEF k
<1>3. ShapedAs(at'[Main], stack'[Main], AskedPos(Main), AskedPlies(Main))
  <2>1. stack'[Main] = <<>>
    BY RouteFacts
  <2> QED
    BY <1>1, <1>2, <2>1 DEF ShapedAs, StateFits, CalledPos, Searching
<1>4. AskedPos(Main)' = AskedPos(Main) /\ AskedPlies(Main)' = AskedPlies(Main)
  BY AskedKept DEF pool
<1>5. Shaped(Main)'
  BY <1>3, <1>4, ShapedKept
<1>6. \A w \in Workers : at[w].pc = "idle" /\ at'[w] = at[w]
  BY <1>2, RouteFacts DEF Searchers
<1>7. depth' \in 1 .. MaxDepth /\ depth' >= depth /\ answer' \in Seq(Nat)
  BY RouteFacts
<1>8. at'[Main].pc \in (IF phase' = "search" THEN Searching ELSE {"idle"})
  BY <1>2 DEF Searching
<1> QED
  BY <1>2, <1>5, <1>6, <1>7, <1>8, FlagsTyped, RestedFits

\* The caller's own search ends, or its route does without one.
LEMMA EndFits ==
    ASSUME Fits, phase \in {"search", "deepen"}, at' = at \/ Do(Main, Idle),
           phase = "deepen" => at' = at, phase = "search" => Do(Main, Idle) /\ stack[Main] = <<>>,
           UNCHANGED <<game, table, stack, aborted, pool, sols, env, tasks>>,
           timedOut' \in [Searchers -> BOOLEAN],
           depth' \in 1 .. MaxDepth, depth' >= depth, answer' \in Seq(Nat),
           phase' \in {"deepen", "done"}
    PROVE  Fits'
<1>1. /\ at' \in [Searchers -> States] /\ at'[Main].pc = "idle"
      /\ \A y \in Searchers \ {Main} : at'[y] = at[y]
  <2>1. CASE phase = "deepen"
    BY <2>1, RouteFacts
  <2>2. CASE phase = "search"
    BY <2>2, RouteFacts, IdleFacts, Becomes
  <2> QED
    BY <2>1, <2>2
<1>2. \A w \in Workers : at[w].pc = "idle" /\ at'[w] = at[w]
  BY <1>1, RouteFacts DEF Searchers
<1>3. Shaped(Main)'
  <2>1. stack'[Main] = <<>> /\ at'[Main].pc \notin Searching
    BY <1>1, RouteFacts, LabelFacts
  <2> QED
    BY <2>1 DEF Shaped, ShapedAs, StateFits, Searching
<1> QED
  BY <1>1, <1>2, <1>3, FlagsTyped, RestedFits

LEMMA EmptySplitFits ==
    ASSUME Fits, phase = "deepen", TaskList = <<>>, StartSplit
    PROVE  Fits'
<1>1. /\ UNCHANGED <<at, pool>> /\ UNCHANGED timedOut /\ Settle(Nothing) /\ tasks' = TaskList
      /\ UNCHANGED <<game, table, stack, aborted, sols, env>>
  BY DEF StartSplit
<1>2. /\ depth' \in 1 .. MaxDepth /\ depth' >= depth /\ answer' \in Seq(Nat)
      /\ phase' \in {"deepen", "done"}
  BY <1>1, SettleFacts, VerdictFacts
<1>3. TaskList \in Seq(Pairs)
  BY TaskListFits DEF Fits, TypeOK
<1>4. TypeOK'
  <2>1. GameOK' /\ LinesOK'
    BY <1>1, GameKept DEF Fits, TypeOK
  <2>2. SearchOK'
    BY <1>1 DEF SearchOK, Fits, TypeOK, MaxPlies, Searchers, Tables
  <2>3. SplitOK'
    BY <1>1, <1>3 DEF Fits, TypeOK, SplitOK, pool
  <2>4. RouteOK'
    BY <1>1, <1>2 DEF Fits, TypeOK, RouteOK, env
  <2> QED
    BY <2>1, <2>2, <2>3, <2>4 DEF TypeOK
<1>5. ASSUME NEW x \in Searchers PROVE Shaped(x)'
  <2>1. at'[x].pc \notin Searching
    BY <1>1, RouteFacts, LabelFacts DEF Searchers
  <2>2. stack'[x] = <<>>
    BY <1>1, <2>1, SearcherFacts DEF ShapedAs, StateFits
  <2> QED
    BY <2>1, <2>2 DEF Shaped, ShapedAs, StateFits, Searching
<1>6. Roles'
  <2>1. Roles /\ depth \in 1 .. MaxDepth
    BY DEF Fits, Shape, TypeOK, RouteOK
  <2>2. "direct_depth" \in options => depth' = MaxDepth
    BY <1>2, <2>1, PliesFacts DEF Roles
  <2> QED
    BY <1>1, <1>2, <2>1, <2>2 DEF Roles, env, game, Main, Searching
<1> QED
  BY <1>4, <1>5, <1>6 DEF Fits, Shape, Searchers, Main

\* What the start of a split leaves.
LEMMA StartFacts ==
    ASSUME Fits, TaskList # <<>>, StartSplit
    PROVE  /\ phase = "deepen" /\ phase' = "join" /\ Splits /\ "all" \notin options
           /\ tasks' = TaskList /\ TaskList \in Seq(Pairs) /\ ListFits(TaskList, Len(moves[Root]))
           /\ nextIndex' = 0 /\ best' = Len(TaskList)
           /\ results' = [i \in 1 .. Len(TaskList) |-> Nothing]
           /\ slot' = [w \in Workers |-> [current |-> Len(TaskList), cancel |-> FALSE]]
           /\ at' \in [Searchers -> States] /\ at'[Main] = at[Main]
           /\ at'[Caller].pc = "claim" /\ \A w \in Workers : at'[w].pc \in {"idle", "claim"}
           /\ UNCHANGED <<duty, depth, answer, timedOut, game, table, stack, aborted, sols, env>>
<1>1. /\ phase = "deepen" /\ phase' = "join" /\ Splits /\ "all" \notin options
      /\ tasks' = TaskList
      /\ nextIndex' = 0 /\ best' = Len(TaskList)
      /\ results' = [i \in 1 .. Len(TaskList) |-> Nothing]
      /\ slot' = [w \in Workers |-> [current |-> Len(TaskList), cancel |-> FALSE]]
      /\ UNCHANGED <<duty, depth, answer, timedOut, game, table, stack, aborted, sols, env>>
  BY DEF StartSplit, Deepening
<1>2. PICK started \in {S \in SUBSET Workers : Caller \in S} :
        at' = [x \in Searchers |-> IF x \in started THEN [Idle EXCEPT !.pc = "claim"] ELSE at[x]]
  BY DEF StartSplit
<1>3. [Idle EXCEPT !.pc = "claim"] \in States /\ [Idle EXCEPT !.pc = "claim"].pc = "claim"
  <2>1. Idle \in States /\ "claim" \in Labels
    BY IdleFacts, LabelFacts
  <2> HIDE DEF Idle
  <2> QED
    BY <2>1, StateFacts
<1>4. at' \in [Searchers -> States] /\ at'[Main] = at[Main]
  <2> DEFINE c == [Idle EXCEPT !.pc = "claim"]
  <2> HIDE DEF c
  <2> QED
    BY <1>2, <1>3, RouteFacts DEF c
<1>5. at'[Caller].pc = "claim" /\ \A w \in Workers : at'[w].pc \in {"idle", "claim"}
  <2>1. Workers \subseteq Searchers /\ Caller \in Searchers /\ Caller \in started
    BY HelpAssumption DEF Searchers
  <2>2. \A w \in Workers : at[w].pc = "idle"
    BY <1>1, RouteFacts
  <2> QED
    BY <1>2, <1>3, <2>1, <2>2
<1>6. TaskList \in Seq(Pairs) /\ ListFits(TaskList, Len(moves[Root]))
  BY TaskListFits DEF Fits, TypeOK
<1> QED
  BY <1>1, <1>4, <1>5, <1>6

LEMMA StartFits == ASSUME Fits, TaskList # <<>>, StartSplit PROVE Fits'
<1>1. /\ phase = "deepen" /\ phase' = "join" /\ Splits /\ "all" \notin options
      /\ tasks' = TaskList /\ TaskList \in Seq(Pairs) /\ ListFits(TaskList, Len(moves[Root]))
      /\ nextIndex' = 0 /\ best' = Len(TaskList)
      /\ results' = [i \in 1 .. Len(TaskList) |-> Nothing]
      /\ slot' = [w \in Workers |-> [current |-> Len(TaskList), cancel |-> FALSE]]
      /\ at' \in [Searchers -> States] /\ at'[Main] = at[Main]
      /\ \A w \in Workers : at'[w].pc \in {"idle", "claim"}
      /\ UNCHANGED <<duty, depth, answer, timedOut, game, table, stack, aborted, sols, env>>
  BY StartFacts
<1>2. Len(TaskList) \in Nat
  BY <1>1
<1>3. TypeOK'
  <2>1. GameOK' /\ LinesOK'
    BY <1>1, GameKept DEF Fits, TypeOK
  <2>2. SearchOK'
    BY <1>1 DEF SearchOK, Fits, TypeOK, MaxPlies, Searchers, Tables
  <2>3. slot' \in [Workers -> Slots] /\ results' \in Seq(Verdicts) /\ Len(results') = Len(TaskList)
    <3>1. [current |-> Len(TaskList), cancel |-> FALSE] \in Slots
      <4>1. FALSE \in BOOLEAN
        OBVIOUS
      <4> QED
        BY <1>2, <4>1, Zenon DEF Slots
    <3> DEFINE s == [current |-> Len(TaskList), cancel |-> FALSE]
               v == Nothing
               n == Len(TaskList)
    <3>2. v \in Verdicts /\ results' = [i \in 1 .. n |-> v] /\ n \in Nat
      BY <1>1, <1>2, VerdictFacts
    <3>3. slot' \in [Workers -> Slots]
      BY <1>1, <3>1, Zenon
    <3> HIDE DEF v, n
    <3>4. results' \in Seq(Verdicts) /\ Len(results') = n
      BY <3>2
    <3> QED
      BY <3>3, <3>4 DEF n
  <2>4. SplitOK'
    BY <1>1, <1>2, <2>3 DEF Fits, TypeOK, SplitOK
  <2>5. RouteOK'
    BY <1>1 DEF Fits, TypeOK, RouteOK, env
  <2>6. Len(results') = Len(TaskList)
    BY <2>3
  <2> QED
    BY <2>1, <2>2, <2>4, <2>5 DEF TypeOK
<1>4. ASSUME NEW x \in Searchers PROVE Shaped(x)'
  <2>1. at[x].pc \notin Searching /\ at'[x].pc \notin Searching
    BY <1>1, RouteFacts, LabelFacts DEF Searchers
  <2>2. stack'[x] = <<>>
    BY <1>1, <2>1, SearcherFacts DEF ShapedAs, StateFits
  <2> QED
    BY <2>1, <2>2 DEF Shaped, ShapedAs, StateFits, Searching
<1>5. Roles'
  <2>1. Roles
    BY DEF Fits, Shape
  <2>2. at'[Main].pc = "idle"
    BY <1>1, RouteFacts
  <2>3. Len(results') = Len(TaskList)
    BY <1>1, <1>2
  <2>4. SplitFits'
    <3>1. \A w \in Workers : at'[w].pc \notin OnTask
      BY <1>1, LabelFacts
    <3>2. ListFits(tasks, Len(moves[Root]))'
      BY <1>1, ZenonT(60) DEF ListFits, MovesOf, game
    <3>3. Splits' /\ "all" \notin options'
      BY <1>1 DEF Splits, game
    <3>4. Len(results') = NumTasks' /\ best' <= NumTasks'
      BY <1>1, <1>2, <2>3 DEF NumTasks
    <3> QED
      BY <3>1, <3>2, <3>3, <3>4 DEF SplitFits, OnTask, Searching
  <2> QED
    BY <1>1, <2>1, <2>2, <2>4 DEF Roles, env, game, Main, Searching
<1> QED
  BY <1>3, <1>4, <1>5 DEF Fits, Shape, Searchers, Main

LEMMA BestVerdict == ASSUME Fits, phase = "join" PROVE (IF best < NumTasks THEN results[best + 1] ELSE Nothing) \in Verdicts
<1>1. SplitFits /\ best \in Nat /\ results \in Seq(Verdicts) /\ NumTasks \in Nat
  BY DEF Fits, Shape, Roles, TypeOK, SplitOK, NumTasks
<1>2. best < NumTasks => best + 1 \in 1 .. Len(results)
  BY <1>1 DEF SplitFits
<1> QED
  BY <1>1, <1>2, VerdictFacts

\* What joining the workers does to the flags.
LEMMA JoinFlags ==
    ASSUME Fits, Join
    PROVE  /\ aborted' \in [Searchers -> BOOLEAN] /\ timedOut' \in [Searchers -> BOOLEAN]
           /\ aborted'[Main] = aborted[Main] /\ \A w \in Workers : ~aborted'[w]
           /\ timedOut'[Main] = (timedOut[Main] \/ \E w \in Workers : timedOut[w])
           /\ \A w \in Workers : timedOut'[w] = timedOut[w]
<1>1. /\ aborted' = [x \in Searchers |-> x = Main /\ aborted[x]]
      /\ timedOut' = [timedOut EXCEPT ![Main] = @ \/ \E w \in Workers : timedOut[w]]
  BY DEF Join
<1>2. /\ aborted \in [Searchers -> BOOLEAN] /\ timedOut \in [Searchers -> BOOLEAN]
      /\ Main \in Searchers /\ Main \notin Workers /\ Workers \subseteq Searchers
  BY FlagsTyped, RouteFacts DEF Searchers
<1>3. /\ \A x \in Searchers : (x = Main /\ aborted[x]) \in BOOLEAN
      /\ (timedOut[Main] \/ \E w \in Workers : timedOut[w]) \in BOOLEAN
  BY Zenon
<1>4. aborted' \in [Searchers -> BOOLEAN] /\ timedOut' \in [Searchers -> BOOLEAN]
  BY <1>1, <1>2, <1>3, Zenon
<1>5. aborted'[Main] = aborted[Main] /\ \A w \in Workers : ~aborted'[w]
  BY <1>1, <1>2, Zenon
<1>6. /\ timedOut'[Main] = (timedOut[Main] \/ \E w \in Workers : timedOut[w])
      /\ \A w \in Workers : timedOut'[w] = timedOut[w]
  BY <1>1, <1>2, Zenon
<1> QED
  BY <1>4, <1>5, <1>6

LEMMA JoinFits == ASSUME Fits, Join PROVE Fits'
<1>1. /\ phase = "join" /\ \A w \in Workers : at[w].pc = "idle"
      /\ Settle(IF best < NumTasks THEN results[best + 1] ELSE Nothing)
      /\ UNCHANGED <<game, table, at, stack, pool, sols, env, tasks>>
  BY DEF Join
<1>2. /\ depth' \in 1 .. MaxDepth /\ depth' >= depth /\ answer' \in Seq(Nat)
      /\ phase' \in {"deepen", "done"}
  <2> DEFINE v == IF best < NumTasks THEN results[best + 1] ELSE Nothing
  <2>1. v \in Verdicts /\ Settle(v)
    BY <1>1, BestVerdict
  <2> HIDE DEF v
  <2> QED
    BY <2>1, SettleFacts
<1>3. aborted' \in [Searchers -> BOOLEAN] /\ timedOut' \in [Searchers -> BOOLEAN]
  BY JoinFlags
<1>4. at'[Main].pc = "idle" /\ stack'[Main] = <<>>
  BY <1>1, RouteFacts
<1>5. Shaped(Main)'
  BY <1>4, LabelFacts DEF Shaped, ShapedAs, StateFits, Searching
<1> QED
  BY <1>1, <1>2, <1>3, <1>4, <1>5, RouteFacts, RestedFits

LEMMA OutOfTimeFits == ASSUME Fits, OutOfTime PROVE Fits'
<1>1. /\ phase = "deepen" /\ phase' = "done" /\ timedOut' = [timedOut EXCEPT ![Main] = TRUE]
      /\ UNCHANGED <<game, table, at, stack, aborted, pool, sols, env, depth, tasks, answer>>
  BY DEF OutOfTime, Deepening
<1>2. timedOut' \in [Searchers -> BOOLEAN]
  <2>1. TRUE \in BOOLEAN
    OBVIOUS
  <2> QED
    BY <1>1, <2>1, FlagsTyped, Zenon
<1>3. depth' \in 1 .. MaxDepth /\ depth' >= depth /\ answer' \in Seq(Nat)
  BY <1>1, RouteFacts
<1> QED
  BY <1>1, <1>2, <1>3, EndFits

LEMMA EnumeratedFits == ASSUME Fits, Enumerated PROVE Fits'
<1>1. /\ phase = "search" /\ phase' = "done" /\ stack[Main] = <<>> /\ Do(Main, Idle)
      /\ answer' = (IF sols = <<>> THEN answer ELSE Head(sols))
      /\ UNCHANGED <<game, table, stack, aborted, timedOut, pool, sols, env, depth, tasks>>
  BY DEF Enumerated
<1>2. answer' \in Seq(Nat)
  BY <1>1, RouteFacts
<1>3. depth' \in 1 .. MaxDepth /\ depth' >= depth
  BY <1>1, RouteFacts
<1> QED
  BY <1>1, <1>2, <1>3, FlagsTyped, EndFits

LEMMA SearchedAloneFits == ASSUME Fits, SearchedAlone PROVE Fits'
<1>1. /\ phase = "search" /\ stack[Main] = <<>> /\ Do(Main, Idle) /\ timedOut' = timedOut
      /\ Settle(IF aborted[Main] THEN Nothing ELSE at[Main].ret)
      /\ UNCHANGED <<game, table, stack, aborted, pool, sols, env, tasks>>
  BY DEF SearchedAlone
<1>2. /\ depth' \in 1 .. MaxDepth /\ depth' >= depth /\ answer' \in Seq(Nat)
      /\ phase' \in {"deepen", "done"}
  <2> DEFINE v == IF aborted[Main] THEN Nothing ELSE at[Main].ret
  <2>1. v \in Verdicts /\ Settle(v)
    BY <1>1, VerdictFacts, RouteFacts, SearcherFacts
  <2> HIDE DEF v
  <2> QED
    BY <2>1, SettleFacts
<1> QED
  BY <1>1, <1>2, FlagsTyped, EndFits

LEMMA RouteFits == ASSUME Fits, Route PROVE Fits'
<1>1. CASE Enumerate
  <2>1. /\ phase = "deepen" /\ phase' = "search" /\ "all" \in options /\ Enter(Main, Root, MaxPlies)
        /\ UNCHANGED <<game, table, stack, aborted, timedOut, pool, sols, env, depth, tasks, answer>>
    BY <1>1 DEF Enumerate
  <2>2. Enter(Main, Root, IF "all" \in options THEN MaxPlies ELSE 2 * depth)
    BY <2>1
  <2> QED
    BY <2>1, <2>2, BeginFits
<1>2. CASE SearchAlone
  <2>1. /\ phase = "deepen" /\ phase' = "search" /\ "all" \notin options /\ Enter(Main, Root, 2 * depth)
        /\ UNCHANGED <<game, table, stack, aborted, timedOut, pool, sols, env, depth, tasks, answer>>
    BY <1>2 DEF SearchAlone, Deepening
  <2>2. Enter(Main, Root, IF "all" \in options THEN MaxPlies ELSE 2 * depth)
    BY <2>1
  <2> QED
    BY <2>1, <2>2, BeginFits
<1>3. CASE StartSplit
  BY <1>3, EmptySplitFits, StartFits DEF StartSplit, Deepening
<1> QED
  BY <1>1, <1>2, <1>3, OutOfTimeFits, EnumeratedFits, SearchedAloneFits, JoinFits DEF Route

\* The clock, the cancellation of the lane, and a step that changes nothing.
LEMMA EnvFits ==
    ASSUME Fits, UNCHANGED <<game, table, at, stack, aborted, timedOut, pool, route, sols>>,
           late' \in BOOLEAN, cancelled' \in BOOLEAN, "all" \in options => ~cancelled'
    PROVE  Fits'
<1>1. TypeOK'
  <2>1. GameOK' /\ LinesOK'
    BY GameKept DEF Fits, TypeOK
  <2>2. SearchOK'
    BY DEF SearchOK, Fits, TypeOK, MaxPlies, Searchers, Tables
  <2>3. SplitOK'
    BY DEF Fits, TypeOK, SplitOK, pool, route
  <2>4. RouteOK'
    BY DEF Fits, TypeOK, RouteOK, route
  <2> QED
    BY <2>1, <2>2, <2>3, <2>4 DEF TypeOK
<1>2. ASSUME NEW x \in Searchers PROVE Shaped(x)'
  <2>1. AskedPos(x)' = AskedPos(x) /\ AskedPlies(x)' = AskedPlies(x)
    BY AskedKept DEF pool, route
  <2>2. ShapedAs(at'[x], stack'[x], AskedPos(x), AskedPlies(x))
    BY SearcherFacts
  <2> QED
    BY <2>1, <2>2, ShapedKept
<1>3. Roles'
  <2>1. Roles
    BY DEF Fits, Shape
  <2>2. phase = "join" => SplitFits'
    BY <2>1, ZenonT(60) DEF Roles, SplitFits, Splits, ListFits, MovesOf, NumTasks, OnTask, Searching, pool, route, game
  <2> QED
    BY <2>1, <2>2 DEF Roles, route, game, Main, Searching
<1> QED
  BY <1>1, <1>2, <1>3 DEF Fits, Shape, Searchers, Main

LEMMA OutsideFits == ASSUME Fits, Expire \/ CancelLane \/ UNCHANGED vars PROVE Fits'
<1>1. late \in BOOLEAN /\ cancelled \in BOOLEAN /\ ("all" \in options => ~cancelled)
  BY DEF Fits, TypeOK, RouteOK, Shape, Roles
<1>2. CASE Expire
  BY <1>1, <1>2, EnvFits DEF Expire
<1>3. CASE CancelLane
  BY <1>1, <1>3, EnvFits DEF CancelLane
<1>4. CASE UNCHANGED vars
  BY <1>1, <1>4, EnvFits DEF vars, env
<1> QED
  BY <1>2, <1>3, <1>4

LEMMA FitsInductive == ASSUME Fits, [Next \/ Done]_vars PROVE Fits'
BY ProveFits, CollectFits, WorkFits, RouteFits, OutsideFits DEF Next, Done

LEMMA FitsInit == ASSUME Init PROVE Fits
<1>1. PICK c \in Cases : options = c.options /\ moves = c.moves /\ goals = c.goals /\ checks = c.checks
  BY DEF Init
<1>2. GameOK
  BY <1>1, CasesAssumption DEF GameOK
<1>3. LinesOK
  BY <1>2, LinesRecur DEF Init
<1>4. FALSE \in BOOLEAN /\ Main \in Searchers /\ Main \notin Workers /\ MaxDepth \in Nat \ {0}
  BY HelpAssumption DEF Searchers
<1>5. /\ at = [x \in Searchers |-> Idle] /\ stack = [x \in Searchers |-> <<>>]
      /\ table = [t \in Tables |-> [p \in Positions |-> [k \in 1 .. MaxPlies |-> Unknown]]]
      /\ aborted = [x \in Searchers |-> FALSE] /\ timedOut = [x \in Searchers |-> FALSE]
      /\ depth = (IF "direct_depth" \in options THEN MaxDepth ELSE 1) /\ phase = "deepen"
      /\ tasks = <<>> /\ nextIndex = 0 /\ best = 0 /\ results = <<>>
      /\ slot = [w \in Workers |-> [current |-> 0, cancel |-> FALSE]]
      /\ duty = [w \in Workers |-> [task |-> 0, look |-> {}, hit |-> {}]]
      /\ sols = <<>> /\ answer = NoLine /\ late = FALSE /\ cancelled = FALSE
  BY DEF Init
<1>6. SearchOK
  <2>1. at \in [Searchers -> States]
    <3> DEFINE c0 == Idle
    <3>1. c0 \in States /\ at = [x \in Searchers |-> c0]
      BY <1>5, IdleFacts
    <3> HIDE DEF c0
    <3> QED
      BY <3>1
  <2>2. stack \in [Searchers -> Seq(Frames)]
    BY <1>5
  <2>3. table \in [Tables -> [Positions -> [1 .. MaxPlies -> Seq(Nat)]]]
    <3> DEFINE u == Unknown
    <3>1. u \in Seq(Nat) /\ table = [t \in Tables |-> [p \in Positions |-> [k \in 1 .. MaxPlies |-> u]]]
      BY <1>5, FailTyped
    <3> HIDE DEF u
    <3> QED
      BY <3>1
  <2>4. aborted \in [Searchers -> BOOLEAN] /\ timedOut \in [Searchers -> BOOLEAN]
    BY <1>4, <1>5, Zenon
  <2> QED
    BY <2>1, <2>2, <2>3, <2>4 DEF SearchOK
<1>7. SplitOK
  <2>1. [current |-> 0, cancel |-> FALSE] \in Slots
    <3>1. 0 \in Nat
      OBVIOUS
    <3> QED
      BY <1>4, <3>1, Zenon DEF Slots
  <2>2. [task |-> 0, look |-> {}, hit |-> {}] \in Duties
    BY DEF Duties
  <2>3. slot \in [Workers -> Slots] /\ duty \in [Workers -> Duties]
    BY <1>5, <2>1, <2>2, Zenon
  <2> QED
    BY <1>5, <2>3 DEF SplitOK
<1>8. RouteOK
  <2>1. depth \in 1 .. MaxDepth
    BY <1>4, <1>5
  <2>2. sols \in Seq(Seq(Nat)) /\ answer \in Seq(Nat)
    BY <1>5, FailTyped
  <2> QED
    BY <1>4, <1>5, <2>1, <2>2 DEF RouteOK
<1>9. ASSUME NEW x \in Searchers PROVE Shaped(x)
  <2>1. stack[x] = <<>> /\ at[x].pc \notin Searching
    BY <1>5, IdleFacts, LabelFacts
  <2> QED
    BY <2>1 DEF Shaped, ShapedAs, StateFits, Searching
<1>10. Roles
  <2>1. \A x \in Searchers : at[x].pc = "idle"
    BY <1>5, IdleFacts
  <2> QED
    BY <1>4, <1>5, <2>1 DEF Roles, Searchers
<1> QED
  BY <1>2, <1>3, <1>6, <1>7, <1>8, <1>9, <1>10 DEF Fits, TypeOK, Shape

-----------------------------------------------------------------------------
(* What the searches find is true. *)

LEMMA TrueKept ==
    ASSUME UNCHANGED game, NEW x, AskedPos(x)' = AskedPos(x), AskedPlies(x)' = AskedPlies(x),
           Judges(x) => TrueAs(at'[x], stack'[x], AskedPos(x), AskedPlies(x), aborted'[x])
    PROVE  SearchTrue(x)'
BY DEF SearchTrue, Judges, TrueAs, FrameTrue, Wanted, CalledPos, MovesOf, ReturnTrue, game, Main

LEMMA TableKept == ASSUME TableTrue, UNCHANGED <<game, table>> PROVE TableTrue'
BY DEF TableTrue, game, Tables, Searchers, MaxPlies, Main, Unknown, Fail

\* A searcher that stands still keeps what is true of it.
LEMMA StillTrue ==
    ASSUME SearchesTrue, UNCHANGED game, NEW x \in Searchers,
           AskedPos(x)' = AskedPos(x), AskedPlies(x)' = AskedPlies(x),
           at'[x] = at[x], stack'[x] = stack[x], aborted'[x] = aborted[x]
    PROVE  SearchTrue(x)'
<1>1. SearchTrue(x)
  BY DEF SearchesTrue
<1>2. Judges(x) => TrueAs(at'[x], stack'[x], AskedPos(x), AskedPlies(x), aborted'[x])
  BY <1>1 DEF SearchTrue
<1> QED
  BY <1>2, TrueKept

\* One without frames that returns nothing has nothing to be true.
LEMMA RestTrue ==
    ASSUME NEW x, stack'[x] = <<>>, at'[x].pc \notin {"return", "record"}
    PROVE  SearchTrue(x)'
BY DEF SearchTrue, TrueAs

\* What a call has to find, as it starts and in its frame.
LEMMA WantedEnter ==
    ASSUME Fits, NEW x \in Searchers, at[x].pc = "enter"
    PROVE  Wanted(stack[x], AskedPos(x), AskedPlies(x)) = lines[at[x].plies][at[x].pos]
BY SearcherFacts DEF ShapedAs, StateFits, Wanted

LEMMA WantedTop ==
    ASSUME Fits, NEW x \in Searchers, stack[x] # <<>>
    PROVE  /\ Wanted(Front(stack[x]), AskedPos(x), AskedPlies(x)) = lines[Top(x).plies][Top(x).pos]
           /\ Wanted(stack[x], AskedPos(x), AskedPlies(x))
                = lines[Top(x).plies - 1][moves[Top(x).pos][Top(x).move]]
<1> DEFINE s == stack[x]
           n == Len(s)
           p == AskedPos(x)
           k == AskedPlies(x)
<1>1. s \in Seq(Frames) /\ n \in Nat /\ n > 0 /\ k \in Int /\ Top(x) = s[n]
  <2>1. s \in Seq(Frames) /\ Top(x) = s[n] /\ k \in Int
    <3>1. stack[x] \in Seq(Frames) /\ AskedPlies(x) \in 0 .. MaxPlies
      BY SearcherFacts
    <3>2. Top(x) = stack[x][Len(stack[x])]
      BY TopFacts
    <3> QED
      BY <3>1, <3>2
  <2>2. n \in Nat /\ n > 0
    BY <2>1, FrameParts
  <2> QED
    BY <2>1, <2>2
<1>2. s[n].pos = CalledPos(s, p, n) /\ s[n].plies = k - (n - 1)
  BY <1>1, SearcherFacts DEF ShapedAs, FrameFits
<1>3. Len(Front(s)) = n - 1 /\ \A d \in 1 .. n - 1 : Front(s)[d] = s[d]
  BY <1>1, PopFacts
<1> HIDE DEF s, n, p, k
<1>4. CalledPos(Front(s), p, n) = CalledPos(s, p, n)
  BY <1>1, <1>3 DEF CalledPos
<1>5. Wanted(Front(s), p, k) = lines[s[n].plies][s[n].pos]
  <2>1. k - Len(Front(s)) = s[n].plies /\ Len(Front(s)) + 1 = n
    BY <1>1, <1>2, <1>3
  <2> QED
    BY <1>2, <1>4, <2>1 DEF Wanted
<1>6. Wanted(s, p, k) = lines[s[n].plies - 1][moves[s[n].pos][s[n].move]]
  <2>1. k - n = s[n].plies - 1 /\ (n + 1) - 1 = n /\ n + 1 # 1
    BY <1>1, <1>2
  <2>2. CalledPos(s, p, n + 1) = moves[s[n].pos][s[n].move]
    BY <2>1 DEF CalledPos
  <2> QED
    BY <2>1, <2>2 DEF Wanted, n
<1> QED
  BY <1>1, <1>5, <1>6 DEF s, p, k

LEMMA TrueReturns ==
    ASSUME NEW c, NEW s, NEW p, NEW k, NEW a, TrueAs(c, s, p, k, a),
           NEW c2, c2.pc = "return", NEW b, ReturnTrue(c2.ret, b, Wanted(s, p, k))
    PROVE  TrueAs(c2, s, p, k, b)
BY DEF TrueAs

LEMMA TruePops ==
    ASSUME NEW c, NEW s \in Seq(Frames), s # <<>>, NEW p, NEW k, NEW a, TrueAs(c, s, p, k, a),
           NEW c2, c2.pc = "return", NEW b, ReturnTrue(c2.ret, b, Wanted(Front(s), p, k))
    PROVE  TrueAs(c2, Front(s), p, k, b)
<1>1. /\ Len(s) \in Nat /\ Len(Front(s)) = Len(s) - 1
      /\ \A d \in 1 .. Len(s) - 1 : Front(s)[d] = s[d]
  BY FrameParts, PopFacts
<1>2. \A d \in 1 .. Len(Front(s)) : FrameTrue(Front(s)[d])
  <2>1. \A d \in 1 .. Len(s) : FrameTrue(s[d])
    BY DEF TrueAs
  <2>2. ASSUME NEW d \in 1 .. Len(Front(s)) PROVE FrameTrue(Front(s)[d])
    <3>1. d \in 1 .. Len(s) /\ Front(s)[d] = s[d]
      BY <1>1
    <3> QED
      BY <2>1, <3>1
  <2> QED
    BY <2>2
<1> QED
  BY <1>2 DEF TrueAs

LEMMA TrueLoops ==
    ASSUME NEW c, NEW s \in Seq(Frames), s # <<>>, NEW p, NEW k, NEW a, TrueAs(c, s, p, k, a),
           NEW s2, MovedOn(s, s2), NEW c2, c2.pc = "loop", NEW b,
           s[Len(s)].move \in MovesOf(s[Len(s)].pos) =>
               lines[s[Len(s)].plies - 1][moves[s[Len(s)].pos][s[Len(s)].move]] = {}
    PROVE  TrueAs(c2, s2, p, k, b)
<1> DEFINE n == Len(s)
<1>1. n \in Nat /\ n > 0 /\ n \in 1 .. n
  BY FrameParts
<1>2. \A d \in 1 .. n : FrameTrue(s[d])
  BY DEF TrueAs
<1>3. FrameTrue(s2[n])
  <2>1. s2[n].pos = s[n].pos /\ s2[n].plies = s[n].plies /\ s2[n].move = s[n].move + 1
    BY DEF MovedOn
  <2>2. FrameTrue(s[n]) /\ s[n].move \in Nat
    BY <1>1, <1>2, FrameParts
  <2>3. ASSUME NEW m \in MovesOf(s[n].pos), m < s[n].move + 1
        PROVE  lines[s[n].plies - 1][moves[s[n].pos][m]] = {}
    <3>1. m < s[n].move \/ m = s[n].move
      BY <2>2, <2>3 DEF MovesOf
    <3> QED
      BY <2>2, <3>1 DEF FrameTrue
  <2> QED
    BY <2>1, <2>3 DEF FrameTrue
<1>4. ASSUME NEW d \in 1 .. Len(s2) PROVE FrameTrue(s2[d])
  <2>1. Len(s2) = n /\ (d \in 1 .. n - 1 => s2[d] = s[d])
    BY DEF MovedOn
  <2>2. d \in 1 .. n - 1 \/ d = n
    BY <1>1, <2>1
  <2> QED
    BY <1>1, <1>2, <1>3, <2>1, <2>2
<1> QED
  BY <1>4 DEF TrueAs

LEMMA TrueOpens ==
    ASSUME NEW c, NEW s \in Seq(Frames), NEW p, NEW k, NEW a, TrueAs(c, s, p, k, a),
           NEW q \in Positions, NEW j \in 1 .. MaxPlies,
           NEW s2, s2 = Append(s, [pos |-> q, plies |-> j, move |-> 1]),
           NEW c2, c2.pc = "loop", NEW b
    PROVE  TrueAs(c2, s2, p, k, b)
<1> DEFINE f == [pos |-> q, plies |-> j, move |-> 1]
<1>1. /\ Len(s2) = Len(s) + 1 /\ s2[Len(s) + 1] = f /\ \A d \in 1 .. Len(s) : s2[d] = s[d]
      /\ Len(s) \in Nat
  BY PushFacts, FrameParts
<1>2. FrameTrue(f)
  BY DEF FrameTrue, MovesOf
<1>3. ASSUME NEW d \in 1 .. Len(s2) PROVE FrameTrue(s2[d])
  <2>1. d \in 1 .. Len(s) \/ d = Len(s) + 1
    BY <1>1
  <2> QED
    BY <1>1, <1>2, <2>1 DEF TrueAs
<1> QED
  BY <1>3 DEF TrueAs

\* A true entry is stored.
LEMMA StoreTrue ==
    ASSUME Fits, TableTrue, NEW x \in Searchers, stack[x] # <<>>, UNCHANGED game,
           NEW entry \in Seq(Nat), Store(x, entry),
           \/ entry = Fail /\ lines[Top(x).plies][Top(x).pos] = {}
           \/ entry \in lines[Top(x).plies][Top(x).pos]
    PROVE  TableTrue'
<1>1. Written(x, entry)
  BY StoreTyped
<1>2. ASSUME NEW t \in Tables, NEW p \in Positions, NEW k \in 1 .. MaxPlies
      PROVE  \/ table'[t][p][k] = Unknown
             \/ table'[t][p][k] = Fail /\ lines[k][p] = {}
             \/ table'[t][p][k] \in lines[k][p]
  <2>1. table'[t][p][k] = IF t = TableOf(x) /\ p = Top(x).pos /\ k = Top(x).plies
                          THEN entry ELSE table[t][p][k]
    BY <1>1 DEF Written
  <2>2. CASE t = TableOf(x) /\ p = Top(x).pos /\ k = Top(x).plies
    BY <2>1, <2>2
  <2>3. CASE ~(t = TableOf(x) /\ p = Top(x).pos /\ k = Top(x).plies)
    BY <2>1, <2>3 DEF TableTrue
  <2> QED
    BY <2>2, <2>3
<1> QED
  BY <1>2 DEF TableTrue, game, Tables, Searchers, MaxPlies, Main, Unknown, Fail

LEMMA SaysTrue ==
    ASSUME Fits, SearchesTrue, NEW x \in Searchers, at[x].pc = "enter", NEW v \in Verdicts, Says(x, v),
           Judges(x) => ReturnTrue(v, aborted[x], lines[at[x].plies][at[x].pos])
    PROVE  /\ TableTrue'
           /\ Judges(x) => TrueAs(at'[x], stack'[x], AskedPos(x), AskedPlies(x), aborted'[x])
<1>1. at'[x].pc = "return" /\ at'[x].ret = v
  BY Returned DEF Says
<1>2. UNCHANGED <<game, table, stack, aborted>>
  BY DEF Says
<1>3. TableTrue'
  BY <1>2, TableKept DEF SearchesTrue
<1>4. ASSUME Judges(x) PROVE TrueAs(at'[x], stack'[x], AskedPos(x), AskedPlies(x), aborted'[x])
  <2>1. TrueAs(at[x], stack[x], AskedPos(x), AskedPlies(x), aborted[x])
    BY <1>4 DEF SearchesTrue, SearchTrue
  <2>2. ReturnTrue(at'[x].ret, aborted[x], Wanted(stack[x], AskedPos(x), AskedPlies(x)))
    BY <1>1, <1>4, WantedEnter
  <2> QED
    BY <1>1, <1>2, <2>1, <2>2, TrueReturns
<1> QED
  BY <1>3, <1>4

\* Those a call at its start answers by itself.
LEMMA AnswersTrue ==
    ASSUME Fits, SearchesTrue, NEW x \in Searchers, Leaf(x) \/ Prune(x) \/ TableAnswers(x)
    PROVE  /\ TableTrue'
           /\ Judges(x) => TrueAs(at'[x], stack'[x], AskedPos(x), AskedPlies(x), aborted'[x])
<1>1. GameOK /\ LinesOK /\ at[x].pos \in Positions /\ at[x].plies \in 0 .. MaxPlies
  BY SearcherFacts DEF Fits, TypeOK
<1>2. Nothing \in Verdicts /\ ~Nothing.ok /\ \A l \in Seq(Nat) : Found(l) \in Verdicts /\ Found(l).line = l
  BY VerdictFacts
<1>3. CASE Leaf(x)
  <2> DEFINE v == IF at[x].pos \in goals THEN Found(<<>>) ELSE Nothing
  <2>1. at[x].pc = "enter" /\ at[x].plies = 0 /\ Says(x, v)
    BY <1>3 DEF Leaf, Proving
  <2>2. \A l : l \in lines[0][at[x].pos] <=> at[x].pos \in goals /\ l = <<>>
    BY <1>1, LinesFacts
  <2>3. v \in Verdicts /\ ReturnTrue(v, aborted[x], lines[at[x].plies][at[x].pos])
    <3>1. CASE at[x].pos \in goals
      <4>1. v = Found(<<>>) /\ <<>> \in Seq(Nat)
        BY <3>1
      <4>2. <<>> \in lines[0][at[x].pos]
        BY <2>2, <3>1
      <4>3. v.ok /\ v.line = <<>>
        BY <4>1, VerdictFacts
      <4> QED
        BY <1>2, <2>1, <4>1, <4>2, <4>3 DEF ReturnTrue
    <3>2. CASE at[x].pos \notin goals
      <4>1. lines[0][at[x].pos] = {}
        BY <2>2, <3>2
      <4> QED
        BY <1>2, <2>1, <3>2, <4>1 DEF ReturnTrue
    <3> QED
      BY <3>1, <3>2
  <2> HIDE DEF v
  <2> QED
    BY <2>1, <2>3, SaysTrue
<1>4. CASE Prune(x)
  <2>1. at[x].pc = "enter" /\ Says(x, Nothing) /\ OutOfReach(at[x].pos, at[x].plies)
    BY <1>4 DEF Prune, Proving
  <2>2. lines[at[x].plies][at[x].pos] = {}
    <3>1. at[x].plies \in 0 .. at[x].plies
      BY <1>1
    <3> QED
      BY <2>1, <3>1 DEF OutOfReach
  <2>3. ReturnTrue(Nothing, aborted[x], lines[at[x].plies][at[x].pos])
    BY <1>2, <2>2 DEF ReturnTrue
  <2> QED
    BY <1>2, <2>1, <2>3, SaysTrue
<1>5. CASE TableAnswers(x)
  <2> DEFINE v == IF Entry(x) = Fail THEN Nothing ELSE Found(Entry(x))
  <2>1. at[x].pc = "enter" /\ at[x].plies > 0 /\ Entry(x) # Unknown /\ Says(x, v)
    BY <1>5 DEF TableAnswers, Proving
  <2>2. at[x].plies \in 1 .. MaxPlies
    BY <1>1, <2>1, PliesFacts
  <2>3. Entry(x) \in Seq(Nat) /\ TableOf(x) \in Tables
    BY <1>1, <2>2, EntryTyped DEF Entry
  <2>4. \/ Entry(x) = Fail /\ lines[at[x].plies][at[x].pos] = {}
        \/ Entry(x) \in lines[at[x].plies][at[x].pos]
    BY <1>1, <2>1, <2>2, <2>3 DEF Entry, SearchesTrue, TableTrue
  <2>5. Fail \notin lines[at[x].plies][at[x].pos]
    <3>1. Fail \notin Seq(Nat \ {0})
      <4>1. Fail[1] = 0 /\ 1 \in 1 .. Len(Fail)
        BY DEF Fail
      <4>2. ASSUME Fail \in Seq(Nat \ {0}) PROVE FALSE
        <5>1. Fail[1] \in Nat \ {0}
          BY <4>1, <4>2, ElementOfSeq
        <5> QED
          BY <4>1, <5>1
      <4> QED
        BY <4>2
    <3> QED
      BY <1>1, <3>1, LinesTyped
  <2>6. v \in Verdicts /\ ReturnTrue(v, aborted[x], lines[at[x].plies][at[x].pos])
    <3>1. CASE Entry(x) = Fail
      BY <1>2, <2>4, <2>5, <3>1 DEF ReturnTrue
    <3>2. CASE Entry(x) # Fail
      <4>1. v = Found(Entry(x)) /\ v.ok /\ v.line = Entry(x) /\ v \in Verdicts
        BY <2>3, <3>2, VerdictFacts
      <4> QED
        BY <2>4, <3>2, <4>1 DEF ReturnTrue
    <3> QED
      BY <3>1, <3>2
  <2> HIDE DEF v
  <2> QED
    BY <2>1, <2>6, SaysTrue
<1> QED
  BY <1>3, <1>4, <1>5

\* A searcher that judges and stands in its frames.
LEMMA FramedTrue ==
    ASSUME Fits, SearchesTrue, NEW x \in Searchers, Judges(x), stack[x] # <<>>
    PROVE  /\ TrueAs(at[x], stack[x], AskedPos(x), AskedPlies(x), aborted[x])
           /\ FrameTrue(Top(x)) /\ stack[x] \in Seq(Frames)
<1>1. TrueAs(at[x], stack[x], AskedPos(x), AskedPlies(x), aborted[x])
  BY DEF SearchesTrue, SearchTrue
<1>2. Top(x) = stack[x][Len(stack[x])] /\ Len(stack[x]) \in 1 .. Len(stack[x])
  BY TopFacts
<1>3. \A d \in 1 .. Len(stack[x]) : FrameTrue(stack[x][d])
  BY <1>1 DEF TrueAs
<1> QED
  BY <1>1, <1>2, <1>3, SearcherFacts

LEMMA PopsTrue ==
    ASSUME Fits, SearchesTrue, NEW x \in Searchers, stack[x] # <<>>, at[x].pc \in Searching,
           NEW v \in Verdicts, Return(x, v), stack' = [stack EXCEPT ![x] = Front(@)],
           aborted' = aborted, Judges(x) => ReturnTrue(v, aborted[x], lines[Top(x).plies][Top(x).pos])
    PROVE  Judges(x) => TrueAs(at'[x], stack'[x], AskedPos(x), AskedPlies(x), aborted'[x])
<1>1. at'[x].pc = "return" /\ at'[x].ret = v /\ stack'[x] = Front(stack[x])
  BY Returned, PopLocal
<1>2. ASSUME Judges(x) PROVE TrueAs(at'[x], stack'[x], AskedPos(x), AskedPlies(x), aborted'[x])
  <2>1. ReturnTrue(at'[x].ret, aborted'[x], Wanted(Front(stack[x]), AskedPos(x), AskedPlies(x)))
    BY <1>1, <1>2, WantedTop
  <2>2. /\ TrueAs(at[x], stack[x], AskedPos(x), AskedPlies(x), aborted[x])
        /\ stack[x] \in Seq(Frames)
    BY <1>2, FramedTrue
  <2> QED
    BY <1>1, <2>1, <2>2, TruePops
<1> QED
  BY <1>2

LEMMA AdvancesTrue ==
    ASSUME Fits, SearchesTrue, NEW x \in Searchers, stack[x] # <<>>, at[x].pc \in Searching,
           NEW c \in States, c.pc = "loop", Do(x, c), stack' = Advanced(x), aborted' = aborted,
           Judges(x) /\ Top(x).move \in MovesOf(Top(x).pos) =>
               lines[Top(x).plies - 1][moves[Top(x).pos][Top(x).move]] = {}
    PROVE  Judges(x) => TrueAs(at'[x], stack'[x], AskedPos(x), AskedPlies(x), aborted'[x])
<1>1. at'[x].pc = "loop" /\ MovedOn(stack[x], stack'[x])
  BY Becomes, AdvanceLocal
<1>2. ASSUME Judges(x) PROVE TrueAs(at'[x], stack'[x], AskedPos(x), AskedPlies(x), aborted'[x])
  <2>1. /\ TrueAs(at[x], stack[x], AskedPos(x), AskedPlies(x), aborted[x])
        /\ stack[x] \in Seq(Frames) /\ Top(x) = stack[x][Len(stack[x])]
    BY <1>2, FramedTrue, TopFacts
  <2> QED
    BY <1>1, <1>2, <2>1, TrueLoops
<1> QED
  BY <1>2

LEMMA LoopSearches ==
    ASSUME Fits, SearchesTrue, NEW x \in Searchers, SkipMove(x) \/ TryMove(x) \/ NoMoveSolves(x)
    PROVE  /\ TableTrue'
           /\ Judges(x) => TrueAs(at'[x], stack'[x], AskedPos(x), AskedPlies(x), aborted'[x])
<1>1. at[x].pc = "loop" /\ stack[x] # <<>> /\ at[x] \in States /\ at[x].pc \in Searching
  <2>1. at[x].pc = "loop"
    BY DEF SkipMove, TryMove, NoMoveSolves, HasMove
  <2> QED
    BY <2>1, LoopFacts, SearcherFacts DEF Searching
<1>2. GameOK /\ LinesOK /\ TableTrue
  BY DEF Fits, TypeOK, SearchesTrue
<1>3. Top(x).pos \in Positions /\ Top(x).plies \in 1 .. MaxPlies /\ Top(x).move \in Nat \ {0}
  BY <1>1, TopFacts
<1>4. CASE SkipMove(x)
  <2>1. /\ Top(x).move \in MovesOf(Top(x).pos) /\ Hopeless(x)
        /\ stack' = Advanced(x) /\ UNCHANGED <<game, table, at, aborted>>
    BY <1>4 DEF SkipMove, HasMove
  <2>2. lines[Top(x).plies - 1][moves[Top(x).pos][Top(x).move]] = {}
    <3>1. moves[Top(x).pos][Top(x).move] \in Positions
      BY <1>2, <1>3, <2>1, StepFacts
    <3>2. moves[Top(x).pos][Top(x).move] \notin goals /\ Top(x).plies - 1 = 0
      BY <1>2, <2>1 DEF Hopeless, GameOK
    <3> QED
      BY <1>2, <3>1, <3>2, LinesFacts
  <2>3. Do(x, at[x])
    BY <2>1 DEF Do, Fits, TypeOK, SearchOK
  <2> QED
    BY <1>1, <1>2, <2>1, <2>2, <2>3, AdvancesTrue, TableKept
<1>5. CASE TryMove(x)
  <2>1. /\ UNCHANGED <<game, table, stack, aborted>>
        /\ Enter(x, moves[Top(x).pos][Top(x).move], Top(x).plies - 1)
        /\ Top(x).move \in MovesOf(Top(x).pos)
    BY <1>5 DEF TryMove, HasMove
  <2>2. at'[x].pc = "enter"
    <3>1. moves[Top(x).pos][Top(x).move] \in Positions /\ Top(x).plies - 1 \in 0 .. MaxPlies
      BY <1>2, <1>3, <2>1, StepFacts, PliesFacts
    <3> QED
      BY <2>1, <3>1, Entered
  <2>3. ASSUME Judges(x) PROVE TrueAs(at'[x], stack'[x], AskedPos(x), AskedPlies(x), aborted'[x])
    <3>1. TrueAs(at[x], stack[x], AskedPos(x), AskedPlies(x), aborted[x])
      BY <1>1, <2>3, FramedTrue
    <3> QED
      BY <2>1, <2>2, <3>1 DEF TrueAs
  <2> QED
    BY <1>2, <2>1, <2>3, TableKept
<1>6. CASE NoMoveSolves(x)
  <2>1. /\ Top(x).move \notin MovesOf(Top(x).pos) /\ Judges(x)
        /\ Store(x, Fail) /\ stack' = [stack EXCEPT ![x] = Front(@)] /\ Return(x, Nothing)
        /\ UNCHANGED <<game, aborted>>
    BY <1>1, <1>6 DEF NoMoveSolves, HasMove, Judges
  <2>2. lines[Top(x).plies][Top(x).pos] = {}
    <3>1. ASSUME NEW m \in MovesOf(Top(x).pos) PROVE lines[Top(x).plies - 1][moves[Top(x).pos][m]] = {}
      <4>1. m < Top(x).move
        <5>1. moves[Top(x).pos] \in Seq(Positions)
          BY <1>2, <1>3 DEF GameOK
        <5> QED
          BY <1>3, <2>1, <5>1 DEF MovesOf
      <4>2. FrameTrue(Top(x))
        BY <1>1, <2>1, FramedTrue
      <4> QED
        BY <4>1, <4>2 DEF FrameTrue
    <3> QED
      BY <1>2, <1>3, <3>1, Stuck
  <2>3. ReturnTrue(Nothing, aborted[x], lines[Top(x).plies][Top(x).pos])
    BY <2>2, VerdictFacts DEF ReturnTrue
  <2>4. TableTrue'
    BY <1>1, <1>2, <2>1, <2>2, FailTyped, StoreTrue
  <2> QED
    BY <1>1, <2>1, <2>3, <2>4, PopsTrue, VerdictFacts
<1> QED
  BY <1>4, <1>5, <1>6

LEMMA BackSearches ==
    ASSUME Fits, SearchesTrue, NEW x \in Searchers, Unwind(x) \/ MoveFails(x) \/ MoveSolves(x)
    PROVE  /\ TableTrue'
           /\ Judges(x) => TrueAs(at'[x], stack'[x], AskedPos(x), AskedPlies(x), aborted'[x])
<1>1. /\ at[x].pc = "return" /\ stack[x] # <<>> /\ at[x].pc \in Searching /\ Judges(x)
      /\ UNCHANGED <<game, aborted>>
  <2>1. Back(x) /\ UNCHANGED <<game, aborted>>
    BY DEF Unwind, MoveFails, MoveSolves
  <2> QED
    BY <2>1 DEF Back, Searching, Judges
<1>2. GameOK /\ LinesOK /\ TableTrue
  BY DEF Fits, TypeOK, SearchesTrue
<1>3. /\ Top(x).pos \in Positions /\ Top(x).plies \in 1 .. MaxPlies
      /\ Top(x).move \in MovesOf(Top(x).pos)
  <2>1. /\ Top(x).pos \in Positions /\ Top(x).plies \in 1 .. MaxPlies
        /\ Top(x) = stack[x][Len(stack[x])]
    BY <1>1, TopFacts
  <2>2. stack[x][Len(stack[x])].move \in MovesOf(stack[x][Len(stack[x])].pos)
    BY <1>1, SearcherFacts, FrameParts DEF ShapedAs, StateFits
  <2> QED
    BY <2>1, <2>2
<1>4. ReturnTrue(at[x].ret, aborted[x], lines[Top(x).plies - 1][moves[Top(x).pos][Top(x).move]])
  <2>1. TrueAs(at[x], stack[x], AskedPos(x), AskedPlies(x), aborted[x])
    BY <1>1, FramedTrue
  <2>2. ReturnTrue(at[x].ret, aborted[x], Wanted(stack[x], AskedPos(x), AskedPlies(x)))
    BY <1>1, <2>1 DEF TrueAs
  <2> QED
    BY <1>1, <2>2, WantedTop
<1>5. CASE Unwind(x)
  <2>1. /\ aborted[x] /\ stack' = [stack EXCEPT ![x] = Front(@)] /\ Return(x, Nothing)
        /\ table' = table
    BY <1>5 DEF Unwind
  <2>2. ReturnTrue(Nothing, aborted[x], lines[Top(x).plies][Top(x).pos])
    BY <2>1, VerdictFacts DEF ReturnTrue
  <2> QED
    BY <1>1, <1>2, <2>1, <2>2, PopsTrue, TableKept, VerdictFacts
<1>6. CASE MoveFails(x)
  <2>1. /\ ~aborted[x] /\ ~at[x].ret.ok /\ stack' = Advanced(x) /\ table' = table
        /\ Do(x, [at[x] EXCEPT !.pc = "loop"])
    BY <1>6 DEF MoveFails
  <2>2. lines[Top(x).plies - 1][moves[Top(x).pos][Top(x).move]] = {}
    BY <1>4, <2>1 DEF ReturnTrue
  <2> DEFINE c == [at[x] EXCEPT !.pc = "loop"]
  <2>3. c \in States /\ c.pc = "loop"
    <3>1. "loop" \in Labels
      BY DEF Labels
    <3> QED
      BY <3>1, SearcherFacts, StateFacts, ZenonT(60)
  <2>4. Do(x, c)
    BY <2>1
  <2> HIDE DEF c
  <2> QED
    BY <1>1, <1>2, <2>1, <2>2, <2>3, <2>4, AdvancesTrue, TableKept
<1>7. CASE MoveSolves(x)
  <2> DEFINE line == <<Top(x).move>> \o at[x].ret.line
  <2>1. /\ at[x].ret.ok /\ stack' = [stack EXCEPT ![x] = Front(@)]
        /\ Store(x, line) /\ Return(x, Found(line))
    BY <1>7 DEF MoveSolves
  <2>2. line \in lines[Top(x).plies][Top(x).pos]
    BY <1>2, <1>3, <1>4, <2>1, Prefixed DEF ReturnTrue
  <2>3. line \in Seq(Nat)
    BY <1>1, FoundTyped
  <2> HIDE DEF line
  <2>4. ReturnTrue(Found(line), aborted[x], lines[Top(x).plies][Top(x).pos])
    BY <2>2, <2>3, VerdictFacts DEF ReturnTrue
  <2>5. TableTrue'
    BY <1>1, <1>2, <2>1, <2>2, <2>3, StoreTrue
  <2> QED
    BY <1>1, <2>1, <2>3, <2>4, <2>5, PopsTrue, VerdictFacts
<1> QED
  BY <1>5, <1>6, <1>7

LEMMA AbortFacts ==
    ASSUME Fits, NEW x \in Searchers, Prove(x)
    PROVE  /\ \A y \in Searchers \ {x} : aborted'[y] = aborted[y]
           /\ ~Cancel(x) => aborted' = aborted
           /\ Cancel(x) => aborted'[x]
           /\ UNCHANGED <<game, pool, route, sols, env>>
<1>1. aborted \in [Searchers -> BOOLEAN]
  BY FlagsTyped
<1>2. CASE Cancel(x)
  <2>1. aborted' = [aborted EXCEPT ![x] = TRUE] /\ UNCHANGED <<game, pool, route, sols, env>>
    BY <1>2 DEF Cancel
  <2>2. aborted'[x] /\ \A y \in Searchers \ {x} : aborted'[y] = aborted[y]
    BY <1>1, <2>1, Zenon
  <2> QED
    BY <1>2, <2>1, <2>2
<1>3. CASE ~Cancel(x)
  <2>1. aborted' = aborted /\ UNCHANGED <<game, pool, route, sols, env>>
    BY <1>3 DEF Prove, Says, Leaf, Prune, TableAnswers, Open, SkipMove, TryMove, NoMoveSolves,
                Unwind, MoveFails, MoveSolves
  <2> QED
    BY <1>3, <2>1
<1> QED
  BY <1>2, <1>3

LEMMA ProveSearches == ASSUME Fits, SearchesTrue, NEW x \in Searchers, Prove(x) PROVE SearchesTrue'
<1>1. /\ TableTrue'
      /\ Judges(x) => TrueAs(at'[x], stack'[x], AskedPos(x), AskedPlies(x), aborted'[x])
  <2>1. CASE Cancel(x)
    <3>1. /\ at[x].pc = "enter" /\ Return(x, Nothing) /\ UNCHANGED <<game, table, stack>>
      BY <2>1 DEF Cancel
    <3>2. aborted'[x]
      BY <2>1, AbortFacts
    <3>3. at'[x].pc = "return" /\ ~at'[x].ret.ok
      BY <3>1, VerdictFacts, Returned
    <3>4. ASSUME Judges(x) PROVE TrueAs(at'[x], stack[x], AskedPos(x), AskedPlies(x), aborted'[x])
      <4>1. TrueAs(at[x], stack[x], AskedPos(x), AskedPlies(x), aborted[x])
        BY <3>4 DEF SearchesTrue, SearchTrue
      <4>2. ReturnTrue(at'[x].ret, aborted'[x], Wanted(stack[x], AskedPos(x), AskedPlies(x)))
        BY <3>2, <3>3 DEF ReturnTrue
      <4> QED
        BY <3>3, <4>1, <4>2, TrueReturns
    <3> QED
      BY <3>1, <3>4, TableKept DEF SearchesTrue
  <2>2. CASE Open(x)
    <3>1. /\ at[x].pc = "enter" /\ at[x].plies > 0 /\ UNCHANGED <<game, table, aborted>>
          /\ stack' = [stack EXCEPT ![x] = Append(@, [pos |-> at[x].pos, plies |-> at[x].plies, move |-> 1])]
          /\ Do(x, [at[x] EXCEPT !.pc = "loop"])
      BY <2>2 DEF Open, Proving
    <3>2. /\ stack'[x] = Append(stack[x], [pos |-> at[x].pos, plies |-> at[x].plies, move |-> 1])
          /\ at'[x].pc = "loop"
      <4>1. "loop" \in Labels
        BY DEF Labels
      <4> QED
        BY <3>1, <4>1, OpenLocal, Labelled
    <3>3. at[x].pos \in Positions /\ at[x].plies \in 1 .. MaxPlies /\ stack[x] \in Seq(Frames)
      <4>1. at[x].pos \in Positions /\ at[x].plies \in 0 .. MaxPlies /\ stack[x] \in Seq(Frames)
        BY SearcherFacts
      <4> QED
        BY <3>1, <4>1, PliesFacts
    <3>4. ASSUME Judges(x) PROVE TrueAs(at'[x], stack'[x], AskedPos(x), AskedPlies(x), aborted'[x])
      <4>1. TrueAs(at[x], stack[x], AskedPos(x), AskedPlies(x), aborted[x])
        BY <3>4 DEF SearchesTrue, SearchTrue
      <4> QED
        BY <3>2, <3>3, <4>1, TrueOpens
    <3> QED
      BY <3>1, <3>4, TableKept DEF SearchesTrue
  <2> QED
    BY <2>1, <2>2, AnswersTrue, LoopSearches, BackSearches DEF Prove
<1>2. Local(x) /\ UNCHANGED <<game, pool, route>>
  BY ProveFits, AbortFacts
<1>3. \A y \in Searchers : AskedPos(y)' = AskedPos(y) /\ AskedPlies(y)' = AskedPlies(y)
  BY <1>2, AskedKept DEF pool, route
<1>4. ASSUME NEW y \in Searchers PROVE SearchTrue(y)'
  <2>1. CASE y = x
    BY <1>1, <1>2, <1>3, <2>1, TrueKept
  <2>2. CASE y # x
    <3>1. at'[y] = at[y] /\ stack'[y] = stack[y] /\ aborted'[y] = aborted[y]
      BY <1>2, <2>2, AbortFacts DEF Local, Others
    <3> QED
      BY <1>2, <1>3, <3>1, StillTrue
  <2> QED
    BY <2>1, <2>2
<1> QED
  BY <1>1, <1>4 DEF SearchesTrue, Searchers, Main

LEMMA CollectSearches == ASSUME Fits, SearchesTrue, Collect PROVE SearchesTrue'
<1>1. "all" \in options /\ UNCHANGED <<game, table, aborted, pool, route>>
  BY DEF Collect, CollectLeaf, CollectOpen, CollectLeave, CollectNext, Collecting
<1>2. \A y \in Searchers : AskedPos(y)' = AskedPos(y) /\ AskedPlies(y)' = AskedPlies(y)
  BY <1>1, AskedKept DEF pool, route
<1>3. ASSUME NEW y \in Searchers PROVE SearchTrue(y)'
  <2>1. CASE y = Main
    <3>1. ~Judges(y)
      BY <1>1, <2>1 DEF Judges
    <3> QED
      BY <1>1, <1>2, <3>1, TrueKept
  <2>2. CASE y # Main
    <3>1. at'[y] = at[y] /\ stack'[y] = stack[y]
      BY <2>2, CollectFits DEF Local, Others
    <3> QED
      BY <1>1, <1>2, <3>1, StillTrue
  <2> QED
    BY <2>1, <2>2
<1> QED
  BY <1>1, <1>3, TableKept DEF SearchesTrue, Searchers, Main

\* The steps of a worker outside its search.
LEMMA WorkerSearches ==
    ASSUME Fits, SearchesTrue, NEW w \in Workers,
           UNCHANGED <<game, table, stack, depth, tasks>>, stack[w] = <<>>,
           \A y \in Searchers \ {w} : at'[y] = at[y] /\ aborted'[y] = aborted[y],
           \A y \in Workers \ {w} : duty'[y].task = duty[y].task,
           at'[w].pc \notin {"return", "record"}
    PROVE  SearchesTrue'
<1>1. ASSUME NEW y \in Searchers PROVE SearchTrue(y)'
  <2>1. CASE y = w
    BY <2>1, RestTrue
  <2>2. CASE y # w
    <3>1. y # Main => duty'[y].task = duty[y].task
      BY <2>2 DEF Searchers
    <3>2. AskedPos(y)' = AskedPos(y) /\ AskedPlies(y)' = AskedPlies(y)
      BY <3>1, AskedKept
    <3> QED
      BY <2>2, <3>2, StillTrue
  <2> QED
    BY <2>1, <2>2
<1> QED
  BY <1>1, TableKept DEF SearchesTrue, Searchers, Main

\* A step of a worker is its own, and only a claim changes the task it serves.
LEMMA WorkMoves ==
    ASSUME Fits, NEW w \in Workers, Work(w)
    PROVE  /\ \A y \in Searchers \ {w} : at'[y] = at[y] /\ aborted'[y] = aborted[y]
           /\ \A y \in Workers \ {w} : duty'[y].task = duty[y].task
           /\ ~Claim(w) => duty'[w].task = duty[w].task
           /\ aborted'[w] => aborted[w]
<1>1. duty' = duty \/ (\E d \in Duties : duty' = [duty EXCEPT ![w] = d] /\ (Claim(w) \/ d.task = duty[w].task))
  <2>1. CASE Claim(w)
    <3>1. [duty[w] EXCEPT !.task = nextIndex] \in Duties
      BY WorkerFacts, DutyFacts
    <3> QED
      BY <2>1, <3>1 DEF Claim
  <2>2. CASE Record(w)
    <3> DEFINE d == [duty[w] EXCEPT !.look = Workers]
    <3>1. d \in Duties /\ d.task = duty[w].task
      BY WorkerFacts, DutyFacts
    <3>2. duty' = [duty EXCEPT ![w] = d]
      BY <2>2 DEF Record
    <3> HIDE DEF d
    <3> QED
      BY <3>1, <3>2
  <2>3. CASE CancelSlot(w)
    <3> DEFINE d == [duty[w] EXCEPT !.hit = {}]
    <3>1. d \in Duties /\ d.task = duty[w].task
      <4>1. {} \in SUBSET Workers /\ duty[w] \in Duties
        BY WorkerFacts
      <4> QED
        BY <4>1, DutyFacts
    <3>2. duty' = [duty EXCEPT ![w] = d]
      BY <2>3 DEF CancelSlot
    <3> HIDE DEF d
    <3> QED
      BY <3>1, <3>2
  <2>4. CASE Look(w)
    <3>1. PICK o \in duty[w].look :
            duty' = [duty EXCEPT ![w].look = @ \ {o},
                                 ![w].hit = IF slot[o].current > best THEN {o} ELSE {}]
      BY <2>4 DEF Look
    <3> DEFINE c == [duty[w] EXCEPT !.look = @ \ {o}]
               h == IF slot[o].current > best THEN {o} ELSE {}
               d == [c EXCEPT !.hit = h]
    <3>2. duty[w] \in Duties /\ duty[w].look \ {o} \in SUBSET Workers /\ h \in SUBSET Workers
      BY WorkerFacts, DutyFacts
    <3>3. c \in Duties /\ c.task = duty[w].task
      BY <3>2, DutyFacts
    <3>4. d \in Duties /\ d.task = duty[w].task
      <4> HIDE DEF c, h
      <4> QED
        BY <3>2, <3>3, DutyFacts
    <3>5. duty' = [duty EXCEPT ![w] = d]
      BY <3>1, WorkerFacts
    <3> HIDE DEF d
    <3> QED
      BY <3>4, <3>5
  <2> QED
    BY <2>1, <2>2, <2>3, <2>4 DEF Work, Announce, Clear, Recheck, Judge, Unlock, Leave, pool
<1>2. /\ \A y \in Workers \ {w} : duty'[y].task = duty[y].task
      /\ ~Claim(w) => duty'[w].task = duty[w].task
  BY <1>1, WorkerFacts
<1>3. (\A y \in Searchers \ {w} : aborted'[y] = aborted[y]) /\ (aborted'[w] => aborted[w])
  <2>1. aborted' = aborted \/ aborted' = [aborted EXCEPT ![w] = FALSE]
    BY DEF Work, Claim, Announce, Clear, Recheck, Judge, Record, Look, CancelSlot, Unlock, Leave
  <2>2. w \in Searchers /\ aborted \in [Searchers -> BOOLEAN]
    BY FlagsTyped, WorkerFacts
  <2> QED
    BY <2>1, <2>2, Zenon
<1>4. at' = at \/ \E c : at' = [at EXCEPT ![w] = c]
  BY DEF Work, Claim, Announce, Clear, Recheck, Judge, Record, Look, CancelSlot, Unlock, Leave,
         Now, Do, Enter
<1> QED
  BY <1>2, <1>3, <1>4, RouteFacts

LEMMA WorkSearches == ASSUME Fits, SearchesTrue, NEW w \in Workers, Work(w) PROVE SearchesTrue'
<1>1. w \in Searchers
  BY WorkerFacts
<1>2. /\ at[w].pc \in {"claim", "announce", "clear", "recheck", "record", "notify", "leave"} \/ Judge(w)
      /\ UNCHANGED <<game, table, stack, depth, tasks>>
  BY DEF Work, Claim, Announce, Clear, Recheck, Judge, Record, Look, CancelSlot, Unlock, Leave, route
<1>3. stack[w] = <<>>
  BY <1>2, WorkerFacts, LabelFacts DEF Judge
<1>4. \A y \in Workers \ {w} : duty'[y].task = duty[y].task
  BY WorkMoves
<1>5. \A y \in Searchers \ {w} : at'[y] = at[y] /\ aborted'[y] = aborted[y]
  BY WorkMoves
<1>6. CASE ~Judge(w)
  <2>1. at'[w].pc \notin {"return", "record"}
    <3>1. CASE Look(w) \/ CancelSlot(w)
      BY <3>1 DEF Look, CancelSlot
    <3>2. CASE Recheck(w)
      <4>1. CASE duty[w].task > best
        BY <3>2, <4>1, NowFacts, LabelFacts DEF Recheck
      <4>2. CASE ~(duty[w].task > best)
        <5>1. at[w].pc \in OnTask
          BY <3>2, LabelFacts DEF Recheck
        <5>2. AskedPlies(w) = 2 * depth - 2 /\ AskedPlies(w) \in 0 .. MaxPlies
          BY <1>1, RouteFacts, SearcherFacts DEF AskedPlies
        <5>3. at'[w].pc = "enter"
          BY <1>1, <3>2, <4>2, <5>1, <5>2, TaskFacts, Entered DEF Recheck
        <5> QED
          BY <5>3
      <4> QED
        BY <4>1, <4>2
    <3>3. CASE Leave(w)
      BY <1>1, <3>3, IdleFacts, Becomes DEF Leave
    <3>4. CASE Claim(w)
      <4>1. PICK l \in {"leave", "announce"} : Now(w, l)
        BY <3>4 DEF Claim
      <4>2. at'[w].pc = l
        BY <4>1, NowFacts, LabelFacts
      <4> QED
        BY <4>1, <4>2
    <3>5. CASE Announce(w) \/ Clear(w) \/ Record(w) \/ Unlock(w)
      BY <3>5, NowFacts, LabelFacts DEF Announce, Clear, Record, Unlock
    <3> QED
      BY <1>6, <3>1, <3>2, <3>3, <3>4, <3>5 DEF Work
  <2> QED
    BY <1>2, <1>3, <1>4, <1>5, <2>1, WorkerSearches
<1>7. CASE Judge(w)
  <2> DEFINE l == CASE timedOut[w] -> "leave"
                    [] ~timedOut[w] /\ (aborted[w] \/ ~at[w].ret.ok) -> "claim"
                    [] OTHER -> "record"
  <2>1. /\ at[w].pc = "return" /\ Now(w, l) /\ aborted' = aborted
        /\ UNCHANGED <<pool, route>>
    BY <1>7 DEF Judge
  <2>2. l \in {"leave", "claim", "record"} /\ (l = "record" => at[w].ret.ok)
    OBVIOUS
  <2> HIDE DEF l
  <2>3. at'[w].pc = l /\ at'[w].ret = at[w].ret
    BY <2>1, <2>2, NowFacts, LabelFacts
  <2>4. CASE l = "record"
    <3>1. \A y \in Searchers : AskedPos(y)' = AskedPos(y) /\ AskedPlies(y)' = AskedPlies(y)
      BY <1>2, <2>1, AskedKept DEF pool
    <3>2. SearchTrue(w)'
      <4>1. ASSUME Judges(w) PROVE TrueAs(at'[w], stack'[w], AskedPos(w), AskedPlies(w), aborted'[w])
        <5>1. TrueAs(at[w], stack[w], AskedPos(w), AskedPlies(w), aborted[w])
          BY <1>1, <4>1 DEF SearchesTrue, SearchTrue
        <5> QED
          BY <1>2, <2>1, <2>2, <2>3, <2>4, <5>1 DEF TrueAs
      <4> QED
        BY <1>2, <3>1, <4>1, <1>1, TrueKept
    <3>3. ASSUME NEW y \in Searchers, y # w PROVE SearchTrue(y)'
      BY <1>2, <1>5, <3>1, <3>3, StillTrue
    <3> QED
      BY <1>2, <3>2, <3>3, TableKept DEF SearchesTrue, Searchers, Main
  <2>5. CASE l # "record"
    BY <1>2, <1>3, <1>4, <1>5, <2>2, <2>3, <2>5, WorkerSearches
  <2> QED
    BY <2>4, <2>5
<1> QED
  BY <1>6, <1>7

LEMMA OutsideSearches ==
    ASSUME Fits, SearchesTrue, Route \/ Expire \/ CancelLane \/ UNCHANGED vars PROVE SearchesTrue'
<1>1. CASE Expire \/ CancelLane \/ UNCHANGED vars
  <2>1. UNCHANGED <<game, table, at, stack, aborted, pool, route>>
    BY <1>1 DEF Expire, CancelLane, vars
  <2>2. \A y \in Searchers : AskedPos(y)' = AskedPos(y) /\ AskedPlies(y)' = AskedPlies(y)
    BY <2>1, AskedKept DEF pool, route
  <2>3. \A y \in Searchers : SearchTrue(y)'
    BY <2>1, <2>2, StillTrue
  <2> QED
    BY <2>1, <2>3, TableKept DEF SearchesTrue, Searchers, Main
<1>2. CASE Route
  <2>1. UNCHANGED <<game, table, stack>>
    BY <1>2 DEF Route, Enumerate, Enumerated, OutOfTime, SearchAlone, SearchedAlone, StartSplit, Join
  <2>2. \A y \in Searchers : stack[y] = <<>> /\ at'[y].pc \notin {"return", "record"}
    <3>1. \A y \in Workers : at[y].pc = "idle" /\ stack[y] = <<>>
      <4>1. \A y \in Workers : at[y].pc = "idle"
        BY <1>2, RouteFacts
        DEF Route, Enumerate, Enumerated, OutOfTime, SearchAlone, SearchedAlone, StartSplit, Join, Deepening
      <4> QED
        BY <4>1, WorkerFacts, LabelFacts
    <3>2. stack[Main] = <<>>
      BY <1>2, RouteFacts
      DEF Route, Enumerate, Enumerated, OutOfTime, SearchAlone, SearchedAlone, StartSplit, Join, Deepening
    <3>3. CASE Enumerate \/ SearchAlone
      <4>1. PICK k \in 0 .. MaxPlies : Enter(Main, Root, k)
        BY <3>3, RouteFacts, PliesFacts DEF Enumerate, SearchAlone
      <4>2. at'[Main].pc = "enter" /\ \A y \in Searchers \ {Main} : at'[y] = at[y]
        BY <4>1, RouteFacts, HelpAssumption, Entered
      <4> QED
        BY <3>1, <3>2, <4>2 DEF Searchers
    <3>4. CASE Enumerated \/ SearchedAlone
      <4>1. at'[Main].pc = "idle" /\ \A y \in Searchers \ {Main} : at'[y] = at[y]
        BY <3>4, RouteFacts, IdleFacts, Becomes DEF Enumerated, SearchedAlone
      <4> QED
        BY <3>1, <3>2, <4>1 DEF Searchers
    <3>5. CASE OutOfTime \/ Join \/ (StartSplit /\ TaskList = <<>>)
      <4>1. at' = at /\ at[Main].pc = "idle"
        BY <3>5, RouteFacts DEF OutOfTime, Join, StartSplit, Deepening
      <4> QED
        BY <3>1, <3>2, <4>1 DEF Searchers
    <3>6. CASE StartSplit /\ TaskList # <<>>
      <4>1. at'[Main].pc = "idle" /\ \A y \in Workers : at'[y].pc \in {"idle", "claim"}
        BY <3>6, StartFacts, RouteFacts
      <4> QED
        BY <3>1, <3>2, <4>1 DEF Searchers
    <3> QED
      BY <1>2, <3>3, <3>4, <3>5, <3>6 DEF Route
  <2>3. ASSUME NEW y \in Searchers PROVE SearchTrue(y)'
    BY <2>1, <2>2, RestTrue
  <2> QED
    BY <2>1, <2>3, TableKept DEF SearchesTrue, Searchers, Main
<1> QED
  BY <1>1, <1>2

LEMMA SearchesInductive == ASSUME Fits, SearchesTrue, [Next \/ Done]_vars PROVE SearchesTrue'
BY ProveSearches, CollectSearches, WorkSearches, OutsideSearches DEF Next, Done

LEMMA SearchesInit == ASSUME Init PROVE SearchesTrue
<1>1. TableTrue
  BY DEF Init, TableTrue
<1>2. ASSUME NEW x \in Searchers PROVE SearchTrue(x)
  <2>1. stack[x] = <<>> /\ at[x].pc = "idle"
    BY DEF Init, Idle
  <2> QED
    BY <2>1 DEF SearchTrue, TrueAs
<1> QED
  BY <1>1, <1>2 DEF SearchesTrue

-----------------------------------------------------------------------------
(* What the workers of a split share. *)

Serving(y) == at[y].pc \in OnTask \ {"notify"}
Barren(i) == lines[2 * depth - 2][After(tasks[i + 1])] = {}

LEMMA CoveredKept ==
    ASSUME Covered, UNCHANGED <<game, depth, tasks, nextIndex>>, Excused => Excused',
           \A y \in Workers : Serving(y) =>
               \/ Serving(y)' /\ duty'[y].task = duty[y].task
               \/ Excused' \/ Barren(duty[y].task)
    PROVE  Covered'
<1>1. ASSUME NEW i \in 0 .. NumTasks - 1, i < nextIndex PROVE Excused' \/ InHand(i)' \/ Barren(i)
  <2>1. CASE Excused \/ Barren(i)
    BY <2>1
  <2>2. CASE InHand(i)
    <3>1. PICK y \in Workers : duty[y].task = i /\ Serving(y)
      BY <2>2 DEF InHand, Serving
    <3> QED
      BY <3>1 DEF InHand, Serving, OnTask, Searching
  <2> QED
    BY <1>1, <2>1, <2>2 DEF Covered, Barren
<1> QED
  BY <1>1 DEF Covered, Barren, NumTasks, After, game

\* A step of the split that claims nothing and records nothing.
LEMMA PoolKept ==
    ASSUME Fits, PoolTrue, phase = "join", UNCHANGED <<game, route, nextIndex, best, results>>,
           cancelled => cancelled', \A y \in Workers : timedOut[y] => timedOut'[y],
           \A y \in Workers : Serving(y) =>
               \/ Serving(y)' /\ duty'[y].task = duty[y].task
               \/ Excused' \/ Barren(duty[y].task),
           \A y \in Workers : /\ slot'[y].cancel => slot[y].cancel \/ best < NumTasks
                              /\ at'[y].pc = "notify" => at[y].pc = "notify"
                              /\ aborted'[y] => aborted[y] \/ timedOut'[y] \/ cancelled \/ best < NumTasks,
           at'[Caller].pc \in {"idle", "leave"} => at[Caller].pc \in {"idle", "leave"} \/ Excused'
    PROVE  PoolTrue'
<1>1. BestTrue /\ CancelTrue /\ Covered /\ UNCHANGED <<depth, tasks, phase>> /\ NumTasks' = NumTasks
  BY DEF PoolTrue, route, NumTasks
<1>2. Excused => Excused'
  BY <1>1 DEF Excused
<1>3. Covered'
  BY <1>1, <1>2, CoveredKept
<1>4. BestTrue'
  BY <1>1 DEF BestTrue, Solutions, game
<1>5. CancelTrue'
  BY <1>1 DEF CancelTrue
<1>6. at'[Caller].pc \in {"idle", "leave"} => nextIndex' >= NumTasks' \/ Excused'
  BY <1>1, <1>2 DEF PoolTrue
<1> QED
  BY <1>1, <1>3, <1>4, <1>5, <1>6 DEF PoolTrue

\* Outside a split no search is cancelled for one.
LEMMA PoolRests ==
    ASSUME phase' # "join", \A w \in Workers : ~aborted'[w]
    PROVE  PoolTrue'
BY DEF PoolTrue

LEMMA ProvePool == ASSUME Fits, PoolTrue, NEW x \in Searchers, Prove(x) PROVE PoolTrue'
<1>1. Local(x) /\ UNCHANGED <<game, pool, route, env>>
  BY ProveFits, AbortFacts
<1>2. phase' = phase /\ UNCHANGED <<nextIndex, best, results, slot, duty, cancelled>>
  BY <1>1 DEF route, pool, env
<1>3. timedOut \in [Searchers -> BOOLEAN] /\ (timedOut' = timedOut \/ Cancel(x))
  BY FlagsTyped DEF Prove, Says, Leaf, Prune, TableAnswers, Open, SkipMove, TryMove, NoMoveSolves,
                    Unwind, MoveFails, MoveSolves
<1>4. \A y \in Workers : timedOut[y] => timedOut'[y]
  <2>1. ASSUME Cancel(x) PROVE \A y \in Workers : timedOut[y] => timedOut'[y]
    <3>1. PICK expired : timedOut' = [timedOut EXCEPT ![x] = @ \/ expired]
      BY <2>1 DEF Cancel
    <3>2. Workers \subseteq Searchers
      BY DEF Searchers
    <3> QED
      BY <1>3, <3>1, <3>2, Zenon
  <2> QED
    BY <1>3, <2>1
<1>5. CASE phase = "join"
  <2>1. x \in Workers /\ Workers \subseteq Searchers
    <3>1. at[x].pc # "idle"
      BY <1>1, LabelFacts DEF Local
    <3> QED
      BY <1>5, <3>1, RouteFacts DEF Searchers
  <2>2. ASSUME NEW y \in Workers
        PROVE  /\ Serving(y) => Serving(y)' /\ duty'[y].task = duty[y].task
               /\ at'[y].pc = "notify" => at[y].pc = "notify"
               /\ at'[y].pc \in {"idle", "leave"} => at[y].pc \in {"idle", "leave"}
    <3>1. CASE y = x
      BY <1>1, <1>2, <3>1 DEF Local, Serving, OnTask, Searching
    <3>2. CASE y # x
      <4>1. at'[y] = at[y]
        BY <1>1, <2>1, <3>2 DEF Local, Others
      <4> QED
        BY <1>2, <4>1 DEF Serving, OnTask, Searching
    <3> QED
      BY <3>1, <3>2
  <2>3. ASSUME NEW y \in Workers, aborted'[y]
        PROVE  aborted[y] \/ timedOut'[y] \/ cancelled \/ best < NumTasks
    <3>1. CASE y = x /\ Cancel(x)
      <4>1. PICK expired : /\ ~expired => cancelled \/ SlotCancelled(x)
                           /\ timedOut' = [timedOut EXCEPT ![x] = @ \/ expired]
        BY <3>1 DEF Cancel
      <4>2. CASE expired
        <5>1. timedOut'[x]
          BY <1>3, <4>1, <4>2, Zenon
        <5> QED
          BY <3>1, <5>1
      <4>3. CASE ~expired
        BY <1>5, <3>1, <4>1, <4>3 DEF SlotCancelled, PoolTrue, CancelTrue
      <4> QED
        BY <4>2, <4>3
    <3>2. CASE y # x \/ ~Cancel(x)
      <4>1. aborted'[y] = aborted[y]
        BY <2>1, <3>2, AbortFacts
      <4> QED
        BY <2>3, <4>1
    <3> QED
      BY <3>1, <3>2
  <2>4. Caller \in Workers
    BY HelpAssumption
  <2> QED
    BY <1>1, <1>2, <1>4, <1>5, <2>2, <2>3, <2>4, PoolKept
<1>6. CASE phase # "join"
  <2>1. x = Main
    <3>1. at[x].pc # "idle"
      BY <1>1, LabelFacts DEF Local
    <3> QED
      BY <1>6, <3>1, RouteFacts DEF Searchers
  <2>2. \A w \in Workers : aborted'[w] = aborted[w]
    BY <2>1, AbortFacts, RouteFacts DEF Searchers
  <2> QED
    BY <1>2, <1>6, <2>2, PoolRests DEF PoolTrue
<1> QED
  BY <1>5, <1>6

LEMMA CollectPool == ASSUME Fits, PoolTrue, Collect PROVE PoolTrue'
<1>1. "all" \in options /\ UNCHANGED <<aborted, phase>>
  BY DEF Collect, CollectLeaf, CollectOpen, CollectLeave, CollectNext, Collecting, route
<1>2. phase # "join"
  BY <1>1 DEF Fits, Shape, Roles, SplitFits
<1> QED
  BY <1>1, <1>2, PoolRests DEF PoolTrue

\* A worker that moves on in its task, or lays it down with a verdict or an excuse.
LEMMA WorkerPool ==
    ASSUME Fits, PoolTrue, NEW w \in Workers, phase = "join",
           UNCHANGED <<game, route, nextIndex, best, results, timedOut, cancelled>>,
           \A y \in Workers \ {w} : at'[y] = at[y],
           \A y \in Workers : duty'[y].task = duty[y].task,
           \A y \in Workers : slot'[y].cancel => slot[y].cancel \/ at[w].pc = "notify",
           \A y \in Workers : aborted'[y] => aborted[y],
           at'[w].pc = "notify" => at[w].pc = "notify",
           at'[w].pc \in {"idle", "leave"} => at[w].pc = "leave" \/ Excused,
           Serving(w) => Serving(w)' \/ Excused \/ Barren(duty[w].task)
    PROVE  PoolTrue'
<1>1. Excused' = Excused /\ Caller \in Workers
  BY HelpAssumption DEF Excused, NumTasks, route
<1>2. CancelTrue
  BY DEF PoolTrue
<1>3. ASSUME NEW y \in Workers
      PROVE  /\ Serving(y) => \/ Serving(y)' /\ duty'[y].task = duty[y].task
                              \/ Excused' \/ Barren(duty[y].task)
             /\ slot'[y].cancel => slot[y].cancel \/ best < NumTasks
             /\ at'[y].pc = "notify" => at[y].pc = "notify"
             /\ at'[y].pc \in {"idle", "leave"} => at[y].pc \in {"idle", "leave"} \/ Excused'
  <2>1. slot'[y].cancel => slot[y].cancel \/ best < NumTasks
    BY <1>2 DEF CancelTrue
  <2>2. CASE y = w
    BY <1>1, <2>1, <2>2
  <2>3. CASE y # w
    <3>1. at'[y] = at[y]
      BY <2>3
    <3> QED
      BY <2>1, <3>1 DEF Serving, OnTask, Searching
  <2> QED
    BY <2>2, <2>3
<1> QED
  BY <1>1, <1>3, PoolKept

LEMMA ClaimPool == ASSUME Fits, PoolTrue, NEW w \in Workers, Claim(w) PROVE PoolTrue'
<1> DEFINE leaves == nextIndex >= NumTasks \/ nextIndex > best \/ cancelled
<1>1. /\ at[w].pc = "claim" /\ nextIndex' = nextIndex + 1
      /\ duty' = [duty EXCEPT ![w].task = nextIndex]
      /\ UNCHANGED <<game, table, stack, aborted, timedOut, best, results, slot, route, sols, env>>
      /\ Now(w, IF leaves THEN "leave" ELSE "announce")
  BY DEF Claim
<1>2. /\ phase = "join" /\ nextIndex \in Nat /\ best \in Nat /\ NumTasks \in Nat
      /\ best <= NumTasks /\ Caller \in Workers /\ Workers \subseteq Searchers
  BY <1>1, WorkerFacts, HelpAssumption DEF SplitFits, Searchers
<1>3. BestTrue /\ CancelTrue /\ Covered /\ UNCHANGED <<depth, tasks, phase, cancelled>> /\ NumTasks' = NumTasks
  BY <1>1, <1>2 DEF PoolTrue, route, env, NumTasks
<1>4. /\ leaves => at'[w].pc = "leave"
      /\ ~leaves => at'[w].pc = "announce"
      /\ \A y \in Searchers \ {w} : at'[y] = at[y]
  BY <1>1, NowFacts, LabelFacts
<1>5. Excused' = Excused /\ (leaves => nextIndex >= NumTasks \/ Excused)
  BY <1>1, <1>2, <1>3 DEF Excused
<1>6. duty'[w].task = nextIndex /\ \A y \in Workers \ {w} : duty'[y] = duty[y]
  BY <1>1, WorkerFacts, DutyFacts
<1>7. Covered'
  <2>1. ASSUME NEW i \in 0 .. NumTasks - 1, i < nextIndex'
        PROVE  Excused' \/ InHand(i)' \/ Barren(i)
    <3>1. CASE i = nextIndex
      <4>1. CASE leaves
        BY <1>2, <1>5, <3>1, <4>1
      <4>2. CASE ~leaves
        BY <1>4, <1>6, <3>1, <4>2 DEF InHand, OnTask, Searching
      <4> QED
        BY <4>1, <4>2
    <3>2. CASE i # nextIndex
      <4>1. i < nextIndex
        BY <1>1, <1>2, <2>1, <3>2
      <4>2. Excused \/ InHand(i) \/ Barren(i)
        BY <1>3, <4>1 DEF Covered, Barren
      <4>3. ASSUME InHand(i) PROVE InHand(i)'
        <5>1. PICK y \in Workers : duty[y].task = i /\ Serving(y)
          BY <4>3 DEF InHand, Serving
        <5>2. y # w
          BY <1>1, <5>1, LabelFacts DEF Serving
        <5>3. at'[y] = at[y] /\ duty'[y] = duty[y]
          BY <1>2, <1>4, <1>6, <5>2
        <5> QED
          BY <5>1, <5>3 DEF InHand, Serving, OnTask, Searching
      <4> QED
        BY <1>5, <4>2, <4>3
    <3> QED
      BY <3>1, <3>2
  <2> QED
    BY <1>1, <1>3, <2>1 DEF Covered, Barren, After, game
<1>8. BestTrue'
  BY <1>1, <1>3 DEF BestTrue, Solutions, game
<1>9. CancelTrue'
  <2>1. \A y \in Workers : at'[y].pc = "notify" => at[y].pc = "notify"
    BY <1>2, <1>4
  <2> QED
    BY <1>1, <1>3, <2>1 DEF CancelTrue
<1>10. at'[Caller].pc \in {"idle", "leave"} => nextIndex' >= NumTasks' \/ Excused'
  <2>1. CASE Caller = w
    BY <1>1, <1>2, <1>3, <1>4, <1>5, <2>1
  <2>2. CASE Caller # w
    BY <1>1, <1>2, <1>3, <1>4, <1>5, <2>2 DEF PoolTrue
  <2> QED
    BY <2>1, <2>2
<1> QED
  BY <1>2, <1>3, <1>7, <1>8, <1>9, <1>10 DEF PoolTrue

\* A recorded line runs from the root to the goal.
LEMMA RecordedLine ==
    ASSUME Fits, SearchesTrue, NEW w \in Workers, at[w].pc = "record"
    PROVE  Task(w) \o at[w].ret.line \in Solutions(2 * depth)
<1>1. /\ at[w].pc \in OnTask /\ stack[w] = <<>> /\ w \in Searchers /\ w # Main
      /\ GameOK /\ LinesOK /\ Root \in Positions /\ depth \in 1 .. MaxDepth /\ SplitFits
  BY WorkerFacts, LabelFacts, RouteFacts, HelpAssumption DEF Fits, TypeOK
<1>2. TrueAs(at[w], stack[w], AskedPos(w), AskedPlies(w), aborted[w])
  BY <1>1 DEF SearchesTrue, SearchTrue, Judges
<1>3. at[w].ret.line \in Wanted(stack[w], AskedPos(w), AskedPlies(w))
  BY <1>2 DEF TrueAs, ReturnTrue
<1>4. AskedPos(w) = After(Task(w)) /\ AskedPlies(w) = 2 * depth - 2
  BY <1>1 DEF AskedPos, AskedPlies
<1>5. at[w].ret.line \in lines[2 * depth - 2][After(Task(w))]
  <2>1. Len(<<>>) = 0 /\ (2 * depth - 2) - 0 = 2 * depth - 2 /\ 0 + 1 = 1
    BY <1>1
  <2> QED
    BY <1>1, <1>3, <1>4, <2>1 DEF Wanted, CalledPos
<1>6. /\ Task(w) = <<Task(w)[1], Task(w)[2]>>
      /\ Task(w)[1] \in MovesOf(Root) /\ Task(w)[2] \in MovesOf(moves[Root][Task(w)[1]])
  BY <1>1, TaskFacts, PairFacts
<1>7. 2 * depth \in 2 .. MaxPlies
  BY <1>1, PliesFacts
<1>8. <<Task(w)[1], Task(w)[2]>> \o at[w].ret.line \in lines[2 * depth][Root]
  BY <1>1, <1>5, <1>6, <1>7, TwoPlies DEF After
<1> QED
  BY <1>6, <1>8 DEF Solutions

LEMMA RecordPool == ASSUME Fits, SearchesTrue, PoolTrue, NEW w \in Workers, Record(w) PROVE PoolTrue'
<1> DEFINE found == Found(Task(w) \o at[w].ret.line)
           i == duty[w].task
<1>1. /\ at[w].pc = "record" /\ results' = [results EXCEPT ![i + 1] = found]
      /\ best' = (IF i < best THEN i ELSE best)
      /\ duty' = [duty EXCEPT ![w].look = Workers] /\ Now(w, "notify")
      /\ UNCHANGED <<game, table, stack, aborted, timedOut, nextIndex, slot, route, sols, env>>
  BY DEF Record
<1>2. /\ phase = "join" /\ at[w].pc \in OnTask /\ best \in Nat /\ NumTasks \in Nat
      /\ results \in Seq(Verdicts) /\ Len(results) = NumTasks /\ best <= NumTasks
      /\ w \in Searchers
  BY <1>1, WorkerFacts, LabelFacts DEF SplitFits
<1>3. i \in 0 .. NumTasks - 1
  BY <1>2, TaskFacts
<1>4. BestTrue /\ CancelTrue /\ UNCHANGED <<depth, tasks, phase>> /\ NumTasks' = NumTasks
  BY <1>1, <1>2 DEF PoolTrue, route, NumTasks
<1>5. found.ok /\ found.line \in Solutions(2 * depth)
  <2>1. Task(w) \in Seq(Nat) /\ at[w].ret.line \in Seq(Nat)
    BY <1>2, TaskFacts, PairFacts, SearcherFacts, VerdictParts
  <2>2. Task(w) \o at[w].ret.line \in Seq(Nat)
    BY <2>1
  <2> QED
    BY <1>1, <2>2, VerdictFacts, RecordedLine
<1> HIDE DEF found, i
<1>6. best' \in Nat /\ best' < NumTasks
  BY <1>1, <1>2, <1>3
<1>7. BestTrue'
  <2>1. CASE best' = i
    <3>1. results'[i + 1] = found
      BY <1>1, <1>2, <1>3
    <3> QED
      BY <1>1, <1>4, <1>5, <2>1, <3>1 DEF BestTrue, Solutions, game
  <2>2. CASE best' # i
    <3>1. best' = best /\ results'[best + 1] = results[best + 1]
      BY <1>1, <1>2, <1>3, <2>2
    <3> QED
      BY <1>1, <1>4, <1>6, <3>1 DEF BestTrue, Solutions, game
  <2> QED
    BY <2>1, <2>2
<1>8. Excused'
  BY <1>4, <1>6 DEF Excused
<1>9. CancelTrue'
  BY <1>1, <1>4, <1>6 DEF CancelTrue
<1>10. Covered'
  BY <1>8 DEF Covered
<1> QED
  BY <1>4, <1>7, <1>8, <1>9, <1>10, <1>2 DEF PoolTrue

LEMMA JudgePool == ASSUME Fits, SearchesTrue, PoolTrue, NEW w \in Workers, Judge(w) PROVE PoolTrue'
<1> DEFINE l == CASE timedOut[w] -> "leave"
                  [] ~timedOut[w] /\ (aborted[w] \/ ~at[w].ret.ok) -> "claim"
                  [] OTHER -> "record"
<1>1. /\ at[w].pc = "return" /\ stack[w] = <<>> /\ Now(w, l)
      /\ UNCHANGED <<game, table, stack, aborted, timedOut, pool, route, sols, env>>
  BY DEF Judge
<1>2. /\ l \in {"leave", "claim", "record"} /\ (l = "leave" => timedOut[w])
      /\ (l = "claim" => aborted[w] \/ ~at[w].ret.ok)
  BY FlagsTyped
<1> HIDE DEF l
<1>3. at'[w].pc = l /\ \A y \in Searchers \ {w} : at'[y] = at[y]
  BY <1>1, <1>2, NowFacts, LabelFacts
<1>4. /\ phase = "join" /\ at[w].pc \in OnTask /\ Workers \subseteq Searchers
      /\ depth \in 1 .. MaxDepth /\ w \in Searchers /\ w # Main
  BY <1>1, WorkerFacts, LabelFacts, RouteFacts DEF Searchers, OnTask, Searching
<1>5. l = "claim" => Excused \/ Barren(duty[w].task)
  <2>1. ASSUME l = "claim", aborted[w] PROVE Excused
    BY <1>4, <2>1 DEF PoolTrue, CancelTrue, Excused
  <2>2. ASSUME ~aborted[w], ~at[w].ret.ok PROVE Barren(duty[w].task)
    <3>1. TrueAs(at[w], stack[w], AskedPos(w), AskedPlies(w), aborted[w])
      BY <1>4 DEF SearchesTrue, SearchTrue, Judges
    <3>2. Wanted(stack[w], AskedPos(w), AskedPlies(w)) = {}
      BY <1>1, <2>2, <3>1 DEF TrueAs, ReturnTrue
    <3>3. AskedPos(w) = After(Task(w)) /\ AskedPlies(w) = 2 * depth - 2
      BY <1>4 DEF AskedPos, AskedPlies
    <3>4. Len(<<>>) = 0 /\ (2 * depth - 2) - 0 = 2 * depth - 2 /\ 0 + 1 = 1
      BY <1>4
    <3> QED
      BY <1>1, <3>2, <3>3, <3>4 DEF Wanted, CalledPos, Barren, Task
  <2> QED
    BY <1>2, <2>1, <2>2
<1>6. Serving(w) => Serving(w)' \/ Excused \/ Barren(duty[w].task)
  <2>1. l = "record" => Serving(w)'
    BY <1>3 DEF Serving, OnTask, Searching
  <2>2. l = "leave" => Excused
    BY <1>2 DEF Excused
  <2> QED
    BY <1>2, <1>5, <2>1, <2>2
<1>7. at'[w].pc \in {"idle", "leave"} => at[w].pc = "leave" \/ Excused
  BY <1>2, <1>3 DEF Excused
<1> QED
  BY <1>1, <1>2, <1>3, <1>4, <1>6, <1>7, WorkerPool DEF pool, env

LEMMA WorkPool == ASSUME Fits, SearchesTrue, PoolTrue, NEW w \in Workers, Work(w) PROVE PoolTrue'
<1>1. /\ at[w].pc # "idle" /\ phase = "join" /\ SplitFits /\ BestTrue /\ CancelTrue
      /\ best \in Nat /\ NumTasks \in Nat /\ w \in Searchers /\ Workers \subseteq Searchers
  BY WorkerFacts DEF Work, Claim, Announce, Clear, Recheck, Judge, Record, Look, CancelSlot, Unlock, Leave,
                     PoolTrue, Searchers
<1>2. /\ \A y \in Workers \ {w} : at'[y] = at[y]
      /\ ~Claim(w) => \A y \in Workers : duty'[y].task = duty[y].task
      /\ \A y \in Workers : aborted'[y] => aborted[y]
  BY <1>1, WorkMoves
<1> DEFINE Same == UNCHANGED <<game, route, nextIndex, best, results, timedOut, cancelled>>
           Kept == \A y \in Workers : slot'[y].cancel => slot[y].cancel
<1>3. /\ slot \in [Workers -> Slots] /\ duty[w] \in Duties
      /\ \A s \in Slots : \A i \in Nat : [s EXCEPT !.current = i].cancel = s.cancel
      /\ \A s \in Slots : \A b \in BOOLEAN : [s EXCEPT !.cancel = b].cancel = b
  BY WorkerFacts, SlotFacts
<1>4. CASE Announce(w) \/ Clear(w) \/ Recheck(w)
  <2>1. Same /\ at[w].pc # "notify" /\ ~Claim(w)
    BY <1>4 DEF Announce, Clear, Recheck, Claim, pool, env
  <2>2. Kept
    <3>1. CASE Announce(w)
      <4>1. slot' = [slot EXCEPT ![w] = [slot[w] EXCEPT !.current = duty[w].task]] /\ duty[w].task \in Nat
        BY <3>1, DutyFacts, <1>3 DEF Announce
      <4>2. slot'[w].cancel = slot[w].cancel /\ \A y \in Workers \ {w} : slot'[y] = slot[y]
        BY <1>3, <4>1
      <4> QED
        BY <4>2
    <3>2. CASE Clear(w)
      <4>1. slot' = [slot EXCEPT ![w] = [slot[w] EXCEPT !.cancel = FALSE]] /\ FALSE \in BOOLEAN
        BY <3>2 DEF Clear
      <4>2. ~slot'[w].cancel /\ \A y \in Workers \ {w} : slot'[y] = slot[y]
        BY <1>3, <4>1
      <4> QED
        BY <4>2
    <3>3. CASE Recheck(w)
      BY <3>3 DEF Recheck, pool
    <3> QED
      BY <1>4, <3>1, <3>2, <3>3
  <2>3. at'[w].pc \in {"clear", "recheck", "claim", "enter"} /\ (at'[w].pc = "claim" => Excused)
    <3>1. CASE Announce(w) \/ Clear(w)
      BY <3>1, NowFacts, LabelFacts DEF Announce, Clear
    <3>2. CASE Recheck(w)
      <4>1. at[w].pc \in OnTask
        BY <3>2, LabelFacts DEF Recheck
      <4>2. duty[w].task < NumTasks
        BY <1>1, <4>1 DEF SplitFits
      <4>3. CASE duty[w].task > best
        <5>1. at'[w].pc = "claim"
          BY <3>2, <4>3, NowFacts, LabelFacts DEF Recheck
        <5>2. best < NumTasks
          BY <1>1, <1>3, <4>2, <4>3, DutyFacts
        <5> QED
          BY <5>1, <5>2 DEF Excused
      <4>4. CASE ~(duty[w].task > best)
        <5>1. AskedPlies(w) = 2 * depth - 2 /\ AskedPlies(w) \in 0 .. MaxPlies
          BY <1>1, RouteFacts, SearcherFacts DEF AskedPlies
        <5>2. at'[w].pc = "enter"
          BY <1>1, <3>2, <4>1, <4>4, <5>1, TaskFacts, Entered DEF Recheck
        <5> QED
          BY <5>2
      <4> QED
        BY <4>3, <4>4
    <3> QED
      BY <1>4, <3>1, <3>2
  <2>4. Serving(w) => Serving(w)' \/ Excused
    BY <2>3 DEF Serving, OnTask, Searching
  <2> QED
    BY <1>1, <1>2, <2>1, <2>2, <2>3, <2>4, WorkerPool
<1>5. CASE Look(w) \/ CancelSlot(w) \/ Unlock(w) \/ Leave(w)
  <2>1. Same /\ at[w].pc \in {"notify", "leave"} /\ ~Claim(w) /\ ~Serving(w)
    BY <1>5 DEF Look, CancelSlot, Unlock, Leave, Claim, pool, env, Serving, OnTask, Searching
  <2>2. \A y \in Workers : slot'[y].cancel => slot[y].cancel \/ at[w].pc = "notify"
    <3>1. CASE Leave(w)
      <4>1. slot' = [slot EXCEPT ![w] = [slot[w] EXCEPT !.current = NumTasks]]
        BY <3>1 DEF Leave
      <4>2. slot'[w].cancel = slot[w].cancel /\ \A y \in Workers \ {w} : slot'[y] = slot[y]
        BY <1>1, <1>3, <4>1
      <4> QED
        BY <4>2
    <3>2. CASE ~Leave(w)
      BY <1>5, <3>2 DEF Look, CancelSlot, Unlock
    <3> QED
      BY <3>1, <3>2
  <2>3. /\ at'[w].pc = "notify" => at[w].pc = "notify"
        /\ at'[w].pc \in {"idle", "leave"} => at[w].pc = "leave"
    <3>1. CASE Look(w) \/ CancelSlot(w)
      BY <3>1 DEF Look, CancelSlot
    <3>2. CASE Unlock(w)
      BY <3>2, NowFacts, LabelFacts DEF Unlock
    <3>3. CASE Leave(w)
      BY <1>1, <3>3, IdleFacts, Becomes DEF Leave
    <3> QED
      BY <1>5, <3>1, <3>2, <3>3
  <2> QED
    BY <1>1, <1>2, <2>1, <2>2, <2>3, WorkerPool
<1> QED
  BY <1>4, <1>5, ClaimPool, JudgePool, RecordPool DEF Work

LEMMA StartPool == ASSUME Fits, PoolTrue, TaskList # <<>>, StartSplit PROVE PoolTrue'
<1>1. /\ phase = "deepen" /\ phase' = "join" /\ tasks' = TaskList /\ TaskList \in Seq(Pairs)
      /\ nextIndex' = 0 /\ best' = Len(TaskList)
      /\ slot' = [w \in Workers |-> [current |-> Len(TaskList), cancel |-> FALSE]]
      /\ at'[Caller].pc = "claim" /\ \A w \in Workers : at'[w].pc \in {"idle", "claim"}
      /\ aborted' = aborted
  BY StartFacts
<1>2. NumTasks' = Len(TaskList) /\ Len(TaskList) \in Nat
  BY <1>1 DEF NumTasks
<1>3. BestTrue' /\ Covered'
  BY <1>1, <1>2 DEF BestTrue, Covered
<1>4. CancelTrue'
  <2>1. \A w \in Workers : ~slot'[w].cancel /\ ~aborted'[w] /\ at'[w].pc # "notify"
    BY <1>1 DEF PoolTrue
  <2> QED
    BY <2>1 DEF CancelTrue
<1> QED
  BY <1>1, <1>3, <1>4 DEF PoolTrue

LEMMA RoutePool == ASSUME Fits, PoolTrue, Route PROVE PoolTrue'
<1>1. CASE Join
  <2>1. phase' # "join"
    <3> DEFINE v == IF best < NumTasks THEN results[best + 1] ELSE Nothing
    <3>1. v \in Verdicts /\ Settle(v)
      BY <1>1, BestVerdict DEF Join
    <3> HIDE DEF v
    <3> QED
      BY <3>1, SettleFacts
  <2> QED
    BY <1>1, <2>1, JoinFlags, PoolRests
<1>2. CASE StartSplit /\ TaskList # <<>>
  BY <1>2, StartPool
<1>3. CASE StartSplit /\ TaskList = <<>>
  <2>1. phase = "deepen" /\ Settle(Nothing) /\ aborted' = aborted
    BY <1>3 DEF StartSplit, Deepening
  <2>2. phase' # "join"
    BY <2>1, SettleFacts, VerdictFacts
  <2> QED
    BY <2>1, <2>2, PoolRests DEF PoolTrue
<1>4. CASE SearchedAlone
  <2>1. phase = "search" /\ aborted' = aborted
    BY <1>4 DEF SearchedAlone
  <2>2. phase' # "join"
    <3> DEFINE v == IF aborted[Main] THEN Nothing ELSE at[Main].ret
    <3>1. v \in Verdicts /\ Settle(v)
      BY <1>4, VerdictFacts, RouteFacts, SearcherFacts DEF SearchedAlone
    <3> HIDE DEF v
    <3> QED
      BY <3>1, SettleFacts
  <2> QED
    BY <2>1, <2>2, PoolRests DEF PoolTrue
<1>5. CASE Enumerate \/ Enumerated \/ OutOfTime \/ SearchAlone
  <2>1. phase # "join" /\ phase' # "join" /\ aborted' = aborted
    BY <1>5 DEF Enumerate, Enumerated, OutOfTime, SearchAlone, Deepening
  <2> QED
    BY <2>1, PoolRests DEF PoolTrue
<1> QED
  BY <1>1, <1>2, <1>3, <1>4, <1>5 DEF Route

LEMMA OutsidePool == ASSUME Fits, PoolTrue, Expire \/ CancelLane \/ UNCHANGED vars PROVE PoolTrue'
<1>1. /\ UNCHANGED <<game, table, at, stack, aborted, timedOut, pool, route, sols>>
      /\ cancelled => cancelled'
  BY DEF Expire, CancelLane, vars, env
<1>2. /\ UNCHANGED <<game, route, nextIndex, best, results, slot, duty>> /\ phase' = phase
      /\ Caller \in Workers
  BY <1>1, HelpAssumption DEF pool, route
<1>3. CASE phase = "join"
  <2>1. \A y \in Workers : Serving(y) => Serving(y)' /\ duty'[y].task = duty[y].task
    BY <1>1, <1>2 DEF Serving, OnTask, Searching
  <2> QED
    BY <1>1, <1>2, <1>3, <2>1, PoolKept
<1>4. CASE phase # "join"
  BY <1>1, <1>2, <1>4, PoolRests DEF PoolTrue
<1> QED
  BY <1>3, <1>4

LEMMA PoolInductive == ASSUME Fits, SearchesTrue, PoolTrue, [Next \/ Done]_vars PROVE PoolTrue'
BY ProvePool, CollectPool, WorkPool, RoutePool, OutsidePool DEF Next, Done

LEMMA PoolInit == ASSUME Init PROVE PoolTrue
<1>1. phase = "deepen" /\ \A w \in Workers : ~aborted[w]
  BY DEF Init, Searchers
<1> QED
  BY <1>1 DEF PoolTrue

-----------------------------------------------------------------------------
(* What the route concludes. *)

MainAborted ==
    aborted[Main] =>
        /\ (timedOut[Main] \/ cancelled) /\ phase \in {"search", "done"}
        /\ at[Main].pc \in {"return", "idle"}

\* No line is the mark of having none.
LEMMA NoLineSolves == ASSUME Fits, NEW d \in 1 .. MaxDepth PROVE NoLine \notin Solutions(2 * d)
<1>1. GameOK /\ LinesOK /\ Root \in Positions /\ 2 * d \in 0 .. MaxPlies
  BY HelpAssumption, PliesFacts DEF Fits, TypeOK
<1>2. NoLine[1] = 0 /\ 1 \in 1 .. Len(NoLine)
  BY DEF NoLine
<1>3. ASSUME NoLine \in Seq(Nat \ {0}) PROVE FALSE
  <2>1. NoLine[1] \in Nat \ {0}
    BY <1>2, <1>3, ElementOfSeq
  <2> QED
    BY <1>2, <2>1
<1> QED
  BY <1>1, <1>3, LinesTyped DEF Solutions

LEMMA SameLines ==
    ASSUME UNCHANGED game
    PROVE  /\ \A k : Solutions(k)' = Solutions(k)
           /\ OneLength' = OneLength /\ Silent' = Silent
           /\ depth' = depth => NoneBelow(depth)' = NoneBelow(depth)
<1>1. \A k : Solutions(k)' = Solutions(k)
  BY DEF Solutions, game
<1>2. OneLength' = OneLength
  BY DEF OneLength, game
<1>3. Silent' = Silent
  BY <1>1, <1>2 DEF Silent, NoneBelow, MaxPlies
<1>4. depth' = depth => NoneBelow(depth)' = NoneBelow(depth)
  BY <1>1 DEF NoneBelow
<1> QED
  BY <1>1, <1>2, <1>3, <1>4

\* A step that is not of the route.
LEMMA RouteKept ==
    ASSUME Fits, RouteTrue, phase # "done", UNCHANGED <<game, route>>,
           Skipped => Skipped', MainAborted'
    PROVE  RouteTrue'
<1>1. UNCHANGED <<depth, phase, answer>> /\ answer = NoLine /\ (OneLength \/ NoneBelow(depth) \/ Skipped)
  BY DEF route, RouteTrue
<1>2. OneLength' = OneLength /\ NoneBelow(depth)' = NoneBelow(depth) /\ NoLine' = NoLine
  BY <1>1, SameLines DEF NoLine
<1> QED
  BY <1>1, <1>2 DEF RouteTrue, MainAborted, NoLine

LEMMA BusyPhase ==
    ASSUME Fits, NEW x \in Searchers, at[x].pc # "idle"
    PROVE  IF x = Main THEN phase = "search" ELSE phase = "join"
BY RouteFacts DEF Searchers

LEMMA ProveRoute == ASSUME Fits, RouteTrue, NEW x \in Searchers, Prove(x) PROVE RouteTrue'
<1>1. Local(x) /\ UNCHANGED <<game, pool, route, env>>
  BY ProveFits, AbortFacts
<1>2. at[x].pc \in Searching /\ at[x].pc # "idle" /\ Main \in Searchers /\ Main \notin Workers
  BY <1>1, LabelFacts, RouteFacts DEF Local
<1>3. phase # "done" /\ (x = Main => phase = "search") /\ UNCHANGED <<phase, cancelled>>
  BY <1>1, <1>2, BusyPhase DEF route, env
<1>4. ASSUME Skipped PROVE FALSE
  <2>1. x \in Workers /\ phase = "join"
    BY <1>2, <1>4, BusyPhase DEF Skipped, Searchers
  <2> QED
    BY <1>2, <1>4, <2>1 DEF Skipped, Searching
<1>5. MainAborted'
  <2>1. SUFFICES ASSUME aborted'[Main]
                 PROVE  /\ (timedOut'[Main] \/ cancelled) /\ phase \in {"search", "done"}
                        /\ at'[Main].pc \in {"return", "idle"}
    BY <1>3 DEF MainAborted, Main
  <2>2. timedOut \in [Searchers -> BOOLEAN]
    BY FlagsTyped
  <2>3. CASE x = Main /\ Cancel(x)
    <3>1. PICK expired : /\ ~expired => cancelled \/ SlotCancelled(x)
                         /\ timedOut' = [timedOut EXCEPT ![x] = @ \/ expired]
      BY <2>3 DEF Cancel
    <3>2. ~SlotCancelled(x)
      BY <1>2, <2>3 DEF SlotCancelled
    <3>3. timedOut'[Main] \/ cancelled
      BY <1>2, <2>2, <2>3, <3>1, <3>2, Zenon
    <3>4. at'[x].pc = "return"
      BY <2>3, VerdictFacts, Returned DEF Cancel
    <3> QED
      BY <1>3, <2>3, <3>3, <3>4
  <2>4. CASE x = Main /\ ~Cancel(x)
    <3>1. aborted[Main]
      BY <2>1, <2>4, AbortFacts
    <3>2. (timedOut[Main] \/ cancelled) /\ at[Main].pc = "return"
      BY <1>2, <2>4, <3>1 DEF RouteTrue
    <3>3. Unwind(x)
      BY <2>4, <3>1, <3>2 DEF Prove, Leaf, Prune, TableAnswers, Open, SkipMove, TryMove, NoMoveSolves,
                              MoveFails, MoveSolves, Proving, HasMove
    <3>4. at'[x].pc = "return" /\ timedOut' = timedOut
      BY <3>3, VerdictFacts, Returned DEF Unwind
    <3> QED
      BY <1>3, <2>4, <3>2, <3>4
  <2>5. CASE x # Main
    <3>1. aborted[Main] /\ at'[Main] = at[Main]
      BY <1>1, <1>2, <2>1, <2>5, AbortFacts DEF Local, Others
    <3>2. phase \in {"search", "done"}
      BY <3>1 DEF RouteTrue
    <3> QED
      BY <1>2, <2>5, <3>2, BusyPhase
  <2> QED
    BY <2>3, <2>4, <2>5
<1> QED
  BY <1>1, <1>3, <1>4, <1>5, RouteKept

LEMMA CollectRoute == ASSUME Fits, RouteTrue, Collect PROVE RouteTrue'
<1>1. "all" \in options /\ UNCHANGED <<game, route, env, aborted, timedOut>>
  BY DEF Collect, CollectLeaf, CollectOpen, CollectLeave, CollectNext, Collecting
<1>2. Local(Main) /\ Main \in Searchers
  BY CollectFits, RouteFacts
<1>3. phase = "search"
  BY <1>2, LabelFacts, BusyPhase DEF Local
<1>4. ~Skipped
  BY <1>3 DEF Skipped
<1>5. MainAborted'
  <2>1. SUFFICES ASSUME aborted'[Main]
                 PROVE  /\ (timedOut[Main] \/ cancelled) /\ at'[Main].pc \in {"return", "idle"}
    BY <1>1, <1>3 DEF MainAborted, Main, route, env
  <2>2. aborted[Main] /\ (timedOut[Main] \/ cancelled) /\ at[Main].pc = "return"
    BY <1>1, <1>2, <2>1, LabelFacts DEF RouteTrue, Local
  <2>3. CollectLeave
    BY <2>2 DEF Collect, CollectLeaf, CollectOpen, CollectNext
  <2>4. at'[Main].pc = "return"
    BY <1>2, <2>3, VerdictFacts, Returned DEF CollectLeave
  <2> QED
    BY <2>2, <2>4
<1> QED
  BY <1>1, <1>3, <1>4, <1>5, RouteKept

LEMMA WorkRoute == ASSUME Fits, RouteTrue, NEW w \in Workers, Work(w) PROVE RouteTrue'
<1>1. /\ at[w].pc # "idle" /\ UNCHANGED <<game, route, timedOut, cancelled>> /\ w \in Searchers
      /\ Main \in Searchers /\ Main \notin Workers /\ Workers \subseteq Searchers
  BY RouteFacts DEF Work, Claim, Announce, Clear, Recheck, Judge, Record, Look, CancelSlot, Unlock,
                    Leave, pool, env, Searchers
<1>2. phase = "join" /\ UNCHANGED <<phase, depth, tasks>>
  BY <1>1, BusyPhase DEF route
<1>3. \A y \in Searchers \ {w} : at'[y] = at[y] /\ aborted'[y] = aborted[y]
  BY WorkMoves
<1>4. ASSUME Skipped PROVE Skipped'
  <2>1. cancelled /\ Splits /\ best = NumTasks /\ \A y \in Workers : at[y].pc \in {"idle", "claim", "leave"}
    BY <1>2, <1>4 DEF Skipped
  <2>2. Claim(w) \/ Leave(w)
    BY <1>1, <2>1 DEF Work, Announce, Clear, Recheck, Judge, Record, Look, CancelSlot, Unlock
  <2>3. at'[w].pc \in {"idle", "leave"} /\ best' = best
    <3>1. CASE Claim(w)
      BY <2>1, <3>1, NowFacts, LabelFacts DEF Claim
    <3>2. CASE Leave(w)
      BY <1>1, <3>2, IdleFacts, Becomes DEF Leave
    <3> QED
      BY <2>2, <3>1, <3>2
  <2>4. \A y \in Workers : at'[y].pc \in {"idle", "claim", "leave"}
    BY <1>1, <1>3, <2>1, <2>3
  <2> QED
    BY <1>1, <1>2, <2>1, <2>3, <2>4 DEF Skipped, Splits, NumTasks, game
<1>5. MainAborted'
  <2>1. at'[Main] = at[Main] /\ aborted'[Main] = aborted[Main]
    BY <1>1, <1>3
  <2> QED
    BY <1>1, <1>2, <2>1 DEF MainAborted, RouteTrue, Main
<1> QED
  BY <1>1, <1>2, <1>4, <1>5, RouteKept

LEMMA OutsideRoute == ASSUME Fits, RouteTrue, Expire \/ CancelLane \/ UNCHANGED vars PROVE RouteTrue'
<1>1. CASE Expire \/ CancelLane
  <2>1. /\ phase # "done" /\ UNCHANGED <<game, table, at, stack, aborted, timedOut, pool, route, sols>>
        /\ cancelled => cancelled'
    BY <1>1 DEF Expire, CancelLane
  <2>2. Skipped => Skipped'
    BY <2>1 DEF Skipped, Splits, NumTasks, game, route, pool
  <2>3. MainAborted'
    BY <2>1 DEF MainAborted, RouteTrue, Main, route
  <2> QED
    BY <2>1, <2>2, <2>3, RouteKept
<1>2. CASE UNCHANGED vars
  <2>1. UNCHANGED <<game, depth, phase, answer, tasks, cancelled, timedOut, aborted, at, best>>
    BY <1>2 DEF vars, route, pool, env
  <2>2. Skipped => Skipped'
    BY <2>1 DEF Skipped, Splits, NumTasks, game
  <2>3. /\ OneLength' = OneLength /\ NoneBelow(depth)' = NoneBelow(depth) /\ Silent' = Silent
        /\ \A k : Solutions(k)' = Solutions(k)
    BY <2>1, SameLines
  <2> QED
    BY <2>1, <2>2, <2>3 DEF RouteTrue, Main, NoLine, game
<1> QED
  BY <1>1, <1>2

\* An iteration is over: what it found, or that nothing of its length was there.
LEMMA SettleTrue ==
    ASSUME Fits, "all" \notin options, UNCHANGED <<game, cancelled>>, NEW proof \in Verdicts, Settle(proof),
           answer = NoLine,
           proof.ok => proof.line \in Solutions(2 * depth) /\ (OneLength \/ NoneBelow(depth)),
           aborted[Main] => timedOut'[Main] \/ cancelled,
           ~proof.ok /\ ~aborted[Main] /\ ~timedOut'[Main] =>
               \/ cancelled /\ Splits
               \/ Solutions(2 * depth) = {} /\ (OneLength \/ NoneBelow(depth)),
           aborted'[Main] = aborted[Main], at'[Main].pc = "idle"
    PROVE  RouteTrue'
<1>1. depth \in 1 .. MaxDepth /\ MaxDepth \in Nat /\ MaxPlies = 2 * MaxDepth
  BY RouteFacts, PliesFacts
<1>2. /\ \A k : Solutions(k)' = Solutions(k)
      /\ OneLength' = OneLength /\ Silent' = Silent
      /\ depth' = depth => NoneBelow(depth)' = NoneBelow(depth)
  BY SameLines
<1>3. NoLine' = NoLine /\ Main' = Main /\ "all" \notin options'
  BY DEF NoLine, Main, game
<1>4. CASE proof.ok
  <2>1. answer' = proof.line /\ phase' = "done" /\ depth' = depth
    BY <1>4 DEF Settle
  <2>2. answer' # NoLine
    BY <1>1, <1>4, <2>1, NoLineSolves
  <2> QED
    BY <1>2, <1>3, <1>4, <2>1, <2>2 DEF RouteTrue
<1>5. CASE ~proof.ok /\ (aborted[Main] \/ timedOut'[Main])
  <2>1. answer' = answer /\ phase' = "done" /\ depth' = depth
    BY <1>5 DEF Settle
  <2>2. timedOut'[Main] \/ cancelled'
    BY <1>5
  <2> QED
    BY <1>2, <1>3, <2>1, <2>2 DEF RouteTrue
<1>6. CASE ~proof.ok /\ ~aborted[Main] /\ ~timedOut'[Main]
  <2>1. /\ phase' = (IF depth < MaxDepth THEN "deepen" ELSE "done")
        /\ depth' = (IF depth < MaxDepth THEN depth + 1 ELSE depth)
        /\ answer' = answer
    BY <1>6 DEF Settle
  <2>2. NoneBelow(depth) /\ Solutions(2 * depth) = {} => \A k \in 1 .. depth : Solutions(2 * k) = {}
    BY <1>1 DEF NoneBelow
  <2>3. CASE depth < MaxDepth
    <3>1. depth' - 1 = depth /\ phase' = "deepen" /\ depth' > 1
      BY <1>1, <2>1, <2>3
    <3>2. CASE cancelled /\ Splits
      <4>1. Skipped'
        BY <3>1, <3>2 DEF Skipped, Splits, game
      <4> QED
        BY <1>3, <1>6, <2>1, <3>1, <4>1 DEF RouteTrue
    <3>3. CASE Solutions(2 * depth) = {} /\ (OneLength \/ NoneBelow(depth))
      <4>1. OneLength' \/ NoneBelow(depth)'
        BY <1>2, <2>2, <3>1, <3>3 DEF NoneBelow
      <4> QED
        BY <1>3, <1>6, <2>1, <3>1, <4>1 DEF RouteTrue
    <3> QED
      BY <1>6, <3>2, <3>3
  <2>4. CASE ~(depth < MaxDepth)
    <3>1. depth = MaxDepth /\ depth' = depth /\ phase' = "done"
      BY <1>1, <2>1, <2>4
    <3>2. cancelled \/ Silent
      <4>1. (MaxDepth + 1) - 1 = depth
        BY <1>1, <3>1
      <4>2. CASE cancelled
        BY <4>2
      <4>3. CASE Solutions(2 * depth) = {} /\ (OneLength \/ NoneBelow(depth))
        BY <1>1, <2>2, <3>1, <4>1, <4>3 DEF Silent, NoneBelow
      <4> QED
        BY <1>6, <4>2, <4>3
    <3> QED
      BY <1>2, <1>3, <1>6, <2>1, <3>1, <3>2 DEF RouteTrue
  <2> QED
    BY <2>3, <2>4
<1> QED
  BY <1>4, <1>5, <1>6

\* When no pair of a move and a reply leads on, no line of the iteration exists.
LEMMA SplitBarren ==
    ASSUME Fits, depth > 1, NEW list, ListFits(list, Len(moves[Root])),
           \A i \in 1 .. Len(list) : lines[2 * depth - 2][After(list[i])] = {}
    PROVE  Solutions(2 * depth) = {}
<1>1. /\ GameOK /\ LinesOK /\ Root \in Positions /\ 2 * depth \in 2 .. MaxPlies
      /\ MovesOf(Root) = 1 .. Len(moves[Root])
  BY RouteFacts, PliesFacts, HelpAssumption DEF Fits, TypeOK, MovesOf
<1>2. ASSUME NEW m \in MovesOf(Root), NEW r \in MovesOf(moves[Root][m])
      PROVE  lines[2 * depth - 2][moves[moves[Root][m]][r]] = {}
  <2>1. PICK i \in 1 .. Len(list) : list[i] = <<m, r>>
    BY <1>1 DEF ListFits
  <2>2. After(list[i]) = moves[moves[Root][m]][r]
    <3>1. list[i][1] = m /\ list[i][2] = r
      BY <2>1
    <3> QED
      BY <3>1, Zenon DEF After
  <2> QED
    BY <2>2
<1> QED
  BY <1>1, <1>2, TwoPlies DEF Solutions

LEMMA JoinRoute == ASSUME Fits, PoolTrue, RouteTrue, Join PROVE RouteTrue'
<1> DEFINE proof == IF best < NumTasks THEN results[best + 1] ELSE Nothing
<1>1. /\ phase = "join" /\ (\A w \in Workers : at[w].pc = "idle") /\ Settle(proof)
      /\ UNCHANGED <<game, at, cancelled>>
  BY DEF Join, env
<1>2. /\ proof \in Verdicts /\ SplitFits /\ best \in Nat /\ NumTasks \in Nat /\ best <= NumTasks
      /\ tasks \in Seq(Pairs) /\ Caller \in Workers
  BY <1>1, BestVerdict, HelpAssumption DEF Fits, Shape, Roles, SplitFits, TypeOK, SplitOK, NumTasks
<1>3. answer = NoLine /\ (OneLength \/ NoneBelow(depth) \/ Skipped)
  BY <1>1 DEF RouteTrue
<1>4. proof.ok => proof.line \in Solutions(2 * depth) /\ (OneLength \/ NoneBelow(depth))
  <2>1. proof.ok => best < NumTasks
    BY VerdictFacts
  <2>2. best < NumTasks => ~Skipped
    BY <1>1, <1>2 DEF Skipped
  <2> QED
    BY <1>1, <1>3, <2>1, <2>2 DEF PoolTrue, BestTrue
<1>5. ~aborted[Main]
  BY <1>1 DEF RouteTrue
<1>6. ASSUME ~proof.ok, ~timedOut'[Main]
      PROVE  \/ cancelled /\ Splits
             \/ Solutions(2 * depth) = {} /\ (OneLength \/ NoneBelow(depth))
  <2>1. CASE cancelled
    BY <1>2, <2>1 DEF SplitFits
  <2>2. CASE ~cancelled
    <3>1. OneLength \/ NoneBelow(depth)
      BY <1>3, <2>2 DEF Skipped
    <3>2. ~Excused
      <4>1. ~(best < NumTasks)
        BY <1>1, <1>6 DEF PoolTrue, BestTrue
      <4>2. \A w \in Workers : ~timedOut[w]
        BY <1>6, JoinFlags
      <4> QED
        BY <2>2, <4>1, <4>2 DEF Excused
    <3>3. nextIndex >= NumTasks /\ nextIndex \in Nat
      BY <1>1, <1>2, <3>2 DEF PoolTrue, Fits, TypeOK, SplitOK
    <3>4. ASSUME NEW i \in 1 .. Len(tasks) PROVE lines[2 * depth - 2][After(tasks[i])] = {}
      <4>1. i - 1 \in 0 .. NumTasks - 1 /\ i - 1 < nextIndex /\ (i - 1) + 1 = i
        BY <1>2, <3>3 DEF NumTasks
      <4>2. ~InHand(i - 1)
        BY <1>1, LabelFacts DEF InHand
      <4> QED
        BY <1>1, <3>2, <4>1, <4>2 DEF PoolTrue, Covered
    <3>5. Solutions(2 * depth) = {}
      BY <1>2, <3>4, SplitBarren DEF SplitFits, Splits
    <3> QED
      BY <3>1, <3>5
  <2> QED
    BY <2>1, <2>2
<1>7. aborted'[Main] = aborted[Main] /\ at'[Main].pc = "idle" /\ "all" \notin options
  BY <1>1, <1>2, JoinFlags, RouteFacts DEF SplitFits
<1> HIDE DEF proof
<1> QED
  BY <1>1, <1>2, <1>3, <1>4, <1>5, <1>6, <1>7, SettleTrue

LEMMA EmptySplitRoute ==
    ASSUME Fits, RouteTrue, TaskList = <<>>, StartSplit PROVE RouteTrue'
<1>1. /\ phase = "deepen" /\ Splits /\ "all" \notin options
      /\ UNCHANGED <<game, at, aborted, timedOut, cancelled>> /\ Settle(Nothing)
  BY DEF StartSplit, Deepening, env
<1>2. answer = NoLine /\ (OneLength \/ NoneBelow(depth) \/ Skipped) /\ ~aborted[Main]
  BY <1>1 DEF RouteTrue
<1>3. Solutions(2 * depth) = {}
  <2>1. ListFits(TaskList, Len(moves[Root])) /\ depth > 1 /\ Len(TaskList) = 0
    BY <1>1, TaskListFits DEF Splits, Fits, TypeOK
  <2>2. \A i \in 1 .. Len(TaskList) : lines[2 * depth - 2][After(TaskList[i])] = {}
    BY <2>1
  <2> QED
    BY <2>1, <2>2, SplitBarren
<1>4. \/ cancelled /\ Splits
      \/ Solutions(2 * depth) = {} /\ (OneLength \/ NoneBelow(depth))
  BY <1>1, <1>2, <1>3 DEF Skipped
<1>5. at'[Main].pc = "idle" /\ Nothing \in Verdicts /\ ~Nothing.ok
  BY <1>1, RouteFacts, VerdictFacts
<1> QED
  BY <1>1, <1>2, <1>4, <1>5, SettleTrue

LEMMA StartRoute == ASSUME Fits, RouteTrue, TaskList # <<>>, StartSplit PROVE RouteTrue'
<1>1. /\ phase = "deepen" /\ phase' = "join" /\ Splits
      /\ tasks' = TaskList /\ best' = Len(TaskList)
      /\ at'[Main] = at[Main] /\ \A w \in Workers : at'[w].pc \in {"idle", "claim"}
      /\ UNCHANGED <<depth, answer, timedOut, game, aborted, cancelled>>
  BY StartFacts DEF env
<1>2. answer = NoLine /\ (OneLength \/ NoneBelow(depth) \/ Skipped) /\ ~aborted[Main]
  BY <1>1 DEF RouteTrue
<1>3. Skipped => Skipped'
  BY <1>1 DEF Skipped, Splits, NumTasks, game
<1>4. OneLength' = OneLength /\ NoneBelow(depth)' = NoneBelow(depth) /\ NoLine' = NoLine /\ Main' = Main
  BY <1>1, SameLines DEF NoLine, Main
<1> QED
  BY <1>1, <1>2, <1>3, <1>4 DEF RouteTrue

LEMMA BeginRoute ==
    ASSUME Fits, RouteTrue, Enumerate \/ SearchAlone PROVE RouteTrue'
<1>1. /\ phase = "deepen" /\ phase' = "search"
      /\ UNCHANGED <<game, depth, answer, aborted>>
      /\ "all" \in options \/ ~Splits
  BY DEF Enumerate, SearchAlone, Deepening
<1>2. answer = NoLine /\ (OneLength \/ NoneBelow(depth) \/ Skipped) /\ ~aborted[Main]
  BY <1>1 DEF RouteTrue
<1>3. OneLength \/ NoneBelow(depth)
  BY <1>1, <1>2 DEF Skipped, OneLength
<1>4. OneLength' = OneLength /\ NoneBelow(depth)' = NoneBelow(depth) /\ NoLine' = NoLine /\ Main' = Main
  BY <1>1, SameLines DEF NoLine, Main
<1> QED
  BY <1>1, <1>2, <1>3, <1>4 DEF RouteTrue

LEMMA AloneRoute == ASSUME Fits, SearchesTrue, RouteTrue, SearchedAlone PROVE RouteTrue'
<1> DEFINE proof == IF aborted[Main] THEN Nothing ELSE at[Main].ret
<1>1. /\ phase = "search" /\ "all" \notin options /\ at[Main].pc = "return" /\ stack[Main] = <<>>
      /\ timedOut' = timedOut /\ Settle(proof) /\ Do(Main, Idle) /\ UNCHANGED <<game, aborted, cancelled>>
  BY DEF SearchedAlone, env
<1>2. proof \in Verdicts
  BY VerdictFacts, RouteFacts, SearcherFacts
<1>3. answer = NoLine /\ (OneLength \/ NoneBelow(depth))
  BY <1>1 DEF RouteTrue, Skipped
<1>4. /\ at[Main].ret.ok => at[Main].ret.line \in Solutions(2 * depth)
      /\ ~at[Main].ret.ok /\ ~aborted[Main] => Solutions(2 * depth) = {}
  <2>1. TrueAs(at[Main], stack[Main], AskedPos(Main), AskedPlies(Main), aborted[Main])
    BY <1>1, RouteFacts DEF SearchesTrue, SearchTrue, Judges
  <2>2. ReturnTrue(at[Main].ret, aborted[Main], Wanted(stack[Main], AskedPos(Main), AskedPlies(Main)))
    BY <1>1, <2>1 DEF TrueAs
  <2>3. AskedPos(Main) = Root /\ AskedPlies(Main) = 2 * depth
    BY <1>1 DEF AskedPos, AskedPlies
  <2>4. Len(<<>>) = 0 /\ (2 * depth) - 0 = 2 * depth /\ 0 + 1 = 1
    BY RouteFacts
  <2>5. Wanted(stack[Main], AskedPos(Main), AskedPlies(Main)) = Solutions(2 * depth)
    BY <1>1, <2>3, <2>4 DEF Wanted, CalledPos, Solutions
  <2> QED
    BY <2>2, <2>5 DEF ReturnTrue
<1>5. proof.ok => proof.line \in Solutions(2 * depth) /\ (OneLength \/ NoneBelow(depth))
  BY <1>3, <1>4, VerdictFacts
<1>6. aborted[Main] => timedOut'[Main] \/ cancelled
  BY <1>1 DEF RouteTrue
<1>7. ~proof.ok /\ ~aborted[Main] => Solutions(2 * depth) = {}
  BY <1>4
<1>8. at'[Main].pc = "idle" /\ aborted'[Main] = aborted[Main]
  BY <1>1, RouteFacts, IdleFacts, Becomes
<1> HIDE DEF proof
<1> QED
  BY <1>1, <1>2, <1>3, <1>5, <1>6, <1>7, <1>8, SettleTrue

LEMMA OutOfTimeRoute == ASSUME Fits, RouteTrue, OutOfTime PROVE RouteTrue'
<1>1. /\ phase = "deepen" /\ phase' = "done" /\ timedOut' = [timedOut EXCEPT ![Main] = TRUE]
      /\ UNCHANGED <<game, at, aborted, depth, answer>>
  BY DEF OutOfTime, Deepening
<1>2. timedOut'[Main]
  BY <1>1, FlagsTyped, RouteFacts, Zenon
<1>3. answer = NoLine /\ ~aborted[Main] /\ NoLine' = NoLine /\ Main' = Main
  BY <1>1 DEF RouteTrue, NoLine, Main
<1> QED
  BY <1>1, <1>2, <1>3 DEF RouteTrue

LEMMA EnumeratedRoute == ASSUME Fits, RouteTrue, EnumTrue, Enumerated PROVE RouteTrue'
<1>1. /\ phase = "search" /\ phase' = "done" /\ "all" \in options /\ at[Main].pc = "return"
      /\ stack[Main] = <<>> /\ Do(Main, Idle)
      /\ answer' = (IF sols = <<>> THEN answer ELSE Head(sols))
      /\ UNCHANGED <<game, aborted, timedOut, cancelled, depth>>
  BY DEF Enumerated, env
<1>2. /\ answer = NoLine /\ sols \in Seq(Seq(Nat)) /\ MaxPlies = 2 * MaxDepth /\ OneLength
      /\ MaxDepth \in 1 .. MaxDepth /\ Limit > 0
  BY <1>1, RouteFacts, PliesFacts, HelpAssumption DEF RouteTrue, OneLength
<1>3. ASSUME sols # <<>> PROVE answer' \in Solutions(2 * MaxDepth) /\ answer' # NoLine
  <2>1. answer' = sols[1] /\ 1 \in 1 .. Len(sols)
    BY <1>1, <1>2, <1>3
  <2>2. sols[1] \in Solutions(MaxPlies)
    BY <1>1, <2>1 DEF EnumTrue
  <2> QED
    BY <1>2, <2>1, <2>2, NoLineSolves
<1>4. ASSUME sols = <<>>, ~timedOut[Main], ~cancelled PROVE Silent
  <2>1. Len(sols) = 0 /\ ~aborted[Main] /\ Len(sols) < Limit
    BY <1>2, <1>4, HelpAssumption DEF RouteTrue
  <2>2. ASSUME NEW line \in Solutions(MaxPlies) PROVE FALSE
    <3>1. Before(line)
      BY <1>1 DEF Before, Along
    <3>2. Listed(line)
      BY <1>1, <2>1, <3>1 DEF EnumTrue
    <3> QED
      BY <2>1, <3>2 DEF Listed
  <2> QED
    BY <1>2, <2>2 DEF Silent
<1>5. /\ \A k : Solutions(k)' = Solutions(k)
      /\ OneLength' = OneLength /\ Silent' = Silent /\ NoLine' = NoLine /\ Main' = Main
      /\ "all" \in options'
  BY <1>1, SameLines DEF NoLine, Main, game
<1>6. at'[Main].pc = "idle"
  BY <1>1, RouteFacts, IdleFacts, Becomes
<1>7. aborted'[Main] => timedOut'[Main] \/ cancelled'
  BY <1>1 DEF RouteTrue
<1> QED
  BY <1>1, <1>2, <1>3, <1>4, <1>5, <1>6, <1>7 DEF RouteTrue

LEMMA RouteInductive ==
    ASSUME Fits, SearchesTrue, PoolTrue, RouteTrue, EnumTrue, [Next \/ Done]_vars
    PROVE  RouteTrue'
<1>1. CASE Route
  BY <1>1, JoinRoute, EmptySplitRoute, StartRoute, BeginRoute, AloneRoute, OutOfTimeRoute, EnumeratedRoute
  DEF Route
<1> QED
  BY <1>1, ProveRoute, CollectRoute, WorkRoute, OutsideRoute DEF Next, Done

LEMMA RouteInit == ASSUME Init PROVE RouteTrue
<1>1. /\ phase = "deepen" /\ answer = NoLine /\ ~aborted[Main]
      /\ depth = (IF "direct_depth" \in options THEN MaxDepth ELSE 1)
  BY DEF Init, Searchers
<1>2. OneLength \/ NoneBelow(depth)
  BY <1>1 DEF OneLength, NoneBelow
<1> QED
  BY <1>1, <1>2 DEF RouteTrue

-----------------------------------------------------------------------------
(* Lines against the frames of the enumeration. *)

Rest(l, n) == [i \in 1 .. Len(l) - n |-> l[i + n]]

LEMMA RestFacts ==
    ASSUME NEW l \in Seq(Nat \ {0}), NEW n \in 0 .. Len(l)
    PROVE  /\ Rest(l, n) \in Seq(Nat \ {0}) /\ Len(Rest(l, n)) = Len(l) - n
           /\ \A i \in 1 .. Len(l) - n : Rest(l, n)[i] = l[i + n]
<1>1. Len(l) \in Nat /\ Len(l) - n \in Nat
  OBVIOUS
<1>2. \A i \in 1 .. Len(l) - n : l[i + n] \in Nat \ {0}
  <2>1. \A i \in 1 .. Len(l) - n : i + n \in 1 .. Len(l)
    BY <1>1
  <2>2. \A j \in 1 .. Len(l) : l[j] \in Nat \ {0}
    OBVIOUS
  <2> QED
    BY <2>1, <2>2
<1> QED
  BY <1>1, <1>2 DEF Rest

\* A line of k plies: its first move, and a line of the position that leads to.
LEMMA OneDown ==
    ASSUME GameOK, LinesOK, NEW k \in 1 .. MaxPlies, NEW p \in Positions, NEW l \in lines[k][p]
    PROVE  /\ l \in Seq(Nat \ {0}) /\ Len(l) = k
           /\ l[1] \in MovesOf(p) /\ Rest(l, 1) \in lines[k - 1][moves[p][l[1]]]
<1>1. l \in Seq(Nat \ {0}) /\ Len(l) = k /\ k - 1 \in 0 .. MaxPlies
  BY LinesTyped, PliesFacts
<1>2. PICK m \in MovesOf(p) : \E r \in lines[k - 1][moves[p][m]] : l = <<m>> \o r
  <2>1. \A s : s \in lines[k][p] <=>
                  \E m \in MovesOf(p) : \E r \in lines[k - 1][moves[p][m]] : s = <<m>> \o r
    BY LinesFacts
  <2> QED
    BY <2>1, Zenon
<1>3. PICK r \in lines[k - 1][moves[p][m]] : l = <<m>> \o r
  BY <1>2
<1>4. m \in Nat \ {0} /\ moves[p][m] \in Positions
  BY StepFacts
<1>5. r \in Seq(Nat \ {0}) /\ Len(r) = k - 1
  BY <1>1, <1>4, LinesTyped
<1>6. l[1] = m /\ \A i \in 1 .. k - 1 : l[i + 1] = r[i]
  BY <1>3, <1>4, <1>5
<1>7. Rest(l, 1) = r
  <2>1. 1 \in 0 .. Len(l) /\ Len(l) - 1 = k - 1
    BY <1>1
  <2>2. Rest(l, 1) \in Seq(Nat \ {0}) /\ Len(Rest(l, 1)) = k - 1
        /\ \A i \in 1 .. k - 1 : Rest(l, 1)[i] = r[i]
    BY <1>1, <1>6, <2>1, RestFacts
  <2> QED
    BY <1>5, <2>2
<1> QED
  BY <1>1, <1>2, <1>6, <1>7

LEMMA RestRest ==
    ASSUME NEW l \in Seq(Nat \ {0}), NEW n \in 0 .. Len(l) - 1
    PROVE  Rest(Rest(l, n), 1) = Rest(l, n + 1) /\ Rest(l, n)[1] = l[n + 1]
<1>1. /\ n \in 0 .. Len(l) /\ n + 1 \in 0 .. Len(l) /\ Len(l) \in Nat
      /\ Len(l) - (n + 1) = (Len(l) - n) - 1 /\ 1 \in 0 .. Len(l) - n /\ 1 \in 1 .. Len(l) - n
  OBVIOUS
<1>2. /\ Rest(l, n) \in Seq(Nat \ {0}) /\ Len(Rest(l, n)) = Len(l) - n
      /\ \A i \in 1 .. Len(l) - n : Rest(l, n)[i] = l[i + n]
  BY <1>1, RestFacts
<1>3. /\ Rest(l, n + 1) \in Seq(Nat \ {0}) /\ Len(Rest(l, n + 1)) = Len(l) - (n + 1)
      /\ \A i \in 1 .. Len(l) - (n + 1) : Rest(l, n + 1)[i] = l[i + (n + 1)]
  BY <1>1, RestFacts
<1> DEFINE u == Rest(l, n)
           v == Rest(l, n + 1)
<1> HIDE DEF u, v
<1>4. u \in Seq(Nat \ {0}) /\ Len(u) = Len(l) - n /\ \A i \in 1 .. Len(l) - n : u[i] = l[i + n]
  BY <1>2 DEF u
<1>5. v \in Seq(Nat \ {0}) /\ Len(v) = Len(l) - (n + 1)
      /\ \A i \in 1 .. Len(l) - (n + 1) : v[i] = l[i + (n + 1)]
  BY <1>3 DEF v
<1>6. /\ Rest(u, 1) \in Seq(Nat \ {0}) /\ Len(Rest(u, 1)) = Len(u) - 1
      /\ \A i \in 1 .. Len(u) - 1 : Rest(u, 1)[i] = u[i + 1]
  BY <1>1, <1>4, RestFacts
<1>7. \A i \in 1 .. Len(l) - (n + 1) : Rest(u, 1)[i] = v[i]
  <2>1. SUFFICES ASSUME NEW i \in 1 .. Len(l) - (n + 1) PROVE Rest(u, 1)[i] = v[i]
    OBVIOUS
  <2>2. i \in 1 .. Len(u) - 1 /\ i + 1 \in 1 .. Len(l) - n /\ (i + 1) + n = i + (n + 1)
    BY <1>1, <1>4
  <2> QED
    BY <1>4, <1>5, <1>6, <2>2
<1>8. Rest(u, 1) = v
  <2>1. Len(Rest(u, 1)) = Len(v)
    BY <1>1, <1>4, <1>5, <1>6
  <2> QED
    BY <1>5, <1>6, <1>7, <2>1
<1>9. u[1] = l[n + 1]
  BY <1>1, <1>4
<1> QED
  BY <1>8, <1>9 DEF u, v

\* What is left of a line that follows the frames is a line of the position they lead to.
LEMMA Through ==
    ASSUME GameOK, LinesOK, NEW p \in Positions, NEW k \in 0 .. MaxPlies,
           NEW s \in Seq(Frames), \A d \in 1 .. Len(s) : FrameFits(s, p, k, d),
           NEW l \in lines[k][p], NEW n \in 0 .. Len(s), Along(s, l, n)
    PROVE  /\ Rest(l, n) \in lines[k - n][CalledPos(s, p, n + 1)]
           /\ CalledPos(s, p, n + 1) \in Positions /\ k - n \in 0 .. MaxPlies
<1> DEFINE There(i) == /\ Rest(l, i) \in lines[k - i][CalledPos(s, p, i + 1)]
                       /\ CalledPos(s, p, i + 1) \in Positions /\ k - i \in 0 .. MaxPlies
           Bad == {i \in 0 .. Len(s) : i <= n /\ ~There(i)}
<1>1. l \in Seq(Nat \ {0}) /\ Len(l) = k /\ k \in Nat /\ MaxPlies \in Nat /\ Len(s) \in Nat
  BY LinesTyped, PliesFacts
<1>2. Bad = {}
  <2>1. SUFFICES ASSUME Bad # {} PROVE FALSE
    OBVIOUS
  <2>2. PICK i \in Bad : \A j \in Bad : i <= j
    <3>1. Bad \in SUBSET Nat
      BY <1>1
    <3> HIDE DEF Bad
    <3> QED
      BY <2>1, <3>1, LeastExists
  <2>3. i \in 0 .. Len(s) /\ i <= n /\ ~There(i)
    BY <2>2
  <2>4. CASE i = 0
    <3>1. Rest(l, 0) = l
      <4>1. 0 \in 0 .. Len(l) /\ Len(l) - 0 = Len(l)
        BY <1>1
      <4>2. /\ Rest(l, 0) \in Seq(Nat \ {0}) /\ Len(Rest(l, 0)) = Len(l)
            /\ \A j \in 1 .. Len(l) : Rest(l, 0)[j] = l[j + 0]
        BY <1>1, <4>1, RestFacts
      <4>3. \A j \in 1 .. Len(l) : l[j + 0] = l[j]
        BY <1>1
      <4> QED
        BY <1>1, <4>2, <4>3
    <3>2. CalledPos(s, p, 0 + 1) = p /\ k - 0 = k
      BY <1>1 DEF CalledPos
    <3> QED
      BY <2>3, <2>4, <3>1, <3>2
  <2>5. CASE i # 0
    <3>1. /\ i \in 1 .. Len(s) /\ i - 1 \in 0 .. Len(s) /\ i - 1 <= n /\ (i - 1) + 1 = i
          /\ ~(i <= i - 1) /\ (i + 1) - 1 = i /\ i + 1 # 1 /\ i \in 1 .. n
      BY <1>1, <2>3, <2>5
    <3>2. There(i - 1)
      <4>1. i - 1 \notin Bad
        BY <2>2, <3>1
      <4> HIDE DEF There
      <4> QED
        BY <3>1, <4>1
    <3>3. /\ s[i].pos = CalledPos(s, p, i) /\ s[i].plies = k - (i - 1) /\ s[i].plies \in 1 .. MaxPlies
          /\ l[i] = s[i].move
      BY <3>1, FrameParts DEF FrameFits, Along
    <3>4. /\ Rest(l, i - 1) \in lines[s[i].plies][s[i].pos] /\ s[i].pos \in Positions
          /\ s[i].plies = k - (i - 1)
      BY <3>1, <3>2, <3>3
    <3>5. /\ Rest(l, i - 1)[1] \in MovesOf(s[i].pos)
          /\ Rest(Rest(l, i - 1), 1) \in lines[s[i].plies - 1][moves[s[i].pos][Rest(l, i - 1)[1]]]
      BY <3>3, <3>4, OneDown
    <3>6. i - 1 \in 0 .. Len(l) - 1 /\ s[i].plies - 1 = k - i /\ k - i \in 0 .. MaxPlies
      <4>1. k - (i - 1) \in 1 .. MaxPlies /\ i \in Nat /\ i >= 1
        BY <1>1, <3>1, <3>3
      <4>2. s[i].plies - 1 = (k - (i - 1)) - 1
        BY <3>3
      <4>3. i - 1 \in 0 .. k - 1 /\ (k - (i - 1)) - 1 = k - i /\ k - i \in 0 .. MaxPlies
        BY <1>1, <4>1
      <4> QED
        BY <1>1, <4>2, <4>3
    <3>7. Rest(Rest(l, i - 1), 1) = Rest(l, i) /\ Rest(l, i - 1)[1] = l[i]
      BY <1>1, <3>1, <3>6, RestRest
    <3>8. CalledPos(s, p, i + 1) = moves[s[i].pos][s[i].move]
      BY <3>1 DEF CalledPos
    <3>9. moves[s[i].pos][s[i].move] \in Positions
      BY <3>3, <3>4, <3>5, <3>7, StepFacts
    <3> QED
      BY <2>3, <3>3, <3>5, <3>6, <3>7, <3>8, <3>9
  <2> QED
    BY <2>4, <2>5
<1>3. n \notin Bad /\ n <= n
  BY <1>1, <1>2
<1> HIDE DEF There
<1>4. There(n)
  BY <1>3
<1> QED
  BY <1>4 DEF There

LEMMA RowFacts ==
    ASSUME NEW m \in Nat, NEW g \in [1 .. m -> Nat]
    PROVE  g \in Seq(Nat) /\ Len(g) = m
OBVIOUS

\* Every move of the frames is legal, and they end in the goal: so does the line they play.
LEMMA PlayedSolves ==
    ASSUME GameOK, LinesOK, NEW p \in Positions, NEW k \in 0 .. MaxPlies,
           NEW s \in Seq(Frames), \A d \in 1 .. Len(s) : FrameFits(s, p, k, d), Len(s) = k,
           \A d \in 1 .. Len(s) : s[d].move \in MovesOf(s[d].pos),
           CalledPos(s, p, k + 1) \in goals
    PROVE  [i \in 1 .. k |-> s[i].move] \in lines[k][p]
<1> DEFINE Ends(n) == [i \in 1 .. n |-> s[i + (k - n)].move]
           There(n) == Ends(n) \in lines[n][CalledPos(s, p, (k - n) + 1)]
           Bad == {n \in 0 .. k : ~There(n)}
<1>1. k \in Nat /\ MaxPlies \in Nat /\ Len(s) = k /\ k <= MaxPlies
  BY PliesFacts
<1>2. \A d \in 1 .. k : /\ s[d].pos = CalledPos(s, p, d) /\ s[d].plies = k - (d - 1)
                        /\ s[d].pos \in Positions /\ s[d].move \in Nat \ {0}
                        /\ s[d].move \in MovesOf(s[d].pos)
                        /\ CalledPos(s, p, d + 1) = moves[s[d].pos][s[d].move]
  <2>1. \A d \in 1 .. k : (d + 1) - 1 = d /\ d + 1 # 1
    BY <1>1
  <2>2. \A d \in 1 .. k : CalledPos(s, p, d + 1) = moves[s[d].pos][s[d].move]
    BY <2>1 DEF CalledPos
  <2> QED
    BY <1>1, <2>2, FrameParts DEF FrameFits
<1>3. Bad = {}
  <2>1. SUFFICES ASSUME Bad # {} PROVE FALSE
    OBVIOUS
  <2>2. PICK n \in Bad : \A j \in Bad : n <= j
    <3>1. Bad \in SUBSET Nat
      BY <1>1
    <3> HIDE DEF Bad
    <3> QED
      BY <2>1, <3>1, LeastExists
  <2>3. n \in 0 .. k /\ ~There(n)
    BY <2>2
  <2>4. CASE n = 0
    <3>1. Ends(0) = <<>> /\ k - 0 = k
      BY <1>1
    <3>2. CalledPos(s, p, k + 1) \in Positions
      BY DEF GameOK
    <3>3. <<>> \in lines[0][CalledPos(s, p, k + 1)]
      BY <3>2, LinesFacts
    <3> QED
      BY <2>3, <2>4, <3>1, <3>3
  <2>5. CASE n # 0
    <3>1. n - 1 \in 0 .. k /\ ~(n <= n - 1) /\ n \in 1 .. MaxPlies /\ n \in Nat
      BY <1>1, <2>3, <2>5
    <3>2. There(n - 1)
      <4>1. n - 1 \notin Bad
        BY <2>2, <3>1
      <4> HIDE DEF There
      <4> QED
        BY <3>1, <4>1
    <3>3. PICK d \in 1 .. k : d = (k - n) + 1
      BY <1>1, <2>3, <3>1
    <3>4. k - (n - 1) = d /\ k - n = d - 1
      BY <1>1, <3>1, <3>3
    <3>5. Ends(n - 1) \in lines[n - 1][moves[s[d].pos][s[d].move]]
      BY <1>2, <3>2, <3>4
    <3>6. <<s[d].move>> \o Ends(n - 1) \in lines[n][s[d].pos]
      <4> HIDE DEF Ends
      <4> QED
        BY <1>2, <3>1, <3>5, Prefixed
    <3>7. <<s[d].move>> \o Ends(n - 1) = Ends(n)
      <4>1. \A i \in 1 .. n - 1 : s[i + (k - (n - 1))].move \in Nat
        <5>1. \A i \in 1 .. n - 1 : i + (k - (n - 1)) \in 1 .. k
          BY <1>1, <2>3, <3>1
        <5> QED
          BY <1>2, <5>1
      <4>2. \A i \in 1 .. n : s[i + (k - n)].move \in Nat
        <5>1. \A i \in 1 .. n : i + (k - n) \in 1 .. k
          BY <1>1, <2>3, <3>1
        <5> QED
          BY <1>2, <5>1
      <4>3. /\ Ends(n - 1) \in Seq(Nat) /\ Len(Ends(n - 1)) = n - 1
            /\ \A i \in 1 .. n - 1 : Ends(n - 1)[i] = s[i + (k - (n - 1))].move
        <5>1. Ends(n - 1) \in [1 .. n - 1 -> Nat] /\ n - 1 \in Nat
          BY <3>1, <4>1
        <5>2. \A i \in 1 .. n - 1 : Ends(n - 1)[i] = s[i + (k - (n - 1))].move
          OBVIOUS
        <5> HIDE DEF Ends
        <5> QED
          BY <5>1, <5>2, RowFacts
      <4>4. /\ Ends(n) \in Seq(Nat) /\ Len(Ends(n)) = n
            /\ \A i \in 1 .. n : Ends(n)[i] = s[i + (k - n)].move
        <5>1. Ends(n) \in [1 .. n -> Nat]
          BY <4>2
        <5>2. \A i \in 1 .. n : Ends(n)[i] = s[i + (k - n)].move
          OBVIOUS
        <5> HIDE DEF Ends
        <5> QED
          BY <3>1, <5>1, <5>2, RowFacts
      <4> DEFINE u == Ends(n - 1)
                 v == Ends(n)
                 w == <<s[d].move>> \o u
      <4>5. u \in Seq(Nat) /\ Len(u) = n - 1 /\ v \in Seq(Nat) /\ Len(v) = n
        BY <4>3, <4>4
      <4>6. s[d].move \in Nat
        BY <1>2
      <4>7. \A i \in 2 .. n : v[i] = u[i - 1]
        <5>1. \A i \in 2 .. n : /\ i - 1 \in 1 .. n - 1 /\ i \in 1 .. n
                               /\ (i - 1) + (k - (n - 1)) = i + (k - n)
          BY <1>1, <3>1
        <5> QED
          BY <4>3, <4>4, <5>1
      <4>8. v[1] = s[d].move
        <5>1. 1 \in 1 .. n /\ 1 + (k - n) = d
          BY <1>1, <3>1, <3>3
        <5> QED
          BY <4>4, <5>1
      <4> HIDE DEF u, v
      <4>9. /\ w \in Seq(Nat) /\ Len(w) = n /\ w[1] = s[d].move
            /\ \A i \in 2 .. n : w[i] = u[i - 1]
        BY <3>1, <4>5, <4>6
      <4>10. \A i \in 1 .. n : w[i] = v[i]
        <5>1. \A i \in 1 .. n : i = 1 \/ i \in 2 .. n
          BY <3>1
        <5> HIDE DEF w
        <5> QED
          BY <4>7, <4>8, <4>9, <5>1
      <4> HIDE DEF w
      <4>11. w = v
        BY <4>5, <4>9, <4>10
      <4> QED
        BY <4>11 DEF u, v, w
    <3>8. s[d].pos = CalledPos(s, p, (k - n) + 1)
      BY <1>2, <3>3
    <3> QED
      BY <2>3, <3>6, <3>7, <3>8
  <2> QED
    BY <2>4, <2>5
<1>4. There(k)
  <2>1. k \in 0 .. k /\ k \notin Bad
    BY <1>1, <1>3
  <2> HIDE DEF There
  <2> QED
    BY <2>1
<1>5. k - k = 0 /\ 0 + 1 = 1 /\ CalledPos(s, p, 1) = p /\ \A i \in 1 .. k : i + 0 = i
  BY <1>1 DEF CalledPos
<1>6. Ends(k) = [i \in 1 .. k |-> s[i].move]
  BY <1>5
<1> QED
  BY <1>4, <1>5, <1>6
-----------------------------------------------------------------------------
(* How the lines passed change with the frames. *)

LEMMA AlongSame ==
    ASSUME NEW s, NEW u, NEW n \in Int, \A d \in 1 .. n : u[d] = s[d], NEW line, NEW d \in Int, d <= n
    PROVE  Along(u, line, d) <=> Along(s, line, d)
<1>1. \A i \in 1 .. d : u[i] = s[i]
  OBVIOUS
<1> QED
  BY <1>1 DEF Along

LEMMA PassedPush ==
    ASSUME NEW s \in Seq(Frames), NEW u \in Seq(Frames), Len(u) = Len(s) + 1,
           \A d \in 1 .. Len(s) : u[d] = s[d], u[Len(u)].move = 1,
           NEW line, line[Len(u)] \in Nat \ {0}
    PROVE  Passed(u, line) <=> Passed(s, line)
<1>1. PICK n \in Nat : n = Len(s) /\ Len(u) = n + 1
  OBVIOUS
<1>2. \A d \in 1 .. n : Along(u, line, d - 1) <=> Along(s, line, d - 1)
  <2>1. \A d \in 1 .. n : d - 1 \in Int /\ d - 1 <= n /\ n \in Int
    BY <1>1
  <2> QED
    BY <1>1, <2>1, AlongSame
<1>3. \A d \in 1 .. n + 1 : d \in 1 .. n \/ d = n + 1
  BY <1>1
<1>4. \A d \in 1 .. n : d \in 1 .. n + 1
  BY <1>1
<1>5. ~(line[n + 1] < u[n + 1].move)
  BY <1>1
<1> QED
  BY <1>1, <1>2, <1>3, <1>4, <1>5 DEF Passed

LEMMA PassedMoved ==
    ASSUME NEW s \in Seq(Frames), s # <<>>, NEW u, MovedOn(s, u),
           NEW line, line[Len(s)] \in Nat
    PROVE  Passed(u, line) <=> Passed(s, line) \/ Along(s, line, Len(s))
<1>1. PICK n \in Nat : n = Len(s) /\ n > 0 /\ Len(u) = n
  BY FrameParts DEF MovedOn
<1>2. /\ \A d \in 1 .. n - 1 : u[d] = s[d]
      /\ u[n].move = s[n].move + 1 /\ s[n].move \in Nat /\ line[n] \in Nat
  <2>1. \A d \in 1 .. Len(s) - 1 : u[d] = s[d]
    BY DEF MovedOn
  <2>2. u[Len(s)].move = s[Len(s)].move + 1
    BY DEF MovedOn
  <2>3. n \in 1 .. n
    BY <1>1
  <2>4. s[n].move \in Nat
    BY <1>1, <2>3, FrameParts
  <2> QED
    BY <1>1, <2>1, <2>2, <2>4
<1>3. \A d \in 1 .. n : Along(u, line, d - 1) <=> Along(s, line, d - 1)
  <2>1. \A d \in 1 .. n : d - 1 \in Int /\ d - 1 <= n - 1 /\ n - 1 \in Int
    BY <1>1
  <2> QED
    BY <1>2, <2>1, AlongSame
<1>4. \A d \in 1 .. n : d \in 1 .. n - 1 \/ d = n
  BY <1>1
<1>5. n \in 1 .. n /\ \A i \in 1 .. n - 1 : i \in 1 .. n
  BY <1>1
<1>6. line[n] < u[n].move <=> line[n] < s[n].move \/ line[n] = s[n].move
  BY <1>2
<1>7. Along(s, line, n) <=> Along(s, line, n - 1) /\ line[n] = s[n].move
  BY <1>4, <1>5 DEF Along
<1> QED
  BY <1>1, <1>2, <1>3, <1>4, <1>5, <1>6, <1>7 DEF Passed

LEMMA PassedPop ==
    ASSUME NEW s \in Seq(Frames), s # <<>>, NEW line,
           Along(s, line, Len(s) - 1) => line[Len(s)] < s[Len(s)].move
    PROVE  Passed(s, line) <=> Passed(Front(s), line) \/ Along(Front(s), line, Len(Front(s)))
<1>1. PICK n \in Nat : n = Len(s) /\ n > 0 /\ Len(Front(s)) = n - 1
  BY FrameParts, PopFacts
<1>2. PICK u : u = Front(s)
  OBVIOUS
<1>3. Len(u) = n - 1 /\ \A d \in 1 .. n - 1 : u[d] = s[d]
  BY <1>1, <1>2, PopFacts
<1>4. \A d \in 0 .. n - 1 : Along(u, line, d) <=> Along(s, line, d)
  <2>1. \A d \in 0 .. n - 1 : d \in Int /\ d <= n - 1 /\ n - 1 \in Int
    BY <1>1
  <2> QED
    BY <1>3, <2>1, AlongSame
<1>5. \A d \in 1 .. n : d - 1 \in 0 .. n - 1 /\ (d \in 1 .. n - 1 \/ d = n)
  BY <1>1
<1>6. n \in 1 .. n /\ (\A i \in 1 .. n - 1 : i \in 1 .. n) /\ n - 1 \in 0 .. n - 1
  BY <1>1
<1> QED
  BY <1>1, <1>2, <1>3, <1>4, <1>5, <1>6 DEF Passed

-----------------------------------------------------------------------------
(* The enumeration. *)

\* Where the enumeration stands, and what that says of a solution.
LEMMA EnumFacts ==
    ASSUME Fits, "all" \in options
    PROVE  /\ GameOK /\ LinesOK /\ Root \in Positions /\ MaxPlies \in Nat /\ MaxPlies \in 0 .. MaxPlies
           /\ Main \in Searchers /\ stack[Main] \in Seq(Frames) /\ Len(stack[Main]) \in 0 .. MaxPlies
           /\ StateFits(at[Main], stack[Main], Root, MaxPlies)
           /\ \A d \in 1 .. Len(stack[Main]) : FrameFits(stack[Main], Root, MaxPlies, d)
<1>1. /\ GameOK /\ LinesOK /\ Root \in Positions /\ MaxPlies \in Nat /\ Main \in Searchers
  BY HelpAssumption, PliesFacts, RouteFacts DEF Fits, TypeOK
<1>2. AskedPos(Main) = Root /\ AskedPlies(Main) = MaxPlies
  BY DEF AskedPos, AskedPlies
<1>3. stack[Main] \in Seq(Frames) /\ ShapedAs(at[Main], stack[Main], Root, MaxPlies)
  BY <1>1, <1>2, SearcherFacts
<1>4. Len(stack[Main]) \in 0 .. MaxPlies
  <2>1. PICK n \in Nat : n = Len(stack[Main])
    BY <1>3
  <2>2. n > 0 => n \in 1 .. n
    OBVIOUS
  <2>3. n > 0 => MaxPlies - (n - 1) \in 1 .. MaxPlies
    BY <1>3, <2>1, <2>2, FrameParts DEF ShapedAs, FrameFits
  <2> QED
    BY <1>1, <2>1, <2>3
<1> QED
  BY <1>1, <1>3, <1>4 DEF ShapedAs

\* A solution that follows the frames so far goes on with a legal move.
LEMMA GoesOn ==
    ASSUME Fits, "all" \in options, NEW line \in Solutions(MaxPlies)
    PROVE  /\ line \in Seq(Nat \ {0}) /\ Len(line) = MaxPlies
           /\ \A i \in 1 .. MaxPlies : line[i] \in Nat \ {0}
           /\ \A n \in 0 .. Len(stack[Main]) :
                Along(stack[Main], line, n) /\ n < MaxPlies =>
                    line[n + 1] \in MovesOf(CalledPos(stack[Main], Root, n + 1))
           /\ Along(stack[Main], line, Len(stack[Main])) /\ Len(stack[Main]) = MaxPlies =>
                CalledPos(stack[Main], Root, MaxPlies + 1) \in goals
<1> PICK s : s = stack[Main]
  OBVIOUS
<1>1. /\ GameOK /\ LinesOK /\ Root \in Positions /\ MaxPlies \in Nat /\ MaxPlies \in 0 .. MaxPlies
      /\ s \in Seq(Frames) /\ Len(s) \in 0 .. MaxPlies
      /\ \A d \in 1 .. Len(s) : FrameFits(s, Root, MaxPlies, d)
  BY EnumFacts
<1>2. line \in lines[MaxPlies][Root]
  BY DEF Solutions
<1>3. line \in Seq(Nat \ {0}) /\ Len(line) = MaxPlies
  BY <1>1, <1>2, LinesTyped
<1>4. \A i \in 1 .. MaxPlies : line[i] \in Nat \ {0}
  BY <1>3
<1>5. ASSUME NEW n \in 0 .. Len(s), Along(s, line, n)
      PROVE  /\ Rest(line, n) \in lines[MaxPlies - n][CalledPos(s, Root, n + 1)]
             /\ CalledPos(s, Root, n + 1) \in Positions
  BY <1>1, <1>2, <1>5, Through
<1>6. ASSUME NEW n \in 0 .. Len(s), Along(s, line, n), n < MaxPlies
      PROVE  line[n + 1] \in MovesOf(CalledPos(s, Root, n + 1))
  <2>1. MaxPlies - n \in 1 .. MaxPlies /\ n \in 0 .. Len(line) - 1
    BY <1>1, <1>3, <1>6
  <2>2. Rest(line, n)[1] \in MovesOf(CalledPos(s, Root, n + 1))
    BY <1>1, <1>5, <1>6, <2>1, OneDown
  <2> QED
    BY <1>3, <2>1, <2>2, RestRest
<1>7. ASSUME Along(s, line, Len(s)), Len(s) = MaxPlies
      PROVE  CalledPos(s, Root, MaxPlies + 1) \in goals
  <2>1. MaxPlies \in 0 .. Len(s) /\ MaxPlies - MaxPlies = 0
    BY <1>1, <1>7
  <2>2. /\ Rest(line, MaxPlies) \in lines[0][CalledPos(s, Root, MaxPlies + 1)]
        /\ CalledPos(s, Root, MaxPlies + 1) \in Positions
    BY <1>5, <1>7, <2>1
  <2> QED
    BY <1>1, <2>2, LinesFacts
<1> QED
  BY <1>3, <1>4, <1>6, <1>7
\* A step of the search that lists nothing.
LEMMA EnumKept ==
    ASSUME EnumTrue, "all" \in options, phase = "search", UNCHANGED <<game, phase, sols>>,
           aborted[Main] => aborted'[Main],
           ~aborted'[Main] /\ Len(sols) < Limit =>
               \A line \in Solutions(MaxPlies) : Before(line)' <=> Before(line)
    PROVE  EnumTrue'
<1>1. /\ \A k : Solutions(k)' = Solutions(k)
      /\ \A line : Listed(line)' <=> Listed(line)
      /\ phase' = "search" /\ MaxPlies' = MaxPlies /\ Limit' = Limit /\ sols' = sols
  BY SameLines DEF Listed, MaxPlies
<1>2. /\ \A i \in 1 .. Len(sols) : sols[i] \in Solutions(MaxPlies)
      /\ \A i, j \in 1 .. Len(sols) : sols[i] = sols[j] => i = j
      /\ ~aborted[Main] /\ Len(sols) < Limit =>
            \A line \in Solutions(MaxPlies) : Before(line) <=> Listed(line)
  BY DEF EnumTrue
<1>3. ~aborted'[Main] /\ Len(sols) < Limit =>
          \A line \in Solutions(MaxPlies) : Before(line)' <=> Listed(line)
  BY <1>2
<1>4. /\ \A i \in 1 .. Len(sols') : sols'[i] \in Solutions(MaxPlies)'
      /\ \A i, j \in 1 .. Len(sols') : sols'[i] = sols'[j] => i = j
  BY <1>1, <1>2
<1>5. phase' # "deepen" /\ phase' # "done"
  BY <1>1
<1>6. phase' = "search" /\ ~aborted'[Main] /\ Len(sols') < Limit =>
          \A line \in Solutions(MaxPlies)' : Before(line)' <=> Listed(line)'
  BY <1>1, <1>3
<1> QED
  BY <1>4, <1>5, <1>6 DEF EnumTrue, Main

\* The innermost call looks at its next move: nothing is passed, or only lines that fail.
LEMMA SkipEnum ==
    ASSUME Fits, RouteTrue, EnumTrue, "all" \in options, SkipMove(Main)
    PROVE  EnumTrue'
<1> PICK s : s = stack[Main]
  OBVIOUS
<1>1. /\ at[Main].pc = "loop" /\ Hopeless(Main) /\ Top(Main).move \in MovesOf(Top(Main).pos)
      /\ stack' = Advanced(Main) /\ UNCHANGED <<game, at, aborted, phase, sols>>
  BY DEF SkipMove, HasMove, route
<1>2. /\ GameOK /\ LinesOK /\ s \in Seq(Frames) /\ Len(s) \in 0 .. MaxPlies /\ MaxPlies \in Nat
      /\ Main \in Searchers /\ s # <<>> /\ phase = "search"
      /\ \A d \in 1 .. Len(s) : FrameFits(s, Root, MaxPlies, d)
  BY <1>1, EnumFacts, LoopFacts, BusyPhase
<1>3. MovedOn(s, stack'[Main])
  <2>1. Advanced(Main) = [stack EXCEPT ![Main] = [s EXCEPT ![Len(s)].move = @ + 1]]
    BY <1>2, TopFacts
  <2>2. stack'[Main] = [s EXCEPT ![Len(s)].move = @ + 1]
    BY <1>1, <1>2, <2>1, RouteFacts
  <2> QED
    BY <1>2, <2>2, MoveFacts
<1>4. /\ Len(s) \in 1 .. Len(s) /\ Top(Main) = s[Len(s)] /\ Len(s) = MaxPlies
      /\ CalledPos(s, Root, MaxPlies + 1) = moves[Top(Main).pos][Top(Main).move]
  <2>1. Top(Main) = s[Len(s)] /\ Len(s) \in 1 .. Len(s)
    BY <1>2, TopFacts
  <2>2. s[Len(s)].plies = 1 /\ s[Len(s)].plies = MaxPlies - (Len(s) - 1)
    BY <1>1, <1>2, <2>1 DEF Hopeless, FrameFits
  <2>3. Len(s) = MaxPlies /\ MaxPlies + 1 # 1 /\ (MaxPlies + 1) - 1 = MaxPlies
    <3>1. PICK n \in Nat : n = Len(s) /\ n > 0
      BY <1>2, <2>1
    <3>2. MaxPlies - (n - 1) = 1
      BY <2>2, <3>1
    <3>3. MaxPlies = n
      BY <1>2, <3>1, <3>2
    <3> QED
      BY <3>1, <3>3
  <2> QED
    BY <2>1, <2>3 DEF CalledPos
<1>5. moves[Top(Main).pos][Top(Main).move] \notin goals
  BY <1>1, <1>2 DEF Hopeless, GameOK
<1>6. ASSUME NEW line \in Solutions(MaxPlies) PROVE Before(line)' <=> Before(line)
  <2>1. ~Along(s, line, Len(s)) /\ line[Len(s)] \in Nat
    BY <1>2, <1>4, <1>5, GoesOn
  <2>2. Passed(stack'[Main], line) <=> Passed(s, line)
    BY <1>2, <1>3, <2>1, PassedMoved
  <2> QED
    BY <1>1, <2>2 DEF Before, Main
<1> QED
  BY <1>1, <1>2, <1>6, EnumKept

LEMMA ProveEnum ==
    ASSUME Fits, RouteTrue, EnumTrue, "all" \in options, Prove(Main)
    PROVE  EnumTrue'
<1>1. CASE Cancel(Main)
  <2>1. UNCHANGED <<game, phase, sols>> /\ aborted'[Main] /\ at[Main].pc # "idle"
    BY <1>1, RouteFacts, AbortFacts DEF Cancel, route
  <2>2. phase = "search"
    BY <2>1, RouteFacts, BusyPhase
  <2> QED
    BY <2>1, <2>2, EnumKept
<1>2. CASE TryMove(Main)
  <2>1. /\ UNCHANGED <<game, phase, sols, stack, aborted>> /\ at[Main].pc = "loop"
        /\ Enter(Main, moves[Top(Main).pos][Top(Main).move], Top(Main).plies - 1)
    BY <1>2 DEF TryMove, HasMove, route
  <2>2. phase = "search" /\ Main \in Searchers
    BY <2>1, RouteFacts, BusyPhase
  <2>3. at'[Main].pc = "enter"
    BY <2>1, RouteFacts DEF Enter, Do
  <2>4. \A line \in Solutions(MaxPlies) : Before(line)' <=> Before(line)
    BY <2>1, <2>3 DEF Before, Main
  <2> QED
    BY <2>1, <2>2, <2>4, EnumKept
<1>3. Cancel(Main) \/ TryMove(Main) \/ SkipMove(Main)
  BY DEF Prove, Leaf, Prune, TableAnswers, Open, NoMoveSolves, Unwind, MoveFails, MoveSolves, Proving, Back
<1> QED
  BY <1>1, <1>2, <1>3, SkipEnum

LEMMA OpenEnum ==
    ASSUME Fits, RouteTrue, EnumTrue, CollectOpen PROVE EnumTrue'
<1> PICK s : s = stack[Main]
  OBVIOUS
<1>1. /\ "all" \in options /\ at[Main].pc = "enter" /\ at[Main].plies > 0
      /\ UNCHANGED <<game, phase, sols, aborted>>
      /\ stack' = [stack EXCEPT ![Main] =
                      Append(@, [pos |-> at[Main].pos, plies |-> at[Main].plies, move |-> 1])]
      /\ Do(Main, [at[Main] EXCEPT !.pc = "loop"])
  BY DEF CollectOpen, Collecting, route
<1>2. /\ s \in Seq(Frames) /\ Len(s) \in 0 .. MaxPlies /\ MaxPlies \in Nat
      /\ Main \in Searchers /\ phase = "search" /\ StateFits(at[Main], s, Root, MaxPlies)
  BY <1>1, EnumFacts, BusyPhase
<1>3. Len(s) + 1 \in 1 .. MaxPlies
  <2>1. at[Main].plies = MaxPlies - Len(s)
    BY <1>1, <1>2 DEF StateFits
  <2> QED
    BY <1>1, <1>2, <2>1
<1>4. at'[Main].pc = "loop"
  BY <1>1, <1>2, Labelled DEF Labels
<1>5. /\ stack'[Main] \in Seq(Frames) /\ Len(stack'[Main]) = Len(s) + 1
      /\ \A d \in 1 .. Len(s) : stack'[Main][d] = s[d]
      /\ stack'[Main][Len(s) + 1].move = 1
  <2>1. at[Main].pos \in Positions /\ at[Main].plies \in 1 .. MaxPlies
    BY <1>1, <1>2, SearcherFacts
  <2>2. stack'[Main] = Append(s, [pos |-> at[Main].pos, plies |-> at[Main].plies, move |-> 1])
    BY <1>1, <1>2, OpenLocal
  <2> DEFINE f == [pos |-> at[Main].pos, plies |-> at[Main].plies, move |-> 1]
  <2>3. f.move = 1
    OBVIOUS
  <2>4. /\ Append(s, f) \in Seq(Frames) /\ Len(Append(s, f)) = Len(s) + 1
        /\ Append(s, f)[Len(s) + 1] = f /\ \A d \in 1 .. Len(s) : Append(s, f)[d] = s[d]
    BY <1>2, <2>1, PushFacts
  <2>5. stack'[Main] = Append(s, f)
    BY <2>2
  <2> HIDE DEF f
  <2> QED
    BY <2>3, <2>4, <2>5
<1>6. ASSUME NEW line \in Solutions(MaxPlies) PROVE Before(line)' <=> Before(line)
  <2>1. line[Len(stack'[Main])] \in Nat \ {0}
    BY <1>1, <1>3, <1>5, GoesOn
  <2>2. stack'[Main][Len(stack'[Main])].move = 1
    BY <1>5
  <2>3. Passed(stack'[Main], line) <=> Passed(s, line)
    BY <1>2, <1>5, <2>1, <2>2, PassedPush
  <2> QED
    BY <1>1, <1>4, <2>3 DEF Before, Main
<1> QED
  BY <1>1, <1>2, <1>6, EnumKept

\* A call has looked at every move of its position.
LEMMA LeaveEnum ==
    ASSUME Fits, RouteTrue, EnumTrue, CollectLeave PROVE EnumTrue'
<1> PICK s : s = stack[Main]
  OBVIOUS
<1>1. /\ "all" \in options /\ UNCHANGED <<game, phase, sols, aborted>>
      /\ Exhausted \/ Reached \/ GivenUp
      /\ stack' = [stack EXCEPT ![Main] = IF at[Main].pc = "enter" THEN @ ELSE Front(@)]
      /\ Return(Main, Nothing)
  BY DEF CollectLeave, route
<1>2. /\ s \in Seq(Frames) /\ Len(s) \in 0 .. MaxPlies /\ MaxPlies \in Nat
      /\ Main \in Searchers /\ \A d \in 1 .. Len(s) : FrameFits(s, Root, MaxPlies, d)
  BY <1>1, EnumFacts
<1>3. phase = "search"
  BY <1>1, <1>2, BusyPhase DEF Exhausted, Reached, GivenUp
<1>4. at'[Main].pc = "return"
  BY <1>1, <1>2, VerdictFacts, Returned
<1>5. CASE Exhausted
  <2>1. at[Main].pc = "loop" /\ Top(Main).move \notin MovesOf(Top(Main).pos)
    BY <1>5 DEF Exhausted, HasMove
  <2>2. s # <<>> /\ Top(Main) = s[Len(s)] /\ Len(s) \in 1 .. Len(s)
    BY <1>2, <2>1, LoopFacts, TopFacts
  <2>3. stack'[Main] = Front(s)
    BY <1>1, <1>2, <2>1, RouteFacts
  <2>4. ASSUME NEW line \in Solutions(MaxPlies) PROVE Before(line)' <=> Before(line)
    <3>1. ASSUME Along(s, line, Len(s) - 1) PROVE line[Len(s)] < s[Len(s)].move
      <4>1. Len(s) - 1 \in 0 .. Len(s) /\ Len(s) - 1 < MaxPlies /\ (Len(s) - 1) + 1 = Len(s)
        BY <1>2, <2>2
      <4>2. line[Len(s)] \in MovesOf(CalledPos(s, Root, Len(s)))
        BY <1>1, <3>1, <4>1, GoesOn
      <4>3. /\ s[Len(s)].pos = CalledPos(s, Root, Len(s))
            /\ s[Len(s)].pos \in Positions /\ s[Len(s)].move \in Nat \ {0}
        BY <1>2, <2>2, FrameParts DEF FrameFits
      <4>4. Len(moves[s[Len(s)].pos]) \in Nat
        BY <4>3 DEF Fits, TypeOK, GameOK
      <4> QED
        BY <2>1, <2>2, <4>2, <4>3, <4>4 DEF MovesOf
    <3>2. Passed(s, line) <=> Passed(Front(s), line) \/ Along(Front(s), line, Len(Front(s)))
      BY <1>2, <2>2, <3>1, PassedPop
    <3> QED
      BY <1>4, <2>1, <2>3, <3>2 DEF Before, Main
  <2> QED
    BY <1>1, <1>3, <2>4, EnumKept
<1>6. CASE Reached \/ GivenUp
  <2>1. ~(~aborted'[Main] /\ Len(sols) < Limit)
    BY <1>1, <1>2, <1>6, RouteFacts, HelpAssumption DEF Reached, GivenUp
  <2> QED
    BY <1>1, <1>3, <2>1, EnumKept
<1> QED
  BY <1>1, <1>5, <1>6

\* Back from a move, the call looks at the next.
LEMMA NextEnum ==
    ASSUME Fits, RouteTrue, EnumTrue, CollectNext PROVE EnumTrue'
<1> PICK s : s = stack[Main]
  OBVIOUS
<1>1. /\ "all" \in options /\ at[Main].pc = "return" /\ s # <<>> /\ ~aborted[Main]
      /\ stack' = Advanced(Main) /\ Do(Main, [at[Main] EXCEPT !.pc = "loop"])
      /\ UNCHANGED <<game, phase, sols, aborted>>
  BY DEF CollectNext, route
<1>2. /\ s \in Seq(Frames) /\ Len(s) \in 1 .. MaxPlies /\ Main \in Searchers /\ phase = "search"
  BY <1>1, EnumFacts, BusyPhase, FrameParts
<1>3. MovedOn(s, stack'[Main])
  <2>1. Advanced(Main) = [stack EXCEPT ![Main] = [s EXCEPT ![Len(s)].move = @ + 1]]
    BY <1>1, <1>2, TopFacts
  <2>2. stack'[Main] = [s EXCEPT ![Len(s)].move = @ + 1]
    BY <1>1, <1>2, <2>1, RouteFacts
  <2> QED
    BY <1>1, <1>2, <2>2, MoveFacts
<1>4. at'[Main].pc = "loop"
  BY <1>1, <1>2, Labelled DEF Labels
<1>5. ASSUME NEW line \in Solutions(MaxPlies) PROVE Before(line)' <=> Before(line)
  <2>1. line[Len(s)] \in Nat
    BY <1>1, <1>2, GoesOn
  <2>2. Passed(stack'[Main], line) <=> Passed(s, line) \/ Along(s, line, Len(s))
    BY <1>1, <1>2, <1>3, <2>1, PassedMoved
  <2> QED
    BY <1>1, <1>4, <2>2 DEF Before, Main
<1> QED
  BY <1>1, <1>2, <1>5, EnumKept
\* A complete line is listed when it ends in the goal.
LEMMA LeafEnum ==
    ASSUME Fits, RouteTrue, EnumTrue, CollectLeaf PROVE EnumTrue'
<1> PICK s : s = stack[Main]
  OBVIOUS
<1>1. /\ "all" \in options /\ Len(sols) < Limit /\ at[Main].pc = "enter" /\ at[Main].plies = 0
      /\ Return(Main, Nothing) /\ UNCHANGED <<game, phase, aborted, stack>>
      /\ sols' = IF at[Main].pos \in goals THEN Append(sols, Played) ELSE sols
  BY DEF CollectLeaf, Collecting, route
<1>2. /\ GameOK /\ LinesOK /\ Root \in Positions /\ MaxPlies \in Nat /\ MaxPlies \in 0 .. MaxPlies
      /\ s \in Seq(Frames) /\ Len(s) \in 0 .. MaxPlies
      /\ Main \in Searchers /\ phase = "search" /\ StateFits(at[Main], s, Root, MaxPlies)
      /\ \A d \in 1 .. Len(s) : FrameFits(s, Root, MaxPlies, d)
  BY <1>1, EnumFacts, BusyPhase
<1>3. /\ Len(s) = MaxPlies /\ at[Main].pos = CalledPos(s, Root, MaxPlies + 1)
      /\ Len(s) > 0 => s[Len(s)].move \in MovesOf(s[Len(s)].pos)
  <2>1. at[Main].plies = MaxPlies - Len(s)
    BY <1>1, <1>2 DEF StateFits
  <2>2. Len(s) = MaxPlies
    BY <1>1, <1>2, <2>1
  <2> QED
    BY <1>1, <1>2, <2>2 DEF StateFits
<1>4. \A d \in 1 .. Len(s) : s[d].move \in MovesOf(s[d].pos)
  <2>1. \A d \in 1 .. Len(s) : d < Len(s) \/ d = Len(s)
    BY <1>2
  <2> QED
    BY <1>2, <1>3, <2>1 DEF FrameFits
<1>5. /\ Played \in Seq(Nat) /\ Len(Played) = MaxPlies
      /\ Played = [i \in 1 .. MaxPlies |-> s[i].move]
      /\ \A i \in 1 .. MaxPlies : Played[i] = s[i].move
  BY <1>3, PlayedTyped DEF Played
<1>6. at'[Main].pc = "return"
  BY <1>1, <1>2, VerdictFacts, Returned
<1>7. ~aborted[Main]
  BY <1>1 DEF RouteTrue
<1>8. /\ \A k : Solutions(k)' = Solutions(k)
      /\ phase' = "search" /\ MaxPlies' = MaxPlies /\ Limit' = Limit
  BY <1>1, <1>2, SameLines DEF MaxPlies
<1>9. /\ \A i \in 1 .. Len(sols) : sols[i] \in Solutions(MaxPlies)
      /\ \A i, j \in 1 .. Len(sols) : sols[i] = sols[j] => i = j
      /\ \A line \in Solutions(MaxPlies) : Before(line) <=> Listed(line)
  BY <1>1, <1>2, <1>7 DEF EnumTrue
<1>10. ASSUME NEW line \in Solutions(MaxPlies)
       PROVE  /\ Before(line)' <=> Before(line) \/ line = Played
              /\ line = Played => at[Main].pos \in goals
  <2>1. /\ line \in Seq(Nat \ {0}) /\ Len(line) = MaxPlies
        /\ Along(s, line, Len(s)) => CalledPos(s, Root, MaxPlies + 1) \in goals
    BY <1>1, <1>3, GoesOn
  <2>2. Along(s, line, MaxPlies) <=> line = Played
    <3>1. line = Played => Along(s, line, MaxPlies)
      BY <1>5 DEF Along
    <3>2. ASSUME Along(s, line, MaxPlies) PROVE line = Played
      <4>1. \A i \in 1 .. MaxPlies : line[i] = Played[i]
        BY <1>5, <3>2 DEF Along
      <4>2. line \in Seq(Nat)
        BY <2>1
      <4> QED
        BY <1>5, <2>1, <4>1, <4>2
    <3> QED
      BY <3>1, <3>2
  <2>3. Before(line)' <=> Passed(s, line) \/ Along(s, line, Len(s))
    BY <1>1, <1>6 DEF Before, Main
  <2>4. Before(line) <=> Passed(s, line)
    BY <1>1 DEF Before
  <2> QED
    BY <1>3, <2>1, <2>2, <2>3, <2>4
<1>11. CASE at[Main].pos \notin goals
  <2>1. sols' = sols /\ \A line : Listed(line)' <=> Listed(line)
    BY <1>1, <1>11 DEF Listed
  <2>2. \A line \in Solutions(MaxPlies) : Before(line)' <=> Listed(line)
    BY <1>9, <1>10, <1>11
  <2> QED
    BY <1>8, <1>9, <2>1, <2>2 DEF EnumTrue
<1>12. CASE at[Main].pos \in goals
  <2>1. Played \in Solutions(MaxPlies)
    BY <1>2, <1>3, <1>4, <1>5, <1>12, PlayedSolves DEF Solutions
  <2>2. ~Listed(Played)
    <3>1. \A d \in 1 .. Len(s) : ~(Played[d] < s[d].move)
      BY <1>2, <1>3, <1>5, FrameParts
    <3>2. ~Before(Played)
      BY <1>1, <3>1 DEF Before, Passed
    <3> QED
      BY <1>9, <2>1, <3>2
  <2> PICK n \in Nat : n = Len(sols)
    BY MainFacts
  <2>3. /\ sols' = Append(sols, Played) /\ Len(sols') = n + 1 /\ sols'[n + 1] = Played
        /\ \A i \in 1 .. n : sols'[i] = sols[i]
    <3>1. sols' = Append(sols, Played) /\ sols \in Seq(Seq(Nat))
      BY <1>1, <1>12, MainFacts
    <3> QED
      BY <1>5, <3>1, AppendProperties
  <2>4. \A i \in 1 .. n + 1 : i \in 1 .. n \/ i = n + 1
    OBVIOUS
  <2>5. \A i \in 1 .. n : i \in 1 .. n + 1 /\ i # n + 1
    OBVIOUS
  <2>6. n + 1 \in 1 .. n + 1
    OBVIOUS
  <2>7. \A i \in 1 .. n : sols[i] # Played
    BY <2>2 DEF Listed
  <2>8. \A i \in 1 .. Len(sols') : sols'[i] \in Solutions(MaxPlies)
    BY <1>9, <2>1, <2>3, <2>4
  <2>9. ASSUME NEW i \in 1 .. Len(sols'), NEW j \in 1 .. Len(sols'), sols'[i] = sols'[j] PROVE i = j
    <3>1. CASE i \in 1 .. n /\ j \in 1 .. n
      BY <1>9, <2>3, <2>9, <3>1
    <3>2. CASE i = n + 1 \/ j = n + 1
      BY <2>3, <2>4, <2>7, <2>9, <3>2
    <3> QED
      BY <2>3, <2>4, <3>1, <3>2
  <2>10. \A line : Listed(line)' <=> Listed(line) \/ line = Played
    <3>1. \A line : Listed(line)' <=> \E i \in 1 .. n + 1 : sols'[i] = line
      BY <2>3 DEF Listed
    <3>2. \A line : Listed(line) <=> \E i \in 1 .. n : sols[i] = line
      BY DEF Listed
    <3> QED
      BY <2>3, <2>4, <2>5, <2>6, <3>1, <3>2
  <2>11. \A line \in Solutions(MaxPlies) : Before(line)' <=> Listed(line)'
    BY <1>9, <1>10, <2>10
  <2> QED
    BY <1>8, <2>8, <2>9, <2>11 DEF EnumTrue
<1> QED
  BY <1>11, <1>12

LEMMA CollectEnum ==
    ASSUME Fits, RouteTrue, EnumTrue, Collect PROVE EnumTrue'
BY LeafEnum, OpenEnum, LeaveEnum, NextEnum DEF Collect

LEMMA EnumerateEnum ==
    ASSUME Fits, RouteTrue, EnumTrue, Enumerate PROVE EnumTrue'
<1>1. /\ phase = "deepen" /\ "all" \in options /\ phase' = "search" /\ Enter(Main, Root, MaxPlies)
      /\ UNCHANGED <<game, stack, sols>>
  BY DEF Enumerate
<1>2. sols = <<>> /\ stack[Main] = <<>> /\ Main \in Searchers
  BY <1>1, RouteFacts DEF EnumTrue
<1>3. at'[Main].pc = "enter"
  BY <1>1, RouteFacts DEF Enter, Do
<1>4. Len(<<>>) = 0 /\ Len(sols') = 0 /\ 1 .. 0 = {} /\ stack'[Main] = <<>>
  BY <1>1, <1>2
<1>5. \A line : ~Before(line)' /\ ~Listed(line)'
  BY <1>3, <1>4 DEF Before, Listed, Passed, Main
<1> QED
  BY <1>1, <1>4, <1>5 DEF EnumTrue

LEMMA EnumeratedEnum ==
    ASSUME Fits, RouteTrue, EnumTrue, Enumerated PROVE EnumTrue'
<1>1. /\ phase = "search" /\ "all" \in options /\ phase' = "done" /\ at[Main].pc = "return"
      /\ stack[Main] = <<>> /\ UNCHANGED <<game, sols, timedOut>>
  BY DEF Enumerated, env
<1>2. /\ \A k : Solutions(k)' = Solutions(k)
      /\ \A line : Listed(line)' <=> Listed(line)
      /\ MaxPlies' = MaxPlies /\ Limit' = Limit
  BY <1>1, SameLines DEF MaxPlies, Listed
<1>3. ~cancelled
  BY <1>1 DEF Fits, Shape, Roles
<1>4. ASSUME ~timedOut[Main], Len(sols) < Limit, NEW line \in Solutions(MaxPlies) PROVE Listed(line)
  <2>1. ~aborted[Main]
    BY <1>3, <1>4 DEF RouteTrue
  <2>2. Before(line)
    BY <1>1 DEF Before, Along
  <2> QED
    BY <1>1, <1>4, <2>1, <2>2 DEF EnumTrue
<1> QED
  BY <1>1, <1>2, <1>4 DEF EnumTrue, Main

LEMMA OutsideEnum ==
    ASSUME Fits, EnumTrue, Expire \/ CancelLane \/ UNCHANGED vars PROVE EnumTrue'
<1>1. UNCHANGED <<game, phase, sols, stack, at, aborted, timedOut>>
  BY DEF Expire, CancelLane, vars, route
<1>2. /\ \A k : Solutions(k)' = Solutions(k)
      /\ \A line : Listed(line)' <=> Listed(line)
      /\ \A line : Before(line)' <=> Before(line)
      /\ MaxPlies' = MaxPlies /\ Limit' = Limit /\ "all" \in options' <=> "all" \in options
  BY <1>1, SameLines DEF MaxPlies, Listed, Before, Main, game
<1> QED
  BY <1>1, <1>2 DEF EnumTrue, Main

LEMMA EnumInductive ==
    ASSUME Fits, RouteTrue, EnumTrue, [Next \/ Done]_vars PROVE EnumTrue'
<1>1. CASE "all" \notin options
  <2>1. options' = options
    BY DEF Next, Done, Prove, Cancel, Leaf, Prune, TableAnswers, Open, SkipMove, TryMove, NoMoveSolves,
           Unwind, MoveFails, MoveSolves, Says, Collect, CollectLeaf, CollectOpen, CollectLeave,
           CollectNext, Work, Claim, Announce, Clear, Recheck, Judge, Record, Look, CancelSlot, Unlock,
           Leave, Route, Enumerate, Enumerated, OutOfTime, SearchAlone, SearchedAlone, StartSplit,
           Join, Expire, CancelLane, vars, game
  <2> QED
    BY <1>1, <2>1 DEF EnumTrue
<1>2. CASE "all" \in options
  <2>1. phase # "join" /\ \A w \in Workers : at[w].pc = "idle"
    BY <1>2, RouteFacts DEF Fits, Shape, Roles, SplitFits
  <2>2. ASSUME NEW x \in Searchers, Prove(x) PROVE EnumTrue'
    <3>1. at[x].pc # "idle"
      BY <2>2, ProveFits, LabelFacts DEF Local
    <3>2. x = Main
      BY <2>1, <3>1 DEF Searchers
    <3> QED
      BY <1>2, <2>2, <3>2, ProveEnum
  <2>3. ASSUME NEW w \in Workers, Work(w) PROVE FALSE
    <3>1. at[w].pc # "idle"
      BY <2>3 DEF Work, Claim, Announce, Clear, Recheck, Judge, Record, Look, CancelSlot, Unlock, Leave
    <3> QED
      BY <2>1, <3>1
  <2>4. CASE Route
    BY <1>2, <2>1, <2>4, EnumerateEnum, EnumeratedEnum
    DEF Route, OutOfTime, SearchAlone, SearchedAlone, StartSplit, Join, Deepening
  <2> QED
    BY <2>2, <2>3, <2>4, CollectEnum, OutsideEnum DEF Next, Done
<1> QED
  BY <1>1, <1>2

LEMMA EnumInit == ASSUME Init PROVE EnumTrue
<1>1. sols = <<>> /\ phase = "deepen" /\ Len(sols) = 0 /\ 1 .. 0 = {}
  BY DEF Init
<1> QED
  BY <1>1 DEF EnumTrue

-----------------------------------------------------------------------------
(* The theorems. *)

\* The five parts hold in every state: search, split, route and enumeration keep them.
THEOREM Invariance == Spec => []IInv
<1>1. Init => IInv
  BY FitsInit, SearchesInit, PoolInit, RouteInit, EnumInit DEF IInv
<1>2. IInv /\ [Next \/ Done]_vars => IInv'
  <2>1. SUFFICES ASSUME IInv, [Next \/ Done]_vars PROVE IInv'
    OBVIOUS
  <2>2. Fits /\ SearchesTrue /\ PoolTrue /\ RouteTrue /\ EnumTrue
    BY <2>1 DEF IInv
  <2> QED
    BY <2>1, <2>2, FitsInductive, SearchesInductive, PoolInductive, RouteInductive, EnumInductive DEF IInv
<1> QED
  BY <1>1, <1>2, PTL DEF Spec

\* AnswerIsShortest for every game, every number of threads and every interruption: the
\* line of run_help_route is legal, ends in the goal and no shorter length has any.
THEOREM AnswersAreShortest == Spec => []AnswerIsShortest
<1>1. IInv => AnswerIsShortest
  <2>1. SUFFICES ASSUME IInv PROVE AnswerIsShortest
    OBVIOUS
  <2> QED
    BY <2>1 DEF IInv, RouteTrue, OneLength, NoneBelow, AnswerIsShortest
<1> QED
  BY <1>1, Invariance, PTL

\* SilenceIsNoSolution: a route that returns no line and met no limit has searched
\* every length, split or not.
THEOREM SilenceMeansNone == Spec => []SilenceIsNoSolution
<1>1. IInv => SilenceIsNoSolution
  <2>1. SUFFICES ASSUME IInv, phase = "done", answer = NoLine, ~timedOut[Main], ~cancelled,
                        NEW d \in (IF options \cap {"direct_depth", "all"} # {} THEN {MaxDepth} ELSE 1 .. MaxDepth)
                 PROVE  Solutions(2 * d) = {}
    BY DEF SilenceIsNoSolution
  <2>2. Silent
    BY <2>1 DEF IInv, RouteTrue
  <2>3. MaxDepth \in Nat /\ MaxPlies = 2 * MaxDepth /\ (MaxDepth + 1) - 1 = MaxDepth
    BY PliesFacts
  <2>4. CASE OneLength
    <3>1. d = MaxDepth
      BY <2>1, <2>4 DEF OneLength
    <3> QED
      BY <2>2, <2>3, <2>4, <3>1 DEF Silent
  <2>5. CASE ~OneLength
    <3>1. d \in 1 .. MaxDepth
      BY <2>1, <2>5 DEF OneLength
    <3> QED
      BY <2>2, <2>3, <2>5, <3>1 DEF Silent, NoneBelow
  <2> QED
    BY <2>4, <2>5
<1> QED
  BY <1>1, Invariance, PTL

\* EnumerationIsExact: collect_help_solutions lists every line below its cap, once.
THEOREM ListsAreExact == Spec => []EnumerationIsExact
<1>1. IInv => EnumerationIsExact
  BY DEF IInv, EnumTrue, Listed, EnumerationIsExact
<1> QED
  BY <1>1, Invariance, PTL

==============================================================================

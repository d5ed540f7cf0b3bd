---------------------------- MODULE ProverProofs -----------------------------
(***************************************************************************)
(* What Prover computes is true, for every game, every depth and every      *)
(* order of moves, whatever is evicted, cancelled or out of time, as long   *)
(* as the bare-king axiom says the same at every depth (SameAxiom).         *)
(*                                                                          *)
(* A verdict is true because the loops that composed it had learnt truths,  *)
(* and they had because the verdicts handed to them, or found in the table, *)
(* were true; that the pieces fit is the shape of the stack.                *)
(***************************************************************************)
EXTENDS Prover, TLAPS

\* Without a quota, or without any-depth refutations, the axiom cannot mislead.
SameAxiom == AnyDepth => ~QuotaPlay

Result == [ok : BOOLEAN, refuted : BOOLEAN, line : Nat]

\* The plies below a node searched to depth n: the longest line it may return.
Plies(k, n) == IF k \in Attackers THEN 2 * n - 1 ELSE 2 * n

Choices(k) == IF k \in Attackers THEN moves[k] ELSE replies[k]

Running == pc \in {"enter", "loop", "return"}

\* The frames, each one ply below the one under it, and their links.
FrameFits(i) ==
    /\ Plies(frame[i].node, frame[i].depth) = 2 * iteration - 1 - i
    /\ frame[i].left \subseteq Choices(frame[i].node)
    /\ frame[i].child # NoChild => frame[i].child \in Choices(frame[i].node)

\* The stack is a line of play from the root.
Shape ==
    /\ pc \in {"idle", "done"} => height = 0
    /\ pc = "loop" => height > 0 /\ Top.child = NoChild
    /\ Running => iteration > 0
    /\ pc \in {"enter", "return"} =>
         /\ Plies(arg.node, arg.depth) = 2 * iteration - 1 - height
         /\ height > 0 => Top.child = arg.node
         /\ height = 0 => arg.node = Root
    /\ height > 0 => frame[0].node = Root
    /\ \A i \in 0 .. height - 1 : FrameFits(i)
    /\ \A i \in 0 .. height - 2 : frame[i].child = frame[i + 1].node

Tried(f) == Choices(f.node) \ (f.left \cup {f.child})

\* What a loop has learnt of the choices it is done with.
FrameIsTrue(f) ==
    /\ f.node \in Attackers =>
         \A m \in Tried(f) : /\ f.depth > 1 => dist[m] >= f.depth
                             /\ f.hopeless => dist[m] = Never
    /\ f.node \in Defenders =>
         /\ replies[f.node] # {}
         /\ f.best <= 2 * f.depth
         /\ \A r \in Tried(f) : dist[r] <= f.depth /\ 2 * dist[r] <= f.best

LineIsTrue(k) ==
    table[k].proved # NoProof =>
        /\ Plies(k, dist[k]) <= table[k].line
        /\ table[k].line <= Plies(k, table[k].proved)

VerdictFor(k, d, v) ==
    /\ v.ok => /\ ~v.refuted /\ dist[k] <= d
               /\ Plies(k, dist[k]) <= v.line /\ v.line <= Plies(k, d)
    /\ ~v.ok /\ ~aborted => dist[k] > d
    /\ v.refuted => dist[k] = Never

TableFacts == TableIsTrue /\ \A k \in Nodes : LineIsTrue(k)

SearchIsTrue ==
    /\ TableFacts
    /\ \A i \in 0 .. height - 1 : FrameIsTrue(frame[i])
    /\ pc = "return" => VerdictFor(arg.node, arg.depth, ret)

\* Earlier depths failed, or the search was told to stop and will not succeed.
RouteIsTrue ==
    /\ aborted => timedOut \/ cancelled
    /\ timedOut => aborted
    /\ pc \in {"enter", "loop"} => ~aborted
    /\ pc = "return" /\ aborted => ~ret.ok
    /\ pc = "idle" => ~timedOut /\ (iteration < dist[Root] \/ cancelled)
    /\ Running /\ ~aborted =>
         iteration <= dist[Root] \/ (cancelled /\ pc = "enter" /\ height = 0)
    /\ pc # "done" => answer = 0
    /\ ProvenBoundIsTrue /\ AnswerIsShortest /\ RefutedIsForGood

IInv == TypeOK /\ Shape /\ Truth /\ AxiomHolds /\ SearchIsTrue /\ RouteIsTrue

-----------------------------------------------------------------------------
(* Entries and verdicts: folding a true verdict into a true entry leaves a   *)
(* true entry, and a true entry answers truly.                               *)

\* An absent entry has the type of an entry and claims nothing.
LEMMA AbsentSound ==
    /\ Absent \in Entry
    /\ \A f \in 1 .. Never, s \in 1 .. Never : SoundEntry(Absent, f, s)
<1>1. Absent \in Entry
  <2>1. FALSE \in BOOLEAN /\ 0 \in Nat /\ 0 \in Nat
    BY DepthAssumption
  <2> QED
    BY <2>1, Zenon DEF Absent, Entry
<1>2. \A f \in 1 .. Never, s \in 1 .. Never : SoundEntry(Absent, f, s)
  BY DepthAssumption DEF SoundEntry, Absent, NoDisproof, NoProof, Never
<1> QED
  BY <1>1, <1>2

\* TTEntry::absorb keeps an entry an entry, and a true one true.
LEMMA AbsorbSound ==
    ASSUME NEW entry \in Entry, NEW v \in Verdict
    PROVE  /\ Absorb(entry, v) \in Entry
           /\ Absorb(entry, v).gen = entry.gen
           /\ \A f \in 1 .. Never, s \in 1 .. Never :
                SoundEntry(entry, f, s) /\ SoundVerdict(v, f, s)
                    => SoundEntry(Absorb(entry, v), f, s)
<1>1. Absorb(entry, v) \in Entry
  <2>1. /\ Absorb(entry, v).disproved \in Depths \cup {NoDisproof}
        /\ Absorb(entry, v).proved \in Depths \cup {NoProof}
        /\ Absorb(entry, v).gen \in Nat
        /\ Absorb(entry, v).line \in Nat
    BY DepthAssumption DEF Absorb, Entry, Verdict
  <2>2. (entry.refuted \/ v.refuted) \in BOOLEAN
    BY Zenon
  <2>3. [disproved |-> Absorb(entry, v).disproved,
         proved |-> Absorb(entry, v).proved,
         refuted |-> entry.refuted \/ v.refuted,
         gen |-> Absorb(entry, v).gen, line |-> Absorb(entry, v).line] \in Entry
    BY <2>1, <2>2, Zenon DEF Entry
  <2>4. Absorb(entry, v) =
          [disproved |-> Absorb(entry, v).disproved,
           proved |-> Absorb(entry, v).proved,
           refuted |-> entry.refuted \/ v.refuted,
           gen |-> Absorb(entry, v).gen, line |-> Absorb(entry, v).line]
    BY DEF Absorb
  <2> QED
    BY <2>3, <2>4, Zenon
<1>2. Absorb(entry, v).gen = entry.gen
  BY DEF Absorb, Entry
<1>3. ASSUME NEW f \in 1 .. Never, NEW s \in 1 .. Never,
             SoundEntry(entry, f, s), SoundVerdict(v, f, s)
      PROVE  SoundEntry(Absorb(entry, v), f, s)
  BY <1>3, DepthAssumption, SMTT(30)
  DEF Absorb, Entry, Verdict, Depths, NoDisproof, NoProof, SoundEntry,
      SoundVerdict, Never
<1> QED
  BY <1>1, <1>2, <1>3

\* What an entry settles it settles truly, at the strength it hands back.
LEMMA AnswerSound ==
    ASSUME NEW entry \in Entry, NEW f \in 1 .. Never, NEW s \in 1 .. Never,
           f <= s, SoundEntry(entry, f, s), NEW d \in Depths,
           Answer(entry, d).settled
    PROVE  /\ Answer(entry, d).ok => f <= d
           /\ ~Answer(entry, d).ok => d < s /\ Answer(entry, d).fail < s
           /\ Answer(entry, d).refuted => ~Answer(entry, d).ok /\ s = Never
<1>1. /\ entry.proved \in Nat /\ entry.disproved \in Int
      /\ d \in Nat /\ d < Never
  BY DepthAssumption DEF Entry, Depths, NoProof, NoDisproof, Never
<1>2. CASE Answer(entry, d).ok
  <2>1. d >= entry.proved /\ ~entry.refuted
    BY <1>2 DEF Answer
  <2> QED
    BY <1>1, <1>2, <2>1 DEF SoundEntry, Answer, NoProof, Never
<1>3. CASE ~Answer(entry, d).ok
  <2>1. entry.refuted \/ d <= entry.disproved
    BY <1>3, Zenon DEF Answer
  <2>2. Answer(entry, d).refuted = entry.refuted
    BY DEF Answer
  <2>3. \/ entry.refuted /\ Answer(entry, d).fail = 0
        \/ Answer(entry, d).fail = entry.disproved
    BY DEF Answer
  <2> QED
    BY <1>1, <1>3, <2>1, <2>2, <2>3 DEF SoundEntry
<1> QED
  BY <1>2, <1>3
-----------------------------------------------------------------------------
(* Facts about the constants and about the table. *)

\* What the assumptions give.
LEMMA Constants ==
    /\ MaxDepth \in Nat /\ MaxDepth >= 1 /\ Never = MaxDepth + 1
    /\ MaxPly \in Nat /\ MaxPly = 2 * MaxDepth
    /\ Root \in Attackers /\ Root \in Nodes /\ NoChild \notin Nodes
    /\ \A k \in Nodes : k \in Attackers <=> k \notin Defenders
BY DepthAssumption, NodesAssumption DEF Never, MaxPly, Nodes

\* A failure is a result.
LEMMA FailsType ==
    \A r \in BOOLEAN : /\ Fails(r) \in Result /\ ~Fails(r).ok
                       /\ Fails(r).refuted = r /\ Fails(r).line = 0
<1>1. FALSE \in BOOLEAN /\ 0 \in Nat
  BY DepthAssumption
<1> QED
  BY <1>1, Zenon DEF Fails, Result

Kept(d, v) == [ok |-> v.ok, bound |-> d, refuted |-> v.refuted, line |-> v.line]

\* What a search hands to the table is a verdict.
LEMMA KeptType ==
    ASSUME NEW d \in Depths, NEW v \in Result
    PROVE  /\ Kept(d, v) \in Verdict
           /\ Kept(d, v).ok = v.ok /\ Kept(d, v).bound = d
           /\ Kept(d, v).refuted = v.refuted /\ Kept(d, v).line = v.line
<1>1. v.ok \in BOOLEAN /\ v.refuted \in BOOLEAN /\ v.line \in Nat
  BY Zenon DEF Result
<1>2. d \in Depths \cup {NoDisproof}
  OBVIOUS
<1>3. Kept(d, v) \in [ok : BOOLEAN, bound : Depths \cup {NoDisproof},
                      refuted : BOOLEAN, line : Nat]
  BY <1>1, <1>2, Zenon DEF Kept
<1>4. /\ Kept(d, v).ok = v.ok /\ Kept(d, v).bound = d
      /\ Kept(d, v).refuted = v.refuted /\ Kept(d, v).line = v.line
  BY Zenon DEF Kept
<1> QED
  BY <1>3, <1>4, Zenon DEF Verdict

\* Storing changes one entry, by absorbing the verdict, and none while unwinding.
LEMMA StoreFacts ==
    ASSUME TypeOK, NEW node \in Nodes, NEW d \in Depths, NEW v \in Result,
           Store(node, d, v)
    PROVE  /\ table' \in [Nodes -> Entry]
           /\ \A k \in Nodes :
                \/ table'[k] = table[k]
                \/ ~aborted /\ k = node /\ table'[k] = Absorb(table[k], Kept(d, v))
<1>1. table \in [Nodes -> Entry]
  BY DEF TypeOK
<1>2. CASE aborted
  <2>1. table' = table
    BY <1>2, Zenon DEF Store
  <2> QED
    BY <1>1, <2>1, Zenon
<1>3. CASE ~aborted
  <2>1. table' = [table EXCEPT ![node] = Absorb(table[node], Kept(d, v))]
    BY <1>3, Zenon DEF Store, Kept
  <2>2. Absorb(table[node], Kept(d, v)) \in Entry
    BY <1>1, KeptType, AbsorbSound
  <2> QED
    BY <1>1, <1>3, <2>1, <2>2
<1> QED
  BY <1>2, <1>3

\* A true verdict leaves the table true, lines included.
LEMMA StoreTrue ==
    ASSUME TypeOK, TableFacts, NEW node \in Nodes, NEW d \in Depths,
           NEW v \in Result, Store(node, d, v), VerdictFor(node, d, v),
           UNCHANGED dist
    PROVE  TableFacts'
<1>1. /\ table' \in [Nodes -> Entry]
      /\ \A k \in Nodes :
           \/ table'[k] = table[k]
           \/ ~aborted /\ k = node /\ table'[k] = Absorb(table[k], Kept(d, v))
  BY StoreFacts
<1>2. SUFFICES ASSUME NEW k \in Nodes
               PROVE  SoundEntry(table'[k], dist[k], dist[k]) /\ LineIsTrue(k)'
  BY DEF TableFacts, TableIsTrue
<1>3. /\ table[k] \in Entry /\ dist[k] \in 1 .. Never
      /\ SoundEntry(table[k], dist[k], dist[k]) /\ LineIsTrue(k)
  BY DEF TypeOK, TableFacts, TableIsTrue
<1>4. CASE table'[k] = table[k]
  BY <1>3, <1>4 DEF LineIsTrue
<1>5. CASE ~aborted /\ k = node /\ table'[k] = Absorb(table[k], Kept(d, v))
  <2>1. SoundVerdict(Kept(d, v), dist[k], dist[k])
    BY <1>3, <1>5, KeptType, Constants, Zenon DEF SoundVerdict, VerdictFor, Depths
  <2>2. SoundEntry(table'[k], dist[k], dist[k])
    BY <1>3, <1>5, <2>1, KeptType, AbsorbSound
  <2>3. CASE v.ok /\ d < table[k].proved
    <3>1. table'[k].proved = d /\ table'[k].line = v.line
      BY <1>5, <2>3, KeptType DEF Absorb
    <3> QED
      BY <1>5, <2>2, <2>3, <3>1 DEF LineIsTrue, VerdictFor
  <2>4. CASE ~(v.ok /\ d < table[k].proved)
    <3>1. table'[k].proved = table[k].proved /\ table'[k].line = table[k].line
      BY <1>5, <2>4, KeptType DEF Absorb
    <3> QED
      BY <1>3, <2>2, <3>1 DEF LineIsTrue
  <2> QED
    BY <2>3, <2>4
<1> QED
  BY <1>1, <1>4, <1>5

-----------------------------------------------------------------------------
(* Steps of the stack. *)

\* The loop on top, and the room it takes.
LEMMA TopFacts ==
    ASSUME TypeOK, Shape, height > 0
    PROVE  /\ height - 1 \in 0 .. height - 1 /\ height - 1 \in 0 .. MaxPly
           /\ Top \in Frame /\ Top.node \in Nodes /\ Top.depth \in Depths
           /\ Top.left \subseteq Nodes /\ Top.best \in Nat /\ Top.hopeless \in BOOLEAN
           /\ Plies(Top.node, Top.depth) = 2 * iteration - height
           /\ Top.left \subseteq Choices(Top.node)
           /\ Top.child # NoChild => Top.child \in Choices(Top.node)
<1>1. height - 1 \in 0 .. height - 1 /\ height - 1 \in 0 .. MaxPly
  BY Constants DEF TypeOK
<1>2. Top \in Frame
  BY <1>1, Zenon DEF TypeOK, Top
<1>3. /\ Top.node \in Nodes /\ Top.depth \in Depths
      /\ Top.left \subseteq Nodes /\ Top.best \in Nat /\ Top.hopeless \in BOOLEAN
  BY <1>2, Zenon DEF Frame
<1>4. FrameFits(height - 1)
  BY <1>1, Zenon DEF Shape
<1> QED
  BY <1>1, <1>2, <1>3, <1>4, Constants, SMTT(30) DEF FrameFits, Top, TypeOK

\* A choice is a node of the other side, one ply down.
LEMMA ChoiceFacts ==
    ASSUME TypeOK, NEW k \in Nodes, NEW c \in Choices(k)
    PROVE  /\ c \in Nodes /\ c # NoChild
           /\ k \in Attackers => c \in Defenders /\ c \in moves[k]
           /\ k \in Defenders => c \in Attackers /\ c \in replies[k]
<1>1. CASE k \in Attackers
  BY <1>1, Constants DEF TypeOK, Choices, Nodes
<1>2. CASE k \in Defenders
  BY <1>2, Constants DEF TypeOK, Choices, Nodes
<1> QED
  BY <1>1, <1>2 DEF Nodes

\* Handing a result to the loop below.
LEMMA Pop ==
    ASSUME TypeOK, Shape, Running, height > 0, NEW v \in Result,
           Return(Top.node, Top.depth, v), height' = height - 1,
           table' \in [Nodes -> Entry],
           UNCHANGED <<frame, game, evictions, route, flags>>
    PROVE  TypeOK' /\ Shape'
<1>1. /\ Top.node \in Nodes /\ Top.depth \in Depths
      /\ Plies(Top.node, Top.depth) = 2 * iteration - height
  BY TopFacts
<1>2. /\ pc' = "return" /\ arg' = [node |-> Top.node, depth |-> Top.depth] /\ ret' = v
      /\ arg'.node = Top.node /\ arg'.depth = Top.depth
  BY DEF Return
<1>3. TypeOK'
  <2>1. height' \in 0 .. MaxPly
    BY Constants DEF TypeOK
  <2>2. arg' \in [node : Nodes, depth : Depths] /\ ret' \in Result
    BY <1>1, <1>2
  <2> QED
    BY <1>2, <2>1, <2>2 DEF TypeOK, game, route, flags, Result
<1>4. height' > 0 => Top'.child = Top.node
  BY DEF Shape, Top, TypeOK
<1>5. height' = 0 => Top.node = Root
  BY DEF Shape, Top, TypeOK
<1>6. \A i \in 0 .. height' - 1 : FrameFits(i)'
  BY DEF Shape, FrameFits, Choices, TypeOK, game, route
<1>7. ASSUME NEW i \in 0 .. height' - 2
      PROVE  frame'[i].child = frame'[i + 1].node
  <2>1. i \in 0 .. height - 2
    BY DEF TypeOK
  <2> QED
    BY <2>1, Zenon DEF Shape
<1>8. height' > 0 => frame'[0].node = Root
  BY DEF Shape, TypeOK
<1>9. iteration' > 0 /\ iteration' = iteration
  BY DEF Shape, route
<1>10. Plies(arg'.node, arg'.depth) = 2 * iteration' - 1 - height'
  BY <1>1, <1>2, <1>9 DEF TypeOK
<1> QED
  BY <1>2, <1>3, <1>4, <1>5, <1>6, <1>7, <1>8, <1>9, <1>10 DEF Shape, Running, Plies

\* Rewriting the loop on top, whether it goes on or calls.
LEMMA Rewrite ==
    ASSUME TypeOK, Shape, height > 0, NEW f \in Frame, SetTop(f),
           f.node = Top.node, f.depth = Top.depth, f.left \subseteq Top.left,
           f.child # NoChild => f.child \in Choices(f.node),
           UNCHANGED <<height, game, route>>
    PROVE  /\ frame' \in [0 .. MaxPly -> Frame] /\ Top' = f
           /\ \A i \in 0 .. height - 1 : i # height - 1 => frame'[i] = frame[i]
           /\ \A i \in 0 .. height' - 1 : FrameFits(i)'
           /\ \A i \in 0 .. height' - 2 : frame'[i].child = frame'[i + 1].node
           /\ frame'[0].node = Root
<1>1. frame' = [frame EXCEPT ![height - 1] = f] /\ frame \in [0 .. MaxPly -> Frame]
  BY DEF SetTop, TypeOK
<1>2. height - 1 \in 0 .. MaxPly /\ height' = height /\ height \in Nat
  BY TopFacts DEF TypeOK
<1>3. frame' \in [0 .. MaxPly -> Frame]
  BY <1>1, <1>2
<1>4. frame'[height - 1] = f
  BY <1>1, <1>2
<1>5. \A i \in 0 .. height - 1 : i # height - 1 => frame'[i] = frame[i]
  BY <1>1, <1>2, Constants DEF TypeOK
<1>6. \A i \in 0 .. height - 1 : frame'[i].node = frame[i].node
  BY <1>4, <1>5, <1>2 DEF Top
<1>7. ASSUME NEW i \in 0 .. height' - 1
      PROVE  FrameFits(i)'
  <2>1. FrameFits(i)
    BY <1>2, <1>7 DEF Shape
  <2>2. moves' = moves /\ replies' = replies /\ iteration' = iteration
    BY DEF game, route
  <2>3. CASE i = height - 1
    BY <1>4, <2>1, <2>2, <2>3 DEF FrameFits, Choices, Plies, Top
  <2>4. CASE i # height - 1
    <3>1. frame'[i] = frame[i]
      BY <1>2, <1>5, <2>4
    <3> QED
      BY <2>1, <2>2, <3>1 DEF FrameFits, Choices, Plies
  <2> QED
    BY <2>3, <2>4
<1>8. ASSUME NEW i \in 0 .. height' - 2
      PROVE  frame'[i].child = frame'[i + 1].node
  <2>1. frame[i].child = frame[i + 1].node
    BY <1>2 DEF Shape
  <2>2. i \in 0 .. height - 1 /\ i # height - 1 /\ i + 1 \in 0 .. height - 1
    BY <1>2
  <2> QED
    BY <1>5, <1>6, <2>1, <2>2
<1>9. frame'[0].node = Root
  <2>1. 0 \in 0 .. height - 1
    BY <1>2
  <2> QED
    BY <1>6, <2>1 DEF Shape
<1> QED
  BY <1>2, <1>3, <1>4, <1>5, <1>7, <1>8, <1>9 DEF Top

\* The loop on top goes on.
LEMMA GoesOn ==
    ASSUME TypeOK, Shape, Running, height > 0, NEW f \in Frame, SetTop(f),
           f.node = Top.node, f.depth = Top.depth, f.left \subseteq Top.left,
           f.child = NoChild, pc' = "loop",
           UNCHANGED <<table, evictions, arg, ret, height, game, route, flags>>
    PROVE  TypeOK' /\ Shape'
<1>1. /\ frame' \in [0 .. MaxPly -> Frame] /\ Top' = f
      /\ \A i \in 0 .. height' - 1 : FrameFits(i)'
      /\ \A i \in 0 .. height' - 2 : frame'[i].child = frame'[i + 1].node
      /\ frame'[0].node = Root
  BY Rewrite
<1>2. TypeOK'
  BY <1>1 DEF TypeOK, game, route, flags
<1> QED
  BY <1>1, <1>2 DEF Shape, Running, route

\* The loop on top calls for one of the choices it has left.
LEMMA Calls ==
    ASSUME TypeOK, Shape, pc = "loop", height > 0, NEW c \in Top.left, NEW d \in Depths,
           SetTop([Top EXCEPT !.left = @ \ {c}, !.child = c]),
           Enter(c, d), Plies(c, d) = Plies(Top.node, Top.depth) - 1,
           UNCHANGED <<table, evictions, ret, height, game, route, flags>>
    PROVE  TypeOK' /\ Shape'
<1> DEFINE f == [Top EXCEPT !.left = @ \ {c}, !.child = c]
<1>1. /\ Top \in Frame /\ Top.node \in Nodes
      /\ Plies(Top.node, Top.depth) = 2 * iteration - height
      /\ Top.left \subseteq Choices(Top.node)
  BY TopFacts
<1>2. c \in Nodes /\ c # NoChild /\ c \in Choices(Top.node)
  BY <1>1, ChoiceFacts
<1>3. /\ f \in Frame /\ f.node = Top.node /\ f.depth = Top.depth
      /\ f.left \subseteq Top.left /\ f.child = c
  BY <1>1, <1>2 DEF Frame
<1>4. /\ frame' \in [0 .. MaxPly -> Frame] /\ Top' = f
      /\ \A i \in 0 .. height' - 1 : FrameFits(i)'
      /\ \A i \in 0 .. height' - 2 : frame'[i].child = frame'[i + 1].node
      /\ frame'[0].node = Root
  <2> HIDE DEF f
  <2>1. SetTop(f)
    BY DEF f
  <2> QED
    BY <1>2, <1>3, <2>1, Rewrite
<1>5. /\ pc' = "enter" /\ arg' = [node |-> c, depth |-> d]
      /\ arg'.node = c /\ arg'.depth = d
  BY DEF Enter
<1>6. TypeOK'
  <2>1. arg' \in [node : Nodes, depth : Depths]
    BY <1>2, <1>5
  <2> QED
    BY <1>4, <1>5, <2>1 DEF TypeOK, game, route, flags
<1>7. Plies(arg'.node, arg'.depth) = 2 * iteration' - 1 - height'
  <2>1. iteration' = iteration /\ height' = height /\ height \in Int /\ iteration \in Int
    BY DEF route, TypeOK
  <2> QED
    BY <1>1, <1>5, <2>1
<1>8. Top'.child = arg'.node
  BY <1>3, <1>4, <1>5
<1> HIDE DEF f
<1> QED
  BY <1>4, <1>5, <1>6, <1>7, <1>8 DEF Shape, Running, route, Plies

\* Entering a node's loop: the stack has room, for a ply is left.
LEMMA Pushes ==
    ASSUME TypeOK, Shape, pc = "enter", NEW open \in BOOLEAN,
           Push(Choices(arg.node), open),
           UNCHANGED <<table, evictions, arg, ret, game, route, flags>>
    PROVE  /\ TypeOK' /\ Shape'
           /\ \A i \in 0 .. height - 1 : frame'[i] = frame[i]
           /\ frame'[height] = [node |-> arg.node, depth |-> arg.depth,
                                left |-> Choices(arg.node), child |-> NoChild,
                                best |-> 0, hopeless |-> open]
<1> DEFINE f == [node |-> arg.node, depth |-> arg.depth, left |-> Choices(arg.node),
                 child |-> NoChild, best |-> 0, hopeless |-> open]
<1>1. /\ arg.node \in Nodes /\ arg.depth \in Depths /\ height \in Nat
      /\ iteration \in 0 .. MaxDepth /\ Choices(arg.node) \subseteq Nodes
  <2>1. arg.node \in Nodes /\ arg.depth \in Depths
    BY DEF TypeOK
  <2> QED
    BY <2>1, ChoiceFacts DEF TypeOK
<1>2. Plies(arg.node, arg.depth) = 2 * iteration - 1 - height
  BY DEF Shape
<1>3. Plies(arg.node, arg.depth) \in Nat /\ Plies(arg.node, arg.depth) >= 1
  BY <1>1, Constants DEF Plies, Depths
<1>4. height + 1 \in 0 .. MaxPly /\ height \in 0 .. MaxPly
  BY <1>1, <1>2, <1>3, Constants
<1>5. f \in Frame
  <2>1. 0 \in Nat /\ NoChild \in Nodes \cup {NoChild}
    BY Constants
  <2> QED
    BY <1>1, <2>1, Zenon DEF Frame
<1>6. /\ f.node = arg.node /\ f.depth = arg.depth
      /\ f.left = Choices(arg.node) /\ f.child = NoChild
  BY Zenon
<1>7. frame' = [frame EXCEPT ![height] = f] /\ height' = height + 1 /\ pc' = "loop"
  BY DEF Push
<1> HIDE DEF f
<1>8. /\ frame' \in [0 .. MaxPly -> Frame] /\ frame'[height] = f
      /\ \A i \in 0 .. height - 1 : frame'[i] = frame[i]
  BY <1>4, <1>5, <1>7, <1>1 DEF TypeOK
<1>9. TypeOK'
  BY <1>4, <1>7, <1>8 DEF TypeOK, game, route, flags
<1>10. Top' = f
  BY <1>1, <1>7, <1>8 DEF Top
<1>11. moves' = moves /\ replies' = replies /\ iteration' = iteration
  BY DEF game, route
<1>12. ASSUME NEW i \in 0 .. height' - 1
       PROVE  FrameFits(i)'
  <2>1. CASE i = height
    BY <1>2, <1>6, <1>8, <1>11, <2>1 DEF FrameFits, Plies, Choices
  <2>2. CASE i # height
    <3>1. i \in 0 .. height - 1
      BY <1>1, <1>7, <2>2
    <3>2. FrameFits(i) /\ frame'[i] = frame[i]
      BY <1>8, <3>1 DEF Shape
    <3> QED
      BY <1>11, <3>2 DEF FrameFits, Plies, Choices
  <2> QED
    BY <2>1, <2>2
<1>13. ASSUME NEW i \in 0 .. height' - 2
       PROVE  frame'[i].child = frame'[i + 1].node
  <2>1. i \in 0 .. height - 1 /\ frame'[i] = frame[i]
    BY <1>1, <1>7, <1>8
  <2>2. CASE i = height - 1
    BY <1>1, <1>6, <1>8, <2>1, <2>2 DEF Shape, Top
  <2>3. CASE i # height - 1
    <3>1. i \in 0 .. height - 2 /\ i + 1 \in 0 .. height - 1
      BY <1>1, <2>1, <2>3
    <3> QED
      BY <1>8, <2>1, <3>1 DEF Shape
  <2> QED
    BY <2>2, <2>3
<1>14. frame'[0].node = Root
  <2>1. CASE height = 0
    BY <1>6, <1>8, <2>1 DEF Shape
  <2>2. CASE height # 0
    <3>1. 0 \in 0 .. height - 1
      BY <1>1, <2>2
    <3> QED
      BY <1>1, <1>8, <2>2, <3>1 DEF Shape
  <2> QED
    BY <2>1, <2>2
<1>15. height' > 0 /\ iteration' > 0
  BY <1>1, <1>7, <1>11 DEF Shape, Running
<1> QED
  BY <1>6, <1>7, <1>8, <1>9, <1>10, <1>12, <1>13, <1>14, <1>15 DEF Shape, f

\* Returning from a node without a loop.
LEMMA Leaf ==
    ASSUME TypeOK, Shape, pc = "enter", NEW v \in Result,
           Return(arg.node, arg.depth, v), table' \in [Nodes -> Entry],
           aborted' \in BOOLEAN, timedOut' \in BOOLEAN,
           UNCHANGED <<game, evictions, stack, route, cancelled>>
    PROVE  TypeOK' /\ Shape'
<1>1. /\ pc' = "return" /\ arg' = [node |-> arg.node, depth |-> arg.depth] /\ ret' = v
      /\ arg'.node = arg.node /\ arg'.depth = arg.depth
  BY DEF Return
<1>2. TypeOK'
  <2>1. arg' \in [node : Nodes, depth : Depths] /\ ret' \in Result
    BY <1>1 DEF TypeOK
  <2> QED
    BY <1>1, <2>1 DEF TypeOK, game, stack, route, Result
<1>3. /\ frame' = frame /\ height' = height /\ iteration' = iteration
      /\ moves' = moves /\ replies' = replies
  BY DEF stack, route, game
<1> QED
  BY <1>1, <1>2, <1>3 DEF Shape, Running, Plies, Top, FrameFits, Choices

-----------------------------------------------------------------------------
(* What the equations of the game give. *)

\* A mate in one is a mate in one.
LEMMA MateInOne ==
    ASSUME TypeOK, Truth, NEW a \in Attackers, a \in mates
    PROVE  dist[a] = 1
<1>1. AttackerEquation(a) /\ 1 \in Depths /\ dist[a] \in 1 .. Never
  BY Constants DEF Truth, Depths, TypeOK, Nodes
<1> QED
  BY <1>1, Constants DEF AttackerEquation

\* A move to a lost position mates one move later.
LEMMA MoveMates ==
    ASSUME TypeOK, Truth, NEW a \in Attackers, NEW m \in moves[a], NEW d \in Depths,
           d > 1, dist[m] <= d - 1
    PROVE  dist[a] <= d /\ dist[a] <= dist[m] + 1
<1>1. /\ AttackerEquation(a) /\ dist[a] \in 1 .. Never
      /\ m \in Nodes /\ dist[m] \in 1 .. Never
  BY DEF Truth, TypeOK, Nodes
<1>2. d \in Depths /\ dist[m] + 1 \in Depths /\ dist[m] + 1 > 1
  BY <1>1, Constants DEF Depths
<1> QED
  BY <1>1, <1>2, Constants DEF AttackerEquation, Depths

\* If every move fails the position does, and for good if they all do.
LEMMA MovesFail ==
    ASSUME TypeOK, Truth, NEW a \in Attackers, a \notin mates, NEW d \in Depths,
           d > 1 => \A m \in moves[a] : dist[m] >= d
    PROVE  /\ dist[a] > d
           /\ (\A m \in moves[a] : dist[m] = Never) => dist[a] = Never
<1>1. AttackerEquation(a) /\ dist[a] \in 1 .. Never
  BY DEF Truth, TypeOK, Nodes
<1>2. \A m \in moves[a] : dist[m] \in 1 .. Never
  BY DEF TypeOK, Nodes
<1>3. dist[a] > d
  BY <1>1, <1>2, Constants DEF AttackerEquation, Depths
<1>4. ASSUME \A m \in moves[a] : dist[m] = Never
      PROVE  dist[a] = Never
  <2>1. SUFFICES ASSUME dist[a] \in Depths
                 PROVE  FALSE
    BY <1>1, Constants DEF Depths
  <2>2. \E m \in moves[a] : dist[m] <= dist[a] - 1
    BY <1>1, <2>1, Constants DEF AttackerEquation, Depths
  <2> QED
    BY <1>4, <2>1, <2>2, Constants DEF Depths
<1> QED
  BY <1>3, <1>4

\* A reply that escapes saves the defender, and for good if it does.
LEMMA ReplyEscapes ==
    ASSUME TypeOK, Truth, NEW k \in Defenders, NEW r \in replies[k], NEW d \in Depths
    PROVE  /\ dist[r] > d => dist[k] > d
           /\ dist[r] = Never => dist[k] = Never
<1>1. /\ DefenderEquation(k) /\ dist[k] \in 1 .. Never /\ dist[r] \in 1 .. Never
  BY DEF Truth, TypeOK, Nodes
<1>2. dist[k] \in Depths => dist[r] <= dist[k]
  BY <1>1, Constants DEF DefenderEquation, Depths
<1> QED
  BY <1>1, <1>2, Constants DEF Depths

\* Stalemate is no mate.
LEMMA NoReplies ==
    ASSUME TypeOK, Truth, NEW k \in Defenders, replies[k] = {}
    PROVE  dist[k] = Never
<1>1. DefenderEquation(k) /\ dist[k] \in 1 .. Never
  BY DEF Truth, TypeOK, Nodes
<1>2. dist[k] \notin Depths
  BY <1>1, Constants DEF DefenderEquation, Depths
<1> QED
  BY <1>1, <1>2, Constants DEF Depths

\* If every reply loses the defender does, as late as the best of them.
LEMMA RepliesLose ==
    ASSUME TypeOK, Truth, NEW k \in Defenders, replies[k] # {}, NEW d \in Depths,
           NEW best \in Nat, best <= 2 * d,
           \A r \in replies[k] : dist[r] <= d /\ 2 * dist[r] <= best
    PROVE  dist[k] <= d /\ 2 * dist[k] <= best
<1>1. DefenderEquation(k) /\ dist[k] \in 1 .. Never
  BY DEF Truth, TypeOK, Nodes
<1>2. \A r \in replies[k] : dist[r] \in 1 .. Never
  BY DEF TypeOK, Nodes
<1>3. PICK r \in replies[k] : TRUE
  OBVIOUS
<1> DEFINE n == best \div 2
<1>4. n \in Int /\ (best = 2 * n \/ best = 2 * n + 1)
  OBVIOUS
<1> HIDE DEF n
<1>5. n \in Depths
  <2>1. dist[r] >= 1 /\ 2 * dist[r] <= best
    BY <1>2, <1>3
  <2> QED
    BY <1>2, <1>3, <1>4, <2>1, Constants DEF Depths
<1>6. \A x \in replies[k] : dist[x] <= n
  BY <1>2, <1>4
<1>7. dist[k] <= n /\ dist[k] <= d
  BY <1>1, <1>5, <1>6 DEF DefenderEquation
<1> QED
  BY <1>1, <1>4, <1>5, <1>7 DEF Depths

-----------------------------------------------------------------------------
(* What each kind of step leaves true. *)

\* A frame that is not touched stays true.
LEMMA FrameKept ==
    ASSUME NEW i, frame'[i] = frame[i], UNCHANGED game, FrameIsTrue(frame[i])
    PROVE  FrameIsTrue(frame[i])'
<1>1. moves' = moves /\ replies' = replies /\ dist' = dist
  BY DEF game
<1> QED
  BY <1>1 DEF FrameIsTrue, Tried, Choices

\* A table that is not touched stays true.
LEMMA TableKept ==
    ASSUME TableFacts, UNCHANGED <<table, game>>
    PROVE  TableFacts'
<1>1. table' = table /\ dist' = dist
  BY DEF game
<1> QED
  BY <1>1 DEF TableFacts, TableIsTrue, LineIsTrue, Plies, SoundEntry

\* The game stays what it is.
LEMMA GameKept ==
    ASSUME Truth, AxiomHolds, UNCHANGED game
    PROVE  Truth' /\ AxiomHolds'
<1>1. /\ moves' = moves /\ replies' = replies /\ mates' = mates /\ dist' = dist
      /\ standsDown' = standsDown
  BY DEF game
<1> QED
  BY <1>1 DEF Truth, AxiomHolds, AttackerEquation, DefenderEquation

\* A loop that ends with a true verdict stores it and hands it down.
LEMMA ConcludeTrue ==
    ASSUME TypeOK, Shape, Running, height > 0, SearchIsTrue, NEW v \in Result,
           VerdictFor(Top.node, Top.depth, v), Conclude(v),
           UNCHANGED <<game, evictions, route, flags>>
    PROVE  TypeOK' /\ Shape' /\ SearchIsTrue'
<1>1. /\ Top.node \in Nodes /\ Top.depth \in Depths
      /\ Store(Top.node, Top.depth, v) /\ Return(Top.node, Top.depth, v)
      /\ height' = height - 1 /\ frame' = frame
  BY TopFacts, Zenon DEF Conclude
<1>2. dist' = dist /\ aborted' = aborted
  BY DEF game, flags
<1>3. table' \in [Nodes -> Entry]
  BY <1>1, StoreFacts
<1>4. TypeOK' /\ Shape'
  BY <1>1, <1>3, Pop, Zenon
<1>5. TableFacts'
  BY <1>1, <1>2, StoreTrue DEF SearchIsTrue
<1>6. VerdictFor(arg.node, arg.depth, ret)'
  <2>1. arg'.node = Top.node /\ arg'.depth = Top.depth /\ ret' = v
    BY <1>1 DEF Return
  <2> QED
    BY <1>2, <2>1 DEF VerdictFor, Plies
<1>7. ASSUME NEW i \in 0 .. height' - 1
      PROVE  FrameIsTrue(frame[i])'
  <2>1. i \in 0 .. height - 1
    BY <1>1 DEF TypeOK
  <2> QED
    BY <1>1, <2>1, FrameKept DEF SearchIsTrue
<1> QED
  BY <1>4, <1>5, <1>6, <1>7 DEF SearchIsTrue

\* A node that returns without a loop hands down a true verdict.
LEMMA LeafTrue ==
    ASSUME TypeOK, Shape, pc = "enter", SearchIsTrue, NEW v \in Result,
           VerdictFor(arg.node, arg.depth, v)',
           Return(arg.node, arg.depth, v), table' \in [Nodes -> Entry], TableFacts',
           aborted' \in BOOLEAN, timedOut' \in BOOLEAN,
           UNCHANGED <<game, evictions, stack, route, cancelled>>
    PROVE  TypeOK' /\ Shape' /\ SearchIsTrue'
<1>1. TypeOK' /\ Shape'
  BY Leaf, Zenon
<1>2. VerdictFor(arg.node, arg.depth, ret)'
  <2>1. ret' = v
    BY DEF Return
  <2> QED
    BY <2>1 DEF VerdictFor, Plies
<1>3. ASSUME NEW i \in 0 .. height' - 1
      PROVE  FrameIsTrue(frame[i])'
  <2>1. i \in 0 .. height - 1 /\ frame'[i] = frame[i]
    BY DEF stack
  <2> QED
    BY <2>1, FrameKept DEF SearchIsTrue
<1> QED
  BY <1>1, <1>2, <1>3 DEF SearchIsTrue

\* A loop that goes on with true knowledge.
LEMMA GoesOnTrue ==
    ASSUME TypeOK, Shape, Running, height > 0, SearchIsTrue, NEW f \in Frame,
           SetTop(f), f.node = Top.node, f.depth = Top.depth, f.left \subseteq Top.left,
           f.child = NoChild, FrameIsTrue(f), pc' = "loop",
           UNCHANGED <<table, evictions, arg, ret, height, game, route, flags>>
    PROVE  TypeOK' /\ Shape' /\ SearchIsTrue'
<1>1. TypeOK' /\ Shape'
  BY GoesOn, Zenon
<1>2. /\ Top' = f
      /\ \A i \in 0 .. height - 1 : i # height - 1 => frame'[i] = frame[i]
  BY Rewrite
<1>3. TableFacts'
  BY TableKept DEF SearchIsTrue
<1>4. ASSUME NEW i \in 0 .. height' - 1
      PROVE  FrameIsTrue(frame[i])'
  <2>1. i \in 0 .. height - 1 /\ height' = height
    OBVIOUS
  <2>2. CASE i = height - 1
    <3>1. frame'[i] = f
      BY <1>2, <2>1, <2>2 DEF Top
    <3>2. moves' = moves /\ replies' = replies /\ dist' = dist
      BY DEF game
    <3> QED
      BY <3>1, <3>2 DEF FrameIsTrue, Tried, Choices
  <2>3. CASE i # height - 1
    BY <1>2, <2>1, <2>3, FrameKept DEF SearchIsTrue
  <2> QED
    BY <2>2, <2>3
<1> QED
  BY <1>1, <1>3, <1>4 DEF SearchIsTrue

\* Calling for a choice learns nothing and forgets nothing.
LEMMA CallsTrue ==
    ASSUME TypeOK, Shape, pc = "loop", height > 0, SearchIsTrue,
           NEW c \in Top.left, NEW d \in Depths,
           SetTop([Top EXCEPT !.left = @ \ {c}, !.child = c]),
           Enter(c, d), Plies(c, d) = Plies(Top.node, Top.depth) - 1,
           UNCHANGED <<table, evictions, ret, height, game, route, flags>>
    PROVE  TypeOK' /\ Shape' /\ SearchIsTrue'
<1> DEFINE f == [Top EXCEPT !.left = @ \ {c}, !.child = c]
<1>1. TypeOK' /\ Shape'
  BY Calls
<1>2. /\ Top \in Frame /\ Top.node \in Nodes /\ Top.left \subseteq Choices(Top.node)
      /\ Top.child = NoChild /\ height - 1 \in 0 .. height - 1
  BY TopFacts DEF Shape
<1>3. c \in Nodes /\ c # NoChild /\ c \in Choices(Top.node)
  BY <1>2, ChoiceFacts
<1>4. /\ f \in Frame /\ f.node = Top.node /\ f.depth = Top.depth /\ f.child = c
      /\ f.left = Top.left \ {c} /\ f.best = Top.best /\ f.hopeless = Top.hopeless
  BY <1>2, <1>3 DEF Frame
<1>5. SetTop(f)
  OBVIOUS
<1> HIDE DEF f
<1>6. /\ Top' = f
      /\ \A i \in 0 .. height - 1 : i # height - 1 => frame'[i] = frame[i]
  <2>1. f.left \subseteq Top.left /\ f.child \in Choices(f.node)
    BY <1>3, <1>4
  <2> QED
    BY <1>4, <1>5, <2>1, Rewrite
<1>7. Tried(f) \subseteq Tried(Top)
  <2>1. \A x \in Choices(Top.node) : x # NoChild
    BY <1>2, ChoiceFacts
  <2> QED
    BY <1>2, <1>4, <2>1, Zenon DEF Tried
<1>8. FrameIsTrue(f)
  <2>1. FrameIsTrue(Top)
    BY <1>2 DEF SearchIsTrue, Top
  <2> QED
    BY <1>4, <1>7, <2>1 DEF FrameIsTrue
<1>9. ASSUME NEW i \in 0 .. height' - 1
      PROVE  FrameIsTrue(frame[i])'
  <2>1. i \in 0 .. height - 1 /\ height' = height
    OBVIOUS
  <2>2. CASE i = height - 1
    <3>1. frame'[i] = f
      BY <1>6, <2>1, <2>2 DEF Top
    <3>2. moves' = moves /\ replies' = replies /\ dist' = dist
      BY DEF game
    <3> QED
      BY <1>8, <3>1, <3>2 DEF FrameIsTrue, Tried, Choices
  <2>3. CASE i # height - 1
    BY <1>6, <2>1, <2>3, FrameKept DEF SearchIsTrue
  <2> QED
    BY <2>2, <2>3
<1>10. TableFacts' /\ pc' = "enter"
  BY TableKept DEF SearchIsTrue, Enter
<1> QED
  BY <1>1, <1>9, <1>10 DEF SearchIsTrue

\* Entering a loop: nothing has been tried.
LEMMA PushesTrue ==
    ASSUME TypeOK, Shape, SearchIsTrue, pc = "enter", NEW open \in BOOLEAN,
           Push(Choices(arg.node), open),
           arg.node \in Defenders => replies[arg.node] # {},
           UNCHANGED <<table, evictions, arg, ret, game, route, flags>>
    PROVE  TypeOK' /\ Shape' /\ SearchIsTrue'
<1>1. /\ TypeOK' /\ Shape'
      /\ \A i \in 0 .. height - 1 : frame'[i] = frame[i]
      /\ frame'[height] = [node |-> arg.node, depth |-> arg.depth,
                           left |-> Choices(arg.node), child |-> NoChild,
                           best |-> 0, hopeless |-> open]
  BY Pushes
<1>2. /\ frame'[height].node = arg.node /\ frame'[height].depth = arg.depth
      /\ frame'[height].left = Choices(arg.node) /\ frame'[height].best = 0
  BY <1>1
<1>3. height' = height + 1 /\ pc' = "loop" /\ height \in Nat /\ arg.depth \in Nat
  BY DEF Push, TypeOK, Depths
<1>4. moves' = moves /\ replies' = replies /\ dist' = dist
  BY DEF game
<1>6. ASSUME NEW i \in 0 .. height' - 1
      PROVE  FrameIsTrue(frame[i])'
  <2>1. CASE i = height
    <3>1. /\ frame'[i].node = arg.node /\ frame'[i].depth = arg.depth
          /\ frame'[i].left = Choices(arg.node) /\ frame'[i].best = 0
      BY <1>2, <2>1
    <3>2. Tried(frame[i])' = {}
      BY <1>4, <3>1 DEF Tried, Choices
    <3> QED
      BY <1>3, <1>4, <3>1, <3>2 DEF FrameIsTrue
  <2>2. CASE i # height
    <3>1. i \in 0 .. height - 1 /\ frame'[i] = frame[i]
      BY <1>1, <1>3, <2>2
    <3> QED
      BY <3>1, FrameKept DEF SearchIsTrue
  <2> QED
    BY <2>1, <2>2
<1>7. TableFacts'
  BY TableKept DEF SearchIsTrue
<1> QED
  BY <1>1, <1>3, <1>6, <1>7 DEF SearchIsTrue

\* Within a pass that goes on, what the route knows does not change.
LEMMA RouteKept ==
    ASSUME RouteIsTrue, Running, Running', ~aborted, pc = "enter" => ~cancelled,
           UNCHANGED <<game, route, flags>>
    PROVE  RouteIsTrue'
<1>1. /\ dist' = dist /\ iteration' = iteration /\ provenTo' = provenTo
      /\ answer' = answer /\ refuted' = refuted /\ aborted' = aborted
      /\ timedOut' = timedOut /\ cancelled' = cancelled
  BY DEF game, route, flags
<1>2. pc' \notin {"idle", "done"} /\ pc \notin {"idle", "done"}
  BY DEF Running
<1>3. iteration <= dist[Root] /\ answer = 0
  BY <1>2 DEF RouteIsTrue
<1> QED
  BY <1>1, <1>2, <1>3 DEF RouteIsTrue, ProvenBoundIsTrue, AnswerIsShortest,
                          RefutedIsForGood, Running

\* The call that returns to a loop is the one the loop made.
LEMMA Callee ==
    ASSUME TypeOK, Shape, pc = "return", height > 0
    PROVE  /\ Top.child = arg.node /\ arg.node \in Choices(Top.node)
           /\ arg.node \in Nodes /\ arg.depth \in Depths
           /\ Top.node \in Attackers =>
                /\ arg.node \in Defenders /\ arg.node \in moves[Top.node]
                /\ arg.depth = Top.depth - 1 /\ Top.depth > 1
           /\ Top.node \in Defenders =>
                /\ arg.node \in Attackers /\ arg.node \in replies[Top.node]
                /\ arg.depth = Top.depth
<1>1. /\ Top.node \in Nodes /\ Top.depth \in Depths
      /\ Plies(Top.node, Top.depth) = 2 * iteration - height
      /\ Top.child # NoChild => Top.child \in Choices(Top.node)
  BY TopFacts
<1>2. /\ arg.node \in Nodes /\ arg.depth \in Depths
      /\ Top.child = arg.node /\ arg.node # NoChild
      /\ Plies(arg.node, arg.depth) = 2 * iteration - 1 - height
      /\ iteration \in Int /\ height \in Int
  BY Constants DEF TypeOK, Shape
<1>3. arg.node \in Choices(Top.node)
  BY <1>1, <1>2
<1>4. Plies(arg.node, arg.depth) = Plies(Top.node, Top.depth) - 1
  BY <1>1, <1>2
<1>5. CASE Top.node \in Attackers
  <2>1. arg.node \in Defenders /\ arg.node \in moves[Top.node]
    BY <1>1, <1>3, <1>5, ChoiceFacts
  <2>2. 2 * arg.depth = 2 * Top.depth - 1 - 1
    BY <1>2, <1>4, <1>5, <2>1, Constants DEF Plies
  <2> QED
    BY <1>1, <1>2, <1>3, <1>5, <2>1, <2>2, Constants DEF Depths
<1>6. CASE Top.node \in Defenders
  <2>1. arg.node \in Attackers /\ arg.node \in replies[Top.node]
    BY <1>1, <1>3, <1>6, ChoiceFacts
  <2>2. 2 * arg.depth - 1 = 2 * Top.depth - 1
    BY <1>1, <1>2, <1>4, <1>6, <2>1, Constants DEF Plies
  <2>3. arg.depth = Top.depth /\ Top.node \notin Attackers
    BY <1>1, <1>2, <1>6, <2>2, Constants, SMTT(30) DEF Depths
  <2> QED
    BY <1>2, <1>3, <2>1, <2>3
<1> QED
  BY <1>1, <1>5, <1>6 DEF Nodes

-----------------------------------------------------------------------------
(* The actions. *)

\* Entering a node keeps the invariant.
LEMMA EnterStep ==
    ASSUME IInv, SameAxiom,
           Refute \/ TableAnswers \/ CoverageExit \/ EnterAttacker \/ NoReply
             \/ EnterDefender
    PROVE  TypeOK' /\ Shape' /\ SearchIsTrue' /\ RouteIsTrue'
<1> DEFINE k == arg.node
           d == arg.depth
<1>1. /\ TypeOK /\ Shape /\ Truth /\ AxiomHolds /\ SearchIsTrue /\ RouteIsTrue
      /\ pc = "enter" /\ Running /\ ~aborted /\ ~cancelled
  BY DEF IInv, Refute, TableAnswers, CoverageExit, EnterAttacker, NoReply,
         EnterDefender, Entering, Running
<1>2. /\ k \in Nodes /\ d \in Depths /\ dist[k] \in 1 .. Never
      /\ table \in [Nodes -> Entry] /\ table[k] \in Entry
      /\ aborted \in BOOLEAN /\ timedOut \in BOOLEAN
  BY <1>1 DEF TypeOK
<1>3. TableFacts
  BY <1>1 DEF SearchIsTrue
<1>4. ASSUME UNCHANGED <<game, route, flags>>, pc' \in {"return", "loop"}
      PROVE  RouteIsTrue'
  BY <1>1, <1>4, RouteKept DEF Running
\* a node that returns at once without touching the table
<1>5. ASSUME NEW v \in Result, VerdictFor(k, d, v), Return(k, d, v),
             UNCHANGED <<game, table, evictions, stack, route, flags>>
      PROVE  TypeOK' /\ Shape' /\ SearchIsTrue' /\ RouteIsTrue'
  <2>1. /\ table' = table /\ aborted' = aborted /\ timedOut' = timedOut
        /\ cancelled' = cancelled /\ dist' = dist /\ pc' = "return"
    BY <1>5 DEF flags, game, Return
  <2>2. VerdictFor(arg.node, arg.depth, v)'
    <3>1. arg'.node = k /\ arg'.depth = d
      BY <1>5 DEF Return
    <3> QED
      BY <1>5, <2>1, <3>1 DEF VerdictFor, Plies
  <2>3. TableFacts' /\ RouteIsTrue'
    BY <1>3, <1>4, <1>5, <2>1, TableKept
  <2>4. /\ aborted' \in BOOLEAN /\ timedOut' \in BOOLEAN
        /\ table' \in [Nodes -> Entry]
    BY <1>2, <2>1
  <2> QED
    BY <1>1, <1>5, <2>1, <2>2, <2>3, <2>4, LeafTrue
<1>6. CASE Refute
  <2>1. /\ AnyDepth /\ k \in Attackers /\ d < standsDown[k]
        /\ Return(k, d, Fails(TRUE))
        /\ UNCHANGED <<game, table, evictions, stack, route, flags>>
    BY <1>6 DEF Refute, AxiomFires
  <2>2. standsDown[k] <= dist[k] /\ standsDown[k] \in {0, Never}
    BY <1>1, <2>1 DEF AxiomHolds, SameAxiom
  <2>3. dist[k] > d /\ dist[k] = Never
    BY <1>2, <2>1, <2>2, Constants DEF Depths
  <2>4. Fails(TRUE) \in Result /\ ~Fails(TRUE).ok
    BY FailsType
  <2>5. VerdictFor(k, d, Fails(TRUE))
    BY <2>3, <2>4 DEF VerdictFor
  <2> QED
    BY <1>5, <2>1, <2>4, <2>5
<1>7. CASE TableAnswers
  <2> DEFINE found == Answer(table[k], d)
             v == [ok |-> found.ok, refuted |-> found.refuted,
                   line |-> IF found.ok THEN found.line ELSE 0]
  <2>1. /\ found.settled /\ Return(k, d, v)
        /\ UNCHANGED <<game, table, evictions, stack, route, flags>>
    BY <1>7 DEF TableAnswers, Hit
  <2>2. SoundEntry(table[k], dist[k], dist[k]) /\ LineIsTrue(k)
    BY <1>2, <1>3 DEF TableFacts, TableIsTrue
  <2>3. /\ found.ok => dist[k] <= d
        /\ ~found.ok => d < dist[k]
        /\ found.refuted => ~found.ok /\ dist[k] = Never
    BY <1>2, <2>1, <2>2, AnswerSound
  <2>4. /\ found.line = table[k].line
        /\ found.ok => d >= table[k].proved
        /\ found.ok = (~table[k].refuted /\ d >= table[k].proved)
        /\ found.refuted = table[k].refuted
    BY Zenon DEF Answer
  <2>5. v \in Result
    <3>1. table[k].line \in Nat /\ 0 \in Nat /\ table[k].refuted \in BOOLEAN
      BY <1>2, Zenon DEF Entry
    <3>2. found.ok \in BOOLEAN /\ found.refuted \in BOOLEAN
      BY <2>4, <3>1, Zenon
    <3> HIDE DEF found
    <3>3. (IF found.ok THEN found.line ELSE 0) \in Nat
      BY <2>4, <3>1
    <3> QED
      BY <3>2, <3>3, Zenon DEF Result
  <2>6. found.ok => /\ Plies(k, dist[k]) <= found.line /\ found.line <= Plies(k, d)
    <3>1. table[k].proved \in Nat /\ table[k].line \in Nat
      BY <1>2, Constants DEF Entry, Depths, NoProof
    <3> HIDE DEF found
    <3> QED
      BY <1>2, <2>2, <2>4, <3>1, Constants DEF LineIsTrue, Plies, Depths, NoProof
  <2>7. VerdictFor(k, d, v)
    <3>1. v.ok = found.ok /\ v.refuted = found.refuted /\ (found.ok => v.line = found.line)
      BY Zenon
    <3> HIDE DEF v, found, k, d
    <3> QED
      BY <2>3, <2>6, <3>1 DEF VerdictFor
  <2> HIDE DEF v
  <2> QED
    BY <1>5, <2>1, <2>5, <2>7
<1>8. CASE CoverageExit
  <2>1. /\ k \in Attackers /\ k \notin mates /\ d = 1
        /\ Return(k, d, Failure)
        /\ UNCHANGED <<game, table, evictions, stack, route, flags>>
    BY <1>8 DEF CoverageExit, Entering
  <2>2. dist[k] > d
    BY <1>1, <1>2, <2>1, MovesFail
  <2>3. Failure \in Result /\ ~Failure.ok /\ ~Failure.refuted
    BY FailsType DEF Failure
  <2>4. VerdictFor(k, d, Failure)
    BY <2>2, <2>3 DEF VerdictFor
  <2> QED
    BY <1>5, <2>1, <2>3, <2>4
<1>9. CASE EnterAttacker
  <2> DEFINE open == AnyDepth /\ (moves[k] # {} \/ k \in mates)
  <2>1. /\ k \in Attackers /\ Push(moves[k], open)
        /\ UNCHANGED <<game, table, evictions, arg, ret, route, flags>>
    BY <1>9 DEF EnterAttacker, Entering
  <2>2. moves[k] = Choices(k) /\ k \notin Defenders /\ pc' = "loop"
    BY <1>2, <2>1, Constants DEF Choices, Push
  <2>3. open \in BOOLEAN
    BY FlagsAssumption, Zenon
  <2> HIDE DEF open
  <2> QED
    BY <1>1, <1>4, <2>1, <2>2, <2>3, PushesTrue
<1>10. CASE EnterDefender
  <2>1. /\ k \in Defenders /\ replies[k] # {} /\ Push(replies[k], FALSE)
        /\ UNCHANGED <<game, table, evictions, arg, ret, route, flags>>
    BY <1>10 DEF EnterDefender, Entering
  <2>2. replies[k] = Choices(k) /\ pc' = "loop"
    BY <1>2, <2>1, Constants DEF Choices, Push
  <2> QED
    BY <1>1, <1>4, <2>1, <2>2, PushesTrue
<1>11. CASE NoReply
  <2>1. /\ k \in Defenders /\ replies[k] = {} /\ Store(k, d, Failure)
        /\ Return(k, d, Failure)
        /\ UNCHANGED <<game, evictions, stack, route, flags>>
    BY <1>11 DEF NoReply, Entering
  <2>2. dist[k] = Never /\ dist[k] > d
    <3>1. dist[k] = Never
      BY <1>1, <2>1, NoReplies
    <3> QED
      BY <1>2, <3>1, Constants DEF Depths
  <2>3. Failure \in Result /\ ~Failure.ok /\ ~Failure.refuted
    BY FailsType DEF Failure
  <2>4. VerdictFor(k, d, Failure)
    BY <2>2, <2>3 DEF VerdictFor
  <2>5. /\ aborted' = aborted /\ timedOut' = timedOut
        /\ cancelled' = cancelled /\ dist' = dist /\ pc' = "return"
    BY <2>1 DEF flags, game, Return
  <2>6. table' \in [Nodes -> Entry] /\ TableFacts'
    BY <1>1, <1>2, <1>3, <2>1, <2>3, <2>4, <2>5, StoreFacts, StoreTrue
  <2>7. VerdictFor(arg.node, arg.depth, Failure)'
    <3>1. arg'.node = k /\ arg'.depth = d
      BY <2>1 DEF Return
    <3> QED
      BY <2>2, <2>3, <2>5, <3>1 DEF VerdictFor, Failure, Fails
  <2>8. aborted' \in BOOLEAN /\ timedOut' \in BOOLEAN
    BY <1>2, <2>5
  <2>9. TypeOK' /\ Shape' /\ SearchIsTrue'
    BY <1>1, <2>1, <2>3, <2>5, <2>6, <2>7, <2>8, LeafTrue
  <2> QED
    BY <1>4, <2>1, <2>5, <2>9
<1> QED
  BY <1>6, <1>7, <1>8, <1>9, <1>10, <1>11

\* A step of the loop on top keeps the invariant.
LEMMA LoopStep ==
    ASSUME IInv, ImmediateWin \/ LastMoveFails \/ TryMove \/ NoMoveWins
                   \/ TryReply \/ EveryReplyLoses
    PROVE  TypeOK' /\ Shape' /\ SearchIsTrue' /\ RouteIsTrue'
<1> DEFINE k == Top.node
           d == Top.depth
<1>1. /\ TypeOK /\ Shape /\ Truth /\ SearchIsTrue /\ RouteIsTrue
      /\ pc = "loop" /\ Running /\ ~aborted /\ height > 0 /\ Top.child = NoChild
  BY DEF IInv, ImmediateWin, LastMoveFails, TryMove, NoMoveWins, TryReply,
         EveryReplyLoses, InLoop, Running, RouteIsTrue, Shape
<1>2. /\ k \in Nodes /\ d \in Depths /\ Top \in Frame /\ dist[k] \in 1 .. Never
      /\ Top.left \subseteq Choices(k) /\ Top.best \in Nat /\ Top.hopeless \in BOOLEAN
      /\ height - 1 \in 0 .. height - 1
  BY <1>1, TopFacts DEF TypeOK
<1>3. FrameIsTrue(Top)
  BY <1>1, <1>2 DEF SearchIsTrue, Top
<1>4. ASSUME UNCHANGED <<game, route, flags>>, pc' \in {"enter", "return", "loop"}
      PROVE  RouteIsTrue'
  BY <1>1, <1>4, RouteKept DEF Running
<1>5. \A x \in Choices(k) : x # NoChild
  BY <1>1, <1>2, ChoiceFacts
<1>6. ASSUME NEW v \in Result, VerdictFor(k, d, v), Conclude(v),
             UNCHANGED <<game, evictions, route, flags>>
      PROVE  TypeOK' /\ Shape' /\ SearchIsTrue' /\ RouteIsTrue'
  <2>1. pc' = "return"
    BY <1>6 DEF Conclude, Return
  <2> QED
    BY <1>1, <1>4, <1>6, <2>1, ConcludeTrue
<1>7. CASE ImmediateWin
  <2> DEFINE v == [ok |-> TRUE, refuted |-> FALSE, line |-> 1]
  <2>1. k \in mates /\ k \in Attackers /\ Conclude(v)
        /\ UNCHANGED <<game, evictions, route, flags>>
    BY <1>7 DEF ImmediateWin, InLoop
  <2>2. v \in Result /\ v.ok /\ ~v.refuted /\ v.line = 1
    BY DEF Result
  <2>3. dist[k] = 1
    BY <1>1, <2>1, MateInOne
  <2> HIDE DEF v
  <2>4. VerdictFor(k, d, v)
    BY <1>2, <2>1, <2>2, <2>3, Constants DEF VerdictFor, Plies, Depths
  <2> QED
    BY <1>6, <2>1, <2>2, <2>4
<1>8. CASE LastMoveFails
  <2>1. /\ k \in Attackers /\ d = 1 /\ k \notin Defenders
        /\ UNCHANGED <<game, table, evictions, call, height, route, flags>>
    BY <1>2, <1>8, Constants DEF LastMoveFails, InLoop
  <2>2. PICK m \in Top.left : SetTop([Top EXCEPT !.left = @ \ {m}, !.hopeless = FALSE])
    BY <1>8 DEF LastMoveFails
  <2> DEFINE f == [Top EXCEPT !.left = @ \ {m}, !.hopeless = FALSE]
  <2>3. /\ f \in Frame /\ f.node = k /\ f.depth = d /\ f.left \subseteq Top.left
        /\ f.child = NoChild /\ ~f.hopeless
    BY <1>1, <1>2 DEF Frame
  <2> HIDE DEF f
  <2>4. FrameIsTrue(f)
    BY <2>1, <2>3 DEF FrameIsTrue
  <2>5. SetTop(f) /\ pc' = "loop" /\ arg' = arg /\ ret' = ret
    BY <1>1, <2>1, <2>2 DEF f, call
  <2> QED
    BY <1>1, <1>4, <2>1, <2>3, <2>4, <2>5, GoesOnTrue
<1>9. CASE TryMove
  <2>1. /\ k \in Attackers /\ d > 1
        /\ UNCHANGED <<table, evictions, ret, height, game, route, flags>>
    BY <1>9 DEF TryMove, InLoop
  <2>2. PICK m \in Top.left :
          SetTop([Top EXCEPT !.left = @ \ {m}, !.child = m]) /\ Enter(m, d - 1)
    BY <1>9 DEF TryMove
  <2>3. d - 1 \in Depths /\ m \in Defenders /\ m \notin Attackers
    BY <1>1, <1>2, <2>1, ChoiceFacts, Constants DEF Depths, Nodes
  <2>4. Plies(m, d - 1) = Plies(k, d) - 1
    BY <1>2, <2>1, <2>3 DEF Plies, Depths
  <2>5. pc' = "enter"
    BY <2>2 DEF Enter
  <2> QED
    BY <1>1, <1>4, <2>1, <2>2, <2>3, <2>4, <2>5, CallsTrue
<1>10. CASE TryReply
  <2>1. /\ k \in Defenders /\ k \notin Attackers
        /\ UNCHANGED <<table, evictions, ret, height, game, route, flags>>
    BY <1>2, <1>10, Constants DEF TryReply, InLoop
  <2>2. PICK r \in Top.left :
          SetTop([Top EXCEPT !.left = @ \ {r}, !.child = r]) /\ Enter(r, d)
    BY <1>10 DEF TryReply
  <2>3. r \in Attackers
    BY <1>1, <1>2, <2>1, ChoiceFacts
  <2>4. Plies(r, d) = Plies(k, d) - 1
    BY <1>2, <2>1, <2>3 DEF Plies, Depths
  <2>5. pc' = "enter"
    BY <2>2 DEF Enter
  <2> QED
    BY <1>1, <1>2, <1>4, <2>1, <2>2, <2>4, <2>5, CallsTrue
<1>11. CASE NoMoveWins
  <2>1. /\ k \in Attackers /\ k \notin mates /\ Top.left = {}
        /\ Conclude(Fails(Top.hopeless))
        /\ UNCHANGED <<game, evictions, route, flags>>
    BY <1>11 DEF NoMoveWins, InLoop
  <2>2. Choices(k) = moves[k] /\ Tried(Top) = moves[k]
    BY <1>1, <1>5, <2>1 DEF Tried, Choices
  <2>3. \A m \in moves[k] : /\ d > 1 => dist[m] >= d
                            /\ Top.hopeless => dist[m] = Never
    BY <1>3, <2>1, <2>2 DEF FrameIsTrue
  <2>4. dist[k] > d /\ (Top.hopeless => dist[k] = Never)
    BY <1>1, <1>2, <2>1, <2>3, MovesFail
  <2>5. /\ Fails(Top.hopeless) \in Result /\ ~Fails(Top.hopeless).ok
        /\ Fails(Top.hopeless).refuted = Top.hopeless
    BY <1>2, FailsType
  <2>6. VerdictFor(k, d, Fails(Top.hopeless))
    BY <2>4, <2>5, Zenon DEF VerdictFor
  <2> QED
    BY <1>6, <2>1, <2>5, <2>6
<1>12. CASE EveryReplyLoses
  <2> DEFINE v == [ok |-> TRUE, refuted |-> FALSE, line |-> Top.best]
  <2>1. /\ k \in Defenders /\ k \notin Attackers /\ Top.left = {} /\ Conclude(v)
        /\ UNCHANGED <<game, evictions, route, flags>>
    BY <1>2, <1>12, Constants DEF EveryReplyLoses, InLoop
  <2>2. v \in Result /\ v.ok /\ ~v.refuted /\ v.line = Top.best
    BY <1>2 DEF Result
  <2> HIDE DEF v
  <2>3. Choices(k) = replies[k] /\ Tried(Top) = replies[k]
    BY <1>1, <1>5, <2>1 DEF Tried, Choices
  <2>4. /\ replies[k] # {} /\ Top.best <= 2 * d
        /\ \A r \in replies[k] : dist[r] <= d /\ 2 * dist[r] <= Top.best
    BY <1>3, <2>1, <2>3 DEF FrameIsTrue
  <2>5. dist[k] <= d /\ 2 * dist[k] <= Top.best
    BY <1>1, <1>2, <2>1, <2>4, RepliesLose
  <2>6. VerdictFor(k, d, v)
    BY <2>1, <2>2, <2>4, <2>5 DEF VerdictFor, Plies
  <2> QED
    BY <1>6, <2>1, <2>2, <2>6
<1> QED
  BY <1>7, <1>8, <1>9, <1>10, <1>11, <1>12

\* A return to a loop keeps the invariant.
LEMMA ReturnStep ==
    ASSUME IInv, MoveProves \/ MoveFails \/ ReplyRefutes \/ ReplyLoses
    PROVE  TypeOK' /\ Shape' /\ SearchIsTrue' /\ RouteIsTrue'
<1> DEFINE k == Top.node
           d == Top.depth
           c == arg.node
<1>1. /\ TypeOK /\ Shape /\ Truth /\ SearchIsTrue /\ RouteIsTrue
      /\ pc = "return" /\ Running /\ ~aborted /\ height > 0
      /\ VerdictFor(c, arg.depth, ret)
  BY DEF IInv, MoveProves, MoveFails, ReplyRefutes, ReplyLoses, Returning, Running,
         SearchIsTrue
<1>2. /\ k \in Nodes /\ d \in Depths /\ Top \in Frame /\ dist[k] \in 1 .. Never
      /\ Top.best \in Nat /\ Top.hopeless \in BOOLEAN
      /\ height - 1 \in 0 .. height - 1
  BY <1>1, TopFacts DEF TypeOK
<1>3. /\ Top.child = c /\ c \in Choices(k) /\ c \in Nodes /\ arg.depth \in Depths
      /\ k \in Attackers => c \in Defenders /\ c \in moves[k] /\ arg.depth = d - 1 /\ d > 1
      /\ k \in Defenders => c \in Attackers /\ c \in replies[k] /\ arg.depth = d
  BY <1>1, Callee
<1>4. FrameIsTrue(Top)
  BY <1>1, <1>2 DEF SearchIsTrue, Top
<1>5. /\ dist[c] \in 1 .. Never /\ ret.line \in Nat
      /\ ret.ok \in BOOLEAN /\ ret.refuted \in BOOLEAN
  <2>1. ret \in Result
    BY <1>1 DEF TypeOK, Result
  <2>2. ret.line \in Nat /\ ret.ok \in BOOLEAN /\ ret.refuted \in BOOLEAN
    BY <2>1, Zenon DEF Result
  <2> QED
    BY <1>1, <1>3, <2>2 DEF TypeOK
<1>6. ASSUME UNCHANGED <<game, route, flags>>, pc' \in {"return", "loop"}
      PROVE  RouteIsTrue'
  BY <1>1, <1>6, RouteKept DEF Running
<1>7. ASSUME NEW v \in Result, VerdictFor(k, d, v), Conclude(v),
             UNCHANGED <<game, evictions, route, flags>>
      PROVE  TypeOK' /\ Shape' /\ SearchIsTrue' /\ RouteIsTrue'
  <2>1. pc' = "return"
    BY <1>7 DEF Conclude, Return
  <2> QED
    BY <1>1, <1>6, <1>7, <2>1, ConcludeTrue
\* the choice that has come back is one of those tried
<1>8. ASSUME NEW f \in Frame, f.node = k, f.depth = d, f.left = Top.left,
             f.child = NoChild
      PROVE  Tried(f) \subseteq Tried(Top) \cup {c}
  BY <1>3, <1>8, Zenon DEF Tried
<1>9. CASE MoveProves
  <2> DEFINE v == [ok |-> TRUE, refuted |-> FALSE, line |-> ret.line + 1]
  <2>1. k \in Attackers /\ ret.ok /\ Conclude(v)
        /\ UNCHANGED <<game, evictions, route, flags>>
    BY <1>9 DEF MoveProves, Returning
  <2>2. v \in Result /\ v.ok /\ ~v.refuted /\ v.line = ret.line + 1
    BY <1>5 DEF Result
  <2> HIDE DEF v
  <2>3. dist[c] <= d - 1 /\ 2 * dist[c] <= ret.line /\ ret.line <= 2 * (d - 1)
    BY <1>1, <1>3, <2>1, Constants DEF VerdictFor, Plies
  <2>4. dist[k] <= d /\ dist[k] <= dist[c] + 1
    BY <1>1, <1>2, <1>3, <2>1, <2>3, MoveMates
  <2>5. VerdictFor(k, d, v)
    BY <1>2, <1>5, <2>1, <2>2, <2>3, <2>4 DEF VerdictFor, Plies, Depths
  <2> QED
    BY <1>7, <2>1, <2>2, <2>5
<1>10. CASE MoveFails
  <2> DEFINE g == [Top EXCEPT !.hopeless = @ /\ ret.refuted]
             f == [g EXCEPT !.child = NoChild]
  <2>1. /\ k \in Attackers /\ k \notin Defenders /\ ~ret.ok
        /\ SetTop(f) /\ pc' = "loop"
        /\ UNCHANGED <<table, evictions, arg, ret, height, game, route, flags>>
    BY <1>2, <1>10, Constants DEF MoveFails, Returning, Resume
  <2>2. (Top.hopeless /\ ret.refuted) \in BOOLEAN
    BY Zenon
  <2>3. /\ f \in Frame /\ f.node = k /\ f.depth = d /\ f.left = Top.left
        /\ f.child = NoChild
        /\ f.hopeless = (Top.hopeless /\ ret.refuted)
    BY <1>2, <2>2 DEF Frame
  <2> HIDE DEF f, g
  <2>4. dist[c] >= d /\ (ret.refuted => dist[c] = Never)
    BY <1>1, <1>2, <1>3, <1>5, <2>1 DEF VerdictFor, Depths
  <2>5. FrameIsTrue(f)
    BY <1>4, <1>8, <2>1, <2>3, <2>4 DEF FrameIsTrue
  <2> QED
    BY <1>1, <1>6, <2>1, <2>3, <2>5, GoesOnTrue
<1>11. CASE ReplyRefutes
  <2>1. k \in Defenders /\ ~ret.ok /\ Conclude(Fails(ret.refuted))
        /\ UNCHANGED <<game, evictions, route, flags>>
    BY <1>11 DEF ReplyRefutes, Returning
  <2>2. /\ Fails(ret.refuted) \in Result /\ ~Fails(ret.refuted).ok
        /\ Fails(ret.refuted).refuted = ret.refuted
    BY <1>5, FailsType
  <2>3. dist[c] > d /\ (ret.refuted => dist[c] = Never)
    BY <1>1, <1>3, <2>1 DEF VerdictFor
  <2>4. dist[k] > d /\ (ret.refuted => dist[k] = Never)
    BY <1>1, <1>2, <1>3, <2>1, <2>3, ReplyEscapes
  <2>5. VerdictFor(k, d, Fails(ret.refuted))
    BY <2>2, <2>4, Zenon DEF VerdictFor
  <2> QED
    BY <1>7, <2>1, <2>2, <2>5
<1>12. CASE ReplyLoses
  <2> DEFINE longer == IF ret.line + 1 > Top.best THEN ret.line + 1 ELSE Top.best
             g == [Top EXCEPT !.best = longer]
             f == [g EXCEPT !.child = NoChild]
  <2>1. /\ k \in Defenders /\ k \notin Attackers /\ ret.ok
        /\ SetTop(f) /\ pc' = "loop"
        /\ UNCHANGED <<table, evictions, arg, ret, height, game, route, flags>>
    BY <1>2, <1>12, Constants DEF ReplyLoses, Returning, Resume
  <2>2. longer \in Nat /\ longer >= Top.best /\ longer >= ret.line + 1
        /\ (longer = Top.best \/ longer = ret.line + 1)
    BY <1>2, <1>5
  <2> HIDE DEF longer
  <2>3. /\ f \in Frame /\ f.node = k /\ f.depth = d /\ f.left = Top.left
        /\ f.child = NoChild /\ f.best = longer
    BY <1>2, <2>2 DEF Frame
  <2> HIDE DEF f, g
  <2>4. dist[c] <= d /\ 2 * dist[c] - 1 <= ret.line /\ ret.line <= 2 * d - 1
    BY <1>1, <1>3, <2>1 DEF VerdictFor, Plies
  <2>5. FrameIsTrue(f)
    <3>1. /\ replies[k] # {} /\ Top.best <= 2 * d
          /\ \A r \in Tried(Top) : dist[r] <= d /\ 2 * dist[r] <= Top.best
      BY <1>4, <2>1 DEF FrameIsTrue
    <3>2. longer <= 2 * d /\ dist[c] <= d /\ 2 * dist[c] <= longer
      BY <1>2, <1>5, <2>2, <2>4, <3>1 DEF Depths
    <3>3. \A r \in Tried(Top) : dist[r] \in 1 .. Never
      BY <1>1, <1>2, ChoiceFacts DEF Tried, TypeOK
    <3>4. \A r \in Tried(Top) : dist[r] <= d /\ 2 * dist[r] <= longer
      BY <1>2, <2>2, <3>1, <3>3
    <3>5. \A r \in Tried(f) : dist[r] <= d /\ 2 * dist[r] <= longer
      BY <1>8, <2>3, <3>2, <3>4
    <3> QED
      BY <2>1, <2>3, <3>1, <3>2, <3>5 DEF FrameIsTrue
  <2> QED
    BY <1>1, <1>6, <2>1, <2>3, <2>5, GoesOnTrue
<1> QED
  BY <1>9, <1>10, <1>11, <1>12

\* Giving up keeps the invariant: an abandoned node claims nothing.
LEMMA GiveUpStep ==
    ASSUME IInv, Cancel \/ Unwind
    PROVE  TypeOK' /\ Shape' /\ SearchIsTrue' /\ RouteIsTrue'
<1>1. TypeOK /\ Shape /\ SearchIsTrue /\ RouteIsTrue /\ TableFacts
  BY DEF IInv, SearchIsTrue
<1>2. Failure \in Result /\ ~Failure.ok /\ ~Failure.refuted
  BY FailsType DEF Failure
<1>3. CASE Cancel
  <2>1. /\ pc = "enter" /\ Running /\ aborted' = TRUE /\ ret' = Failure
        /\ Return(arg.node, arg.depth, Failure)
        /\ timedOut' \in BOOLEAN /\ timedOut' \in {timedOut, TRUE}
        /\ timedOut' = timedOut => aborted \/ cancelled \/ timedOut
        /\ UNCHANGED <<game, table, evictions, stack, route, cancelled>>
    BY <1>1, <1>3 DEF Cancel, Return, Running, TypeOK
  <2>2. TableFacts' /\ table' \in [Nodes -> Entry] /\ pc' = "return"
    BY <1>1, <2>1, TableKept DEF TypeOK, Return
  <2>3. VerdictFor(arg.node, arg.depth, Failure)'
    BY <1>2, <2>1 DEF VerdictFor, Failure, Fails
  <2>4. TypeOK' /\ Shape' /\ SearchIsTrue'
    <3>1. aborted' \in BOOLEAN
      BY <2>1
    <3> QED
      BY <1>1, <1>2, <2>1, <2>2, <2>3, <3>1, LeafTrue
  <2>5. RouteIsTrue'
    <3>1. /\ dist' = dist /\ iteration' = iteration /\ provenTo' = provenTo
          /\ answer' = answer /\ refuted' = refuted
      BY <2>1 DEF game, route
    <3> QED
      BY <1>1, <1>2, <2>1, <2>2, <3>1 DEF RouteIsTrue, ProvenBoundIsTrue,
         AnswerIsShortest, RefutedIsForGood, Running, TypeOK
  <2> QED
    BY <2>4, <2>5
<1>4. CASE Unwind
  <2>1. /\ pc = "return" /\ Running /\ height > 0 /\ aborted /\ height' = height - 1
        /\ Return(Top.node, Top.depth, Failure) /\ ret' = Failure /\ pc' = "return"
        /\ UNCHANGED <<game, table, evictions, frame, route, flags>>
    BY <1>4 DEF Unwind, Return, Running
  <2>2. TableFacts' /\ table' \in [Nodes -> Entry]
    BY <1>1, <2>1, TableKept DEF TypeOK
  <2>3. TypeOK' /\ Shape'
    BY <1>1, <1>2, <2>1, <2>2, Pop
  <2>4. ASSUME NEW i \in 0 .. height' - 1
        PROVE  FrameIsTrue(frame[i])'
    <3>1. i \in 0 .. height - 1 /\ frame'[i] = frame[i]
      BY <1>1, <2>1 DEF TypeOK
    <3> QED
      BY <1>1, <2>1, <3>1, FrameKept DEF SearchIsTrue
  <2>5. /\ dist' = dist /\ iteration' = iteration /\ provenTo' = provenTo
        /\ answer' = answer /\ refuted' = refuted /\ aborted' = aborted
        /\ timedOut' = timedOut /\ cancelled' = cancelled
    BY <2>1 DEF game, route, flags
  <2>6. SearchIsTrue'
    <3>1. VerdictFor(arg.node, arg.depth, ret)'
      BY <1>2, <2>1, <2>5 DEF VerdictFor
    <3> QED
      BY <2>2, <2>4, <3>1 DEF SearchIsTrue
  <2>7. RouteIsTrue'
    BY <1>1, <1>2, <2>1, <2>5 DEF RouteIsTrue, ProvenBoundIsTrue, AnswerIsShortest,
       RefutedIsForGood, Running
  <2> QED
    BY <2>3, <2>6, <2>7
<1> QED
  BY <1>3, <1>4

\* A table whose entries are the old ones or gone holds truths if the old one did.
LEMMA TableForgets ==
    ASSUME TypeOK, TableFacts, UNCHANGED game, table' \in [Nodes -> Entry],
           \A k \in Nodes : table'[k] = table[k] \/ table'[k] = Absent
    PROVE  TableFacts'
<1>1. dist' = dist
  BY DEF game
<1>2. ASSUME NEW k \in Nodes
      PROVE  SoundEntry(table'[k], dist'[k], dist'[k])
  <2>1. dist[k] \in 1 .. Never
    BY DEF TypeOK
  <2>2. CASE table'[k] = Absent
    BY <1>1, <2>1, <2>2, AbsentSound
  <2>3. CASE table'[k] = table[k]
    BY <1>1, <2>3 DEF TableFacts, TableIsTrue
  <2> QED
    BY <2>2, <2>3
<1>3. ASSUME NEW k \in Nodes
      PROVE  LineIsTrue(k)'
  <2>1. CASE table'[k] = Absent
    BY <2>1 DEF LineIsTrue, Absent
  <2>2. CASE table'[k] = table[k]
    BY <1>1, <2>2 DEF TableFacts, LineIsTrue, Plies
  <2> QED
    BY <2>1, <2>2
<1> QED
  BY <1>2, <1>3 DEF TableFacts, TableIsTrue

\* Starting a depth keeps the invariant.
LEMMA StartStep ==
    ASSUME IInv, StartDepth
    PROVE  TypeOK' /\ Shape' /\ SearchIsTrue' /\ RouteIsTrue'
<1>1. /\ TypeOK /\ Shape /\ SearchIsTrue /\ RouteIsTrue /\ TableFacts
      /\ pc = "idle" /\ height = 0 /\ iteration \in 0 .. MaxDepth /\ iteration < MaxDepth
      /\ dist[Root] \in 1 .. Never
  BY Constants DEF IInv, SearchIsTrue, StartDepth, Shape, TypeOK
<1>2. /\ pc' = "enter" /\ arg' = [node |-> Root, depth |-> iteration + 1]
      /\ iteration' = iteration + 1 /\ aborted' = FALSE
      /\ table' = table \/ table' = [k \in Nodes |-> Absent]
      /\ UNCHANGED <<game, evictions, ret, stack, provenTo, answer, refuted,
                     timedOut, cancelled>>
  BY DEF StartDepth, Enter
<1>3. iteration' \in Depths /\ iteration' \in 1 .. MaxDepth
  BY <1>1, <1>2, Constants DEF Depths
<1>4. /\ table' \in [Nodes -> Entry]
      /\ \A k \in Nodes : table'[k] = table[k] \/ table'[k] = Absent
  BY <1>1, <1>2, AbsentSound DEF TypeOK
<1>5. TypeOK'
  <2>1. arg' \in [node : Nodes, depth : Depths]
    BY <1>2, <1>3, Constants
  <2>2. aborted' \in BOOLEAN
    BY <1>2
  <2> QED
    BY <1>1, <1>2, <1>3, <1>4, <2>1, <2>2 DEF TypeOK, game, stack
<1>6. Shape'
  <2>1. height' = 0 /\ arg'.node = Root /\ arg'.depth = iteration'
    BY <1>1, <1>2 DEF stack
  <2>2. Plies(Root, iteration') = 2 * iteration' - 1 - 0
    BY <1>3, Constants DEF Plies
  <2> QED
    BY <1>2, <1>3, <2>1, <2>2 DEF Shape, Running, Plies
<1>7. SearchIsTrue'
  <2>1. TableFacts'
    BY <1>1, <1>2, <1>4, TableForgets
  <2> QED
    BY <1>1, <1>2, <2>1 DEF SearchIsTrue, stack
<1>8. RouteIsTrue'
  BY <1>1, <1>2 DEF RouteIsTrue, Running, ProvenBoundIsTrue, AnswerIsShortest,
     RefutedIsForGood, game, stack
<1> QED
  BY <1>5, <1>6, <1>7, <1>8

\* The verdict on the root is one on the depth being searched.
LEMMA RootVerdict ==
    ASSUME TypeOK, Shape, SearchIsTrue, pc = "return", height = 0
    PROVE  /\ VerdictFor(Root, iteration, ret) /\ iteration \in 1 .. MaxDepth
           /\ dist[Root] \in 1 .. Never
           /\ ret.line \in Nat /\ ret.refuted \in BOOLEAN
<1>1. arg.node = Root /\ arg.depth \in Depths /\ iteration \in 1 .. MaxDepth
      /\ Plies(Root, arg.depth) = 2 * iteration - 1
  BY Constants DEF TypeOK, Shape, Running
<1>2. arg.depth = iteration
  BY <1>1, Constants DEF Plies, Depths
<1>3. ret.line \in Nat /\ ret.refuted \in BOOLEAN
  BY Zenon DEF TypeOK
<1> QED
  BY <1>1, <1>2, <1>3, Constants DEF SearchIsTrue, TypeOK

\* Ending a depth keeps the invariant.
LEMMA EndStep ==
    ASSUME IInv, DepthFails \/ DepthProves
    PROVE  TypeOK' /\ Shape' /\ SearchIsTrue' /\ RouteIsTrue'
<1>1. /\ TypeOK /\ Shape /\ SearchIsTrue /\ RouteIsTrue /\ TableFacts
      /\ pc = "return" /\ height = 0 /\ Running
  BY DEF IInv, SearchIsTrue, DepthFails, DepthProves, Running
<1>2. /\ VerdictFor(Root, iteration, ret) /\ iteration \in 1 .. MaxDepth
      /\ dist[Root] \in 1 .. Never
      /\ ret.line \in Nat /\ ret.refuted \in BOOLEAN
  BY <1>1, RootVerdict
<1>3. /\ pc' \in {"idle", "done"} /\ provenTo' \in {provenTo, iteration}
      /\ UNCHANGED <<game, table, evictions, arg, ret, stack, iteration, flags>>
  BY DEF DepthFails, DepthProves
<1>4. /\ dist' = dist /\ height' = 0 /\ aborted' = aborted /\ timedOut' = timedOut
      /\ cancelled' = cancelled /\ iteration' = iteration
  BY <1>1, <1>3 DEF game, stack, flags
<1>5. Shape'
  BY <1>3, <1>4 DEF Shape, Running
<1>6. SearchIsTrue'
  <2>1. TableFacts'
    BY <1>1, <1>3, TableKept
  <2> QED
    BY <1>3, <1>4, <2>1 DEF SearchIsTrue
<1>7. ASSUME answer' \in Nat, refuted' \in BOOLEAN, provenTo' \in 0 .. MaxDepth
      PROVE  TypeOK'
  BY <1>1, <1>3, <1>7 DEF TypeOK, game, stack, flags
<1>8. CASE DepthFails
  <2>1. /\ ~ret.ok /\ answer' = answer /\ refuted' = ret.refuted
        /\ provenTo' = IF aborted \/ timedOut THEN provenTo ELSE iteration
        /\ pc' = IF timedOut \/ iteration = MaxDepth THEN "done" ELSE "idle"
    BY <1>8 DEF DepthFails
  <2>2. TypeOK'
    BY <1>1, <1>2, <1>7, <2>1 DEF TypeOK
  <2>3. /\ ~aborted => dist[Root] > iteration
        /\ ret.refuted => dist[Root] = Never
        /\ answer = 0 /\ provenTo < dist[Root]
    BY <1>1, <1>2, <2>1 DEF VerdictFor, RouteIsTrue, ProvenBoundIsTrue
  <2>4. ProvenBoundIsTrue' /\ RefutedIsForGood'
    BY <1>2, <1>4, <2>1, <2>3 DEF ProvenBoundIsTrue, RefutedIsForGood
  <2>5. AnswerIsShortest'
    BY <1>1, <1>2, <1>4, <2>1, <2>3, Constants DEF AnswerIsShortest, RouteIsTrue
  <2>6. RouteIsTrue'
    BY <1>1, <1>2, <1>4, <2>1, <2>3, <2>4, <2>5 DEF RouteIsTrue, Running
  <2> QED
    BY <1>5, <1>6, <2>2, <2>6
<1>9. CASE DepthProves
  <2>1. /\ ret.ok /\ answer' = (ret.line + 1) \div 2 /\ refuted' = FALSE
        /\ pc' = "done" /\ provenTo' = provenTo
    BY <1>9 DEF DepthProves
  <2>2. ~aborted /\ ~timedOut /\ iteration <= dist[Root]
    BY <1>1, <2>1 DEF RouteIsTrue
  <2>3. dist[Root] = iteration /\ ret.line = 2 * iteration - 1
    BY <1>2, <2>1, <2>2, Constants DEF VerdictFor, Plies
  <2>4. answer' = dist[Root]
    BY <1>2, <2>1, <2>3
  <2>5. TypeOK'
    <3>1. answer' \in Nat /\ provenTo' \in 0 .. MaxDepth
      BY <1>1, <1>2, <2>1, <2>4, Constants DEF TypeOK
    <3>2. refuted' \in BOOLEAN
      BY <2>1, Zenon
    <3> QED
      BY <1>7, <3>1, <3>2
  <2>6. RouteIsTrue'
    BY <1>1, <1>2, <1>4, <2>1, <2>2, <2>4 DEF RouteIsTrue, Running, ProvenBoundIsTrue,
       AnswerIsShortest, RefutedIsForGood
  <2> QED
    BY <1>5, <1>6, <2>5, <2>6
<1> QED
  BY <1>8, <1>9

\* What the search reads of the world may go, or be raised, at any moment.
LEMMA WorldStep ==
    ASSUME IInv, (\E k \in Nodes : Evict(k)) \/ CancelLane \/ UNCHANGED vars
    PROVE  TypeOK' /\ Shape' /\ SearchIsTrue' /\ RouteIsTrue'
<1>1. TypeOK /\ Shape /\ SearchIsTrue /\ RouteIsTrue /\ TableFacts
  BY DEF IInv, SearchIsTrue
<1>2. /\ UNCHANGED <<game, call, stack, route, aborted, timedOut>>
      /\ cancelled' \in BOOLEAN /\ (cancelled' = cancelled \/ (cancelled' = TRUE /\ pc # "done"))
      /\ evictions' \in Nat
      /\ table' \in [Nodes -> Entry]
      /\ \A k \in Nodes : table'[k] = table[k] \/ table'[k] = Absent
  <2>1. table \in [Nodes -> Entry] /\ evictions \in Nat /\ cancelled \in BOOLEAN
    BY <1>1 DEF TypeOK
  <2>2. CASE \E k \in Nodes : Evict(k)
    <3>1. PICK k \in Nodes : Evict(k)
      BY <2>2
    <3>2. /\ table' = [table EXCEPT ![k] = Absent] /\ evictions' = evictions + 1
          /\ UNCHANGED <<game, call, stack, route, flags>>
      BY <3>1 DEF Evict
    <3>3. UNCHANGED <<game, call, stack, route, aborted, timedOut>> /\ cancelled' = cancelled
      BY <3>2, Zenon DEF flags
    <3>4. /\ table' \in [Nodes -> Entry]
          /\ \A n \in Nodes : table'[n] = table[n] \/ table'[n] = Absent
      BY <2>1, <3>2, AbsentSound
    <3>5. evictions' \in Nat
      BY <2>1, <3>2
    <3> QED
      BY <2>1, <3>3, <3>4, <3>5, Zenon
  <2>3. CASE CancelLane
    BY <2>1, <2>3 DEF CancelLane
  <2>4. CASE UNCHANGED vars
    <3>1. UNCHANGED <<game, table, evictions, call, stack, route, flags>>
      BY <2>4 DEF vars
    <3>2. UNCHANGED <<game, call, stack, route, aborted, timedOut>> /\ cancelled' = cancelled
      BY <3>1, Zenon DEF flags
    <3>3. table' = table /\ evictions' = evictions
      BY <3>1
    <3> QED
      BY <2>1, <3>2, <3>3, Zenon
  <2> QED
    BY <2>2, <2>3, <2>4
<1>3. /\ pc' = pc /\ arg' = arg /\ ret' = ret /\ frame' = frame /\ height' = height
      /\ iteration' = iteration /\ provenTo' = provenTo /\ answer' = answer
      /\ refuted' = refuted /\ aborted' = aborted /\ timedOut' = timedOut
      /\ dist' = dist /\ moves' = moves /\ replies' = replies
  BY <1>2 DEF call, stack, route, game
<1>4. TypeOK'
  BY <1>1, <1>2, <1>3 DEF TypeOK, game
<1>5. Shape'
  BY <1>1, <1>3 DEF Shape, Running, FrameFits, Plies, Choices, Top
<1>6. SearchIsTrue'
  <2>1. TableFacts'
    BY <1>1, <1>2, TableForgets
  <2>2. ASSUME NEW i \in 0 .. height' - 1
        PROVE  FrameIsTrue(frame[i])'
    <3>1. frame'[i] = frame[i] /\ FrameIsTrue(frame[i])
      BY <1>1, <1>3 DEF SearchIsTrue
    <3> QED
      BY <1>2, <3>1, FrameKept
  <2>3. pc' = "return" => VerdictFor(arg.node, arg.depth, ret)'
    BY <1>1, <1>3 DEF SearchIsTrue, VerdictFor, Plies
  <2> QED
    BY <2>1, <2>2, <2>3 DEF SearchIsTrue
<1>7. RouteIsTrue'
  BY <1>1, <1>2, <1>3 DEF RouteIsTrue, Running, ProvenBoundIsTrue, AnswerIsShortest,
     RefutedIsForGood
<1> QED
  BY <1>4, <1>5, <1>6, <1>7

-----------------------------------------------------------------------------
(* The invariant, and what it says. *)

\* A search that has not begun claims nothing.
LEMMA InitInv ==
    ASSUME Init
    PROVE  IInv
<1>1. /\ moves \in [Attackers -> SUBSET Defenders]
      /\ replies \in [Defenders -> SUBSET Attackers]
      /\ mates \in SUBSET Attackers
      /\ dist \in [Nodes -> 1 .. Never]
      /\ standsDown \in [Attackers -> 0 .. Never]
      /\ Truth /\ AxiomHolds
  BY DEF Init
<1>2. /\ table = [k \in Nodes |-> Absent] /\ evictions = 0
      /\ pc = "idle" /\ arg = [node |-> Root, depth |-> 1] /\ ret = Failure
      /\ frame = [i \in 0 .. MaxPly |-> NoFrame] /\ height = 0
      /\ iteration = 0 /\ provenTo = 0 /\ answer = 0 /\ refuted = FALSE
      /\ aborted = FALSE /\ timedOut = FALSE /\ cancelled = FALSE
  BY DEF Init, Play
<1>3. TypeOK
  <2>1. table \in [Nodes -> Entry]
    BY <1>2, AbsentSound
  <2>2. arg \in [node : Nodes, depth : Depths]
    BY <1>2, Constants DEF Depths
  <2>3. ret \in [ok : BOOLEAN, refuted : BOOLEAN, line : Nat]
    BY <1>2, FailsType DEF Failure, Result
  <2>4. NoFrame \in Frame
    <3>1. 1 \in Depths /\ {} \in SUBSET Nodes /\ NoChild \in Nodes \cup {NoChild}
      BY Constants DEF Depths
    <3>2. 0 \in Nat /\ FALSE \in BOOLEAN /\ Root \in Nodes
      BY Constants
    <3> QED
      BY <3>1, <3>2, Zenon DEF NoFrame, Frame
  <2>5. frame \in [0 .. MaxPly -> Frame] /\ height \in 0 .. MaxPly
    BY <1>2, <2>4, Constants
  <2>6. refuted \in BOOLEAN /\ aborted \in BOOLEAN /\ timedOut \in BOOLEAN
        /\ cancelled \in BOOLEAN
    BY <1>2, Zenon
  <2>7. /\ evictions \in Nat /\ answer \in Nat /\ mates \subseteq Attackers
        /\ pc \in {"enter", "loop", "return", "idle", "done"}
        /\ iteration \in 0 .. MaxDepth /\ provenTo \in 0 .. MaxDepth
    BY <1>1, <1>2, Constants
  <2> QED
    BY <1>1, <2>1, <2>2, <2>3, <2>5, <2>6, <2>7, Zenon DEF TypeOK
<1>4. Shape
  BY <1>2 DEF Shape, Running
<1>5. dist[Root] \in 1 .. Never
  BY <1>1, Constants
<1>6. SearchIsTrue
  <2>1. ASSUME NEW k \in Nodes
        PROVE  SoundEntry(table[k], dist[k], dist[k]) /\ LineIsTrue(k)
    <3>1. table[k] = Absent /\ dist[k] \in 1 .. Never
      BY <1>1, <1>2
    <3>2. LineIsTrue(k)
      BY <3>1 DEF LineIsTrue, Absent
    <3> QED
      BY <3>1, <3>2, AbsentSound
  <2> QED
    BY <1>2, <2>1 DEF SearchIsTrue, TableFacts, TableIsTrue
<1>7. RouteIsTrue
  BY <1>2, <1>5 DEF RouteIsTrue, Running, ProvenBoundIsTrue, AnswerIsShortest,
     RefutedIsForGood
<1> QED
  BY <1>1, <1>3, <1>4, <1>6, <1>7 DEF IInv

\* Every step keeps it.
LEMMA NextInv ==
    ASSUME SameAxiom, IInv, [Next]_vars
    PROVE  IInv'
<1>1. UNCHANGED game
  BY DEF Next, Search, vars, Cancel, Refute, TableAnswers, CoverageExit, EnterAttacker,
     NoReply, EnterDefender, ImmediateWin, LastMoveFails, TryMove, NoMoveWins, TryReply,
     EveryReplyLoses, Unwind, MoveProves, MoveFails, ReplyRefutes, ReplyLoses,
     StartDepth, DepthFails, DepthProves, Evict, CancelLane, AtRest
<1>2. Truth' /\ AxiomHolds'
  BY <1>1, GameKept DEF IInv
<1>3. TypeOK' /\ Shape' /\ SearchIsTrue' /\ RouteIsTrue'
  BY EnterStep, LoopStep, ReturnStep, GiveUpStep, StartStep, EndStep, WorldStep, Zenon
     DEF Next, Search, AtRest
<1> QED
  BY <1>2, <1>3 DEF IInv

\* The invariant holds throughout.
THEOREM Invariance ==
    ASSUME SameAxiom
    PROVE  Spec => []IInv
<1>1. Init => IInv
  BY InitInv
<1>2. IInv /\ [Next]_vars => IInv'
  BY NextInv
<1> QED
  BY <1>1, <1>2, PTL DEF Spec

\* Every variable keeps its type; so the stack never outgrows its 2 * MaxDepth
\* frames, whatever the game repeats (prove_attacker, prove_defender).
THEOREM TypeCorrect ==
    ASSUME SameAxiom
    PROVE  Spec => []TypeOK
<1>1. IInv => TypeOK
  BY DEF IInv
<1> QED
  BY <1>1, Invariance, PTL

\* What store_exact_proof_table has written is true of the position it is
\* written under, in every pass, whichever entries went and wherever it stopped.
THEOREM TableHoldsTruths ==
    ASSUME SameAxiom
    PROVE  Spec => []TableIsTrue
<1>1. IInv => TableIsTrue
  BY DEF IInv, SearchIsTrue, TableFacts
<1> QED
  BY <1>1, Invariance, PTL

\* What prove_attacker and prove_defender return, when the search has not been
\* told to stop, is true: a proof, a failure to this depth, and `refuted' for good.
THEOREM VerdictsAreTrue ==
    ASSUME SameAxiom
    PROVE  Spec => []VerdictIsTrue
<1>1. IInv => VerdictIsTrue
  BY Zenon DEF IInv, SearchIsTrue, VerdictFor, VerdictIsTrue
<1> QED
  BY <1>1, Invariance, PTL

\* publish_proven_bound publishes only depths at which there is no mate.
THEOREM BoundsAreTheorems ==
    ASSUME SameAxiom
    PROVE  Spec => []ProvenBoundIsTrue
<1>1. IInv => ProvenBoundIsTrue
  BY DEF IInv, RouteIsTrue
<1> QED
  BY <1>1, Invariance, PTL

\* run_dfpn_route reports the length of a shortest mate, and reports none only
\* when there is none within its depths or it was interrupted.
THEOREM ShortestIsReported ==
    ASSUME SameAxiom
    PROVE  Spec => []AnswerIsShortest
<1>1. IInv => AnswerIsShortest
  BY DEF IInv, RouteIsTrue
<1> QED
  BY <1>1, Invariance, PTL

\* A result marked `refuted' has no mate at any depth.
THEOREM RefutedMeansNever ==
    ASSUME SameAxiom
    PROVE  Spec => []RefutedIsForGood
<1>1. IInv => RefutedIsForGood
  BY DEF IInv, RouteIsTrue
<1> QED
  BY <1>1, Invariance, PTL
=============================================================================

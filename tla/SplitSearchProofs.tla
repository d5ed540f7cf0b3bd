-------------------------- MODULE SplitSearchProofs ---------------------------
(***************************************************************************)
(* Sub-root splitting is sound for every tree, number of workers and        *)
(* interleaving: no child is run twice, no verdict is false, and a depth    *)
(* searched with helpers keeps the promise of DepthSearch.                  *)
(*                                                                          *)
(* The invariant comes in four layers, each proved from those before it:    *)
(*   Fits   the loops of a worker stack up as the code nests them;          *)
(*   Alone  a node is in one worker's hands, and a split is watched over by *)
(*          its owner as long as a child of it runs;                        *)
(*   True   what loops, splits and results say agrees with the tree;        *)
(*   Served without an interruption every root move taken is answered for.  *)
(***************************************************************************)
EXTENDS SplitSearch, FiniteSetTheorems, SequenceTheorems, TLAPS

Labels == {"claim", "publish", "recheck", "enter", "ret", "loop", "share", "own", "withdraw",
           "wait", "seek", "help", "announce", "done"}
States == {"unresolved", "abandoned", "proved", "failed", "refuted", "immediate"}
Loops  == [kind : {"root", "loop", "own", "run"}, node : Nodes, i : Nat,
           hopeless : BOOLEAN, saved : Nat]
Splits == [open : BOOLEAN, next : Nat \ {0}, active : Int, settledAt : Nat,
           settleRefuted : BOOLEAN, seq : Nat, first : Nat \ {0}, owner : 0 .. NumWorkers,
           state : Seq(States)]
Result == [ok : BOOLEAN, refuted : BOOLEAN]

TypeOK ==
    /\ value \in [Nodes -> Values]
    /\ nextIndex \in Nat /\ best \in 0 .. N /\ proved \subseteq Roots
    /\ cancel \in [Workers -> BOOLEAN] /\ nextSeq \in Nat
    /\ slot \in [Workers -> Nodes \cup {NoNode}] /\ split \in [Nodes -> Splits]
    /\ pc \in [Workers -> Labels] /\ stack \in [Workers -> Seq(Loops)]
    /\ at \in [Workers -> Nodes \cup {NoNode}] /\ ret \in [Workers -> Result]
    /\ aborted \in [Workers -> BOOLEAN] /\ timedOut \in [Workers -> BOOLEAN]
    /\ maxOwned \in [Workers -> Nat] /\ happened \subseteq Limits
    /\ \A n \in Nodes : Len(split[n].state) <= Len(Kids[n])

-----------------------------------------------------------------------------
(* First layer: how the loops of a worker stack up, counted from below. *)

Height(w)  == Len(stack[w])
Loop(w, d) == stack[w][Height(w) + 1 - d]

\* The node a loop has called for.
Callee(f) == IF f.kind = "root" THEN f.node
             ELSE IF f.kind = "run" THEN Kids[f.node][f.i] ELSE Kids[f.node][f.i - 1]

LoopFits(f) ==
    /\ f.kind = "root" => f.i \in Roots /\ f.node = RootNode[f.i] /\ f.i < nextIndex
    /\ f.kind = "run" => f.i \in DOMAIN Kids[f.node]
    /\ f.kind \in {"loop", "own"} => f.i \in 1 .. Len(Kids[f.node]) + 1
    /\ f.kind = "own" /\ f.node \notin OrNodes => f.i = 1

\* f waits for the call it has made.
Calls(f) == f.kind # "own" /\ (f.kind = "loop" => f.i > 1)

\* f was entered from g.
Above(f, g) ==
    IF g.kind = "own" THEN f.kind = "run"
    ELSE Calls(g) /\ f.kind \in {"loop", "own"} /\ f.node = Callee(g)

\* The label a worker is at, and the node it enters or returns, fit the loop on top.
TopFits(l, n, f) ==
    \/ l \in {"announce", "enter", "ret"} /\ Calls(f) /\ n = Callee(f)
       /\ (l = "announce" => f.kind = "run")
    \/ l \in {"loop", "share"} /\ f.kind = "loop" /\ (l = "share" => f.node \in OrNodes)
    \/ l \in {"own", "withdraw", "wait", "seek"} /\ f.kind = "own"

Here(w) ==
    IF Height(w) = 0
    THEN \/ pc[w] \in {"claim", "help", "done"}
         \/ /\ pc[w] \in {"publish", "recheck"}
            /\ \E i \in Roots : i < nextIndex /\ at[w] = RootNode[i]
    ELSE TopFits(pc[w], at[w], Loop(w, Height(w)))

Stacked(w) ==
    /\ \A d \in 1 .. Height(w) : LoopFits(Loop(w, d))
    /\ \A d \in 1 .. Height(w) - 1 : Above(Loop(w, d + 1), Loop(w, d))
    /\ Height(w) > 0 => Loop(w, 1).kind \in {"root", "run"}

Fits == TypeOK /\ \A w \in Workers : Stacked(w) /\ Here(w)

-----------------------------------------------------------------------------
(* Second layer: who has what in hand. *)

Searches(f) == f.kind \in {"loop", "own"}

\* w has n in hand, d loops up: in a loop, or on its way in.
Holds(w, d, n) ==
    \/ d \in 1 .. Height(w) /\ Searches(Loop(w, d)) /\ Loop(w, d).node = n
    \/ /\ d = Height(w) + 1 /\ at[w] = n
       /\ pc[w] \in {"enter", "announce", "publish", "recheck"}

OneHolder ==
    \A w, u \in Workers, d, e \in Nat, n \in Nodes :
        Holds(w, d, n) /\ Holds(u, e, n) => w = u /\ d = e

RunsAt(w, d, n, j) ==
    d \in 1 .. Height(w) /\ Loop(w, d).kind = "run" /\ Loop(w, d).node = n /\ Loop(w, d).i = j

OneRunner ==
    \A w, u \in Workers, d, e \in Nat, n \in Nodes, j \in Nat :
        RunsAt(w, d, n, j) /\ RunsAt(u, e, n, j) => w = u /\ d = e

OwnsAt(w, d, n) ==
    d \in 1 .. Height(w) /\ Loop(w, d).kind = "own" /\ Loop(w, d).node = n

Owned(n) == split[n].owner \in Workers /\ \E d \in Nat : OwnsAt(split[n].owner, d, n)

\* A child that runs was handed out and has not come back; its owner waits.
RunsAreLive ==
    \A w \in Workers, d \in Nat, n \in Nodes, j \in Nat :
        RunsAt(w, d, n, j) =>
            /\ j < split[n].next /\ j \in 1 .. Len(split[n].state)
            /\ split[n].state[j] = "unresolved" /\ Owned(n)

\* What is still to be handed out.
SplitFits(n) ==
    /\ split[n].open => Owned(n)
    /\ \A j \in 1 .. Len(split[n].state) :
         j >= split[n].next =>
           \/ split[n].state[j] = "unresolved"
           \/ split[n].state[j] = "immediate" /\ split[n].settledAt \in 1 .. j

\* The owner waits for its children, or lends a hand elsewhere.
Withdrawn(w, d, n) ==
    IF d = Height(w) THEN pc[w] \in {"wait", "seek"} ELSE Loop(w, d + 1).node # n

\* An owner knows its split, and waits only after withdrawing it.
OwnerFits(w, d, n) ==
    /\ split[n].owner = w /\ split[n].first = Loop(w, d).i
    /\ Len(split[n].state) = Len(Kids[n])
    /\ split[n].open <=> ~Withdrawn(w, d, n)

OwnersFit ==
    \A w \in Workers, d \in Nat, n \in Nodes : OwnsAt(w, d, n) => OwnerFits(w, d, n)

\* What was handed out and has not come back runs.
HandedOut ==
    \A n \in Nodes : \A j \in 1 .. Len(split[n].state) :
        split[n].first <= j /\ j < split[n].next /\ split[n].state[j] = "unresolved" =>
            \E w \in Workers, d \in Nat : RunsAt(w, d, n, j)

ActiveIsCounted ==
    \A n \in Nodes : IsFiniteSet(Runs(n)) /\ Cardinality(Runs(n)) = split[n].active

Alone ==
    /\ OneHolder /\ OneRunner /\ RunsAreLive /\ HandedOut /\ OwnersFit /\ ActiveIsCounted
    /\ \A n \in Nodes : SplitFits(n)

-----------------------------------------------------------------------------
(* Third layer: the truth. *)

\* How many children a loop has done with.
Done(w, d) ==
    IF Loop(w, d).kind = "loop" /\ (d < Height(w) \/ pc[w] \in {"enter", "ret"})
    THEN Loop(w, d).i - 2 ELSE Loop(w, d).i - 1

LoopIsTrue(f, k) ==
    /\ f.node \notin Leaves
    /\ \A j \in 1 .. k :
         IF f.node \in OrNodes
         THEN ~Wins(Kids[f.node][j]) /\ (f.hopeless => value[Kids[f.node][j]] = "refuted")
         ELSE Wins(Kids[f.node][j])

LoopsAreTrue ==
    \A w \in Workers : \A d \in 1 .. Height(w) :
        Searches(Loop(w, d)) => LoopIsTrue(Loop(w, d), Done(w, d))

StateIsTrue(k, st) ==
    /\ st \in {"proved", "immediate"} => Wins(k)
    /\ st \in {"failed", "refuted"} => ~Wins(k)
    /\ st = "refuted" => value[k] = "refuted"

Settles(n) == IF n \in OrNodes THEN {"proved", "immediate"} ELSE {"failed", "refuted"}

SplitIsTrue(n) ==
    /\ \A j \in 1 .. Len(split[n].state) : StateIsTrue(Kids[n][j], split[n].state[j])
    /\ split[n].settledAt = 0 =>
         \A j \in 1 .. Len(split[n].state) : split[n].state[j] \notin Settles(n)
    /\ split[n].settledAt > 0 =>
         /\ split[n].settledAt \in DOMAIN Kids[n]
         /\ Wins(Kids[n][split[n].settledAt]) <=> n \in OrNodes
         /\ split[n].settleRefuted => value[Kids[n][split[n].settledAt]] = "refuted"

ResultIsTrue(w) ==
    pc[w] = "ret" /\ ~aborted[w] =>
        /\ ret[w].ok <=> Wins(at[w])
        /\ ret[w].refuted => value[at[w]] = "refuted"

TreeIsTrue == \A n \in Nodes \ Leaves : value[n] = Composed(n)

True ==
    /\ TreeIsTrue /\ LoopsAreTrue
    /\ \A n \in Nodes : SplitIsTrue(n)
    /\ \A w \in Workers : ResultIsTrue(w)
    /\ \A i \in proved : Wins(RootNode[i])

-----------------------------------------------------------------------------
(* Fourth layer: what the depth comes to. *)

InHand(i) ==
    \E w \in Workers : \/ pc[w] \in {"publish", "recheck"} /\ at[w] = RootNode[i]
                       \/ Height(w) > 0 /\ Loop(w, 1).kind = "root" /\ Loop(w, 1).i = i

\* Nothing is proved yet and nothing has interrupted.
Undisturbed == best = N /\ happened = {}

\* Nothing is left of a split to hand out.
HandedAll(n) == split[n].settledAt > 0 \/ split[n].next > Len(split[n].state)

Untroubled ==
    /\ \A w \in Workers : ~cancel[w] /\ ~aborted[w]
    /\ \A n \in Nodes : \A j \in 1 .. Len(split[n].state) : split[n].state[j] # "abandoned"

\* A split is withdrawn when nothing is left of it.
WithdrawnLate ==
    /\ \A n \in Nodes : split[n].open \/ HandedAll(n)
    /\ \A w \in Workers : pc[w] = "withdraw" => HandedAll(Loop(w, Height(w)).node)

\* A root move that was taken is searched, or was, to no avail.
Answered == \A i \in Roots : i < nextIndex => ~Wins(RootNode[i]) \/ InHand(i)

\* Who helps has seen the last root move taken.
Past(w) == pc[w] \in {"help", "done"} \/ (Height(w) > 0 /\ Loop(w, 1).kind = "run")
AllTaken == \A w \in Workers : Past(w) => nextIndex >= N

Served ==
    /\ best # N => Wins(RootNode[best])
    /\ Undisturbed => Untroubled /\ WithdrawnLate /\ Answered /\ AllTaken

-----------------------------------------------------------------------------
(* The stacks. *)

LEMMA Cons ==
    ASSUME NEW S, NEW f \in S, NEW s \in Seq(S)
    PROVE  /\ <<f>> \o s \in Seq(S) /\ Len(<<f>> \o s) = Len(s) + 1
           /\ (<<f>> \o s)[1] = f
           /\ \A i \in 1 .. Len(s) : (<<f>> \o s)[i + 1] = s[i]
OBVIOUS

LEMMA Rests ==
    ASSUME NEW S, NEW s \in Seq(S), Len(s) > 0
    PROVE  /\ Tail(s) \in Seq(S) /\ Len(Tail(s)) = Len(s) - 1 /\ Head(s) = s[1]
           /\ \A i \in 1 .. Len(s) - 1 : Tail(s)[i] = s[i + 1]
<1>1. s # <<>>
  OBVIOUS
<1> QED
  BY <1>1, HeadTailProperties

LEMMA StackFacts ==
    ASSUME TypeOK, NEW w \in Workers
    PROVE  /\ stack[w] \in Seq(Loops) /\ Height(w) \in Nat
           /\ \A d \in 1 .. Height(w) : Loop(w, d) \in Loops
           /\ Height(w) > 0 => Top(w) = Loop(w, Height(w))
<1>1. stack[w] \in Seq(Loops)
  BY DEF TypeOK
<1>2. ASSUME NEW d \in 1 .. Height(w) PROVE Loop(w, d) \in Loops
  BY <1>1 DEF Loop, Height
<1>3. Height(w) > 0 => Top(w) = Loop(w, Height(w))
  BY <1>1, Rests DEF Top, Loop, Height
<1> QED
  BY <1>1, <1>2, <1>3 DEF Height

LEMMA OtherStacks ==
    ASSUME TypeOK, NEW w \in Workers, NEW s, stack' = [stack EXCEPT ![w] = s]
    PROVE  /\ stack'[w] = s
           /\ \A v \in Workers \ {w} : stack'[v] = stack[v]
BY DEF TypeOK

LEMMA PushFacts ==
    ASSUME TypeOK, NEW w \in Workers, NEW h, h = Height(w), NEW f \in Loops, Push(w, f)
    PROVE  /\ stack' \in [Workers -> Seq(Loops)] /\ h \in Nat
           /\ Height(w)' = h + 1 /\ Loop(w, h + 1)' = f
           /\ \A d \in 1 .. h : Loop(w, d)' = Loop(w, d)
           /\ \A v \in Workers \ {w} : stack'[v] = stack[v]
<1>1. /\ stack[w] \in Seq(Loops) /\ h \in Nat /\ h = Len(stack[w])
      /\ stack \in [Workers -> Seq(Loops)]
  BY StackFacts DEF Height, TypeOK
<1>2. stack'[w] = <<f>> \o stack[w]
  BY <1>1 DEF Push
<1>3. /\ stack'[w] \in Seq(Loops) /\ Len(stack'[w]) = h + 1 /\ stack'[w][1] = f
      /\ \A i \in 1 .. h : stack'[w][i + 1] = stack[w][i]
  BY <1>1, <1>2, Cons
<1>4. stack' \in [Workers -> Seq(Loops)] /\ \A v \in Workers \ {w} : stack'[v] = stack[v]
  BY <1>1, <1>2, <1>3 DEF Push
<1>5. ASSUME NEW d \in 1 .. h PROVE Loop(w, d)' = Loop(w, d)
  BY <1>1, <1>3 DEF Loop, Height
<1>6. Loop(w, h + 1)' = f
  BY <1>1, <1>3 DEF Loop, Height
<1> QED
  BY <1>1, <1>3, <1>4, <1>5, <1>6 DEF Height

LEMMA RetopFacts ==
    ASSUME TypeOK, NEW w \in Workers, NEW h, h = Height(w), h > 0, NEW f \in Loops,
           Retop(w, f)
    PROVE  /\ stack' \in [Workers -> Seq(Loops)] /\ h \in Nat
           /\ Height(w)' = h /\ Loop(w, h)' = f
           /\ \A d \in 1 .. h - 1 : Loop(w, d)' = Loop(w, d)
           /\ \A v \in Workers \ {w} : stack'[v] = stack[v]
<1>1. /\ stack[w] \in Seq(Loops) /\ h \in Nat /\ h = Len(stack[w])
      /\ stack \in [Workers -> Seq(Loops)]
  BY StackFacts DEF Height, TypeOK
<1>2. stack'[w] = <<f>> \o Tail(stack[w])
  BY <1>1 DEF Retop
<1>3. /\ Tail(stack[w]) \in Seq(Loops) /\ Len(Tail(stack[w])) = h - 1
      /\ \A i \in 1 .. h - 1 : Tail(stack[w])[i] = stack[w][i + 1]
  BY <1>1, Rests
<1>4. /\ stack'[w] \in Seq(Loops) /\ Len(stack'[w]) = h /\ stack'[w][1] = f
      /\ \A i \in 1 .. h - 1 : stack'[w][i + 1] = Tail(stack[w])[i]
  BY <1>1, <1>2, <1>3, Cons
<1>5. stack' \in [Workers -> Seq(Loops)] /\ \A v \in Workers \ {w} : stack'[v] = stack[v]
  BY <1>1, <1>2, <1>4 DEF Retop
<1>6. ASSUME NEW d \in 1 .. h - 1 PROVE Loop(w, d)' = Loop(w, d)
  <2>1. h - d \in 1 .. h - 1 /\ h + 1 - d = (h - d) + 1
    BY <1>1
  <2>2. stack'[w][h + 1 - d] = stack[w][h + 1 - d]
    BY <1>3, <1>4, <2>1
  <2> QED
    BY <1>1, <1>4, <2>2 DEF Loop, Height
<1>7. Loop(w, h)' = f
  BY <1>1, <1>4 DEF Loop, Height
<1> QED
  BY <1>1, <1>4, <1>5, <1>6, <1>7 DEF Height

LEMMA PopFacts ==
    ASSUME TypeOK, NEW w \in Workers, NEW h, h = Height(w), h > 0, Pop(w)
    PROVE  /\ stack' \in [Workers -> Seq(Loops)] /\ h \in Nat
           /\ Height(w)' = h - 1
           /\ \A d \in 1 .. h - 1 : Loop(w, d)' = Loop(w, d)
           /\ \A v \in Workers \ {w} : stack'[v] = stack[v]
           /\ Rest(w) = <<>> <=> h = 1
           /\ h > 1 => Head(Rest(w)) = Loop(w, h - 1)
<1>1. /\ stack[w] \in Seq(Loops) /\ h \in Nat /\ h = Len(stack[w])
      /\ stack \in [Workers -> Seq(Loops)]
  BY StackFacts DEF Height, TypeOK
<1>2. stack'[w] = Tail(stack[w])
  BY <1>1 DEF Pop
<1>3. /\ Tail(stack[w]) \in Seq(Loops) /\ Len(Tail(stack[w])) = h - 1
      /\ \A i \in 1 .. h - 1 : Tail(stack[w])[i] = stack[w][i + 1]
  BY <1>1, Rests
<1>4. stack' \in [Workers -> Seq(Loops)] /\ \A v \in Workers \ {w} : stack'[v] = stack[v]
  BY <1>1, <1>2, <1>3 DEF Pop
<1>5. ASSUME NEW d \in 1 .. h - 1 PROVE Loop(w, d)' = Loop(w, d)
  <2>1. h - d \in 1 .. h - 1 /\ h + 1 - d = (h - d) + 1 /\ (h - 1) + 1 - d = h - d
    BY <1>1
  <2>2. stack'[w][h - d] = stack[w][h + 1 - d]
    BY <1>2, <1>3, <2>1
  <2> QED
    BY <1>1, <1>2, <1>3, <2>1, <2>2 DEF Loop, Height
<1>6. Rest(w) = <<>> <=> h = 1
  <2>1. Tail(stack[w]) = <<>> <=> Len(Tail(stack[w])) = 0
    BY <1>3, EmptySeq
  <2> QED
    BY <1>1, <1>3, <2>1 DEF Rest
<1>7. ASSUME h > 1 PROVE Head(Rest(w)) = Loop(w, h - 1)
  <2>1. Head(Tail(stack[w])) = Tail(stack[w])[1]
    BY <1>1, <1>3, <1>7, Rests
  <2> QED
    BY <1>1, <1>3, <1>7, <2>1 DEF Rest, Loop, Height
<1> QED
  BY <1>1, <1>2, <1>3, <1>4, <1>5, <1>6, <1>7 DEF Height

-----------------------------------------------------------------------------
(* The records. *)

LEMMA LoopParts ==
    ASSUME NEW f \in Loops
    PROVE  /\ f.kind \in {"root", "loop", "own", "run"} /\ f.node \in Nodes /\ f.i \in Nat
           /\ f.hopeless \in BOOLEAN /\ f.saved \in Nat
BY Zenon DEF Loops

LEMMA SplitParts ==
    ASSUME NEW sp \in Splits
    PROVE  /\ sp.open \in BOOLEAN /\ sp.next \in Nat \ {0} /\ sp.active \in Int
           /\ sp.settledAt \in Nat /\ sp.settleRefuted \in BOOLEAN /\ sp.seq \in Nat
           /\ sp.first \in Nat \ {0} /\ sp.owner \in 0 .. NumWorkers
           /\ sp.state \in Seq(States)
BY Zenon DEF Splits

LEMMA SplitBuilt ==
    ASSUME NEW open \in BOOLEAN, NEW next \in Nat \ {0}, NEW active \in Int,
           NEW settledAt \in Nat, NEW settleRefuted \in BOOLEAN, NEW seq \in Nat,
           NEW first \in Nat \ {0}, NEW owner \in 0 .. NumWorkers, NEW state \in Seq(States)
    PROVE  [open |-> open, next |-> next, active |-> active, settledAt |-> settledAt,
            settleRefuted |-> settleRefuted, seq |-> seq, first |-> first, owner |-> owner,
            state |-> state] \in Splits
BY Zenon DEF Splits

LEMMA TakenFacts ==
    ASSUME NEW sp \in Splits
    PROVE  /\ Taken(sp) \in Splits /\ Taken(sp).open = sp.open
           /\ Taken(sp).next = sp.next + 1 /\ Taken(sp).active = sp.active + 1
           /\ Taken(sp).settledAt = sp.settledAt
           /\ Taken(sp).settleRefuted = sp.settleRefuted
           /\ Taken(sp).first = sp.first /\ Taken(sp).owner = sp.owner
           /\ Taken(sp).state = sp.state
<1>1. /\ sp.next + 1 \in Nat \ {0} /\ sp.active + 1 \in Int
  BY SplitParts
<1>2. Taken(sp) \in Splits
  BY <1>1, Zenon DEF Taken, Splits
<1>3. /\ Taken(sp).next = sp.next + 1 /\ Taken(sp).active = sp.active + 1
      /\ Taken(sp).settledAt = sp.settledAt /\ Taken(sp).first = sp.first
      /\ Taken(sp).owner = sp.owner /\ Taken(sp).state = sp.state
  BY SMT DEF Taken, Splits
<1>4. Taken(sp).open = sp.open /\ Taken(sp).settleRefuted = sp.settleRefuted
  BY Zenon DEF Taken, Splits
<1> QED
  BY <1>2, <1>3, <1>4

LEMMA ClosedFacts ==
    ASSUME NEW sp \in Splits
    PROVE  LET c == [sp EXCEPT !.open = FALSE]
           IN  /\ c \in Splits /\ ~c.open /\ c.next = sp.next /\ c.active = sp.active
               /\ c.settledAt = sp.settledAt /\ c.settleRefuted = sp.settleRefuted
               /\ c.first = sp.first /\ c.owner = sp.owner /\ c.state = sp.state
<1> DEFINE c == [sp EXCEPT !.open = FALSE]
<1>1. FALSE \in BOOLEAN
  OBVIOUS
<1>2. c \in Splits /\ ~c.open /\ c.settleRefuted = sp.settleRefuted
  BY <1>1, Zenon DEF Splits
<1>3. /\ c.next = sp.next /\ c.active = sp.active /\ c.settledAt = sp.settledAt
      /\ c.first = sp.first /\ c.owner = sp.owner /\ c.state = sp.state
  BY SMT DEF Splits
<1> QED
  BY <1>2, <1>3

LEMMA SettledType ==
    ASSUME NEW sp \in Splits, NEW j \in Nat, NEW st \in States, NEW or
    PROVE  /\ Settled(sp, j, st, or) \in Splits
           /\ Len(Settled(sp, j, st, or).state) = Len(sp.state)
<1> DEFINE c == Settled(sp, j, st, or)
           settles == IF or THEN st = "proved" ELSE st \in {"failed", "refuted"}
           first == settles /\ (sp.settledAt = 0 \/ j < sp.settledAt)
           state == [sp.state EXCEPT ![j] = st]
           settledAt == IF first THEN j ELSE sp.settledAt
           settleRefuted == IF first THEN st = "refuted" ELSE sp.settleRefuted
<1>1. /\ sp.state \in Seq(States) /\ sp.settledAt \in Nat /\ sp.active \in Int
      /\ sp.settleRefuted \in BOOLEAN
  BY SplitParts
<1>2. state \in Seq(States) /\ Len(state) = Len(sp.state)
  <2>1. CASE j \in 1 .. Len(sp.state)
    BY <1>1, <2>1, ExceptSeq
  <2>2. CASE j \notin 1 .. Len(sp.state)
    <3>1. DOMAIN sp.state = 1 .. Len(sp.state)
      BY <1>1
    <3>2. state = [k \in DOMAIN sp.state |-> sp.state[k]]
      BY <2>2, <3>1
    <3>3. state = sp.state
      BY <1>1, <3>2
    <3> QED
      BY <1>1, <3>3
  <2> QED
    BY <2>1, <2>2
<1>3. settledAt \in Nat /\ sp.active - 1 \in Int
  BY <1>1
<1>4. settleRefuted \in BOOLEAN
  BY <1>1, Zenon
<1>5. c = [sp EXCEPT !.state = state, !.active = sp.active - 1, !.settledAt = settledAt,
                     !.settleRefuted = settleRefuted]
  BY DEF Settled, Splits
<1> HIDE DEF state, settledAt, settleRefuted, c
<1>6. c \in Splits
  BY <1>2, <1>3, <1>4, <1>5, Zenon DEF Splits
<1>7. c.state = state
  BY <1>5, SMT DEF Splits
<1> QED
  BY <1>2, <1>6, <1>7 DEF c

\* What run_child leaves behind: the child's state, and who settles.
LEMMA SettledFacts ==
    ASSUME NEW sp \in Splits, NEW j \in 1 .. Len(sp.state), NEW st \in States, NEW or
    PROVE  LET c == Settled(sp, j, st, or)
               settles == IF or THEN st = "proved" ELSE st \in {"failed", "refuted"}
               first == settles /\ (sp.settledAt = 0 \/ j < sp.settledAt)
           IN  /\ c \in Splits /\ c.open = sp.open /\ c.next = sp.next
               /\ c.active = sp.active - 1
               /\ c.settledAt = (IF first THEN j ELSE sp.settledAt)
               /\ c.settleRefuted = (IF first THEN st = "refuted" ELSE sp.settleRefuted)
               /\ c.first = sp.first /\ c.owner = sp.owner
               /\ Len(c.state) = Len(sp.state) /\ c.state[j] = st
               /\ \A k \in 1 .. Len(sp.state) : k # j => c.state[k] = sp.state[k]
<1> DEFINE c == Settled(sp, j, st, or)
           settles == IF or THEN st = "proved" ELSE st \in {"failed", "refuted"}
           first == settles /\ (sp.settledAt = 0 \/ j < sp.settledAt)
           state == [sp.state EXCEPT ![j] = st]
           settledAt == IF first THEN j ELSE sp.settledAt
           settleRefuted == IF first THEN st = "refuted" ELSE sp.settleRefuted
<1>1. /\ sp.state \in Seq(States) /\ sp.settledAt \in Nat /\ sp.active \in Int
      /\ sp.settleRefuted \in BOOLEAN
  BY SplitParts
<1>2. /\ state \in Seq(States) /\ Len(state) = Len(sp.state) /\ state[j] = st
      /\ \A k \in 1 .. Len(sp.state) : k # j => state[k] = sp.state[k]
  BY <1>1, ExceptSeq
<1>3. settledAt \in Nat /\ sp.active - 1 \in Int
  BY <1>1
<1>4. settleRefuted \in BOOLEAN
  BY <1>1, Zenon
<1>5. c = [sp EXCEPT !.state = state, !.active = sp.active - 1, !.settledAt = settledAt,
                     !.settleRefuted = settleRefuted]
  BY DEF Settled, Splits
<1> HIDE DEF state, settledAt, settleRefuted, c
<1>6. c \in Splits /\ c.open = sp.open /\ c.settleRefuted = settleRefuted
  BY <1>2, <1>3, <1>4, <1>5, Zenon DEF Splits
<1>7. /\ c.next = sp.next /\ c.active = sp.active - 1 /\ c.settledAt = settledAt
      /\ c.first = sp.first /\ c.owner = sp.owner /\ c.state = state
  BY <1>5, SMT DEF Splits
<1> QED
  BY <1>2, <1>6, <1>7 DEF settledAt, settleRefuted, c

-----------------------------------------------------------------------------
(* The tree. *)

LEMMA Tree ==
    /\ NumWorkers \in Nat \ {0} /\ N \in Nat /\ Workers = 1 .. NumWorkers
    /\ NoNode \notin Nodes /\ OrNodes \subseteq Nodes /\ MaySplit \subseteq OrNodes
    /\ \A n \in Nodes :
         /\ Kids[n] \in Seq(Nodes) /\ Len(Kids[n]) \in Nat
         /\ DOMAIN Kids[n] = 1 .. Len(Kids[n])
         /\ \A j \in 1 .. Len(Kids[n]) :
              Kids[n][j] \in Nodes /\ (Kids[n][j] \in OrNodes <=> n \notin OrNodes)
    /\ \A i \in Roots : /\ i \in Nat /\ RootNode[i] \in Nodes /\ RootNode[i] \notin OrNodes
                        /\ Priority[RootNode[i]] = i
    /\ \A n \in Nodes : Priority[n] \in Nat
<1>1. ASSUME NEW n \in Nodes
      PROVE  /\ Kids[n] \in Seq(Nodes) /\ Len(Kids[n]) \in Nat
             /\ DOMAIN Kids[n] = 1 .. Len(Kids[n])
             /\ \A j \in 1 .. Len(Kids[n]) :
                  Kids[n][j] \in Nodes /\ (Kids[n][j] \in OrNodes <=> n \notin OrNodes)
  <2>1. Kids[n] \in Seq(Nodes)
    BY TreeAssumption
  <2>2. Len(Kids[n]) \in Nat /\ DOMAIN Kids[n] = 1 .. Len(Kids[n])
    BY <2>1
  <2>3. \A j \in 1 .. Len(Kids[n]) : Kids[n][j] \in Nodes
    BY <2>1, <2>2
  <2> QED
    BY <2>1, <2>2, <2>3, TreeAssumption
<1> QED
  BY <1>1, TreeAssumption, WorkersAssumption, RootsAssumption DEF Roots, Workers

LEMMA CalleeIsNode ==
    ASSUME NEW f \in Loops, LoopFits(f), Calls(f)
    PROVE  Callee(f) \in Nodes
<1>1. /\ f.kind \in {"root", "loop", "own", "run"} /\ f.node \in Nodes /\ f.i \in Nat
  BY LoopParts
<1> QED
  BY <1>1, Tree DEF Callee, Calls, LoopFits

\* A nonempty set of naturals has a least element.
LEMMA LeastExists ==
    ASSUME NEW S \in SUBSET Nat, S # {}
    PROVE  \E x \in S : \A y \in S : x <= y
<1> DEFINE T == {0 .. n : n \in S}
<1>1. T \subseteq FiniteSubsetsOf(Nat) /\ T # {}
  <2>1. \A n \in Nat : IsFiniteSet(0 .. n)
    BY FS_Interval
  <2>2. \A n \in Nat : 0 .. n \in SUBSET Nat
    OBVIOUS
  <2>3. \A n \in S : 0 .. n \in FiniteSubsetsOf(Nat)
    BY <2>1, <2>2, Zenon DEF FiniteSubsetsOf
  <2> QED
    BY <2>3
<1>2. \E a \in T : \A b \in T : ~(<<b, a>> \in StrictSubsetOrdering(Nat))
  BY <1>1, FS_StrictSubsetOrderingWellFounded, WFMin
<1>3. PICK x \in S : \A y \in S : ~(<<0 .. y, 0 .. x>> \in StrictSubsetOrdering(Nat))
  BY <1>2
<1>4. ASSUME NEW y \in S, y < x PROVE FALSE
  <2>1. 0 .. y \subseteq 0 .. x /\ 0 .. y # 0 .. x /\ 0 .. x \subseteq Nat
    BY <1>4
  <2> QED
    BY <1>3, <2>1 DEF StrictSubsetOrdering
<1> QED
  BY <1>4

LEMMA NoSplitFacts ==
    /\ NoSplit \in Splits /\ ~NoSplit.open /\ ~NoSplit.settleRefuted
    /\ NoSplit.active = 0 /\ NoSplit.settledAt = 0 /\ NoSplit.state = <<>> /\ NoSplit.next = 1
<1>1. /\ FALSE \in BOOLEAN /\ 0 \in Int /\ 0 \in Nat /\ 1 \in Nat \ {0}
      /\ 0 \in 0 .. NumWorkers
  BY Tree
<1>2. <<>> \in Seq(States)
  OBVIOUS
<1> QED
  BY <1>1, <1>2, SplitBuilt, Zenon DEF NoSplit

\* What a split is when it is published: a winning move settles it at once.
LEMMA PublishedFacts ==
    ASSUME NEW n \in Nodes, NEW from \in Nat \ {0}, NEW seq \in Nat, NEW w \in Workers
    PROVE  LET sp == Published(n, from, seq, w)
           IN  /\ sp \in Splits /\ sp.open /\ sp.next = from /\ sp.first = from
               /\ sp.active = 0 /\ sp.owner = w /\ ~sp.settleRefuted
               /\ Len(sp.state) = Len(Kids[n])
               /\ \/ sp.settledAt = 0
                  \/ /\ sp.settledAt \in from .. Len(Kids[n]) /\ n \in OrNodes
                     /\ value[Kids[n][sp.settledAt]] = "mate"
               /\ \A i \in 1 .. Len(Kids[n]) :
                    sp.state[i] = IF i = sp.settledAt THEN "immediate" ELSE "unresolved"
<1> DEFINE won == {i \in from .. Len(Kids[n]) : n \in OrNodes /\ value[Kids[n][i]] = "mate"}
           j == IF won = {} THEN 0 ELSE CHOOSE i \in won : \A k \in won : i <= k
           state == [i \in 1 .. Len(Kids[n]) |-> IF i = j THEN "immediate" ELSE "unresolved"]
           sp == Published(n, from, seq, w)
<1>1. j = 0 \/ j \in won
  <2>1. Len(Kids[n]) \in Nat /\ won \in SUBSET Nat
    BY Tree
  <2>2. won # {} => \E i \in won : \A k \in won : i <= k
    BY <2>1, LeastExists
  <2> HIDE DEF won
  <2> QED
    BY <2>2
<1>2. j \in Nat
  <2>1. 0 \in Nat /\ \A i \in won : i \in Nat
    BY Tree
  <2> QED
    BY <1>1, <2>1, Zenon
<1>3. sp = [NoSplit EXCEPT !.open = TRUE, !.next = from, !.first = from, !.settledAt = j,
                           !.seq = seq, !.owner = w, !.state = state]
  BY DEF Published
<1>4. state \in Seq(States) /\ Len(state) = Len(Kids[n])
  <2> HIDE DEF j
  <2>1. state \in [1 .. Len(Kids[n]) -> States] /\ Len(Kids[n]) \in Nat
    BY Tree DEF States
  <2> HIDE DEF state
  <2> QED
    BY <2>1
<1>5. \A i \in 1 .. Len(Kids[n]) : state[i] = IF i = j THEN "immediate" ELSE "unresolved"
  OBVIOUS
<1> HIDE DEF j, state, sp
<1>6. NoSplit \in Splits /\ ~NoSplit.settleRefuted /\ NoSplit.active = 0
  BY NoSplitFacts
<1>7. sp \in Splits /\ sp.open /\ sp.settleRefuted = NoSplit.settleRefuted
  <2>1. TRUE \in BOOLEAN /\ w \in 0 .. NumWorkers
    BY Tree
  <2> QED
    BY <1>2, <1>3, <1>4, <1>6, <2>1, Zenon DEF Splits
<1>8. /\ sp.next = from /\ sp.first = from /\ sp.active = 0 /\ sp.owner = w
      /\ sp.settledAt = j /\ sp.state = state
  BY <1>3, <1>6, SMT DEF Splits
<1> QED
  BY <1>1, <1>4, <1>5, <1>6, <1>7, <1>8 DEF sp

-----------------------------------------------------------------------------
(* First layer: what a step does to the stacks. *)

\* The other workers: theirs is what it was.
OthersStay(w) ==
    /\ nextIndex' \in {nextIndex, nextIndex + 1}
    /\ \A v \in Workers \ {w} : pc'[v] = pc[v] /\ at'[v] = at[v] /\ stack'[v] = stack[v]

LEMMA OtherKept ==
    ASSUME TypeOK, TypeOK', NEW v \in Workers, pc'[v] = pc[v], at'[v] = at[v],
           stack'[v] = stack[v], nextIndex <= nextIndex', Stacked(v), Here(v)
    PROVE  Stacked(v)' /\ Here(v)'
<1>1. /\ nextIndex \in Nat /\ nextIndex' \in Nat /\ Height(v)' = Height(v)
      /\ \A d \in 1 .. Height(v) : Loop(v, d)' = Loop(v, d)
      /\ Height(v) \in Nat
  BY StackFacts DEF TypeOK, Height, Loop
<1>2. Stacked(v)'
  <2>1. ASSUME NEW d \in 1 .. Height(v) PROVE LoopFits(Loop(v, d))'
    <3>1. LoopFits(Loop(v, d)) /\ Loop(v, d) \in Loops
      BY StackFacts DEF Stacked
    <3> QED
      BY <1>1, <3>1, LoopParts DEF LoopFits
  <2>2. ASSUME NEW d \in 1 .. Height(v) - 1 PROVE Above(Loop(v, d + 1), Loop(v, d))'
    <3>1. d \in 1 .. Height(v) /\ d + 1 \in 1 .. Height(v)
      BY <1>1
    <3> QED
      BY <1>1, <3>1 DEF Stacked, Above, Calls, Callee
  <2> QED
    BY <1>1, <2>1, <2>2 DEF Stacked
<1>3. Here(v)'
  <2>1. CASE Height(v) = 0
    <3>1. \A i \in Roots : i < nextIndex => i < nextIndex'
      BY <1>1, Tree
    <3> QED
      BY <1>1, <2>1, <3>1 DEF Here
  <2>2. CASE Height(v) # 0
    BY <1>1, <2>2 DEF Here, TopFits, Calls, Callee
  <2> QED
    BY <2>1, <2>2
<1> QED
  BY <1>2, <1>3

\* A step that keeps the first k loops and may put one on them.
LEMMA StackStep ==
    ASSUME Fits, TypeOK', NEW w \in Workers, OthersStay(w), NEW k \in Nat, k <= Height(w), Height(w)' = k \/ Height(w)' = k + 1,
           \A d \in 1 .. k : Loop(w, d)' = Loop(w, d),
           Height(w)' = k + 1 =>
             /\ LoopFits(Loop(w, k + 1))'
             /\ k > 0 => Above(Loop(w, k + 1), Loop(w, k))'
             /\ k = 0 => Loop(w, 1)'.kind \in {"root", "run"},
           Here(w)'
    PROVE  Fits'
<1>1. /\ TypeOK /\ Stacked(w) /\ nextIndex \in Nat /\ nextIndex' \in Nat
      /\ Height(w) \in Nat
  BY StackFacts DEF Fits, TypeOK
<1>0. nextIndex <= nextIndex'
  BY <1>1 DEF OthersStay
<1>2. Stacked(w)'
  <2>1. ASSUME NEW d \in 1 .. k PROVE LoopFits(Loop(w, d))'
    <3>1. LoopFits(Loop(w, d)) /\ Loop(w, d) \in Loops /\ Loop(w, d)' = Loop(w, d)
      BY <1>1, StackFacts DEF Stacked
    <3> QED
      BY <1>0, <1>1, <3>1, LoopParts DEF LoopFits
  <2>2. ASSUME NEW d \in 1 .. k - 1 PROVE Above(Loop(w, d + 1), Loop(w, d))'
    <3>1. d \in 1 .. k /\ d + 1 \in 1 .. k /\ d \in 1 .. Height(w) - 1
      BY <1>1
    <3> QED
      BY <1>1, <3>1 DEF Stacked, Above, Calls, Callee
  <2>3. k > 0 => Loop(w, 1)'.kind \in {"root", "run"}
    BY <1>1 DEF Stacked
  <2>4. CASE Height(w)' = k
    BY <2>1, <2>2, <2>3, <2>4 DEF Stacked
  <2>5. CASE Height(w)' = k + 1
    <3>1. \A d \in 1 .. k + 1 : LoopFits(Loop(w, d))'
      <4>1. \A d \in 1 .. k + 1 : d \in 1 .. k \/ d = k + 1
        OBVIOUS
      <4> QED
        BY <2>1, <2>5, <4>1
    <3>2. \A d \in 1 .. k : Above(Loop(w, d + 1), Loop(w, d))'
      <4>1. \A d \in 1 .. k : d \in 1 .. k - 1 \/ (d = k /\ k > 0)
        OBVIOUS
      <4> QED
        BY <2>2, <2>5, <4>1
    <3>3. Loop(w, 1)'.kind \in {"root", "run"}
      BY <2>3, <2>5
    <3> QED
      BY <2>5, <3>1, <3>2, <3>3 DEF Stacked
  <2> QED
    BY <2>4, <2>5
<1>3. ASSUME NEW v \in Workers \ {w} PROVE Stacked(v)' /\ Here(v)'
  BY <1>0, <1>1, OtherKept DEF Fits, OthersStay
<1> QED
  BY <1>2, <1>3 DEF Fits

\* The loop on top of a worker's stack, and the one below it.
LEMMA TopFacts ==
    ASSUME Fits, NEW w \in Workers, Height(w) > 0
    PROVE  /\ Top(w) = Loop(w, Height(w)) /\ Top(w) \in Loops /\ LoopFits(Top(w))
           /\ TopFits(pc[w], at[w], Top(w)) /\ Height(w) \in Nat
           /\ Top(w).kind \in {"root", "loop", "own", "run"} /\ Top(w).node \in Nodes
           /\ Top(w).i \in Nat /\ Top(w).hopeless \in BOOLEAN /\ Top(w).saved \in Nat
           /\ Height(w) > 1 => /\ Above(Top(w), Loop(w, Height(w) - 1))
                               /\ Loop(w, Height(w) - 1) \in Loops
                               /\ LoopFits(Loop(w, Height(w) - 1))
           /\ Height(w) = 1 => Top(w).kind \in {"root", "run"}
<1>1. TypeOK /\ Stacked(w) /\ Here(w)
  BY DEF Fits
<1>2. /\ Height(w) \in Nat /\ Top(w) = Loop(w, Height(w))
      /\ \A d \in 1 .. Height(w) : Loop(w, d) \in Loops
  BY <1>1, StackFacts
<1>3. Top(w) \in Loops /\ LoopFits(Top(w)) /\ TopFits(pc[w], at[w], Top(w))
  BY <1>1, <1>2 DEF Stacked, Here
<1>4. ASSUME Height(w) > 1
      PROVE  /\ Above(Top(w), Loop(w, Height(w) - 1))
             /\ Loop(w, Height(w) - 1) \in Loops /\ LoopFits(Loop(w, Height(w) - 1))
  <2>1. /\ Height(w) - 1 \in 1 .. Height(w) - 1 /\ Height(w) - 1 \in 1 .. Height(w)
        /\ (Height(w) - 1) + 1 = Height(w)
    BY <1>2, <1>4
  <2>2. Above(Loop(w, (Height(w) - 1) + 1), Loop(w, Height(w) - 1))
    BY <1>1, <2>1 DEF Stacked
  <2> QED
    BY <1>1, <1>2, <2>1, <2>2 DEF Stacked
<1>5. Height(w) = 1 => Top(w).kind \in {"root", "run"}
  BY <1>1, <1>2 DEF Stacked
<1> QED
  BY <1>2, <1>3, <1>4, <1>5, LoopParts

LEMMA StayStep ==
    ASSUME Fits, TypeOK', NEW w \in Workers, OthersStay(w), stack' = stack, Here(w)'
    PROVE  Fits'
<1> PICK h : h = Height(w)
  OBVIOUS
<1>1. /\ h \in Nat /\ Height(w)' = h /\ h <= Height(w)
      /\ \A d \in 1 .. h : Loop(w, d)' = Loop(w, d)
  BY StackFacts DEF Fits, Height, Loop
<1> QED
  BY <1>1, StackStep

LEMMA PushStep ==
    ASSUME Fits, TypeOK', NEW w \in Workers, OthersStay(w), NEW f \in Loops, Push(w, f), LoopFits(f)',
           Height(w) > 0 => Above(f, Top(w)), Height(w) = 0 => f.kind \in {"root", "run"},
           TopFits(pc'[w], at'[w], f)
    PROVE  Fits'
<1> PICK h : h = Height(w)
  OBVIOUS
<1>1. /\ h \in Nat /\ Height(w)' = h + 1 /\ Loop(w, h + 1)' = f
      /\ \A d \in 1 .. h : Loop(w, d)' = Loop(w, d)
  BY PushFacts DEF Fits
<1>2. LoopFits(Loop(w, h + 1))'
  BY <1>1 DEF LoopFits
<1>3. h > 0 => Above(Loop(w, h + 1), Loop(w, h))'
  BY <1>1, TopFacts DEF Above, Calls, Callee
<1>4. h = 0 => Loop(w, 1)'.kind \in {"root", "run"}
  BY <1>1
<1>5. Here(w)'
  BY <1>1 DEF Here, TopFits, Calls, Callee
<1> QED
  BY <1>1, <1>2, <1>3, <1>4, <1>5, StackStep

LEMMA RetopStep ==
    ASSUME Fits, TypeOK', NEW w \in Workers, OthersStay(w), Height(w) > 0, Searches(Top(w)), NEW f \in Loops, Retop(w, f), Searches(f),
           f.node = Top(w).node, LoopFits(f)', TopFits(pc'[w], at'[w], f)
    PROVE  Fits'
<1> PICK h : h = Height(w)
  OBVIOUS
<1>1. /\ h \in Nat /\ h > 0 /\ Height(w)' = h /\ Loop(w, h)' = f
      /\ \A d \in 1 .. h - 1 : Loop(w, d)' = Loop(w, d)
  BY RetopFacts DEF Fits
<1>2. LoopFits(Loop(w, h))'
  BY <1>1 DEF LoopFits
<1>3. h > 1 => Above(Top(w), Loop(w, h - 1)) /\ h - 1 \in 1 .. h - 1
  BY <1>1, TopFacts
<1>4. h > 1 => Above(Loop(w, h), Loop(w, h - 1))'
  BY <1>1, <1>3 DEF Above, Calls, Callee, Searches
<1>5. h # 1
  BY TopFacts DEF Searches
<1>6. Here(w)'
  BY <1>1 DEF Here, TopFits, Calls, Callee
<1>7. h - 1 \in Nat /\ (h - 1) + 1 = h /\ h - 1 <= Height(w)
  BY <1>1
<1> QED
  BY <1>1, <1>2, <1>4, <1>5, <1>6, <1>7, StackStep

LEMMA PopStep ==
    ASSUME Fits, TypeOK', NEW w \in Workers, OthersStay(w), Height(w) > 0, Pop(w), Height(w) = 1 => pc'[w] \in {"claim", "help", "done"},
           Height(w) > 1 => TopFits(pc'[w], at'[w], Loop(w, Height(w) - 1))
    PROVE  Fits'
<1> PICK h : h = Height(w)
  OBVIOUS
<1>1. /\ h \in Nat /\ h > 0 /\ Height(w)' = h - 1
      /\ \A d \in 1 .. h - 1 : Loop(w, d)' = Loop(w, d)
  BY PopFacts DEF Fits
<1>2. Here(w)'
  <2>1. CASE h = 1
    BY <1>1, <2>1 DEF Here
  <2>2. CASE h > 1
    <3>1. h - 1 \in 1 .. h - 1
      BY <1>1, <2>2
    <3>2. Loop(w, h - 1)' = Loop(w, h - 1)
      BY <1>1, <3>1
    <3> QED
      BY <1>1, <2>2, <3>2 DEF Here, TopFits, Calls, Callee
  <2> QED
    BY <1>1, <2>1, <2>2
<1>3. h - 1 \in Nat /\ h - 1 <= Height(w) /\ Height(w)' # (h - 1) + 1
  BY <1>1
<1> QED
  BY <1>1, <1>2, <1>3, StackStep

\* Where a worker's label is, its stack is.
LEMMA LabelFacts ==
    ASSUME Fits, NEW w \in Workers
    PROVE  /\ pc[w] \in {"claim", "help", "done", "publish", "recheck"} => Height(w) = 0
           /\ pc[w] \in {"publish", "recheck"} =>
                /\ at[w] \in Nodes
                /\ Priority[at[w]] \in Roots /\ Priority[at[w]] < nextIndex
                /\ at[w] = RootNode[Priority[at[w]]]
           /\ pc[w] \notin {"claim", "help", "done", "publish", "recheck"} => Height(w) > 0
           /\ pc[w] \in {"announce", "enter", "ret"} =>
                Calls(Top(w)) /\ at[w] = Callee(Top(w)) /\ at[w] \in Nodes
           /\ pc[w] = "announce" => Top(w).kind = "run"
           /\ pc[w] \in {"loop", "share"} => Top(w).kind = "loop"
           /\ pc[w] = "share" => Top(w).node \in OrNodes
           /\ pc[w] \in {"own", "withdraw", "wait", "seek"} => Top(w).kind = "own"
<1>1. Here(w) /\ Height(w) \in Nat /\ pc[w] \in Labels
  BY StackFacts DEF Fits, TypeOK
<1>2. CASE Height(w) = 0
  <2>1. /\ pc[w] \in {"claim", "help", "done", "publish", "recheck"}
        /\ pc[w] \in {"publish", "recheck"} =>
             \E i \in Roots : i < nextIndex /\ at[w] = RootNode[i]
    BY <1>1, <1>2 DEF Here
  <2> QED
    BY <1>2, <2>1, Tree
<1>3. CASE Height(w) > 0
  <2>1. TopFits(pc[w], at[w], Top(w)) /\ Top(w) \in Loops /\ LoopFits(Top(w))
    BY <1>3, TopFacts
  <2>2. pc[w] \in {"announce", "enter", "ret"} => Calls(Top(w)) /\ at[w] = Callee(Top(w))
    BY <2>1 DEF TopFits
  <2>3. pc[w] \in {"announce", "enter", "ret"} => at[w] \in Nodes
    BY <2>1, <2>2, CalleeIsNode
  <2> QED
    BY <1>3, <2>1, <2>2, <2>3 DEF TopFits
<1> QED
  BY <1>1, <1>2, <1>3

LEMMA GotoFacts ==
    ASSUME TypeOK, NEW w \in Workers, NEW l \in Labels, Goto(w, l)
    PROVE  /\ pc' \in [Workers -> Labels] /\ pc'[w] = l
           /\ \A v \in Workers \ {w} : pc'[v] = pc[v]
BY DEF TypeOK, Goto

LEMMA AtFacts ==
    ASSUME TypeOK, NEW w \in Workers, NEW n \in Nodes, at' = [at EXCEPT ![w] = n]
    PROVE  /\ at' \in [Workers -> Nodes \cup {NoNode}] /\ at'[w] = n
           /\ \A v \in Workers \ {w} : at'[v] = at[v]
BY DEF TypeOK

LEMMA ReturnFacts ==
    ASSUME TypeOK, NEW w \in Workers, NEW n \in Nodes, NEW r \in Result, Return(w, n, r)
    PROVE  /\ pc' \in [Workers -> Labels] /\ pc'[w] = "ret"
           /\ at' \in [Workers -> Nodes \cup {NoNode}] /\ at'[w] = n
           /\ ret' \in [Workers -> Result] /\ ret'[w] = r
           /\ \A v \in Workers \ {w} : pc'[v] = pc[v] /\ at'[v] = at[v] /\ ret'[v] = ret[v]
<1>1. Goto(w, "ret") /\ "ret" \in Labels /\ at' = [at EXCEPT ![w] = n]
  BY DEF Return, Labels
<1>2. /\ ret' \in [Workers -> Result] /\ ret'[w] = r
      /\ \A v \in Workers \ {w} : ret'[v] = ret[v]
  BY DEF TypeOK, Return
<1> QED
  BY <1>1, <1>2, GotoFacts, AtFacts

LEMMA ResultFacts ==
    ASSUME NEW ok \in BOOLEAN, NEW refuted \in BOOLEAN
    PROVE  /\ [ok |-> ok, refuted |-> refuted] \in Result
           /\ [ok |-> ok, refuted |-> refuted].ok = ok
           /\ [ok |-> ok, refuted |-> refuted].refuted = refuted
BY Zenon DEF Result

LEMMA NothingFacts == Nothing \in Result /\ ~Nothing.ok /\ ~Nothing.refuted
<1>1. FALSE \in BOOLEAN
  OBVIOUS
<1> QED
  BY <1>1, Zenon DEF Nothing, Result

LEMMA VerdictFacts ==
    ASSUME NEW n
    PROVE  /\ Verdict(n) \in Result /\ Verdict(n).ok = Wins(n)
           /\ Verdict(n).refuted = (value[n] = "refuted")
<1>1. Wins(n) \in BOOLEAN /\ (value[n] = "refuted") \in BOOLEAN
  BY DEF Wins
<1> QED
  BY <1>1, Zenon DEF Verdict, Result

\* A loop that ends hands its node back to the loop below.
LEMMA ComeBack ==
    ASSUME Fits, TypeOK', NEW w \in Workers, OthersStay(w), Height(w) > 0,
           Searches(Top(w)), Pop(w), pc'[w] = "ret", at'[w] = Top(w).node
    PROVE  Fits'
<1>1. Height(w) > 1 /\ Height(w) \in Nat
  BY TopFacts DEF Searches
<1>2. Above(Top(w), Loop(w, Height(w) - 1))
  BY <1>1, TopFacts
<1>3. TopFits(pc'[w], at'[w], Loop(w, Height(w) - 1))
  BY <1>2 DEF Above, TopFits, Searches
<1> QED
  BY <1>1, <1>3, PopStep

\* The loops that the actions put on a stack.
LEMMA RootRecheckPush ==
    ASSUME Fits, NEW w \in Workers, RootRecheck(w), ~(Priority[at[w]] > best)
    PROVE  \E f \in Loops : /\ Push(w, f) /\ f.kind = "root" /\ f.node = at[w]
                            /\ f.i = Priority[at[w]]
<1> DEFINE g == Frame("root", at[w], Priority[at[w]], FALSE, 0)
<1>1. Push(w, g)
  BY DEF RootRecheck
<1>2. /\ at[w] \in Nodes /\ Priority[at[w]] \in Nat /\ 0 \in Nat /\ FALSE \in BOOLEAN
  BY LabelFacts, Tree DEF RootRecheck
<1>3. g \in Loops /\ g.kind = "root" /\ g.node = at[w] /\ g.i = Priority[at[w]]
  BY <1>2, Zenon DEF Frame, Loops
<1> HIDE DEF g
<1> QED
  BY <1>1, <1>3, Zenon

LEMMA OpenNodePush ==
    ASSUME Fits, NEW w \in Workers, OpenNode(w)
    PROVE  \E f \in Loops : /\ Push(w, f) /\ f.kind = "loop" /\ f.node = at[w] /\ f.i = 1
                            /\ f.hopeless = (at[w] \in OrNodes)
<1> DEFINE g == Frame("loop", at[w], 1, at[w] \in OrNodes, 0)
<1>1. Push(w, g)
  BY DEF OpenNode
<1>2. /\ at[w] \in Nodes /\ (at[w] \in OrNodes) \in BOOLEAN /\ 1 \in Nat /\ 0 \in Nat
  BY LabelFacts DEF OpenNode, Searching
<1>3. /\ g \in Loops /\ g.kind = "loop" /\ g.node = at[w] /\ g.i = 1
      /\ g.hopeless = (at[w] \in OrNodes)
  BY <1>2, Zenon DEF Frame, Loops
<1> HIDE DEF g
<1> QED
  BY <1>1, <1>3, Zenon

LEMMA PublishRepliesPush ==
    ASSUME Fits, NEW w \in Workers, PublishReplies(w)
    PROVE  \E f \in Loops : Push(w, f) /\ f.kind = "own" /\ f.node = at[w] /\ f.i = 1
<1> DEFINE g == Frame("own", at[w], 1, FALSE, maxOwned[w])
<1>1. Push(w, g)
  BY DEF PublishReplies
<1>2. /\ at[w] \in Nodes /\ maxOwned[w] \in Nat /\ 1 \in Nat /\ FALSE \in BOOLEAN
  BY LabelFacts DEF PublishReplies, Searching, Fits, TypeOK
<1>3. g \in Loops /\ g.kind = "own" /\ g.node = at[w] /\ g.i = 1
  BY <1>2, Zenon DEF Frame, Loops
<1> HIDE DEF g
<1> QED
  BY <1>1, <1>3, Zenon

LEMMA NextKidRetop ==
    ASSUME Fits, NEW w \in Workers, NextKid(w)
    PROVE  \E f \in Loops : /\ Retop(w, f) /\ f.kind = "loop" /\ f.node = Top(w).node
                            /\ f.i = Top(w).i + 1 /\ f.hopeless = Top(w).hopeless
<1> DEFINE g == [Top(w) EXCEPT !.i = @ + 1]
<1>1. Retop(w, g)
  BY DEF NextKid
<1>2. /\ Top(w) \in Loops /\ Top(w).kind = "loop" /\ Top(w).i + 1 \in Nat
  BY LabelFacts, TopFacts DEF NextKid, InLoop
<1>3. g \in Loops /\ g.hopeless = Top(w).hopeless
  BY <1>2, Zenon DEF Loops
<1>4. g.kind = "loop" /\ g.node = Top(w).node /\ g.i = Top(w).i + 1
  BY <1>2, SMT DEF Loops
<1> HIDE DEF g
<1> QED
  BY <1>1, <1>3, <1>4, Zenon

LEMMA BackInLoopRetop ==
    ASSUME Fits, NEW w \in Workers, BackInLoop(w), ~aborted[w],
           ~(ret[w].ok = (Top(w).node \in OrNodes))
    PROVE  \E f \in Loops : /\ Retop(w, f) /\ f.kind = "loop" /\ f.node = Top(w).node
                            /\ f.i = Top(w).i
                            /\ f.hopeless = (Top(w).hopeless /\ ret[w].refuted)
<1> DEFINE g == [Top(w) EXCEPT !.hopeless = @ /\ ret[w].refuted]
<1>1. Retop(w, g)
  BY Zenon DEF BackInLoop
<1>2. Top(w) \in Loops /\ Top(w).kind = "loop" /\ Top(w).hopeless \in BOOLEAN
  BY LabelFacts, TopFacts DEF BackInLoop, InLoop
<1>3. ret[w].refuted \in BOOLEAN
  BY Zenon DEF Fits, TypeOK, Result
<1>4. /\ g \in Loops /\ g.kind = "loop" /\ g.node = Top(w).node /\ g.i = Top(w).i
      /\ g.hopeless = (Top(w).hopeless /\ ret[w].refuted)
  BY <1>2, <1>3, Zenon DEF Loops
<1> HIDE DEF g
<1> QED
  BY <1>1, <1>4, Zenon

LEMMA ShareRetop ==
    ASSUME Fits, NEW w \in Workers, Share(w)
    PROVE  \E f \in Loops : /\ Retop(w, f) /\ f.kind = "own" /\ f.node = Top(w).node
                            /\ f.i = Top(w).i /\ f.hopeless = Top(w).hopeless
<1> DEFINE g == Frame("own", Top(w).node, Top(w).i, Top(w).hopeless, maxOwned[w])
<1>1. Retop(w, g)
  BY DEF Share
<1>2. /\ Top(w).node \in Nodes /\ Top(w).i \in Nat /\ Top(w).hopeless \in BOOLEAN
      /\ maxOwned[w] \in Nat
  BY LabelFacts, TopFacts DEF Share, InLoop, Fits, TypeOK
<1>3. /\ g \in Loops /\ g.kind = "own" /\ g.node = Top(w).node /\ g.i = Top(w).i
      /\ g.hopeless = Top(w).hopeless
  BY <1>2, Zenon DEF Frame, Loops
<1> HIDE DEF g
<1> QED
  BY <1>1, <1>3, Zenon

LEMMA RunPush ==
    ASSUME Fits, NEW w \in Workers, NEW n \in Nodes, Run(w, n)
    PROVE  \E f \in Loops : /\ Push(w, f) /\ f.kind = "run" /\ f.node = n
                            /\ f.i = split[n].next
<1> DEFINE g == Frame("run", n, split[n].next, FALSE, 0)
<1>1. Push(w, g)
  BY DEF Run
<1>2. split[n].next \in Nat /\ 0 \in Nat /\ FALSE \in BOOLEAN
  BY SplitParts DEF Fits, TypeOK
<1>3. g \in Loops /\ g.kind = "run" /\ g.node = n /\ g.i = split[n].next
  BY <1>2, Zenon DEF Frame, Loops
<1> HIDE DEF g
<1> QED
  BY <1>1, <1>3, Zenon

-----------------------------------------------------------------------------
(* First layer: the actions. *)

LEMMA RootClaimFits ==
    ASSUME Fits, NEW w \in Workers, RootClaim(w)
    PROVE  Fits'
<1>1. TypeOK /\ Height(w) = 0 /\ pc[w] = "claim" /\ nextIndex \in Nat
  BY LabelFacts DEF Fits, RootClaim, TypeOK
<1>2. /\ nextIndex' = nextIndex + 1 /\ stack' = stack
      /\ UNCHANGED <<value, best, proved, cancel, liveRoots, openCount, nextSeq, slot, split,
                     ret, aborted, timedOut, maxOwned, happened>>
  BY DEF RootClaim
<1>3. \/ /\ pc' = [pc EXCEPT ![w] = "help"] /\ idle' = idle + 1 /\ UNCHANGED <<at, current>>
      \/ /\ pc' = [pc EXCEPT ![w] = "done"] /\ current' = [current EXCEPT ![w] = N]
         /\ UNCHANGED <<at, idle>>
      \/ /\ nextIndex \in Roots /\ pc' = [pc EXCEPT ![w] = "publish"]
         /\ at' = [at EXCEPT ![w] = RootNode[nextIndex]] /\ UNCHANGED <<idle, current>>
  BY <1>1, Tree DEF RootClaim, Goto, Roots
<1>4. /\ pc' \in [Workers -> Labels] /\ at' \in [Workers -> Nodes \cup {NoNode}]
      /\ nextIndex' \in Nat
  <2>1. {"help", "done", "publish"} \subseteq Labels
    BY DEF Labels
  <2>2. pc' \in [Workers -> Labels]
    BY <1>1, <1>3, <2>1, GotoFacts DEF Goto
  <2>3. at' \in [Workers -> Nodes \cup {NoNode}]
    <3>1. at \in [Workers -> Nodes \cup {NoNode}]
      BY <1>1 DEF TypeOK
    <3>2. nextIndex \in Roots => RootNode[nextIndex] \in Nodes
      BY Tree
    <3> QED
      BY <1>3, <3>1, <3>2
  <2> QED
    BY <1>1, <1>2, <2>2, <2>3
<1>5. TypeOK'
  BY <1>1, <1>2, <1>4 DEF TypeOK
<1>6. OthersStay(w)
  BY <1>1, <1>2, <1>3 DEF OthersStay, TypeOK
<1>7. Here(w)'
  <2>1. Height(w)' = 0
    BY <1>1, <1>2 DEF Height
  <2>2. \/ pc'[w] \in {"help", "done"}
        \/ pc'[w] = "publish" /\ nextIndex \in Roots /\ at'[w] = RootNode[nextIndex]
    BY <1>1, <1>3 DEF TypeOK
  <2>3. nextIndex < nextIndex'
    BY <1>1, <1>2
  <2> QED
    BY <2>1, <2>2, <2>3 DEF Here
<1> QED
  BY <1>1, <1>2, <1>5, <1>6, <1>7, StayStep

LEMMA RootPublishFits ==
    ASSUME Fits, NEW w \in Workers, RootPublish(w)
    PROVE  Fits'
<1>1. TypeOK /\ Height(w) = 0 /\ pc[w] = "publish" /\ Here(w)
  BY LabelFacts DEF Fits, RootPublish
<1>2. /\ stack' = stack /\ pc' = [pc EXCEPT ![w] = "recheck"]
      /\ current' = [current EXCEPT ![w] = Priority[at[w]]]
      /\ cancel' = [cancel EXCEPT ![w] = FALSE] /\ aborted' = [aborted EXCEPT ![w] = FALSE]
      /\ UNCHANGED <<value, nextIndex, best, proved, liveRoots, idle, openCount, nextSeq,
                     slot, split, at, ret, timedOut, maxOwned, happened>>
  BY DEF RootPublish, Announce, Goto, registry
<1>3. TypeOK'
  <2>1. Priority[at[w]] \in Int
    BY <1>1, LabelFacts, Tree
  <2>2. cancel' \in [Workers -> BOOLEAN] /\ aborted' \in [Workers -> BOOLEAN]
    BY <1>1, <1>2, Zenon DEF TypeOK
  <2> QED
    BY <1>1, <1>2, <2>1, <2>2 DEF TypeOK, Labels
<1>4. OthersStay(w)
  BY <1>1, <1>2 DEF OthersStay, TypeOK
<1>5. Here(w)'
  BY <1>1, <1>2 DEF Here, TypeOK, Height
<1> QED
  BY <1>1, <1>2, <1>3, <1>4, <1>5, StayStep

LEMMA RootRecheckFits ==
    ASSUME Fits, NEW w \in Workers, RootRecheck(w)
    PROVE  Fits'
<1>1. TypeOK /\ Height(w) = 0 /\ pc[w] = "recheck" /\ Here(w)
      /\ at[w] \in Nodes /\ Priority[at[w]] \in Roots /\ Priority[at[w]] < nextIndex
      /\ at[w] = RootNode[Priority[at[w]]] /\ Priority[at[w]] \in Nat
  BY LabelFacts, Tree DEF Fits, RootRecheck
<1>2. UNCHANGED <<value, nextIndex, best, proved, current, cancel, idle, openCount, nextSeq,
                  slot, split, at, ret, aborted, timedOut, maxOwned, happened>>
  BY DEF RootRecheck, root
<1>3. CASE Priority[at[w]] > best
  <2>1. pc' = [pc EXCEPT ![w] = "claim"] /\ UNCHANGED <<stack, liveRoots>>
    BY <1>3 DEF RootRecheck, Goto
  <2>2. TypeOK'
    BY <1>1, <1>2, <2>1 DEF TypeOK, Labels
  <2>3. OthersStay(w)
    BY <1>1, <1>2, <2>1 DEF OthersStay, TypeOK
  <2>4. Here(w)'
    BY <1>1, <1>2, <2>1 DEF Here, TypeOK, Height
  <2> QED
    BY <1>1, <1>2, <2>1, <2>2, <2>3, <2>4, StayStep
<1>4. CASE ~(Priority[at[w]] > best)
  <2>1. pc' = [pc EXCEPT ![w] = "enter"] /\ liveRoots' = liveRoots + 1
    BY <1>4 DEF RootRecheck, Goto
  <2>2. PICK f \in Loops : /\ f.kind = "root" /\ f.node = at[w] /\ f.i = Priority[at[w]]
                          /\ Push(w, f)
    BY <1>4, RootRecheckPush
  <2>3. /\ stack' \in [Workers -> Seq(Loops)]
        /\ \A v \in Workers \ {w} : stack'[v] = stack[v]
    BY <1>1, <2>2, PushFacts
  <2>4. TypeOK'
    BY <1>1, <1>2, <2>1, <2>3 DEF TypeOK, Labels
  <2>5. OthersStay(w)
    BY <1>1, <1>2, <2>1, <2>3 DEF OthersStay, TypeOK
  <2>6. LoopFits(f)'
    BY <1>1, <1>2, <2>2 DEF LoopFits
  <2>7. TopFits(pc'[w], at'[w], f)
    BY <1>1, <1>2, <2>1, <2>2 DEF TopFits, TypeOK, Calls, Callee
  <2> QED
    BY <1>1, <1>2, <2>2, <2>4, <2>5, <2>6, <2>7, PushStep
<1> QED
  BY <1>3, <1>4

LEMMA RootDoneFits ==
    ASSUME Fits, NEW w \in Workers, RootDone(w)
    PROVE  Fits'
<1>1. TypeOK /\ Height(w) > 0 /\ pc[w] = "ret" /\ Top(w).kind = "root"
  BY LabelFacts DEF Fits, RootDone
<1>2. /\ Top(w).i \in Roots /\ Height(w) \in Nat
  BY <1>1, TopFacts DEF LoopFits
<1>3. Height(w) = 1
  BY <1>1, <1>2, TopFacts DEF Above
<1>4. /\ pc' = [pc EXCEPT ![w] = "claim"] /\ Pop(w) /\ liveRoots' = liveRoots - 1
      /\ UNCHANGED <<value, nextIndex, current, idle, openCount, nextSeq, slot, split, at,
                     ret, aborted, timedOut, maxOwned, happened>>
  BY DEF RootDone, Goto
<1>5. /\ stack' \in [Workers -> Seq(Loops)]
      /\ \A v \in Workers \ {w} : stack'[v] = stack[v]
  BY <1>1, <1>4, PopFacts
<1>6. best' \in 0 .. N /\ proved' \subseteq Roots
  <2>1. /\ best' \in {best, Top(w).i}
        /\ proved' = proved \/ proved' = proved \cup {Top(w).i}
    BY DEF RootDone
  <2>2. best \in 0 .. N /\ proved \subseteq Roots
    BY <1>1 DEF TypeOK
  <2>3. proved' \subseteq Roots
    BY <1>2, <2>1, <2>2
  <2>4. Top(w).i \in 0 .. N
    BY <1>2, Tree DEF Roots
  <2>5. best' \in 0 .. N
    BY <2>1, <2>2, <2>4
  <2> QED
    BY <2>3, <2>5
<1>7. cancel' \in [Workers -> BOOLEAN]
  <2>1. \/ cancel' = cancel
        \/ \E low : cancel' = [v \in Workers |-> cancel[v] \/ current[v] > low]
    BY DEF RootDone
  <2> QED
    BY <1>1, <2>1, Zenon DEF TypeOK
<1>8. TypeOK'
  BY <1>1, <1>4, <1>5, <1>6, <1>7 DEF TypeOK, Labels
<1>9. OthersStay(w)
  BY <1>1, <1>4, <1>5 DEF OthersStay, TypeOK
<1>10. pc'[w] = "claim"
  BY <1>1, <1>4 DEF TypeOK
<1> QED
  BY <1>1, <1>3, <1>4, <1>8, <1>9, <1>10, PopStep

LEMMA GiveUpFits ==
    ASSUME Fits, NEW w \in Workers, GiveUp(w)
    PROVE  Fits'
<1>1. /\ TypeOK /\ Height(w) > 0 /\ pc[w] = "enter" /\ at[w] \in Nodes
      /\ Calls(Top(w)) /\ at[w] = Callee(Top(w)) /\ Top(w) = Loop(w, Height(w))
  BY LabelFacts, StackFacts DEF Fits, GiveUp
<1>2. /\ Return(w, at[w], Nothing) /\ UNCHANGED <<value, root, registry, stack, maxOwned, happened>>
      /\ aborted' = [aborted EXCEPT ![w] = TRUE]
      /\ \E b \in BOOLEAN : timedOut' = [timedOut EXCEPT ![w] = b]
  BY <1>1 DEF GiveUp, TypeOK
<1>3. /\ pc' \in [Workers -> Labels] /\ pc'[w] = "ret"
      /\ at' \in [Workers -> Nodes \cup {NoNode}] /\ at'[w] = at[w]
      /\ ret' \in [Workers -> Result]
      /\ \A v \in Workers \ {w} : pc'[v] = pc[v] /\ at'[v] = at[v]
  BY <1>1, <1>2, ReturnFacts, NothingFacts
<1>4. aborted' \in [Workers -> BOOLEAN] /\ timedOut' \in [Workers -> BOOLEAN]
  <2>1. TRUE \in BOOLEAN
    OBVIOUS
  <2> QED
    BY <1>1, <1>2, <2>1, Zenon DEF TypeOK
<1>5. TypeOK'
  BY <1>1, <1>2, <1>3, <1>4 DEF TypeOK, root, registry
<1>6. OthersStay(w)
  BY <1>2, <1>3 DEF OthersStay, root
<1>7. Here(w)'
  <2>1. stack' = stack
    BY <1>2
  <2>2. Height(w)' = Height(w) /\ Loop(w, Height(w))' = Loop(w, Height(w))
    BY <2>1 DEF Height, Loop
  <2> QED
    BY <1>1, <1>3, <2>2 DEF Here, TopFits, Calls, Callee
<1> QED
  BY <1>2, <1>5, <1>6, <1>7, StayStep

LEMMA SearchLeafFits ==
    ASSUME Fits, NEW w \in Workers, SearchLeaf(w)
    PROVE  Fits'
<1>1. /\ TypeOK /\ Height(w) > 0 /\ pc[w] = "enter" /\ at[w] \in Nodes
      /\ Calls(Top(w)) /\ at[w] = Callee(Top(w)) /\ Top(w) = Loop(w, Height(w))
  BY LabelFacts, StackFacts DEF Fits, SearchLeaf, Searching
<1>2. /\ Return(w, at[w], Verdict(at[w]))
      /\ UNCHANGED <<value, root, registry, stack, aborted, timedOut, maxOwned, happened>>
  BY DEF SearchLeaf
<1>3. /\ pc' \in [Workers -> Labels] /\ pc'[w] = "ret"
      /\ at' \in [Workers -> Nodes \cup {NoNode}] /\ at'[w] = at[w]
      /\ ret' \in [Workers -> Result]
      /\ \A v \in Workers \ {w} : pc'[v] = pc[v] /\ at'[v] = at[v]
  BY <1>1, <1>2, ReturnFacts, VerdictFacts
<1>4. TypeOK'
  BY <1>1, <1>2, <1>3 DEF TypeOK, root, registry
<1>5. OthersStay(w)
  BY <1>2, <1>3 DEF OthersStay, root
<1>6. Here(w)'
  <2>1. stack' = stack
    BY <1>2
  <2>2. Height(w)' = Height(w) /\ Loop(w, Height(w))' = Loop(w, Height(w))
    BY <2>1 DEF Height, Loop
  <2> QED
    BY <1>1, <1>3, <2>2 DEF Here, TopFits, Calls, Callee
<1> QED
  BY <1>2, <1>4, <1>5, <1>6, StayStep

LEMMA OpenNodeFits ==
    ASSUME Fits, NEW w \in Workers, OpenNode(w)
    PROVE  Fits'
<1>1. /\ TypeOK /\ Height(w) > 0 /\ pc[w] = "enter" /\ at[w] \in Nodes
      /\ Calls(Top(w)) /\ at[w] = Callee(Top(w)) /\ Len(Kids[at[w]]) \in Nat
  BY LabelFacts, Tree DEF Fits, OpenNode, Searching
<1>2. /\ Push(w, Frame("loop", at[w], 1, at[w] \in OrNodes, 0)) /\ Goto(w, "loop")
      /\ UNCHANGED <<value, root, registry, at, ret, aborted, timedOut, maxOwned, happened>>
  BY DEF OpenNode
<1>3. PICK f \in Loops : Push(w, f) /\ f.kind = "loop" /\ f.node = at[w] /\ f.i = 1
  BY OpenNodePush
<1>4. Push(w, f)
  BY <1>3
<1>5. /\ stack' \in [Workers -> Seq(Loops)]
      /\ \A v \in Workers \ {w} : stack'[v] = stack[v]
  BY <1>1, <1>4, PushFacts
<1>6. /\ pc' \in [Workers -> Labels] /\ pc'[w] = "loop"
      /\ \A v \in Workers \ {w} : pc'[v] = pc[v]
  BY <1>1, <1>2, GotoFacts DEF Labels
<1>7. TypeOK'
  BY <1>1, <1>2, <1>5, <1>6 DEF TypeOK, root, registry
<1>8. OthersStay(w)
  BY <1>2, <1>5, <1>6 DEF OthersStay, root
<1>9. LoopFits(f)' /\ TopFits(pc'[w], at'[w], f)
  BY <1>1, <1>3, <1>6 DEF LoopFits, TopFits
<1>10. Above(f, Top(w))
  BY <1>1, <1>3 DEF Above, Calls
<1> QED
  BY <1>1, <1>4, <1>7, <1>8, <1>9, <1>10, PushStep

LEMMA PublishRepliesFits ==
    ASSUME Fits, NEW w \in Workers, PublishReplies(w)
    PROVE  Fits'
<1>1. /\ TypeOK /\ Height(w) > 0 /\ pc[w] = "enter" /\ at[w] \in Nodes
      /\ Calls(Top(w)) /\ at[w] = Callee(Top(w)) /\ Len(Kids[at[w]]) \in Nat
      /\ maxOwned[w] \in Nat
  BY LabelFacts, Tree DEF Fits, PublishReplies, Searching, TypeOK
<1>2. /\ split' = [split EXCEPT ![at[w]] = Published(at[w], 1, 0, w)]
      /\ slot' = [slot EXCEPT ![w] = at[w]]
      /\ Push(w, Frame("own", at[w], 1, FALSE, maxOwned[w])) /\ Goto(w, "own")
      /\ UNCHANGED <<value, root, liveRoots, idle, openCount, nextSeq, at, ret, aborted,
                     timedOut, maxOwned, happened>>
  BY DEF PublishReplies
<1>3. FALSE \in BOOLEAN /\ 1 \in Nat /\ 1 \in Nat \ {0} /\ 0 \in Nat
  OBVIOUS
<1>4. PICK f \in Loops : Push(w, f) /\ f.kind = "own" /\ f.node = at[w] /\ f.i = 1
  BY PublishRepliesPush
<1>5. Push(w, f)
  BY <1>4
<1>6. /\ stack' \in [Workers -> Seq(Loops)]
      /\ \A v \in Workers \ {w} : stack'[v] = stack[v]
  BY <1>1, <1>5, PushFacts
<1>7. /\ pc' \in [Workers -> Labels] /\ pc'[w] = "own"
      /\ \A v \in Workers \ {w} : pc'[v] = pc[v]
  BY <1>1, <1>2, GotoFacts DEF Labels
<1>8. /\ split' \in [Nodes -> Splits] /\ slot' \in [Workers -> Nodes \cup {NoNode}]
      /\ \A n \in Nodes : Len(split'[n].state) <= Len(Kids[n])
  <2>1. /\ Published(at[w], 1, 0, w) \in Splits
        /\ Len(Published(at[w], 1, 0, w).state) = Len(Kids[at[w]])
    BY <1>1, <1>3, PublishedFacts
  <2> QED
    BY <1>1, <1>2, <2>1 DEF TypeOK
<1>9. TypeOK'
  BY <1>1, <1>2, <1>6, <1>7, <1>8 DEF TypeOK, root
<1>10. OthersStay(w)
  BY <1>2, <1>6, <1>7 DEF OthersStay, root
<1>11. LoopFits(f)' /\ TopFits(pc'[w], at'[w], f)
  <2>1. /\ f.kind = "own" /\ f.node = at[w] /\ f.i = 1
    BY <1>4
  <2> QED
    BY <1>1, <1>7, <2>1 DEF LoopFits, TopFits
<1>12. Above(f, Top(w))
  BY <1>1, <1>4 DEF Above, Calls
<1> QED
  BY <1>1, <1>5, <1>9, <1>10, <1>11, <1>12, PushStep

\* A step of a worker whose loop ends.
LEMMA LoopGone ==
    ASSUME Fits, NEW w \in Workers, Height(w) > 0, Searches(Top(w)), Pop(w),
           NEW r \in Result, Return(w, Top(w).node, r),
           maxOwned' \in [Workers -> Nat], aborted' \in [Workers -> BOOLEAN],
           UNCHANGED <<value, root, registry, timedOut, happened>>
    PROVE  Fits'
<1>1. TypeOK /\ Top(w).node \in Nodes
  BY TopFacts DEF Fits
<1>2. /\ pc' \in [Workers -> Labels] /\ pc'[w] = "ret"
      /\ at' \in [Workers -> Nodes \cup {NoNode}] /\ at'[w] = Top(w).node
      /\ ret' \in [Workers -> Result]
      /\ \A v \in Workers \ {w} : pc'[v] = pc[v] /\ at'[v] = at[v]
  BY <1>1, ReturnFacts
<1>3. /\ stack' \in [Workers -> Seq(Loops)]
      /\ \A v \in Workers \ {w} : stack'[v] = stack[v]
  BY <1>1, PopFacts
<1>4. TypeOK'
  BY <1>1, <1>2, <1>3 DEF TypeOK, root, registry
<1>5. OthersStay(w)
  BY <1>2, <1>3 DEF OthersStay, root
<1> QED
  BY <1>2, <1>4, <1>5, ComeBack

LEMMA LoopEndsFits ==
    ASSUME Fits, NEW w \in Workers, LoopEnds(w)
    PROVE  Fits'
<1>1. /\ TypeOK /\ Height(w) > 0 /\ Top(w).kind = "loop" /\ Searches(Top(w))
      /\ Top(w).hopeless \in BOOLEAN
  BY LabelFacts, TopFacts DEF Fits, LoopEnds, InLoop, Searches
<1>2. PICK r \in Result : Return(w, Top(w).node, r)
  <2>1. CASE Return(w, Top(w).node, [ok |-> TRUE, refuted |-> FALSE])
    <3>1. TRUE \in BOOLEAN /\ FALSE \in BOOLEAN
      OBVIOUS
    <3>2. [ok |-> TRUE, refuted |-> FALSE] \in Result
      BY <3>1, Zenon DEF Result
    <3> QED
      BY <2>1, <3>2, Zenon
  <2>2. CASE Return(w, Top(w).node,
                    [ok |-> ~(Top(w).node \in OrNodes),
                     refuted |-> Top(w).node \in OrNodes /\ Top(w).hopeless])
    <3>1. [ok |-> ~(Top(w).node \in OrNodes),
           refuted |-> Top(w).node \in OrNodes /\ Top(w).hopeless] \in Result
      BY <1>1, Zenon DEF Result
    <3> QED
      BY <2>2, <3>1, Zenon
  <2> QED
    BY <2>1, <2>2, Zenon DEF LoopEnds
<1>3. /\ Pop(w) /\ UNCHANGED <<value, root, registry, aborted, timedOut, maxOwned, happened>>
  BY DEF LoopEnds
<1>4. maxOwned' \in [Workers -> Nat] /\ aborted' \in [Workers -> BOOLEAN]
  BY <1>1, <1>3 DEF TypeOK
<1> QED
  BY <1>1, <1>2, <1>3, <1>4, LoopGone

LEMMA NextKidFits ==
    ASSUME Fits, NEW w \in Workers, NextKid(w)
    PROVE  Fits'
<1>1. /\ TypeOK /\ Height(w) > 0 /\ Top(w).kind = "loop" /\ Searches(Top(w))
      /\ Top(w) \in Loops /\ Top(w).node \in Nodes /\ Top(w).i \in Nat
      /\ Top(w).i \in 1 .. Len(Kids[Top(w).node]) + 1 /\ Len(Kids[Top(w).node]) \in Nat
      /\ Top(w).i <= Len(Kids[Top(w).node])
  BY LabelFacts, TopFacts, Tree DEF Fits, NextKid, InLoop, Searches, HasKid, LoopFits
<1>2. /\ Goto(w, "enter") /\ at' = [at EXCEPT ![w] = Kids[Top(w).node][Top(w).i]]
      /\ Retop(w, [Top(w) EXCEPT !.i = @ + 1])
      /\ UNCHANGED <<value, root, registry, ret, aborted, timedOut, maxOwned, happened>>
  BY DEF NextKid, Enter, Kid
<1>3. PICK f \in Loops : /\ Retop(w, f) /\ f.kind = "loop" /\ f.node = Top(w).node
                        /\ f.i = Top(w).i + 1
  BY NextKidRetop
<1>4. Retop(w, f) /\ Searches(f)
  BY <1>3 DEF Searches
<1>5. /\ stack' \in [Workers -> Seq(Loops)]
      /\ \A v \in Workers \ {w} : stack'[v] = stack[v]
  BY <1>1, <1>4, RetopFacts
<1>6. /\ pc' \in [Workers -> Labels] /\ pc'[w] = "enter"
      /\ \A v \in Workers \ {w} : pc'[v] = pc[v]
  BY <1>1, <1>2, GotoFacts DEF Labels
<1>7. /\ at' \in [Workers -> Nodes \cup {NoNode}] /\ at'[w] = Kids[Top(w).node][Top(w).i]
      /\ \A v \in Workers \ {w} : at'[v] = at[v]
  <2>1. Kids[Top(w).node][Top(w).i] \in Nodes
    BY <1>1, Tree
  <2> QED
    BY <1>1, <1>2, <2>1, AtFacts
<1>8. TypeOK'
  BY <1>1, <1>2, <1>5, <1>6, <1>7 DEF TypeOK, root, registry
<1>9. OthersStay(w)
  BY <1>2, <1>5, <1>6, <1>7 DEF OthersStay, root
<1>10. LoopFits(f)'
  BY <1>1, <1>3 DEF LoopFits
<1>11. TopFits(pc'[w], at'[w], f)
  BY <1>1, <1>3, <1>6, <1>7 DEF TopFits, Calls, Callee
<1> QED
  BY <1>1, <1>3, <1>4, <1>8, <1>9, <1>10, <1>11, RetopStep

LEMMA BackInLoopFits ==
    ASSUME Fits, NEW w \in Workers, BackInLoop(w)
    PROVE  Fits'
<1>1. /\ TypeOK /\ Height(w) > 0 /\ Top(w).kind = "loop" /\ Searches(Top(w))
      /\ Top(w) \in Loops /\ Top(w).hopeless \in BOOLEAN /\ LoopFits(Top(w))
      /\ ret[w].refuted \in BOOLEAN
  <2>1. ret[w].refuted \in BOOLEAN
    BY Zenon DEF Fits, TypeOK, Result
  <2> QED
    BY <2>1, LabelFacts, TopFacts DEF Fits, BackInLoop, InLoop, Searches
<1>2. UNCHANGED <<value, root, registry, aborted, timedOut, maxOwned, happened>>
  BY DEF BackInLoop
<1>3. maxOwned' \in [Workers -> Nat] /\ aborted' \in [Workers -> BOOLEAN]
  BY <1>1, <1>2 DEF TypeOK
<1>4. CASE aborted[w]
  <2>1. Pop(w) /\ Return(w, Top(w).node, Nothing)
    BY <1>4 DEF BackInLoop
  <2> QED
    BY <1>1, <1>2, <1>3, <2>1, LoopGone, NothingFacts
<1>5. CASE ~aborted[w] /\ ret[w].ok = (Top(w).node \in OrNodes)
  <2>1. /\ Pop(w)
        /\ Return(w, Top(w).node, [ok |-> Top(w).node \in OrNodes,
                                   refuted |-> ~(Top(w).node \in OrNodes) /\ ret[w].refuted])
    BY <1>5, Zenon DEF BackInLoop
  <2>2. [ok |-> Top(w).node \in OrNodes,
         refuted |-> ~(Top(w).node \in OrNodes) /\ ret[w].refuted] \in Result
    <3>1. /\ (Top(w).node \in OrNodes) \in BOOLEAN
          /\ (~(Top(w).node \in OrNodes) /\ ret[w].refuted) \in BOOLEAN
      OBVIOUS
    <3> QED
      BY <3>1, Zenon DEF Result
  <2>3. PICK r \in Result : Return(w, Top(w).node, r)
    BY <2>1, <2>2, Zenon
  <2> QED
    BY <1>1, <1>2, <1>3, <2>1, <2>3, LoopGone
<1>6. CASE ~aborted[w] /\ ~(ret[w].ok = (Top(w).node \in OrNodes))
  <2>1. /\ Retop(w, [Top(w) EXCEPT !.hopeless = @ /\ ret[w].refuted])
        /\ Goto(w, "loop") /\ UNCHANGED <<at, ret>>
    BY <1>6, Zenon DEF BackInLoop
  <2>2. PICK f \in Loops : /\ Retop(w, f) /\ f.kind = "loop" /\ f.node = Top(w).node
                          /\ f.i = Top(w).i
    BY <1>6, BackInLoopRetop, Zenon
  <2>3. Retop(w, f) /\ Searches(f)
    BY <2>2 DEF Searches
  <2>4. /\ stack' \in [Workers -> Seq(Loops)]
        /\ \A v \in Workers \ {w} : stack'[v] = stack[v]
    BY <1>1, <2>3, RetopFacts
  <2>5. /\ pc' \in [Workers -> Labels] /\ pc'[w] = "loop"
        /\ \A v \in Workers \ {w} : pc'[v] = pc[v]
    BY <1>1, <2>1, GotoFacts DEF Labels
  <2>6. TypeOK'
    BY <1>1, <1>2, <2>1, <2>4, <2>5 DEF TypeOK, root, registry
  <2>7. OthersStay(w)
    BY <1>2, <2>1, <2>4, <2>5 DEF OthersStay, root
  <2>8. LoopFits(f)' /\ TopFits(pc'[w], at'[w], f)
    <3>1. f.kind = "loop" /\ f.node = Top(w).node /\ f.i = Top(w).i
      BY <2>2
    <3> QED
      BY <1>1, <2>5, <3>1 DEF LoopFits, TopFits
  <2>9. f.node = Top(w).node
    BY <2>2
  <2> QED
    BY <1>1, <2>3, <2>6, <2>7, <2>8, <2>9, RetopStep
<1> QED
  BY <1>4, <1>5, <1>6, Zenon

\* A step that only moves a worker's label on.
LEMMA OnlyLabel ==
    ASSUME Fits, NEW w \in Workers, NEW l \in Labels, Goto(w, l), Height(w) > 0,
           TopFits(l, at[w], Top(w)), l \notin {"announce", "enter", "ret"},
           slot' \in [Workers -> Nodes \cup {NoNode}], split' \in [Nodes -> Splits],
           \A n \in Nodes : Len(split'[n].state) <= Len(Kids[n]),
           UNCHANGED <<value, root, nextSeq, stack, at, ret, aborted, timedOut, maxOwned,
                       happened>>
    PROVE  Fits'
<1>1. TypeOK /\ Top(w) = Loop(w, Height(w))
  BY TopFacts DEF Fits
<1>2. /\ pc' \in [Workers -> Labels] /\ pc'[w] = l
      /\ \A v \in Workers \ {w} : pc'[v] = pc[v]
  BY <1>1, GotoFacts
<1>3. TypeOK'
  BY <1>1, <1>2 DEF TypeOK, root
<1>4. OthersStay(w)
  BY <1>2 DEF OthersStay, root
<1>5. Here(w)'
  <2>1. Height(w)' = Height(w) /\ Loop(w, Height(w))' = Loop(w, Height(w))
    BY DEF Height, Loop
  <2> QED
    BY <1>1, <1>2, <2>1 DEF Here, TopFits, Calls, Callee
<1> QED
  BY <1>3, <1>4, <1>5, StayStep

LEMMA SeeDemandFits ==
    ASSUME Fits, NEW w \in Workers, SeeDemand(w)
    PROVE  Fits'
<1>1. /\ TypeOK /\ Height(w) > 0 /\ Top(w).kind = "loop" /\ Top(w).node \in OrNodes
  BY LabelFacts, Tree DEF Fits, SeeDemand, InLoop, Wanted
<1>2. /\ Goto(w, "share")
      /\ UNCHANGED <<value, root, registry, stack, at, ret, aborted, timedOut, maxOwned,
                     happened>>
  BY DEF SeeDemand
<1>3. TopFits("share", at[w], Top(w)) /\ "share" \in Labels
  BY <1>1 DEF TopFits, Labels
<1>4. /\ slot' \in [Workers -> Nodes \cup {NoNode}] /\ split' \in [Nodes -> Splits]
      /\ nextSeq' = nextSeq /\ \A n \in Nodes : Len(split'[n].state) <= Len(Kids[n])
  BY <1>1, <1>2 DEF TypeOK, registry
<1> QED
  BY <1>1, <1>2, <1>3, <1>4, OnlyLabel

LEMMA ShareFits ==
    ASSUME Fits, NEW w \in Workers, Share(w)
    PROVE  Fits'
<1>1. /\ TypeOK /\ Height(w) > 0 /\ Top(w).kind = "loop" /\ Searches(Top(w))
      /\ Top(w).node \in OrNodes /\ Top(w).node \in Nodes
      /\ Top(w).i \in 1 .. Len(Kids[Top(w).node]) + 1 /\ Len(Kids[Top(w).node]) \in Nat
      /\ Top(w).hopeless \in BOOLEAN /\ maxOwned[w] \in Nat /\ nextSeq \in Nat
  BY LabelFacts, TopFacts, Tree DEF Fits, Share, InLoop, Searches, LoopFits, TypeOK
<1>2. /\ split' = [split EXCEPT ![Top(w).node] = Published(Top(w).node, Top(w).i, nextSeq, w)]
      /\ slot' = [slot EXCEPT ![w] = Top(w).node]
      /\ Retop(w, Frame("own", Top(w).node, Top(w).i, Top(w).hopeless, maxOwned[w]))
      /\ nextSeq' = nextSeq + 1 /\ maxOwned' = [maxOwned EXCEPT ![w] = nextSeq]
      /\ Goto(w, "own")
      /\ UNCHANGED <<value, root, at, ret, aborted, timedOut, happened>>
  BY DEF Share
<1>3. PICK f \in Loops : /\ Retop(w, f) /\ f.kind = "own" /\ f.node = Top(w).node
                        /\ f.i = Top(w).i
  BY ShareRetop
<1>4. Retop(w, f) /\ Searches(f)
  BY <1>3 DEF Searches
<1>5. /\ stack' \in [Workers -> Seq(Loops)]
      /\ \A v \in Workers \ {w} : stack'[v] = stack[v]
  BY <1>1, <1>4, RetopFacts
<1>6. /\ pc' \in [Workers -> Labels] /\ pc'[w] = "own"
      /\ \A v \in Workers \ {w} : pc'[v] = pc[v]
  BY <1>1, <1>2, GotoFacts DEF Labels
<1>7. /\ split' \in [Nodes -> Splits] /\ slot' \in [Workers -> Nodes \cup {NoNode}]
      /\ maxOwned' \in [Workers -> Nat] /\ nextSeq' \in Nat
      /\ \A n \in Nodes : Len(split'[n].state) <= Len(Kids[n])
  <2>0. Top(w).i \in Nat \ {0}
    BY <1>1
  <2>1. /\ Published(Top(w).node, Top(w).i, nextSeq, w) \in Splits
        /\ Len(Published(Top(w).node, Top(w).i, nextSeq, w).state) = Len(Kids[Top(w).node])
    BY <1>1, <2>0, PublishedFacts
  <2> QED
    BY <1>1, <1>2, <2>1 DEF TypeOK
<1>8. TypeOK'
  BY <1>1, <1>2, <1>5, <1>6, <1>7 DEF TypeOK, root
<1>9. OthersStay(w)
  BY <1>2, <1>5, <1>6 DEF OthersStay, root
<1>10. LoopFits(f)' /\ TopFits(pc'[w], at'[w], f)
  <2>1. f.kind = "own" /\ f.node = Top(w).node /\ f.i = Top(w).i
    BY <1>3
  <2> QED
    BY <1>1, <1>6, <2>1 DEF LoopFits, TopFits
<1>11. f.node = Top(w).node
  BY <1>3
<1> QED
  BY <1>1, <1>4, <1>8, <1>9, <1>10, <1>11, RetopStep

\* run_child begins: a worker takes the child that a split offers next.
LEMMA RunFits ==
    ASSUME Fits, NEW w \in Workers, NEW n \in Nodes, Offers(split[n]), Run(w, n),
           NEW l \in {"enter", "announce"}, Goto(w, l), Height(w) = 0 \/ Top(w).kind = "own",
           UNCHANGED <<value, root, nextSeq, slot, ret, aborted, timedOut, maxOwned, happened>>
    PROVE  Fits'
<1>1. /\ TypeOK /\ split[n] \in Splits /\ Height(w) \in Nat
      /\ split[n].next \in Nat \ {0} /\ split[n].next <= Len(Kids[n]) /\ Len(Kids[n]) \in Nat
      /\ Kids[n][split[n].next] \in Nodes
  <2>1. TypeOK /\ split[n] \in Splits /\ Height(w) \in Nat
    BY StackFacts DEF Fits, TypeOK
  <2>2. split[n].next \in Nat \ {0} /\ Len(split[n].state) \in Nat
    BY <2>1, SplitParts
  <2>3. split[n].next <= Len(split[n].state) /\ Len(split[n].state) <= Len(Kids[n])
    BY <2>1 DEF TypeOK, Offers
  <2>4. Len(Kids[n]) \in Nat /\ split[n].next <= Len(Kids[n])
    BY <2>2, <2>3, Tree
  <2> QED
    BY <2>1, <2>2, <2>4, Tree
<1>2. PICK f \in Loops : /\ Push(w, f) /\ f.kind = "run" /\ f.node = n
                        /\ f.i = split[n].next
  BY RunPush
<1>3. /\ Push(w, f) /\ at' = [at EXCEPT ![w] = Kids[n][split[n].next]]
      /\ split' = [split EXCEPT ![n] = Taken(split[n])]
  BY <1>2 DEF Run
<1>4. /\ stack' \in [Workers -> Seq(Loops)]
      /\ \A v \in Workers \ {w} : stack'[v] = stack[v]
  BY <1>1, <1>3, PushFacts
<1>5. /\ pc' \in [Workers -> Labels] /\ pc'[w] = l
      /\ \A v \in Workers \ {w} : pc'[v] = pc[v]
  BY <1>1, GotoFacts DEF Labels
<1>6. /\ at' \in [Workers -> Nodes \cup {NoNode}] /\ at'[w] = Kids[n][split[n].next]
      /\ \A v \in Workers \ {w} : at'[v] = at[v]
  BY <1>1, <1>3, AtFacts
<1>7. /\ split' \in [Nodes -> Splits]
      /\ \A m \in Nodes : Len(split'[m].state) <= Len(Kids[m])
  <2>1. Taken(split[n]) \in Splits /\ Taken(split[n]).state = split[n].state
    BY <1>1, TakenFacts
  <2> QED
    BY <1>1, <1>3, <2>1 DEF TypeOK
<1>8. TypeOK'
  BY <1>1, <1>4, <1>5, <1>6, <1>7 DEF TypeOK, root
<1>9. OthersStay(w)
  BY <1>4, <1>5, <1>6 DEF OthersStay, root
<1>10. LoopFits(f)' /\ TopFits(pc'[w], at'[w], f)
  <2>1. f.kind = "run" /\ f.node = n /\ f.i = split[n].next
    BY <1>2
  <2> QED
    BY <1>1, <1>5, <1>6, <2>1, Tree DEF LoopFits, TopFits, Calls, Callee
<1>11. f.kind = "run" /\ (Height(w) > 0 => Above(f, Top(w)))
  <2>1. f.kind = "run"
    BY <1>2
  <2> QED
    BY <1>1, <2>1 DEF Above
<1> QED
  BY <1>3, <1>8, <1>9, <1>10, <1>11, PushStep

\* A worker takes a child only where one is offered.
LEMMA ChosenFacts ==
    ASSUME TypeOK, NEW min, Open(min) # {}
    PROVE  /\ Chosen(min) \in Nodes /\ Offers(split[Chosen(min)])
           /\ Priority[Chosen(min)] <= best
<1> DEFINE p(v) == Priority[slot[v]]
<1>1. \A v \in Open(min) : /\ v \in Workers /\ v \in Nat /\ slot[v] \in Nodes
                           /\ Offers(split[slot[v]]) /\ p(v) <= best /\ p(v) \in Nat
  BY Tree DEF Open, TypeOK
<1>2. PICK x \in Open(min) : \A u \in Open(min) : p(x) <= p(u)
  <2> DEFINE S == {p(v) : v \in Open(min)}
  <2>1. S \in SUBSET Nat /\ S # {}
    BY <1>1
  <2>2. PICK k \in S : \A y \in S : k <= y
    BY <2>1, LeastExists
  <2> QED
    BY <2>2
<1>3. PICK v \in Open(min) : p(v) = p(x) /\ \A u \in Open(min) : p(u) = p(x) => v <= u
  <2> DEFINE S == {u \in Open(min) : p(u) = p(x)}
  <2>1. S \in SUBSET Nat /\ S # {}
    BY <1>1
  <2>2. PICK v \in S : \A u \in S : v <= u
    BY <2>1, LeastExists
  <2> QED
    BY <2>2
<1>4. \A u \in Open(min) : p(v) < p(u) \/ (p(v) = p(u) /\ v <= u)
  BY <1>1, <1>2, <1>3
<1>5. \E u \in Open(min) : Chosen(min) = slot[u]
  BY <1>4 DEF Chosen
<1> QED
  BY <1>1, <1>5

LEMMA OwnerClaimsFits ==
    ASSUME Fits, NEW w \in Workers, OwnerClaims(w)
    PROVE  Fits'
<1>1. Height(w) > 0 /\ Top(w).kind = "own" /\ Top(w).node \in Nodes
  BY LabelFacts, TopFacts DEF OwnerClaims, Owning
<1> QED
  BY <1>1, RunFits DEF OwnerClaims

LEMMA OwnerHelpsOtherFits ==
    ASSUME Fits, NEW w \in Workers, OwnerHelpsOther(w)
    PROVE  Fits'
<1>1. Height(w) > 0 /\ Top(w).kind = "own" /\ Open(maxOwned[w]) # {}
  BY LabelFacts DEF OwnerHelpsOther, Owning
<1>2. Chosen(maxOwned[w]) \in Nodes /\ Offers(split[Chosen(maxOwned[w])])
  BY <1>1, ChosenFacts DEF Fits
<1> QED
  BY <1>1, <1>2, RunFits DEF OwnerHelpsOther

LEMMA HelperClaimsFits ==
    ASSUME Fits, NEW w \in Workers, HelperClaims(w)
    PROVE  Fits'
<1>1. Height(w) = 0 /\ Open(maxOwned[w]) # {}
  BY LabelFacts DEF HelperClaims
<1>2. Chosen(maxOwned[w]) \in Nodes /\ Offers(split[Chosen(maxOwned[w])])
  BY <1>1, ChosenFacts DEF Fits
<1> QED
  BY <1>1, <1>2, RunFits DEF HelperClaims

LEMMA OwnerMovesOn ==
    ASSUME Fits, NEW w \in Workers,
           OwnerIsDone(w) \/ LooksForWork(w) \/ FindsNoWork(w)
    PROVE  Fits'
<1>1. /\ TypeOK /\ Height(w) > 0 /\ Top(w).kind = "own"
  BY LabelFacts DEF Fits, OwnerIsDone, LooksForWork, FindsNoWork, Owning
<1>2. PICK l \in {"withdraw", "seek", "wait"} : Goto(w, l)
  BY DEF OwnerIsDone, LooksForWork, FindsNoWork
<1>3. UNCHANGED <<value, root, registry, stack, at, ret, aborted, timedOut, maxOwned,
                  happened>>
  BY DEF OwnerIsDone, LooksForWork, FindsNoWork
<1>4. /\ TopFits(l, at[w], Top(w)) /\ l \in Labels /\ l \notin {"announce", "enter", "ret"}
  BY <1>1 DEF TopFits, Labels
<1>5. /\ slot' \in [Workers -> Nodes \cup {NoNode}] /\ split' \in [Nodes -> Splits]
      /\ nextSeq' = nextSeq /\ \A n \in Nodes : Len(split'[n].state) <= Len(Kids[n])
  BY <1>1, <1>3 DEF TypeOK, registry
<1> QED
  BY <1>1, <1>2, <1>3, <1>4, <1>5, OnlyLabel

LEMMA WithdrawFits ==
    ASSUME Fits, NEW w \in Workers, Withdraw(w)
    PROVE  Fits'
<1>1. /\ TypeOK /\ Height(w) > 0 /\ Top(w).kind = "own" /\ Top(w).node \in Nodes
  BY LabelFacts, TopFacts DEF Fits, Withdraw, Owning
<1>2. /\ Goto(w, "wait") /\ slot' = [slot EXCEPT ![w] = NoNode]
      /\ split' = [split EXCEPT ![Top(w).node] = [split[Top(w).node] EXCEPT !.open = FALSE]]
      /\ UNCHANGED <<value, root, nextSeq, stack, at, ret, aborted, timedOut, maxOwned,
                     happened>>
  BY DEF Withdraw
<1>3. TopFits("wait", at[w], Top(w)) /\ "wait" \in Labels
  BY <1>1 DEF TopFits, Labels
<1>4. /\ slot' \in [Workers -> Nodes \cup {NoNode}] /\ split' \in [Nodes -> Splits]
      /\ \A n \in Nodes : Len(split'[n].state) <= Len(Kids[n])
  <2> DEFINE c == [split[Top(w).node] EXCEPT !.open = FALSE]
  <2>1. split[Top(w).node] \in Splits
    BY <1>1 DEF TypeOK
  <2>2. c \in Splits /\ c.state = split[Top(w).node].state
    BY <2>1, ClosedFacts
  <2> HIDE DEF c
  <2>3. split' = [split EXCEPT ![Top(w).node] = c]
    BY <1>2 DEF c
  <2> QED
    BY <1>1, <1>2, <2>2, <2>3 DEF TypeOK
<1> QED
  BY <1>1, <1>2, <1>3, <1>4, OnlyLabel

LEMMA ComposeFits ==
    ASSUME Fits, NEW w \in Workers, ComposeMoves(w) \/ ComposeReplies(w)
    PROVE  Fits'
<1>1. /\ TypeOK /\ Height(w) > 0 /\ Top(w).kind = "own" /\ Searches(Top(w))
      /\ Top(w).node \in Nodes /\ Top(w).hopeless \in BOOLEAN /\ Top(w).saved \in Nat
      /\ split[Top(w).node].settleRefuted \in BOOLEAN
  <2>1. /\ TypeOK /\ Height(w) > 0 /\ Top(w).kind = "own"
    BY LabelFacts DEF Fits, ComposeMoves, ComposeReplies, Composes, Owning
  <2>2. Top(w).node \in Nodes /\ Top(w).hopeless \in BOOLEAN /\ Top(w).saved \in Nat
    BY <2>1, TopFacts
  <2>3. split[Top(w).node] \in Splits
    BY <2>1, <2>2 DEF TypeOK
  <2> QED
    BY <2>1, <2>2, <2>3, SplitParts DEF Searches
<1>2. /\ Pop(w) /\ maxOwned' = [maxOwned EXCEPT ![w] = Top(w).saved]
      /\ UNCHANGED <<value, root, registry, timedOut, happened>>
  BY DEF ComposeMoves, ComposeReplies, Composes
<1>3. maxOwned' \in [Workers -> Nat]
  BY <1>1, <1>2 DEF TypeOK
<1>4. aborted' \in [Workers -> BOOLEAN]
  <2>1. aborted' = aborted \/ aborted' = [aborted EXCEPT ![w] = TRUE]
    BY DEF ComposeMoves, ComposeReplies, NoVerdict
  <2>2. TRUE \in BOOLEAN
    OBVIOUS
  <2> QED
    BY <1>1, <2>1, <2>2, Zenon DEF TypeOK
<1>5. PICK r \in Result : Return(w, Top(w).node, r)
  <2> DEFINE sp == split[Top(w).node]
             a == [ok |-> sp.settledAt > 0,
                   refuted |-> sp.settledAt = 0 /\ Top(w).hopeless
                                 /\ Children(sp) \subseteq {"refuted"}]
             b == [ok |-> sp.settledAt = 0,
                   refuted |-> sp.settledAt > 0 /\ sp.settleRefuted]
  <2>1. \/ Return(w, Top(w).node, Nothing) \/ Return(w, Top(w).node, a)
        \/ Return(w, Top(w).node, b)
    BY Zenon DEF ComposeMoves, ComposeReplies, NoVerdict
  <2>2. a \in Result /\ b \in Result
    <3>1. /\ (sp.settledAt > 0) \in BOOLEAN /\ (sp.settledAt = 0) \in BOOLEAN
          /\ (sp.settledAt = 0 /\ Top(w).hopeless /\ Children(sp) \subseteq {"refuted"}) \in BOOLEAN
          /\ (sp.settledAt > 0 /\ sp.settleRefuted) \in BOOLEAN
      OBVIOUS
    <3> QED
      BY <3>1, Zenon DEF Result
  <2> HIDE DEF a, b
  <2> QED
    BY <2>1, <2>2, NothingFacts, Zenon
<1> QED
  BY <1>1, <1>2, <1>3, <1>4, <1>5, LoopGone

LEMMA ChildReturnsFits ==
    ASSUME Fits, NEW w \in Workers, ChildReturns(w)
    PROVE  Fits'
<1>1. /\ TypeOK /\ Height(w) > 0 /\ Height(w) \in Nat /\ Top(w).kind = "run"
      /\ Top(w).node \in Nodes /\ Top(w).i \in Nat
  BY LabelFacts, TopFacts DEF Fits, ChildReturns
<1>2. PICK l \in {"help", "withdraw", "own", "wait"} :
        Goto(w, l) /\ (Rest(w) = <<>> <=> l = "help")
  BY DEF ChildReturns
<1>3. /\ Pop(w)
      /\ split' = [split EXCEPT ![Top(w).node] =
                     Settled(split[Top(w).node], Top(w).i, Outcome(w), Top(w).node \in OrNodes)]
      /\ aborted' = aborted \/ aborted' = [aborted EXCEPT ![w] = FALSE]
      /\ UNCHANGED <<value, nextIndex, best, proved, cancel, nextSeq, slot, at, ret, timedOut,
                     maxOwned, happened>>
  BY DEF ChildReturns
<1>4. /\ stack' \in [Workers -> Seq(Loops)] /\ (Rest(w) = <<>> <=> Height(w) = 1)
      /\ \A v \in Workers \ {w} : stack'[v] = stack[v]
  BY <1>1, <1>3, PopFacts
<1>5. /\ pc' \in [Workers -> Labels] /\ pc'[w] = l
      /\ \A v \in Workers \ {w} : pc'[v] = pc[v]
  BY <1>1, <1>2, GotoFacts DEF Labels
<1>6. aborted' \in [Workers -> BOOLEAN]
  <2>1. FALSE \in BOOLEAN
    OBVIOUS
  <2> QED
    BY <1>1, <1>3, <2>1, Zenon DEF TypeOK
<1>7. /\ split' \in [Nodes -> Splits]
      /\ \A n \in Nodes : Len(split'[n].state) <= Len(Kids[n])
  <2> DEFINE c == Settled(split[Top(w).node], Top(w).i, Outcome(w), Top(w).node \in OrNodes)
  <2>1. split[Top(w).node] \in Splits
    BY <1>1 DEF TypeOK
  <2>2. c \in Splits /\ Len(c.state) = Len(split[Top(w).node].state)
    <3>1. Outcome(w) \in States
      BY DEF Outcome, States
    <3> QED
      BY <1>1, <2>1, <3>1, SettledType
  <2> HIDE DEF c
  <2>3. split' = [split EXCEPT ![Top(w).node] = c]
    BY <1>3 DEF c
  <2> QED
    BY <1>1, <2>2, <2>3 DEF TypeOK
<1>8. TypeOK'
  BY <1>1, <1>3, <1>4, <1>5, <1>6, <1>7 DEF TypeOK
<1>9. OthersStay(w)
  BY <1>3, <1>4, <1>5 DEF OthersStay
<1>10. Height(w) > 1 => TopFits(pc'[w], at'[w], Loop(w, Height(w) - 1))
  <2>1. SUFFICES ASSUME Height(w) > 1
                 PROVE  TopFits(pc'[w], at'[w], Loop(w, Height(w) - 1))
    OBVIOUS
  <2>2. Above(Top(w), Loop(w, Height(w) - 1))
    BY <1>1, <2>1, TopFacts
  <2>3. Loop(w, Height(w) - 1).kind = "own"
    BY <1>1, <2>2 DEF Above
  <2>4. pc'[w] \in {"withdraw", "own", "wait"}
    BY <1>1, <1>2, <1>4, <1>5, <2>1
  <2> QED
    BY <2>3, <2>4 DEF TopFits
<1>11. Height(w) = 1 => pc'[w] = "help"
  BY <1>2, <1>4, <1>5
<1> QED
  BY <1>1, <1>3, <1>8, <1>9, <1>10, <1>11, PopStep

LEMMA HelperAnnouncesFits ==
    ASSUME Fits, NEW w \in Workers, HelperAnnounces(w)
    PROVE  Fits'
<1>1. /\ TypeOK /\ Height(w) > 0 /\ Top(w) = Loop(w, Height(w))
      /\ Calls(Top(w)) /\ at[w] = Callee(Top(w))
  BY LabelFacts, TopFacts DEF Fits, HelperAnnounces
<1>2. /\ Goto(w, "enter") /\ stack' = stack
      /\ cancel' = [cancel EXCEPT ![w] = FALSE] /\ aborted' = [aborted EXCEPT ![w] = FALSE]
      /\ UNCHANGED <<value, nextIndex, best, proved, nextSeq, slot, split, at, ret, timedOut,
                     maxOwned, happened>>
  BY DEF HelperAnnounces, Announce
<1>3. /\ pc' \in [Workers -> Labels] /\ pc'[w] = "enter"
      /\ \A v \in Workers \ {w} : pc'[v] = pc[v]
  BY <1>1, <1>2, GotoFacts DEF Labels
<1>4. cancel' \in [Workers -> BOOLEAN] /\ aborted' \in [Workers -> BOOLEAN]
  <2>1. FALSE \in BOOLEAN
    OBVIOUS
  <2> QED
    BY <1>1, <1>2, <2>1, Zenon DEF TypeOK
<1>5. TypeOK'
  BY <1>1, <1>2, <1>3, <1>4 DEF TypeOK
<1>6. OthersStay(w)
  BY <1>2, <1>3 DEF OthersStay
<1>7. Here(w)'
  <2>1. Height(w)' = Height(w) /\ Loop(w, Height(w))' = Loop(w, Height(w))
    BY <1>2 DEF Height, Loop
  <2> QED
    BY <1>1, <1>2, <1>3, <2>1 DEF Here, TopFits, Calls, Callee
<1> QED
  BY <1>2, <1>5, <1>6, <1>7, StayStep

LEMMA HelperLeavesFits ==
    ASSUME Fits, NEW w \in Workers, HelperLeaves(w)
    PROVE  Fits'
<1>1. TypeOK /\ Height(w) = 0
  BY LabelFacts DEF Fits, HelperLeaves
<1>2. /\ Goto(w, "done") /\ stack' = stack
      /\ UNCHANGED <<value, nextIndex, best, proved, cancel, nextSeq, slot, split, at, ret,
                     aborted, timedOut, maxOwned, happened>>
  BY DEF HelperLeaves
<1>3. /\ pc' \in [Workers -> Labels] /\ pc'[w] = "done"
      /\ \A v \in Workers \ {w} : pc'[v] = pc[v]
  BY <1>1, <1>2, GotoFacts DEF Labels
<1>4. TypeOK'
  BY <1>1, <1>2, <1>3 DEF TypeOK
<1>5. OthersStay(w)
  BY <1>2, <1>3 DEF OthersStay
<1>6. Here(w)'
  BY <1>1, <1>2, <1>3 DEF Here, Height
<1> QED
  BY <1>2, <1>4, <1>5, <1>6, StayStep

\* No worker moves.
LEMMA IdleFits ==
    ASSUME Fits, UNCHANGED <<value, root, registry, thread>>, happened' \subseteq Limits
    PROVE  Fits'
<1>1. /\ TypeOK /\ nextIndex \in Nat
      /\ UNCHANGED <<value, nextIndex, best, proved, cancel, nextSeq, slot, split, pc, stack,
                     at, ret, aborted, timedOut, maxOwned>>
  BY DEF Fits, TypeOK, root, registry, thread
<1>2. TypeOK'
  BY <1>1 DEF TypeOK
<1>3. ASSUME NEW v \in Workers PROVE Stacked(v)' /\ Here(v)'
  BY <1>1, <1>2, OtherKept DEF Fits
<1> QED
  BY <1>2, <1>3 DEF Fits

LEMMA FitsStep == ASSUME Fits, [Next]_vars PROVE Fits'
<1>1. CASE UNCHANGED vars
  <2>1. UNCHANGED <<value, root, registry, thread>> /\ happened' \subseteq Limits
    BY <1>1 DEF vars, Fits, TypeOK
  <2> QED
    BY <2>1, IdleFits
<1>2. ASSUME NEW e \in Limits, Interrupt(e) PROVE Fits'
  <2>1. UNCHANGED <<value, root, registry, thread>> /\ happened' \subseteq Limits
    BY <1>2 DEF Interrupt, Fits, TypeOK
  <2> QED
    BY <2>1, IdleFits
<1>3. ASSUME NEW w \in Workers, WorkerStep(w) PROVE Fits'
  BY <1>3, RootClaimFits, RootPublishFits, RootRecheckFits, RootDoneFits, GiveUpFits,
     SearchLeafFits, OpenNodeFits, PublishRepliesFits, LoopEndsFits, NextKidFits,
     BackInLoopFits, SeeDemandFits, ShareFits, OwnerClaimsFits, OwnerMovesOn, WithdrawFits,
     OwnerHelpsOtherFits, ComposeFits, ChildReturnsFits, HelperClaimsFits,
     HelperAnnouncesFits, HelperLeavesFits DEF WorkerStep
<1> QED
  BY <1>1, <1>2, <1>3 DEF Next, AtRest

LEMMA FitsInit == ASSUME Init PROVE Fits
<1>1. /\ nextIndex \in Nat /\ best \in 0 .. N /\ proved \subseteq Roots /\ nextSeq \in Nat
      /\ slot \in [Workers -> Nodes \cup {NoNode}]
      /\ pc \in [Workers -> Labels] /\ at \in [Workers -> Nodes \cup {NoNode}]
      /\ maxOwned \in [Workers -> Nat] /\ happened \subseteq Limits
  BY Tree DEF Init, Labels
<1>2. value \in [Nodes -> Values]
  <2>1. PICK c \in LeafCases, v \in [Nodes \ Leaves -> Values] :
          value = [n \in Nodes |-> IF n \in Leaves THEN c[n] ELSE v[n]]
    BY DEF Init
  <2>2. c \in [Leaves -> Values]
    BY SettingsAssumption
  <2>3. \A n \in Nodes : (IF n \in Leaves THEN c[n] ELSE v[n]) \in Values
    BY <2>2
  <2> QED
    BY <2>1, <2>3
<1>3. /\ cancel \in [Workers -> BOOLEAN] /\ aborted \in [Workers -> BOOLEAN]
      /\ timedOut \in [Workers -> BOOLEAN]
  <2>1. FALSE \in BOOLEAN
    OBVIOUS
  <2> QED
    BY <2>1, Zenon DEF Init
<1>4. ret \in [Workers -> Result]
  BY NothingFacts DEF Init
<1>5. split \in [Nodes -> Splits] /\ \A n \in Nodes : Len(split[n].state) <= Len(Kids[n])
  BY NoSplitFacts, Tree DEF Init
<1>6. stack \in [Workers -> Seq(Loops)] /\ \A w \in Workers : Height(w) = 0
  BY DEF Init, Height
<1>7. TypeOK
  BY <1>1, <1>2, <1>3, <1>4, <1>5, <1>6 DEF TypeOK
<1>8. ASSUME NEW w \in Workers PROVE Stacked(w) /\ Here(w)
  BY <1>6 DEF Stacked, Here, Init
<1> QED
  BY <1>7, <1>8 DEF Fits

-----------------------------------------------------------------------------
(* Second layer: what a step leaves in whose hands. *)

\* A step is one worker's; the others' loops stay.
LEMMA StepIsMine ==
    ASSUME Fits, NEW w \in Workers, WorkerStep(w)
    PROVE  OthersStay(w)
<1>1. TypeOK
  BY DEF Fits
<1>2. CASE RootClaim(w) \/ RootPublish(w) \/ RootRecheck(w) \/ RootDone(w)
  BY <1>1, <1>2 DEF OthersStay, TypeOK, RootClaim, RootPublish, RootRecheck, RootDone, Goto,
     Push, Pop, Announce, registry, root
<1>3. CASE GiveUp(w) \/ SearchLeaf(w) \/ OpenNode(w) \/ PublishReplies(w)
  BY <1>1, <1>3 DEF OthersStay, TypeOK, GiveUp, SearchLeaf, OpenNode, PublishReplies, Goto,
     Return, Push, registry, root
<1>4. CASE LoopEnds(w) \/ NextKid(w)
  BY <1>1, <1>4 DEF OthersStay, TypeOK, LoopEnds, NextKid, Goto, Enter, Return, Pop, Retop,
     registry, root
<1>5. CASE BackInLoop(w)
  BY <1>1, <1>5 DEF OthersStay, TypeOK, BackInLoop, Goto, Return, Pop, Retop, registry, root
<1>6. CASE SeeDemand(w) \/ Share(w) \/ OwnerClaims(w) \/ OwnerIsDone(w) \/ Withdraw(w)
  BY <1>1, <1>6 DEF OthersStay, TypeOK, SeeDemand, Share, OwnerClaims, OwnerIsDone, Withdraw,
     Goto, Retop, Run, Push, registry, root
<1>7. CASE LooksForWork(w) \/ OwnerHelpsOther(w) \/ FindsNoWork(w)
  BY <1>1, <1>7 DEF OthersStay, TypeOK, LooksForWork, OwnerHelpsOther, FindsNoWork, Goto, Run,
     Push, registry, root
<1>8. CASE ComposeMoves(w) \/ ComposeReplies(w)
  BY <1>1, <1>8 DEF OthersStay, TypeOK, ComposeMoves, ComposeReplies, Composes, NoVerdict,
     Goto, Return, Pop, registry, root
<1>9. CASE ChildReturns(w)
  BY <1>1, <1>9 DEF OthersStay, TypeOK, ChildReturns, Goto, Pop
<1>10. CASE HelperClaims(w) \/ HelperAnnounces(w) \/ HelperLeaves(w)
  BY <1>1, <1>10 DEF OthersStay, TypeOK, HelperClaims, HelperAnnounces, HelperLeaves, Goto,
     Run, Push, Announce, registry, root
<1> QED
  BY <1>2, <1>3, <1>4, <1>5, <1>6, <1>7, <1>8, <1>9, <1>10 DEF WorkerStep

\* The first k loops of a worker are kept.
Keeps(w, k) ==
    /\ k \in Nat /\ k <= Height(w) /\ Height(w)' \in Nat /\ k <= Height(w)'
    /\ \A d \in 1 .. k : Loop(w, d)' = Loop(w, d)

LEMMA OthersKeep ==
    ASSUME Fits, NEW w \in Workers, OthersStay(w), NEW v \in Workers, v # w
    PROVE  /\ Height(v)' = Height(v) /\ Height(v) \in Nat
           /\ \A d \in Nat : Loop(v, d)' = Loop(v, d)
           /\ pc'[v] = pc[v] /\ at'[v] = at[v]
BY StackFacts DEF OthersStay, Height, Loop, Fits

LEMMA HoldsKept ==
    ASSUME Fits, NEW w \in Workers, OthersStay(w), NEW v \in Workers, v # w,
           NEW d \in Nat, NEW n \in Nodes
    PROVE  Holds(v, d, n)' <=> Holds(v, d, n)
<1>1. /\ Height(v)' = Height(v) /\ Loop(v, d)' = Loop(v, d) /\ pc'[v] = pc[v] /\ at'[v] = at[v]
  BY OthersKeep
<1> QED
  BY <1>1 DEF Holds, Searches

LEMMA LoopsKept ==
    ASSUME Fits, NEW w \in Workers, OthersStay(w), NEW k, Keeps(w, k),
           NEW v \in Workers, NEW d \in Nat, v # w \/ d <= k, NEW n \in Nodes
    PROVE  /\ OwnsAt(v, d, n)' <=> OwnsAt(v, d, n)
           /\ \A j \in Nat : RunsAt(v, d, n, j)' <=> RunsAt(v, d, n, j)
<1>1. d \in 1 .. Height(v)' <=> d \in 1 .. Height(v)
  <2>1. CASE v # w
    BY <2>1, OthersKeep
  <2>2. CASE v = w
    <3>1. Height(w) \in Nat /\ Height(w)' \in Nat /\ k \in Nat
      BY StackFacts DEF Fits, Keeps
    <3> QED
      BY <2>2, <3>1 DEF Keeps
  <2> QED
    BY <2>1, <2>2
<1>2. d \in 1 .. Height(v) => Loop(v, d)' = Loop(v, d)
  BY OthersKeep DEF Keeps
<1> QED
  BY <1>1, <1>2 DEF OwnsAt, RunsAt

LEMMA HolderKept ==
    ASSUME Fits, OneHolder, NEW w \in Workers, OthersStay(w),
           \A d \in Nat, n \in Nodes : Holds(w, d, n)' => Holds(w, d, n)
    PROVE  OneHolder'
<1> SUFFICES ASSUME NEW v \in Workers, NEW u \in Workers, NEW d \in Nat, NEW e \in Nat,
                    NEW n \in Nodes, Holds(v, d, n)', Holds(u, e, n)'
             PROVE  v = u /\ d = e
  BY DEF OneHolder
<1>1. Holds(v, d, n) /\ Holds(u, e, n)
  BY HoldsKept
<1> QED
  BY <1>1 DEF OneHolder

LEMMA HolderNew ==
    ASSUME Fits, OneHolder, NEW w \in Workers, OthersStay(w), NEW D \in Nat, NEW X \in Nodes,
           \A d \in Nat, n \in Nodes : Holds(w, d, n)' => Holds(w, d, n) \/ (d = D /\ n = X),
           \A d \in Nat : Holds(w, d, X)' => d = D,
           \A v \in Workers, d \in Nat : v # w => ~Holds(v, d, X)
    PROVE  OneHolder'
<1> SUFFICES ASSUME NEW v \in Workers, NEW u \in Workers, NEW d \in Nat, NEW e \in Nat,
                    NEW n \in Nodes, Holds(v, d, n)', Holds(u, e, n)'
             PROVE  v = u /\ d = e
  BY DEF OneHolder
<1>1. CASE n = X
  <2>1. v = w /\ u = w
    BY <1>1, HoldsKept
  <2> QED
    BY <1>1, <2>1
<1>2. CASE n # X
  <2>1. Holds(v, d, n) /\ Holds(u, e, n)
    BY <1>2, HoldsKept
  <2> QED
    BY <2>1 DEF OneHolder
<1> QED
  BY <1>1, <1>2

\* Who owns a node holds it.
LEMMA OwnerHolds ==
    ASSUME NEW v \in Workers, NEW d \in Nat, NEW n \in Nodes, OwnsAt(v, d, n)
    PROVE  Holds(v, d, n)
BY DEF OwnsAt, Holds, Searches

\* How a node came into a worker's hands.
LEMMA Reached ==
    ASSUME Fits, NEW v \in Workers, NEW d \in Nat, NEW X \in Nodes, Holds(v, d, X)
    PROVE  \/ \E i \in Roots : i < nextIndex /\ X = RootNode[i]
           \/ \E m \in Nodes, j \in Nat :
                /\ j \in DOMAIN Kids[m] /\ X = Kids[m][j]
                /\ d - 1 \in 1 .. Height(v)
                /\ \/ RunsAt(v, d - 1, m, j)
                   \/ /\ Loop(v, d - 1).kind = "loop" /\ Loop(v, d - 1).node = m
                      /\ Loop(v, d - 1).i = j + 1
<1>1. TypeOK /\ Stacked(v) /\ Here(v) /\ Height(v) \in Nat
  BY StackFacts DEF Fits
<1>2. CASE d = 1
  <2>1. CASE Height(v) = 0
    <3>1. pc[v] \in {"enter", "announce", "publish", "recheck"} /\ at[v] = X
      BY <1>2, <2>1 DEF Holds
    <3> QED
      BY <1>1, <2>1, <3>1 DEF Here
  <2>2. CASE Height(v) > 0
    <3>1. Searches(Loop(v, 1))
      BY <1>1, <1>2, <2>2 DEF Holds
    <3> QED
      BY <1>1, <2>2, <3>1 DEF Stacked, Searches
  <2> QED
    BY <1>1, <2>1, <2>2
<1>3. CASE d # 1
  <2>1. d - 1 \in 1 .. Height(v) /\ d - 1 \in Nat
    BY <1>1, <1>3 DEF Holds
  <2> DEFINE g == Loop(v, d - 1)
  <2>2. /\ g \in Loops /\ LoopFits(g) /\ g.node \in Nodes /\ g.i \in Nat
        /\ g.kind \in {"root", "loop", "own", "run"}
    BY <1>1, <2>1, StackFacts, LoopParts DEF Stacked
  <2>3. Calls(g) /\ X = Callee(g)
    <3>1. CASE d \in 1 .. Height(v)
      <4>1. d - 1 \in 1 .. Height(v) - 1 /\ (d - 1) + 1 = d /\ d # Height(v) + 1
        BY <1>1, <2>1, <3>1
      <4>2. Above(Loop(v, d), g) /\ Searches(Loop(v, d)) /\ Loop(v, d).node = X
        BY <1>1, <4>1 DEF Stacked, Holds
      <4> QED
        BY <4>2 DEF Above, Searches
    <3>2. CASE d \notin 1 .. Height(v)
      <4>1. /\ d = Height(v) + 1 /\ at[v] = X /\ Height(v) > 0 /\ d - 1 = Height(v)
            /\ pc[v] \in {"enter", "announce", "publish", "recheck"}
        BY <1>1, <2>1, <3>2 DEF Holds
      <4>2. TopFits(pc[v], at[v], g)
        BY <1>1, <4>1 DEF Here
      <4> QED
        BY <4>1, <4>2 DEF TopFits
    <3> QED
      BY <3>1, <3>2
  <2>4. CASE g.kind = "root"
    BY <2>2, <2>3, <2>4 DEF LoopFits, Callee
  <2>5. CASE g.kind = "run"
    <3>1. /\ g.i \in DOMAIN Kids[g.node] /\ X = Kids[g.node][g.i]
          /\ RunsAt(v, d - 1, g.node, g.i)
      BY <2>1, <2>2, <2>3, <2>5 DEF LoopFits, Callee, RunsAt
    <3> QED
      BY <2>1, <2>2, <3>1
  <2>6. CASE g.kind = "loop"
    <3>1. /\ g.i \in 1 .. Len(Kids[g.node]) + 1 /\ g.i > 1 /\ X = Kids[g.node][g.i - 1]
          /\ g.node \in Nodes
      BY <2>2, <2>3, <2>6 DEF LoopFits, Callee, Calls
    <3>2. Len(Kids[g.node]) \in Nat /\ DOMAIN Kids[g.node] = 1 .. Len(Kids[g.node])
      BY <3>1, Tree
    <3>3. g.i - 1 \in DOMAIN Kids[g.node] /\ g.i - 1 \in Nat /\ g.i = (g.i - 1) + 1
      BY <3>1, <3>2
    <3> QED
      BY <2>1, <2>2, <2>6, <3>1, <3>3
  <2> QED
    BY <2>2, <2>3, <2>4, <2>5, <2>6 DEF Calls
<1> QED
  BY <1>2, <1>3

\* The same, as one fact.
Handed(v, d, X) ==
    \/ \E i \in Roots : i < nextIndex /\ X = RootNode[i]
    \/ \E m \in Nodes, j \in Nat :
         /\ j \in DOMAIN Kids[m] /\ X = Kids[m][j]
         /\ d - 1 \in 1 .. Height(v)
         /\ \/ RunsAt(v, d - 1, m, j)
            \/ /\ Loop(v, d - 1).kind = "loop" /\ Loop(v, d - 1).node = m
               /\ Loop(v, d - 1).i = j + 1

LEMMA ReachedFrom ==
    ASSUME Fits, NEW v \in Workers, NEW d \in Nat, NEW X \in Nodes, Holds(v, d, X)
    PROVE  Handed(v, d, X)
BY Reached DEF Handed

\* The frames of a stack, and its loops counted from below.
LEMMA FramesOf ==
    ASSUME NEW q \in Seq(Loops), NEW f
    PROVE  f \in Range1(q) <=> \E d \in 1 .. Len(q) : f = q[Len(q) + 1 - d]
<1>1. Len(q) \in Nat /\ DOMAIN q = 1 .. Len(q)
  OBVIOUS
<1>2. ASSUME NEW i \in DOMAIN q PROVE \E d \in 1 .. Len(q) : q[i] = q[Len(q) + 1 - d]
  <2>1. Len(q) + 1 - i \in 1 .. Len(q) /\ Len(q) + 1 - (Len(q) + 1 - i) = i
    BY <1>1
  <2> QED
    BY <2>1
<1>3. ASSUME NEW d \in 1 .. Len(q) PROVE Len(q) + 1 - d \in DOMAIN q
  BY <1>1
<1> QED
  BY <1>2, <1>3 DEF Range1

LEMMA InRuns ==
    ASSUME Fits, NEW n \in Nodes, NEW v \in Workers, NEW j \in Nat
    PROVE  <<v, j>> \in Runs(n) <=> \E d \in Nat : RunsAt(v, d, n, j)
<1>1. /\ stack[v] \in Seq(Loops) /\ Height(v) \in Nat
      /\ \A d \in 1 .. Height(v) : LoopFits(Loop(v, d))
  BY StackFacts DEF Fits, Stacked
<1>2. \A f : f \in Frames(v) <=> \E d \in 1 .. Height(v) : f = Loop(v, d)
  BY <1>1, FramesOf DEF Frames, Loop, Height
<1>3. \A d \in Nat : RunsAt(v, d, n, j) => j \in 1 .. Len(Kids[n])
  BY <1>1, Tree DEF RunsAt, LoopFits
<1>4. <<v, j>> \in Runs(n) <=>
        j \in 1 .. Len(Kids[n]) /\ \E f \in Frames(v) : f.kind = "run" /\ f.node = n /\ f.i = j
  BY DEF Runs
<1>5. (\E f \in Frames(v) : f.kind = "run" /\ f.node = n /\ f.i = j) <=>
        \E d \in Nat : RunsAt(v, d, n, j)
  BY <1>1, <1>2 DEF RunsAt
<1> QED
  BY <1>3, <1>4, <1>5

LEMMA InRunsNext ==
    ASSUME Fits', NEW n \in Nodes, NEW v \in Workers, NEW j \in Nat
    PROVE  <<v, j>> \in Runs(n)' <=> \E d \in Nat : RunsAt(v, d, n, j)'
<1>1. /\ stack'[v] \in Seq(Loops) /\ Height(v)' \in Nat
      /\ \A d \in 1 .. Height(v)' : LoopFits(Loop(v, d))'
  BY DEF Fits, Stacked, TypeOK, Height
<1>2. \A f : f \in Frames(v)' <=> \E d \in 1 .. Height(v)' : f = Loop(v, d)'
  BY <1>1, FramesOf DEF Frames, Loop, Height
<1>3. \A d \in Nat : RunsAt(v, d, n, j)' => j \in 1 .. Len(Kids[n])
  BY <1>1, Tree DEF RunsAt, LoopFits
<1>4. <<v, j>> \in Runs(n)' <=>
        j \in 1 .. Len(Kids[n]) /\ \E f \in Frames(v)' : f.kind = "run" /\ f.node = n /\ f.i = j
  BY DEF Runs
<1>5. (\E f \in Frames(v)' : f.kind = "run" /\ f.node = n /\ f.i = j) <=>
        \E d \in Nat : RunsAt(v, d, n, j)'
  BY <1>1, <1>2 DEF RunsAt
<1> QED
  BY <1>3, <1>4, <1>5

LEMMA RunPairs ==
    ASSUME NEW n \in Nodes
    PROVE  /\ \A r \in Runs(n) : r[1] \in Workers /\ r[2] \in Nat /\ r = <<r[1], r[2]>>
           /\ \A r \in Runs(n)' : r[1] \in Workers /\ r[2] \in Nat /\ r = <<r[1], r[2]>>
BY Tree DEF Runs

LEMMA RunsKept ==
    ASSUME Fits, Fits', NEW n \in Nodes,
           \A v \in Workers, d \in Nat, j \in Nat : RunsAt(v, d, n, j)' <=> RunsAt(v, d, n, j)
    PROVE  Runs(n)' = Runs(n)
<1>1. \A v \in Workers, j \in Nat : <<v, j>> \in Runs(n)' <=> <<v, j>> \in Runs(n)
  BY InRuns, InRunsNext
<1> QED
  BY <1>1, RunPairs

-----------------------------------------------------------------------------
(* Second layer: the kinds of steps. *)

LEMMA WithdrawnKept ==
    ASSUME Fits, NEW w \in Workers, OthersStay(w), NEW k, Keeps(w, k),
           NEW v \in Workers, NEW d \in Nat, NEW n \in Nodes, OwnsAt(v, d, n), v # w \/ d < k
    PROVE  Loop(v, d)' = Loop(v, d) /\ (Withdrawn(v, d, n)' <=> Withdrawn(v, d, n))
<1>1. CASE v # w
  <2>1. d + 1 \in Nat
    OBVIOUS
  <2> QED
    BY <1>1, <2>1, OthersKeep DEF Withdrawn
<1>2. CASE v = w /\ d < k
  <2>1. /\ Height(w) \in Nat /\ Height(w)' \in Nat /\ k \in Nat /\ k <= Height(w)
        /\ k <= Height(w)' /\ d \in 1 .. Height(w)
    BY <1>2, StackFacts DEF Keeps, Fits, OwnsAt
  <2>2. d \in 1 .. k /\ d + 1 \in 1 .. k /\ d # Height(w) /\ d # Height(w)'
    BY <1>2, <2>1
  <2>3. Loop(w, d)' = Loop(w, d) /\ Loop(w, d + 1)' = Loop(w, d + 1)
    BY <2>2 DEF Keeps
  <2> QED
    BY <1>2, <2>2, <2>3 DEF Withdrawn
<1> QED
  BY <1>1, <1>2

\* Steps that neither run nor share anything.
LEMMA Quiet ==
    ASSUME Fits, Fits', Alone, NEW w \in Workers, OthersStay(w), split' = split, OneHolder',
           NEW k, Keeps(w, k),
           \A d \in k + 1 .. Height(w) : Loop(w, d).kind \notin {"run", "own"},
           \A d \in k + 1 .. Height(w)' : Loop(w, d)'.kind \notin {"run", "own"},
           \/ k > 0 => Loop(w, k).kind # "own"
           \/ /\ k = Height(w) /\ k = Height(w)'
              /\ pc'[w] \in {"wait", "seek"} <=> pc[w] \in {"wait", "seek"}
    PROVE  Alone'
<1>1. /\ Height(w) \in Nat /\ Height(w)' \in Nat /\ k \in Nat
  BY StackFacts DEF Fits, Keeps
<1>2. ASSUME NEW v \in Workers, NEW d \in Nat, NEW n \in Nodes
      PROVE  /\ OwnsAt(v, d, n)' <=> OwnsAt(v, d, n)
             /\ \A j \in Nat : RunsAt(v, d, n, j)' <=> RunsAt(v, d, n, j)
  <2>1. CASE v # w \/ d <= k
    BY <2>1, LoopsKept
  <2>2. CASE v = w /\ ~(d <= k)
    BY <1>1, <2>2 DEF OwnsAt, RunsAt
  <2> QED
    BY <2>1, <2>2
<1>3. ASSUME NEW n \in Nodes PROVE Owned(n)' <=> Owned(n)
  BY <1>2 DEF Owned
<1>4. OneRunner' /\ RunsAreLive'
  BY <1>2, <1>3 DEF Alone, OneRunner, RunsAreLive
<1>5. ActiveIsCounted'
  BY <1>2, RunsKept DEF Alone, ActiveIsCounted
<1>8. HandedOut'
  BY <1>2 DEF Alone, HandedOut
<1>6. \A n \in Nodes : SplitFits(n)'
  BY <1>3 DEF Alone, SplitFits
<1>7. ASSUME NEW v \in Workers, NEW d \in Nat, NEW n \in Nodes, OwnsAt(v, d, n)'
      PROVE  OwnerFits(v, d, n)'
  <2>1. OwnerFits(v, d, n) /\ OwnsAt(v, d, n)
    BY <1>2, <1>7 DEF Alone, OwnersFit
  <2>2. CASE v # w
    BY <2>1, <2>2, WithdrawnKept DEF OwnerFits
  <2>3. CASE v = w
    <3>1. d <= k /\ d \in 1 .. k /\ Loop(w, d)' = Loop(w, d) /\ Loop(w, d).kind = "own"
      BY <1>1, <2>1, <2>3 DEF OwnsAt, Keeps
    <3>2. CASE d < k
      BY <2>1, <2>3, <3>2, WithdrawnKept DEF OwnerFits
    <3>3. CASE d = k
      BY <1>1, <2>1, <2>3, <3>1, <3>3 DEF OwnerFits, Withdrawn
    <3> QED
      BY <1>1, <3>1, <3>2, <3>3
  <2> QED
    BY <2>2, <2>3
<1> QED
  BY <1>4, <1>5, <1>6, <1>7, <1>8 DEF Alone, OwnersFit

Entering == {"enter", "announce", "publish", "recheck"}

LEMMA HolderStay ==
    ASSUME Fits, OneHolder, NEW w \in Workers, OthersStay(w), stack' = stack,
           pc'[w] \in Entering => pc[w] \in Entering /\ at'[w] = at[w]
    PROVE  OneHolder'
<1>1. Height(w)' = Height(w) /\ \A d : Loop(w, d)' = Loop(w, d)
  BY DEF Height, Loop
<1>2. \A d \in Nat, n \in Nodes : Holds(w, d, n)' => Holds(w, d, n)
  BY <1>1 DEF Holds, Searches, Entering
<1> QED
  BY <1>2, HolderKept

LEMMA HolderPop ==
    ASSUME Fits, OneHolder, NEW w \in Workers, OthersStay(w), Height(w) > 0, Pop(w),
           pc'[w] \notin Entering
    PROVE  OneHolder'
<1> PICK h : h = Height(w)
  OBVIOUS
<1>1. /\ h \in Nat /\ Height(w)' = h - 1
      /\ \A d \in 1 .. h - 1 : Loop(w, d)' = Loop(w, d)
  BY PopFacts DEF Fits
<1>2. ASSUME NEW d \in Nat, NEW n \in Nodes, Holds(w, d, n)' PROVE Holds(w, d, n)
  <2>1. d \in 1 .. h - 1 /\ Searches(Loop(w, d))' /\ Loop(w, d)'.node = n
    BY <1>1, <1>2 DEF Holds, Entering
  <2>2. d \in 1 .. h /\ Loop(w, d)' = Loop(w, d)
    BY <1>1, <2>1
  <2> QED
    BY <2>1, <2>2 DEF Holds, Searches
<1> QED
  BY <1>2, HolderKept

LEMMA HolderEnter ==
    ASSUME Fits, OneHolder, NEW w \in Workers, OthersStay(w), NEW f \in Loops, Push(w, f),
           pc[w] \in Entering, pc'[w] \notin Entering, Searches(f), f.node = at[w]
    PROVE  OneHolder'
<1> PICK h : h = Height(w)
  OBVIOUS
<1>1. /\ h \in Nat /\ Height(w)' = h + 1 /\ Loop(w, h + 1)' = f
      /\ \A d \in 1 .. h : Loop(w, d)' = Loop(w, d)
  BY PushFacts DEF Fits
<1>2. ASSUME NEW d \in Nat, NEW n \in Nodes, Holds(w, d, n)' PROVE Holds(w, d, n)
  <2>1. d \in 1 .. h + 1 /\ Searches(Loop(w, d))' /\ Loop(w, d)'.node = n
    BY <1>1, <1>2 DEF Holds, Entering
  <2>2. CASE d = h + 1
    BY <1>1, <2>1, <2>2 DEF Holds, Entering
  <2>3. CASE d \in 1 .. h
    <3>1. Loop(w, d)' = Loop(w, d)
      BY <1>1, <2>3
    <3> QED
      BY <2>1, <2>3, <3>1 DEF Holds, Searches
  <2> QED
    BY <1>1, <2>1, <2>2, <2>3
<1> QED
  BY <1>2, HolderKept

LEMMA HolderRetop ==
    ASSUME Fits, OneHolder, NEW w \in Workers, OthersStay(w), Height(w) > 0, NEW f \in Loops,
           Retop(w, f), pc'[w] \notin Entering, Searches(f), Searches(Top(w)),
           f.node = Top(w).node
    PROVE  OneHolder'
<1> PICK h : h = Height(w)
  OBVIOUS
<1>1. /\ h \in Nat /\ Height(w)' = h /\ Loop(w, h)' = f /\ Top(w) = Loop(w, h)
      /\ \A d \in 1 .. h - 1 : Loop(w, d)' = Loop(w, d)
  BY RetopFacts, TopFacts DEF Fits
<1>2. ASSUME NEW d \in Nat, NEW n \in Nodes, Holds(w, d, n)' PROVE Holds(w, d, n)
  <2>1. d \in 1 .. h /\ Searches(Loop(w, d))' /\ Loop(w, d)'.node = n
    BY <1>1, <1>2 DEF Holds, Entering
  <2>2. CASE d = h
    BY <1>1, <2>1, <2>2 DEF Holds
  <2>3. CASE d # h
    <3>1. d \in 1 .. h - 1
      BY <1>1, <2>1, <2>3
    <3>2. Loop(w, d)' = Loop(w, d)
      BY <1>1, <3>1
    <3> QED
      BY <2>1, <3>2 DEF Holds, Searches
  <2> QED
    BY <2>2, <2>3
<1> QED
  BY <1>2, HolderKept

LEMMA QuietStay ==
    ASSUME Fits, Fits', Alone, NEW w \in Workers, OthersStay(w), split' = split, OneHolder',
           stack' = stack, pc'[w] \in {"wait", "seek"} <=> pc[w] \in {"wait", "seek"}
    PROVE  Alone'
<1> PICK k : k = Height(w)
  OBVIOUS
<1>1. k \in Nat /\ Height(w)' = k /\ \A d : Loop(w, d)' = Loop(w, d)
  BY StackFacts DEF Height, Loop, Fits
<1>2. Keeps(w, k)
  BY <1>1 DEF Keeps
<1> QED
  BY <1>1, <1>2, Quiet

LEMMA QuietPop ==
    ASSUME Fits, Fits', Alone, NEW w \in Workers, OthersStay(w), split' = split, OneHolder',
           Height(w) > 0, Pop(w), Top(w).kind \notin {"run", "own"}
    PROVE  Alone'
<1> PICK h : h = Height(w)
  OBVIOUS
<1>1. /\ h \in Nat /\ h > 0 /\ Height(w)' = h - 1 /\ Top(w) = Loop(w, h)
      /\ \A d \in 1 .. h - 1 : Loop(w, d)' = Loop(w, d)
  BY PopFacts, TopFacts DEF Fits
<1>2. Keeps(w, h - 1)
  BY <1>1 DEF Keeps
<1>3. h - 1 > 0 => Loop(w, h - 1).kind # "own"
  BY <1>1, TopFacts DEF Above
<1>4. \A d \in (h - 1) + 1 .. h : Loop(w, d).kind \notin {"run", "own"}
  BY <1>1
<1>5. \A d \in (h - 1) + 1 .. Height(w)' : FALSE
  BY <1>1
<1> QED
  BY <1>2, <1>3, <1>4, <1>5, Quiet

LEMMA QuietPush ==
    ASSUME Fits, Fits', Alone, NEW w \in Workers, OthersStay(w), split' = split, OneHolder',
           NEW f \in Loops, Push(w, f), f.kind \notin {"run", "own"},
           Height(w) > 0 => Top(w).kind # "own"
    PROVE  Alone'
<1> PICK h : h = Height(w)
  OBVIOUS
<1>1. /\ h \in Nat /\ Height(w)' = h + 1 /\ Loop(w, h + 1)' = f
      /\ \A d \in 1 .. h : Loop(w, d)' = Loop(w, d)
  BY PushFacts DEF Fits
<1>2. Keeps(w, h)
  BY <1>1 DEF Keeps
<1>3. h > 0 => Loop(w, h).kind # "own"
  BY <1>1, TopFacts
<1>4. \A d \in h + 1 .. Height(w)' : Loop(w, d)'.kind \notin {"run", "own"}
  BY <1>1
<1>5. \A d \in h + 1 .. h : FALSE
  BY <1>1
<1> QED
  BY <1>2, <1>3, <1>4, <1>5, Quiet

LEMMA QuietRetop ==
    ASSUME Fits, Fits', Alone, NEW w \in Workers, OthersStay(w), split' = split, OneHolder',
           Height(w) > 0, NEW f \in Loops, Retop(w, f), f.kind \notin {"run", "own"},
           Top(w).kind \notin {"run", "own"}
    PROVE  Alone'
<1> PICK h : h = Height(w)
  OBVIOUS
<1>1. /\ h \in Nat /\ h > 0 /\ Height(w)' = h /\ Loop(w, h)' = f /\ Top(w) = Loop(w, h)
      /\ \A d \in 1 .. h - 1 : Loop(w, d)' = Loop(w, d)
  BY RetopFacts, TopFacts DEF Fits
<1>2. Keeps(w, h - 1)
  BY <1>1 DEF Keeps
<1>3. h - 1 > 0 => Loop(w, h - 1).kind # "own"
  BY <1>1, TopFacts DEF Above
<1>4. \A d \in (h - 1) + 1 .. h : Loop(w, d).kind \notin {"run", "own"}
  BY <1>1
<1>5. \A d \in (h - 1) + 1 .. Height(w)' : Loop(w, d)'.kind \notin {"run", "own"}
  BY <1>1
<1> QED
  BY <1>2, <1>3, <1>4, <1>5, Quiet

-----------------------------------------------------------------------------
(* Second layer: the actions that neither run nor share anything. *)

LEMMA RootClaimAlone ==
    ASSUME Fits, Fits', Alone, NEW w \in Workers, RootClaim(w), OthersStay(w)
    PROVE  Alone'
<1>1. /\ TypeOK /\ Height(w) = 0 /\ nextIndex \in Nat /\ OneHolder /\ pc[w] = "claim"
      /\ stack' = stack /\ split' = split
  BY LabelFacts DEF Fits, RootClaim, TypeOK, Alone
<1>2. Height(w)' = 0
  BY <1>1 DEF Height
<1>3. CASE pc' = [pc EXCEPT ![w] = "help"] \/ pc' = [pc EXCEPT ![w] = "done"]
  <2>1. pc'[w] \in {"help", "done"}
    BY <1>1, <1>3 DEF TypeOK
  <2>2. OneHolder'
    BY <1>1, <2>1, HolderStay DEF Entering
  <2> QED
    BY <1>1, <2>1, <2>2, QuietStay
<1>4. CASE /\ nextIndex \in Roots /\ pc' = [pc EXCEPT ![w] = "publish"]
           /\ at' = [at EXCEPT ![w] = RootNode[nextIndex]]
  <2> DEFINE X == RootNode[nextIndex]
  <2>1. pc'[w] = "publish" /\ at'[w] = X /\ X \in Nodes
    BY <1>1, <1>4, Tree DEF TypeOK
  <2>2. \A v \in Workers, d \in Nat : ~Holds(v, d, X)
    <3>1. SUFFICES ASSUME NEW v \in Workers, NEW d \in Nat, Holds(v, d, X) PROVE FALSE
      OBVIOUS
    <3>2. ASSUME NEW i \in Roots, i < nextIndex, X = RootNode[i] PROVE FALSE
      <4>1. Priority[RootNode[i]] = i /\ Priority[RootNode[nextIndex]] = nextIndex
        BY <1>4, Tree
      <4>2. i = nextIndex /\ i \in Nat
        BY <3>2, <4>1, Tree
      <4> QED
        BY <3>2, <4>2
    <3>3. ASSUME NEW m \in Nodes, NEW j \in DOMAIN Kids[m], X = Kids[m][j] PROVE FALSE
      <4>1. Kids[m][j] = RootNode[nextIndex] /\ nextIndex \in Roots
        BY <1>4, <3>3
      <4> QED
        BY <4>1, <3>3, LinesAssumption
    <3>4. \/ \E i \in Roots : i < nextIndex /\ X = RootNode[i]
          \/ \E m \in Nodes, j \in Nat : j \in DOMAIN Kids[m] /\ X = Kids[m][j]
      <4>1. PICK Y \in Nodes : Y = X
        BY <2>1
      <4>2. Holds(v, d, Y)
        BY <3>1, <4>1
      <4>3. \/ \E i \in Roots : i < nextIndex /\ Y = RootNode[i]
            \/ \E m \in Nodes, j \in Nat : j \in DOMAIN Kids[m] /\ Y = Kids[m][j]
        BY <4>2, Reached
      <4> QED
        BY <4>1, <4>3
    <3> QED
      BY <3>2, <3>3, <3>4
  <2>3. \A d \in Nat, n \in Nodes : Holds(w, d, n)' => d = 1 /\ n = X
    BY <1>2, <2>1 DEF Holds
  <2> HIDE DEF X
  <2>4. OneHolder'
    <3>1. PICK Y \in Nodes : Y = X
      BY <2>1
    <3>2. /\ \A v \in Workers, d \in Nat : ~Holds(v, d, Y)
          /\ \A d \in Nat, n \in Nodes : Holds(w, d, n)' => d = 1 /\ n = Y
      BY <2>2, <2>3, <3>1
    <3>3. \A d \in Nat : Holds(w, d, Y)' => d = 1
      BY <3>2
    <3> QED
      BY <1>1, <3>2, <3>3, HolderNew
  <2> QED
    BY <1>1, <2>1, <2>4, QuietStay
<1> QED
  BY <1>1, <1>3, <1>4, Tree DEF RootClaim, Goto, Roots

LEMMA RootRecheckAlone ==
    ASSUME Fits, Fits', Alone, NEW w \in Workers, RootRecheck(w), OthersStay(w)
    PROVE  Alone'
<1>1. /\ TypeOK /\ Height(w) = 0 /\ OneHolder /\ pc[w] = "recheck" /\ at[w] \in Nodes
      /\ split' = split /\ at' = at
  BY LabelFacts DEF Fits, RootRecheck, Alone
<1>2. CASE Priority[at[w]] > best
  <2>1. stack' = stack /\ pc'[w] = "claim"
    BY <1>1, <1>2 DEF RootRecheck, Goto, TypeOK
  <2>2. OneHolder'
    BY <1>1, <2>1, HolderStay DEF Entering
  <2> QED
    BY <1>1, <2>1, <2>2, QuietStay
<1>3. CASE ~(Priority[at[w]] > best)
  <2>1. PICK f \in Loops : Push(w, f) /\ f.kind = "root"
    BY <1>3, RootRecheckPush
  <2>2. Height(w)' = 1 /\ Loop(w, 1)' = f
    BY <1>1, <2>1, PushFacts
  <2>3. pc'[w] = "enter"
    BY <1>1, <1>3 DEF RootRecheck, Goto, TypeOK
  <2>4. PICK X \in Nodes : X = at[w]
    BY <1>1
  <2>5. Holds(w, 1, X)
    BY <1>1, <2>4 DEF Holds
  <2>6. \A v \in Workers, d \in Nat : v # w => ~Holds(v, d, X)
    BY <1>1, <2>5 DEF OneHolder
  <2>7. \A d \in Nat, n \in Nodes : Holds(w, d, n)' => d = 2 /\ n = X
    BY <1>1, <2>1, <2>2, <2>3, <2>4 DEF Holds, Searches
  <2>8. \A d \in Nat : Holds(w, d, X)' => d = 2
    BY <2>7
  <2>9. OneHolder'
    BY <1>1, <2>6, <2>7, <2>8, HolderNew
  <2> QED
    BY <1>1, <2>1, <2>9, QuietPush
<1> QED
  BY <1>2, <1>3

LEMMA RootDoneAlone ==
    ASSUME Fits, Fits', Alone, NEW w \in Workers, RootDone(w), OthersStay(w)
    PROVE  Alone'
<1>1. /\ TypeOK /\ Height(w) > 0 /\ OneHolder /\ Top(w).kind = "root" /\ split' = split
      /\ Pop(w) /\ pc'[w] = "claim"
  <2>1. /\ TypeOK /\ OneHolder /\ pc[w] = "ret" /\ Top(w).kind = "root" /\ split' = split
        /\ Pop(w) /\ Goto(w, "claim")
    BY DEF Fits, RootDone, Alone
  <2>2. pc'[w] = "claim"
    BY <2>1 DEF Goto, TypeOK
  <2> QED
    BY <2>1, <2>2, LabelFacts
<1>2. OneHolder'
  BY <1>1, HolderPop DEF Entering
<1> QED
  BY <1>1, <1>2, QuietPop

LEMMA OpenNodeAlone ==
    ASSUME Fits, Fits', Alone, NEW w \in Workers, OpenNode(w), OthersStay(w)
    PROVE  Alone'
<1>1. /\ TypeOK /\ Height(w) > 0 /\ OneHolder /\ pc[w] = "enter" /\ Calls(Top(w))
      /\ split' = split /\ pc'[w] = "loop"
  BY LabelFacts DEF Fits, OpenNode, Searching, Alone, Goto, TypeOK, registry
<1>2. PICK f \in Loops : Push(w, f) /\ f.kind = "loop" /\ f.node = at[w]
  BY OpenNodePush
<1>3. OneHolder'
  BY <1>1, <1>2, HolderEnter DEF Entering, Searches
<1> QED
  BY <1>1, <1>2, <1>3, QuietPush DEF Calls

LEMMA LoopGoneAlone ==
    ASSUME Fits, Fits', Alone, NEW w \in Workers, OthersStay(w), Pop(w), Height(w) > 0,
           Top(w).kind = "loop", split' = split, pc'[w] = "ret"
    PROVE  Alone'
<1>1. OneHolder'
  BY HolderPop DEF Entering, Alone
<1> QED
  BY <1>1, QuietPop

LEMMA NextKidAlone ==
    ASSUME Fits, Fits', Alone, NEW w \in Workers, NextKid(w), OthersStay(w)
    PROVE  Alone'
<1> PICK h : h = Height(w)
  OBVIOUS
<1>1. /\ TypeOK /\ h > 0 /\ h \in Nat /\ OneHolder /\ Top(w).kind = "loop"
      /\ Top(w) = Loop(w, h) /\ Top(w).node \in Nodes /\ Top(w).i \in Nat /\ LoopFits(Top(w))
      /\ split' = split
  BY LabelFacts, TopFacts DEF Fits, NextKid, InLoop, Alone, registry
<1>2. PICK n \in Nodes, i \in Nat : n = Top(w).node /\ i = Top(w).i
  BY <1>1
<1> PICK X : X = Kids[n][i]
  OBVIOUS
<1>3. i \in DOMAIN Kids[n] /\ X \in Nodes
  BY <1>1, <1>2, Tree DEF NextKid, HasKid, LoopFits
<1>4. pc'[w] = "enter" /\ at'[w] = X
  BY <1>1, <1>2 DEF NextKid, Enter, Kid, Goto, TypeOK
<1>5. PICK f \in Loops : /\ Retop(w, f) /\ f.kind = "loop" /\ f.node = n
  BY <1>2, NextKidRetop
<1>6. /\ Height(w)' = h /\ Loop(w, h)' = f
      /\ \A d \in 1 .. h - 1 : Loop(w, d)' = Loop(w, d)
  BY <1>1, <1>5, RetopFacts
<1>7. Holds(w, h, n)
  BY <1>1, <1>2 DEF Holds, Searches
<1>8. \A v \in Workers, d \in Nat : ~Holds(v, d, X)
  <2>1. SUFFICES ASSUME NEW v \in Workers, NEW d \in Nat, Holds(v, d, X) PROVE FALSE
    OBVIOUS
  <2>2. ASSUME NEW r \in Roots, X = RootNode[r] PROVE FALSE
    BY <1>2, <1>3, <2>2, LinesAssumption
  <2>3. ASSUME NEW m \in Nodes, NEW j \in DOMAIN Kids[m], X = Kids[m][j]
        PROVE  m = n /\ j = i
    <3>1. Kids[m][j] = Kids[n][i]
      BY <1>2, <2>3
    <3> QED
      BY <1>3, <2>3, <3>1, LinesAssumption
  <2>4. ASSUME RunsAt(v, d - 1, n, i), d - 1 \in Nat PROVE FALSE
    <3>1. PICK o \in Workers, e \in Nat : OwnsAt(o, e, n)
      BY <2>4 DEF Alone, RunsAreLive, Owned
    <3>2. o = w /\ e = h
      BY <1>1, <1>7, <3>1, OwnerHolds DEF OneHolder
    <3> QED
      BY <1>1, <3>1, <3>2 DEF OwnsAt
  <2>5. ASSUME d - 1 \in 1 .. Height(v), Loop(v, d - 1).kind = "loop",
               Loop(v, d - 1).node = n, Loop(v, d - 1).i = i + 1
        PROVE  FALSE
    <3>1. Holds(v, d - 1, n) /\ d - 1 \in Nat
      BY <2>5, StackFacts DEF Holds, Searches, Fits
    <3>2. v = w /\ d - 1 = h
      BY <1>1, <1>7, <3>1 DEF OneHolder
    <3> QED
      BY <1>1, <1>2, <2>5, <3>2
  <2>6. \/ \E r \in Roots : X = RootNode[r]
        \/ \E m \in Nodes, j \in Nat :
             /\ j \in DOMAIN Kids[m] /\ X = Kids[m][j] /\ d - 1 \in 1 .. Height(v)
             /\ \/ RunsAt(v, d - 1, m, j)
                \/ /\ Loop(v, d - 1).kind = "loop" /\ Loop(v, d - 1).node = m
                   /\ Loop(v, d - 1).i = j + 1
    <3>1. Handed(v, d, X)
      BY <1>3, <2>1, ReachedFrom, Zenon
    <3> QED
      BY <3>1, Zenon DEF Handed
  <2> QED
    BY <2>2, <2>3, <2>4, <2>5, <2>6
<1>9. \A d \in Nat, m \in Nodes : Holds(w, d, m)' => Holds(w, d, m) \/ (d = h + 1 /\ m = X)
  <2>1. ASSUME NEW d \in Nat, NEW m \in Nodes, Holds(w, d, m)', d # h + 1 PROVE Holds(w, d, m)
    <3>1. d \in 1 .. h /\ Searches(Loop(w, d))' /\ Loop(w, d)'.node = m
      BY <1>6, <2>1 DEF Holds
    <3>2. CASE d = h
      BY <1>2, <1>5, <1>6, <1>7, <3>1, <3>2
    <3>3. CASE d # h
      <4>1. d \in 1 .. h - 1
        BY <1>1, <3>1, <3>3
      <4>2. Loop(w, d)' = Loop(w, d)
        BY <1>6, <4>1
      <4> QED
        BY <3>1, <4>2 DEF Holds, Searches
    <3> QED
      BY <3>2, <3>3
  <2>2. ASSUME NEW m \in Nodes, Holds(w, h + 1, m)' PROVE m = X
    BY <1>1, <1>4, <1>6, <2>2 DEF Holds
  <2> QED
    BY <2>1, <2>2
<1>10. \A d \in Nat : Holds(w, d, X)' => d = h + 1
  BY <1>3, <1>8, <1>9
<1>11. OneHolder'
  <2>1. h + 1 \in Nat /\ \A v \in Workers, d \in Nat : v # w => ~Holds(v, d, X)
    BY <1>1, <1>8
  <2> QED
    BY <1>1, <1>3, <1>9, <1>10, <2>1, HolderNew
<1> QED
  BY <1>1, <1>5, <1>11, QuietRetop

LEMMA BackInLoopAlone ==
    ASSUME Fits, Fits', Alone, NEW w \in Workers, BackInLoop(w), OthersStay(w)
    PROVE  Alone'
<1>1. /\ TypeOK /\ Height(w) > 0 /\ OneHolder /\ Top(w).kind = "loop" /\ split' = split
  BY LabelFacts DEF Fits, BackInLoop, InLoop, Alone, registry
<1>2. CASE Pop(w) /\ Goto(w, "ret")
  <2>1. pc'[w] = "ret"
    BY <1>1, <1>2 DEF Goto, TypeOK
  <2> QED
    BY <1>1, <1>2, <2>1, LoopGoneAlone
<1>3. CASE ~aborted[w] /\ ~(ret[w].ok = (Top(w).node \in OrNodes)) /\ Goto(w, "loop")
  <2>1. PICK f \in Loops : Retop(w, f) /\ f.kind = "loop" /\ f.node = Top(w).node
    BY <1>3, BackInLoopRetop, Zenon
  <2>2. pc'[w] = "loop"
    BY <1>1, <1>3 DEF Goto, TypeOK
  <2>3. OneHolder'
    BY <1>1, <2>1, <2>2, HolderRetop DEF Entering, Searches
  <2> QED
    BY <1>1, <2>1, <2>3, QuietRetop
<1> QED
  BY <1>2, <1>3, Zenon DEF BackInLoop, Return

\* Steps that move only a label.
LEMMA LabelAlone ==
    ASSUME Fits, Fits', Alone, NEW w \in Workers, OthersStay(w),
           \/ RootPublish(w) \/ GiveUp(w) \/ SearchLeaf(w) \/ SeeDemand(w) \/ OwnerIsDone(w)
           \/ LooksForWork(w) \/ FindsNoWork(w) \/ HelperAnnounces(w) \/ HelperLeaves(w)
    PROVE  Alone'
<1>1. TypeOK /\ OneHolder
  BY DEF Fits, Alone
<1>2. stack' = stack /\ split' = split
  BY DEF RootPublish, GiveUp, SearchLeaf, SeeDemand, OwnerIsDone, LooksForWork, FindsNoWork,
     HelperAnnounces, HelperLeaves, Announce, registry
<1>3. /\ pc'[w] \in Entering => pc[w] \in Entering /\ at'[w] = at[w]
      /\ pc'[w] \in {"wait", "seek"} <=> pc[w] \in {"wait", "seek"}
  <2>1. CASE RootPublish(w) \/ HelperAnnounces(w)
    <3>1. /\ pc[w] \in {"publish", "announce"} /\ pc'[w] \in {"recheck", "enter"}
          /\ at' = at
      BY <1>1, <2>1 DEF RootPublish, HelperAnnounces, Goto, TypeOK
    <3> QED
      BY <3>1 DEF Entering
  <2>2. CASE GiveUp(w) \/ SearchLeaf(w) \/ SeeDemand(w) \/ OwnerIsDone(w) \/ HelperLeaves(w)
    <3>1. /\ pc[w] \in {"enter", "loop", "own", "help"}
          /\ pc'[w] \in {"ret", "share", "withdraw", "done"}
      BY <1>1, <2>2 DEF GiveUp, SearchLeaf, Searching, SeeDemand, InLoop, OwnerIsDone,
         Owning, HelperLeaves, Goto, Return, TypeOK
    <3> QED
      BY <3>1 DEF Entering
  <2>3. CASE LooksForWork(w) \/ FindsNoWork(w)
    <3>1. pc[w] \in {"wait", "seek"} /\ pc'[w] \in {"wait", "seek"}
      BY <1>1, <2>3 DEF LooksForWork, FindsNoWork, Owning, Goto, TypeOK
    <3> QED
      BY <3>1 DEF Entering
  <2> QED
    BY <2>1, <2>2, <2>3
<1>4. OneHolder'
  BY <1>1, <1>2, <1>3, HolderStay
<1> QED
  BY <1>2, <1>3, <1>4, QuietStay

-----------------------------------------------------------------------------
(* Second layer: sharing, running and coming back. *)

LEMMA WithdrawAlone ==
    ASSUME Fits, Fits', Alone, NEW w \in Workers, Withdraw(w), OthersStay(w)
    PROVE  Alone'
<1>1. /\ TypeOK /\ Height(w) > 0 /\ OneHolder /\ Top(w).kind = "own" /\ Top(w).node \in Nodes
      /\ stack' = stack /\ pc'[w] = "wait" /\ Top(w) = Loop(w, Height(w))
  BY LabelFacts, TopFacts DEF Fits, Withdraw, Owning, Alone, Goto, TypeOK
<1>2. PICK n \in Nodes : n = Top(w).node
  BY <1>1
<1>3. /\ split'[n] = [split[n] EXCEPT !.open = FALSE] /\ split[n] \in Splits
      /\ \A m \in Nodes \ {n} : split'[m] = split[m]
  BY <1>1, <1>2 DEF Withdraw, TypeOK
<1>4. \A m \in Nodes : /\ split'[m].next = split[m].next /\ split'[m].active = split[m].active
                        /\ split'[m].settledAt = split[m].settledAt
                        /\ split'[m].first = split[m].first /\ split'[m].owner = split[m].owner
                        /\ split'[m].state = split[m].state
  <2>1. /\ split'[n].next = split[n].next /\ split'[n].active = split[n].active
        /\ split'[n].settledAt = split[n].settledAt
        /\ split'[n].first = split[n].first /\ split'[n].owner = split[n].owner
        /\ split'[n].state = split[n].state
    BY <1>3, SMT DEF Splits
  <2> QED
    BY <1>3, <2>1
<1>13. \A m \in Nodes : split'[m].open <=> split[m].open /\ m # n
  <2>1. ~split'[n].open
    BY <1>3, Zenon DEF Splits
  <2> QED
    BY <1>3, <2>1
<1>5. /\ \A v \in Workers : Height(v)' = Height(v)
      /\ \A v \in Workers, d \in Nat : Loop(v, d)' = Loop(v, d)
  BY <1>1 DEF Height, Loop
<1>6. \A v \in Workers, d \in Nat, m \in Nodes :
        /\ OwnsAt(v, d, m)' <=> OwnsAt(v, d, m)
        /\ \A j \in Nat : RunsAt(v, d, m, j)' <=> RunsAt(v, d, m, j)
  BY <1>5 DEF OwnsAt, RunsAt
<1>7. \A m \in Nodes : Owned(m)' <=> Owned(m)
  BY <1>4, <1>6 DEF Owned
<1>8. OneHolder'
  BY <1>1, HolderStay DEF Entering
<1>9. OneRunner' /\ RunsAreLive'
  BY <1>4, <1>6, <1>7 DEF Alone, OneRunner, RunsAreLive
<1>10. ActiveIsCounted'
  BY <1>4, <1>6, RunsKept DEF Alone, ActiveIsCounted
<1>14. HandedOut'
  BY <1>4, <1>6 DEF Alone, HandedOut
<1>11. \A m \in Nodes : SplitFits(m)'
  BY <1>4, <1>7, <1>13 DEF Alone, SplitFits
<1>12. ASSUME NEW v \in Workers, NEW d \in Nat, NEW m \in Nodes, OwnsAt(v, d, m)'
       PROVE  OwnerFits(v, d, m)'
  <2>1. OwnerFits(v, d, m) /\ OwnsAt(v, d, m)
    BY <1>6, <1>12 DEF Alone, OwnersFit
  <2>2. /\ split'[m].owner = v /\ split'[m].first = Loop(v, d)'.i
        /\ Len(split'[m].state) = Len(Kids[m])
    BY <1>4, <1>5, <2>1 DEF OwnerFits
  <2>3. split'[m].open <=> ~Withdrawn(v, d, m)'
    <3>1. CASE m = n
      <4>1. OwnsAt(w, Height(w), n) /\ Height(w) \in Nat
        BY <1>1, <1>2, StackFacts DEF OwnsAt
      <4>2. v = w /\ d = Height(w)
        BY <1>1, <2>1, <3>1, <4>1, OwnerHolds DEF OneHolder
      <4>3. Withdrawn(v, d, m)'
        BY <1>1, <1>5, <4>2 DEF Withdrawn
      <4> QED
        BY <1>13, <3>1, <4>3
    <3>2. CASE m # n
      <4>1. v # w \/ d # Height(w)
        BY <1>1, <1>2, <2>1, <3>2 DEF OwnsAt
      <4>2. v # w => pc'[v] = pc[v]
        BY OthersKeep
      <4>3. d + 1 \in Nat
        OBVIOUS
      <4>4. Withdrawn(v, d, m)' <=> Withdrawn(v, d, m)
        BY <1>5, <4>1, <4>2, <4>3 DEF Withdrawn
      <4> QED
        BY <1>13, <2>1, <3>2, <4>4 DEF OwnerFits
    <3> QED
      BY <3>1, <3>2
  <2> QED
    BY <2>2, <2>3 DEF OwnerFits
<1> QED
  BY <1>8, <1>9, <1>10, <1>11, <1>12, <1>14 DEF Alone, OwnersFit

\* A worker shares out what it has in hand.
LEMMA SharingAlone ==
    ASSUME Fits, Fits', Alone, NEW w \in Workers, OthersStay(w), OneHolder',
           NEW n \in Nodes, NEW D \in Nat, Holds(w, D, n), \A d \in Nat : ~OwnsAt(w, d, n),
           NEW from \in Nat \ {0}, NEW seq \in Nat,
           split' = [split EXCEPT ![n] = Published(n, from, seq, w)],
           D > 0, Keeps(w, D - 1), Height(w) <= D, Height(w)' = D,
           Height(w) = D => Loop(w, D).kind = "loop",
           Loop(w, D)'.kind = "own", Loop(w, D)'.node = n, Loop(w, D)'.i = from,
           pc'[w] = "own", D > 1 => Loop(w, D - 1).kind # "own"
    PROVE  Alone'
<1>1. TypeOK /\ OneHolder /\ Height(w) \in Nat
  BY StackFacts DEF Fits, Alone
<1>2. \A v \in Workers, d \in Nat : ~OwnsAt(v, d, n)
  BY <1>1, OwnerHolds DEF OneHolder
<1>3. \A v \in Workers, d \in Nat, j \in Nat : ~RunsAt(v, d, n, j)
  BY <1>2 DEF Alone, RunsAreLive, Owned
<1>4. ASSUME NEW v \in Workers, NEW d \in Nat, NEW m \in Nodes
      PROVE  /\ OwnsAt(v, d, m)' <=> OwnsAt(v, d, m) \/ (v = w /\ d = D /\ m = n)
             /\ \A j \in Nat : RunsAt(v, d, m, j)' <=> RunsAt(v, d, m, j)
  <2>1. CASE v # w \/ d <= D - 1
    BY <2>1, LoopsKept
  <2>2. CASE v = w /\ d = D
    BY <1>1, <2>2 DEF OwnsAt, RunsAt
  <2>3. CASE v = w /\ d > D
    BY <1>1, <2>3 DEF OwnsAt, RunsAt
  <2> QED
    BY <2>1, <2>2, <2>3
<1>5. PICK sp : sp = Published(n, from, seq, w)
  OBVIOUS
<1>13. sp.open
  BY <1>5, PublishedFacts
<1>6. /\ sp.next = from /\ sp.first = from /\ sp.active = 0 /\ sp.owner = w
      /\ Len(sp.state) = Len(Kids[n])
      /\ sp.settledAt = 0 \/ sp.settledAt \in from .. Len(Kids[n])
      /\ \A i \in 1 .. Len(Kids[n]) :
           sp.state[i] = IF i = sp.settledAt THEN "immediate" ELSE "unresolved"
  BY <1>5, PublishedFacts
<1>7. split'[n] = sp /\ \A m \in Nodes \ {n} : split'[m] = split[m]
  BY <1>1, <1>5 DEF TypeOK
<1>8. Owned(n)' /\ \A m \in Nodes \ {n} : Owned(m) => Owned(m)'
  BY <1>4, <1>6, <1>7 DEF Owned
<1>9. OneRunner' /\ RunsAreLive'
  <2>1. OneRunner'
    BY <1>4 DEF Alone, OneRunner
  <2>2. ASSUME NEW v \in Workers, NEW d \in Nat, NEW m \in Nodes, NEW j \in Nat,
               RunsAt(v, d, m, j)'
        PROVE  /\ j < split'[m].next /\ j \in 1 .. Len(split'[m].state)
               /\ split'[m].state[j] = "unresolved" /\ Owned(m)'
    <3>1. RunsAt(v, d, m, j) /\ m # n
      BY <1>3, <1>4, <2>2
    <3> QED
      BY <1>7, <1>8, <3>1 DEF Alone, RunsAreLive
  <2> QED
    BY <2>1, <2>2 DEF RunsAreLive
<1>10. ActiveIsCounted'
  <2>1. \A m \in Nodes : Runs(m)' = Runs(m)
    BY <1>4, RunsKept
  <2>2. Runs(n) = {}
    BY <1>3, InRuns, RunPairs
  <2>3. IsFiniteSet({}) /\ Cardinality({}) = 0
    BY FS_EmptySet
  <2>4. ASSUME NEW m \in Nodes
        PROVE  IsFiniteSet(Runs(m)') /\ Cardinality(Runs(m)') = split'[m].active
    <3>1. CASE m = n
      <4>1. Runs(m)' = {} /\ split'[m].active = 0
        BY <1>6, <1>7, <2>1, <2>2, <3>1
      <4> QED
        BY <2>3, <4>1
    <3>2. CASE m # n
      BY <1>7, <2>1, <3>2 DEF Alone, ActiveIsCounted
    <3> QED
      BY <3>1, <3>2
  <2> QED
    BY <2>4 DEF ActiveIsCounted
<1>14. HandedOut'
  <2>1. SUFFICES ASSUME NEW m \in Nodes, NEW j \in 1 .. Len(split'[m].state),
                        split'[m].first <= j, j < split'[m].next,
                        split'[m].state[j] = "unresolved"
                 PROVE  \E v \in Workers, d \in Nat : RunsAt(v, d, m, j)'
    BY DEF HandedOut
  <2>2. m # n
    BY <1>6, <1>7, <2>1
  <2>3. split'[m] = split[m]
    BY <1>7, <2>2
  <2>4. PICK v \in Workers, d \in Nat : RunsAt(v, d, m, j)
    BY <2>1, <2>3 DEF Alone, HandedOut
  <2> QED
    BY <1>4, <2>4
<1>11. ASSUME NEW m \in Nodes PROVE SplitFits(m)'
  <2>1. CASE m # n
    BY <1>7, <1>8, <2>1 DEF Alone, SplitFits
  <2>2. CASE m = n
    <3>1. \A j \in 1 .. Len(sp.state) :
            sp.state[j] = "unresolved" \/ (sp.state[j] = "immediate" /\ sp.settledAt \in 1 .. j)
      BY <1>6, Tree
    <3> QED
      BY <1>7, <1>8, <2>2, <3>1 DEF SplitFits
  <2> QED
    BY <2>1, <2>2
<1>12. ASSUME NEW v \in Workers, NEW d \in Nat, NEW m \in Nodes, OwnsAt(v, d, m)'
       PROVE  OwnerFits(v, d, m)'
  <2>1. CASE v = w /\ d = D /\ m = n
    <3>1. ~Withdrawn(v, d, m)' /\ split'[m].open
      BY <1>7, <1>13, <2>1 DEF Withdrawn
    <3> QED
      BY <1>6, <1>7, <2>1, <3>1 DEF OwnerFits
  <2>2. CASE ~(v = w /\ d = D /\ m = n)
    <3>1. OwnsAt(v, d, m) /\ m # n /\ OwnerFits(v, d, m)
      BY <1>2, <1>4, <1>12, <2>2 DEF Alone, OwnersFit
    <3>2. split'[m] = split[m]
      BY <1>7, <3>1
    <3>3. CASE v # w
      BY <3>1, <3>2, <3>3, WithdrawnKept DEF OwnerFits
    <3>4. CASE v = w
      <4>1. d \in 1 .. Height(w) /\ Loop(w, d).kind = "own"
        BY <3>1, <3>4 DEF OwnsAt
      <4>2. d < D - 1
        BY <1>1, <4>1
      <4> QED
        BY <3>1, <3>2, <3>4, <4>2, WithdrawnKept DEF OwnerFits
    <3> QED
      BY <3>3, <3>4
  <2> QED
    BY <2>1, <2>2
<1> QED
  BY <1>9, <1>10, <1>11, <1>12, <1>14 DEF Alone, OwnersFit

LEMMA PublishRepliesAlone ==
    ASSUME Fits, Fits', Alone, NEW w \in Workers, PublishReplies(w), OthersStay(w)
    PROVE  Alone'
<1> PICK h : h = Height(w)
  OBVIOUS
<1>1. /\ TypeOK /\ OneHolder /\ h > 0 /\ h \in Nat /\ pc[w] = "enter" /\ at[w] \in Nodes
      /\ Calls(Top(w)) /\ Top(w) = Loop(w, h) /\ pc'[w] = "own"
  <2>1. pc[w] = "enter" /\ TypeOK /\ OneHolder /\ pc \in [Workers -> Labels]
    BY DEF Fits, Alone, PublishReplies, Searching, TypeOK
  <2>2. Height(w) > 0 /\ Calls(Top(w)) /\ at[w] \in Nodes
    BY <2>1, LabelFacts
  <2>3. Height(w) \in Nat /\ Top(w) = Loop(w, Height(w))
    BY <2>2, TopFacts
  <2>4. pc'[w] = "own"
    BY <2>1 DEF PublishReplies, Goto
  <2> QED
    BY <2>1, <2>2, <2>3, <2>4
<1>2. PICK n \in Nodes : n = at[w]
  BY <1>1
<1>3. PICK f \in Loops : Push(w, f) /\ f.kind = "own" /\ f.node = n /\ f.i = 1
  BY <1>2, PublishRepliesPush
<1>4. /\ Height(w)' = h + 1 /\ Loop(w, h + 1)' = f
      /\ \A d \in 1 .. h : Loop(w, d)' = Loop(w, d)
  BY <1>1, <1>3, PushFacts
<1>5. OneHolder'
  BY <1>1, <1>2, <1>3, HolderEnter DEF Entering, Searches
<1>6. Holds(w, h + 1, n)
  BY <1>1, <1>2 DEF Holds
<1>7. \A d \in Nat : ~OwnsAt(w, d, n)
  <2>1. SUFFICES ASSUME NEW d \in Nat, OwnsAt(w, d, n) PROVE FALSE
    OBVIOUS
  <2>2. d = h + 1
    BY <1>1, <1>6, <2>1, OwnerHolds DEF OneHolder
  <2> QED
    BY <1>1, <2>1, <2>2 DEF OwnsAt
<1>8. split' = [split EXCEPT ![n] = Published(n, 1, 0, w)]
  BY <1>2 DEF PublishReplies
<1>9. Keeps(w, (h + 1) - 1)
  BY <1>1, <1>4 DEF Keeps
<1>10. Loop(w, (h + 1) - 1).kind # "own"
  BY <1>1 DEF Calls
<1>11. h + 1 \in Nat /\ h + 1 > 0 /\ Height(w) <= h + 1 /\ Height(w) # h + 1
       /\ 1 \in Nat \ {0} /\ 0 \in Nat
  BY <1>1
<1> QED
  BY <1>1, <1>3, <1>4, <1>5, <1>6, <1>7, <1>8, <1>9, <1>10, <1>11, SharingAlone

LEMMA ShareAlone ==
    ASSUME Fits, Fits', Alone, NEW w \in Workers, Share(w), OthersStay(w)
    PROVE  Alone'
<1> PICK h : h = Height(w)
  OBVIOUS
<1>1. /\ TypeOK /\ OneHolder /\ h > 0 /\ h \in Nat /\ Top(w).kind = "loop"
      /\ Top(w) = Loop(w, h) /\ pc'[w] = "own" /\ Top(w).node \in Nodes
      /\ LoopFits(Top(w)) /\ nextSeq \in Nat
  BY LabelFacts, TopFacts DEF Fits, Alone, Share, InLoop, Goto, TypeOK
<1>2. PICK n \in Nodes, from \in Nat \ {0}, seq \in Nat :
        n = Top(w).node /\ from = Top(w).i /\ seq = nextSeq
  BY <1>1, Tree DEF LoopFits
<1>3. PICK f \in Loops : Retop(w, f) /\ f.kind = "own" /\ f.node = n /\ f.i = from
  BY <1>2, ShareRetop
<1>4. /\ Height(w)' = h /\ Loop(w, h)' = f
      /\ \A d \in 1 .. h - 1 : Loop(w, d)' = Loop(w, d)
  BY <1>1, <1>3, RetopFacts
<1>5. OneHolder'
  BY <1>1, <1>2, <1>3, HolderRetop DEF Entering, Searches
<1>6. Holds(w, h, n)
  BY <1>1, <1>2 DEF Holds, Searches
<1>7. \A d \in Nat : ~OwnsAt(w, d, n)
  <2>1. SUFFICES ASSUME NEW d \in Nat, OwnsAt(w, d, n) PROVE FALSE
    OBVIOUS
  <2>2. d = h
    BY <1>1, <1>6, <2>1, OwnerHolds DEF OneHolder
  <2> QED
    BY <1>1, <2>1, <2>2 DEF OwnsAt
<1>8. split' = [split EXCEPT ![n] = Published(n, from, seq, w)]
  BY <1>2 DEF Share
<1>9. Keeps(w, h - 1)
  BY <1>1, <1>4 DEF Keeps
<1>10. h > 1 => Loop(w, h - 1).kind # "own"
  BY <1>1, TopFacts DEF Above
<1>11. Height(w) <= h
  BY <1>1
<1> QED
  BY <1>1, <1>3, <1>4, <1>5, <1>6, <1>7, <1>8, <1>9, <1>10, <1>11, SharingAlone

\* A worker runs a child that is offered.
LEMMA RunAlone ==
    ASSUME Fits, Fits', Alone, NEW w \in Workers, OthersStay(w), NEW n \in Nodes,
           Offers(split[n]), Run(w, n), pc[w] \notin Entering, pc'[w] \in {"enter", "announce"},
           Height(w) > 0 => /\ Top(w).kind = "own"
                            /\ Top(w).node # n => ~split[Top(w).node].open
    PROVE  Alone'
<1> PICK h : h = Height(w)
  OBVIOUS
<1>1. /\ TypeOK /\ OneHolder /\ h \in Nat /\ split[n] \in Splits /\ split[n].open
      /\ Len(Kids[n]) \in Nat /\ Len(split[n].state) <= Len(Kids[n])
      /\ Len(split[n].state) \in Nat
  <2>1. TypeOK /\ OneHolder /\ split[n].open
    BY DEF Fits, Alone, Offers
  <2>2. split[n] \in Splits /\ Len(split[n].state) <= Len(Kids[n])
    BY <2>1 DEF TypeOK
  <2>3. split[n].state \in Seq(States)
    BY <2>2, SplitParts
  <2>4. Len(split[n].state) \in Nat /\ Len(Kids[n]) \in Nat /\ h \in Nat
    BY <2>1, <2>3, StackFacts, Tree
  <2> QED
    BY <2>1, <2>2, <2>4
<1>2. PICK j \in Nat : j = split[n].next
  BY <1>1, SplitParts
<1>3. /\ j \in 1 .. Len(split[n].state) /\ j \in 1 .. Len(Kids[n]) /\ Kids[n][j] \in Nodes
      /\ j \in DOMAIN Kids[n]
  <2>1. j > 0 /\ j <= Len(split[n].state)
    BY <1>1, <1>2, SplitParts DEF Offers
  <2> QED
    BY <1>1, <2>1, Tree
<1>4. split[n].state[j] = "unresolved"
  <2>1. split[n].settledAt \in Nat /\ (split[n].settledAt > 0 => j < split[n].settledAt)
    BY <1>1, <1>2, SplitParts DEF Offers
  <2>2. \/ split[n].state[j] = "unresolved"
        \/ split[n].state[j] = "immediate" /\ split[n].settledAt \in 1 .. j
    BY <1>2, <1>3 DEF Alone, SplitFits
  <2> QED
    BY <2>1, <2>2
<1>5. PICK X \in Nodes : X = Kids[n][j]
  BY <1>3
<1>6. PICK f \in Loops : Push(w, f) /\ f.kind = "run" /\ f.node = n /\ f.i = j
  BY <1>2, RunPush
<1>7. /\ Height(w)' = h + 1 /\ Loop(w, h + 1)' = f
      /\ \A d \in 1 .. h : Loop(w, d)' = Loop(w, d)
  BY <1>1, <1>6, PushFacts
<1>8. at'[w] = X
  BY <1>1, <1>2, <1>5 DEF Run, TypeOK
<1>9. PICK o \in Workers, p \in Nat : OwnsAt(o, p, n) /\ o = split[n].owner
  BY <1>1 DEF Alone, SplitFits, Owned
<1>10. \A v \in Workers, d \in Nat : ~RunsAt(v, d, n, j)
  BY <1>2 DEF Alone, RunsAreLive
<1>11. \A v \in Workers, d \in Nat : ~Holds(v, d, X)
  <2>1. SUFFICES ASSUME NEW v \in Workers, NEW d \in Nat, Holds(v, d, X) PROVE FALSE
    OBVIOUS
  <2>2. ASSUME NEW r \in Roots, X = RootNode[r] PROVE FALSE
    <3>1. Kids[n][j] = RootNode[r]
      BY <1>5, <2>2
    <3> QED
      BY <1>3, <3>1, LinesAssumption
  <2>3. ASSUME NEW m \in Nodes, NEW k \in DOMAIN Kids[m], X = Kids[m][k]
        PROVE  m = n /\ k = j
    <3>1. Kids[m][k] = Kids[n][j]
      BY <1>5, <2>3
    <3> QED
      BY <1>3, <2>3, <3>1, LinesAssumption
  <2>4. ASSUME d - 1 \in 1 .. Height(v), Loop(v, d - 1).kind = "loop",
               Loop(v, d - 1).node = n
        PROVE  FALSE
    <3>1. Holds(v, d - 1, n) /\ d - 1 \in Nat
      BY <2>4, StackFacts DEF Holds, Searches, Fits
    <3>2. v = o /\ d - 1 = p
      BY <1>1, <1>9, <3>1, OwnerHolds DEF OneHolder
    <3> QED
      BY <1>9, <2>4, <3>2 DEF OwnsAt
  <2>5. \/ \E r \in Roots : X = RootNode[r]
        \/ \E m \in Nodes, k \in Nat :
             /\ k \in DOMAIN Kids[m] /\ X = Kids[m][k] /\ d - 1 \in 1 .. Height(v)
             /\ \/ RunsAt(v, d - 1, m, k)
                \/ /\ Loop(v, d - 1).kind = "loop" /\ Loop(v, d - 1).node = m
                   /\ Loop(v, d - 1).i = k + 1
    BY <2>1, Reached
  <2>6. d - 1 \in 1 .. Height(v) => d - 1 \in Nat
    BY StackFacts DEF Fits
  <2>7. CASE \E r \in Roots : X = RootNode[r]
    BY <2>2, <2>7
  <2>8. ASSUME NEW m \in Nodes, NEW k \in Nat, k \in DOMAIN Kids[m], X = Kids[m][k],
               d - 1 \in 1 .. Height(v),
               \/ RunsAt(v, d - 1, m, k)
               \/ /\ Loop(v, d - 1).kind = "loop" /\ Loop(v, d - 1).node = m
                  /\ Loop(v, d - 1).i = k + 1
        PROVE  FALSE
    <3>1. m = n /\ k = j
      BY <2>3, <2>8
    <3> QED
      BY <1>10, <2>4, <2>6, <2>8, <3>1
  <2> QED
    BY <2>5, <2>7, <2>8
<1>12. OneHolder'
  <2>1. \A d \in Nat, m \in Nodes : Holds(w, d, m)' => Holds(w, d, m) \/ (d = h + 2 /\ m = X)
    <3>1. SUFFICES ASSUME NEW d \in Nat, NEW m \in Nodes, Holds(w, d, m)'
                   PROVE  Holds(w, d, m) \/ (d = h + 2 /\ m = X)
      OBVIOUS
    <3>2. CASE d \in 1 .. h
      <4>1. Loop(w, d)' = Loop(w, d) /\ d # (h + 1) + 1
        BY <1>1, <1>7, <3>2
      <4> QED
        BY <1>7, <3>1, <3>2, <4>1 DEF Holds, Searches
    <3>3. CASE d \notin 1 .. h
      BY <1>1, <1>6, <1>7, <1>8, <3>1, <3>3 DEF Holds, Searches
    <3> QED
      BY <3>2, <3>3
  <2>2. \A d \in Nat : Holds(w, d, X)' => d = h + 2
    BY <1>11, <2>1
  <2>3. h + 2 \in Nat /\ \A v \in Workers, d \in Nat : v # w => ~Holds(v, d, X)
    BY <1>1, <1>11
  <2> QED
    BY <1>1, <2>1, <2>2, <2>3, HolderNew
<1>13. Keeps(w, h)
  BY <1>1, <1>7 DEF Keeps
<1>14. ASSUME NEW v \in Workers, NEW d \in Nat, NEW m \in Nodes
       PROVE  /\ OwnsAt(v, d, m)' <=> OwnsAt(v, d, m)
              /\ \A k \in Nat : RunsAt(v, d, m, k)' <=>
                    RunsAt(v, d, m, k) \/ (v = w /\ d = h + 1 /\ m = n /\ k = j)
  <2>1. CASE v # w \/ d <= h
    BY <1>1, <1>13, <2>1, LoopsKept
  <2>2. CASE v = w /\ d > h
    BY <1>1, <1>6, <1>7, <2>2 DEF OwnsAt, RunsAt
  <2> QED
    BY <1>1, <2>1, <2>2
<1>15. /\ \A m \in Nodes \ {n} : split'[m] = split[m]
       /\ split'[n] = Taken(split[n])
  BY <1>1 DEF Run, TypeOK
<1>16. /\ split'[n].next = j + 1 /\ split'[n].active = split[n].active + 1
       /\ split'[n].settledAt = split[n].settledAt /\ split'[n].first = split[n].first
       /\ split'[n].owner = split[n].owner /\ split'[n].state = split[n].state
  BY <1>1, <1>2, <1>15, TakenFacts
<1>17. \A m \in Nodes : split'[m].open <=> split[m].open
  BY <1>1, <1>15, TakenFacts
<1>18. \A m \in Nodes : Owned(m)' <=> Owned(m)
  <2>1. \A m \in Nodes : split'[m].owner = split[m].owner
    BY <1>15, <1>16
  <2> QED
    BY <1>14, <2>1 DEF Owned
<1>19. OneRunner'
  BY <1>10, <1>14 DEF Alone, OneRunner
<1>20. RunsAreLive'
  <2>1. SUFFICES ASSUME NEW v \in Workers, NEW d \in Nat, NEW m \in Nodes, NEW k \in Nat,
                        RunsAt(v, d, m, k)'
                 PROVE  /\ k < split'[m].next /\ k \in 1 .. Len(split'[m].state)
                        /\ split'[m].state[k] = "unresolved" /\ Owned(m)'
    BY DEF RunsAreLive
  <2>2. CASE m = n /\ k = j
    BY <1>1, <1>3, <1>4, <1>16, <1>18, <2>2 DEF Alone, SplitFits
  <2>3. CASE ~(m = n /\ k = j)
    <3>0. RunsAt(v, d, m, k)
      BY <1>14, <2>1, <2>3
    <3>1. /\ k < split[m].next /\ k \in 1 .. Len(split[m].state)
          /\ split[m].state[k] = "unresolved" /\ Owned(m)
      BY <3>0 DEF Alone, RunsAreLive
    <3>2. CASE m = n
      BY <1>2, <1>16, <1>18, <3>1, <3>2
    <3>3. CASE m # n
      BY <1>15, <1>18, <3>1, <3>3
    <3> QED
      BY <3>2, <3>3
  <2> QED
    BY <2>2, <2>3
<1>21. ActiveIsCounted'
  <2>1. ASSUME NEW m \in Nodes
        PROVE  IsFiniteSet(Runs(m)') /\ Cardinality(Runs(m)') = split'[m].active
    <3>0. IsFiniteSet(Runs(m)) /\ Cardinality(Runs(m)) = split[m].active
      BY DEF Alone, ActiveIsCounted
    <3>1. CASE m = n
      <4>1. \A v \in Workers, k \in Nat :
              <<v, k>> \in Runs(n)' <=> <<v, k>> \in Runs(n) \/ <<v, k>> = <<w, j>>
        <5>1. \A v \in Workers, k \in Nat :
                (\E d \in Nat : RunsAt(v, d, n, k)') <=>
                  (\E d \in Nat : RunsAt(v, d, n, k)) \/ (v = w /\ k = j)
          <6>1. h + 1 \in Nat
            BY <1>1
          <6> QED
            BY <1>14, <6>1
        <5> QED
          BY <5>1, InRuns, InRunsNext
      <4>2. Runs(n)' = Runs(n) \cup {<<w, j>>}
        BY <4>1, RunPairs
      <4>3. <<w, j>> \notin Runs(n)
        BY <1>10, InRuns
      <4>4. /\ IsFiniteSet(Runs(n) \cup {<<w, j>>})
            /\ Cardinality(Runs(n) \cup {<<w, j>>}) = Cardinality(Runs(n)) + 1
        BY <3>0, <3>1, <4>3, FS_AddElement
      <4> QED
        BY <1>16, <3>0, <3>1, <4>2, <4>4
    <3>2. CASE m # n
      <4>1. Runs(m)' = Runs(m)
        BY <1>14, <3>2, RunsKept
      <4> QED
        BY <1>15, <3>0, <3>2, <4>1
    <3> QED
      BY <3>1, <3>2
  <2> QED
    BY <2>1 DEF ActiveIsCounted
<1>24. HandedOut'
  <2>1. SUFFICES ASSUME NEW m \in Nodes, NEW k \in 1 .. Len(split'[m].state),
                        split'[m].first <= k, k < split'[m].next,
                        split'[m].state[k] = "unresolved"
                 PROVE  \E v \in Workers, d \in Nat : RunsAt(v, d, m, k)'
    BY DEF HandedOut
  <2>2. CASE m = n /\ k = j
    <3>1. h + 1 \in Nat
      BY <1>1
    <3> QED
      BY <1>14, <2>2, <3>1
  <2>3. CASE ~(m = n /\ k = j)
    <3>1. /\ k \in 1 .. Len(split[m].state) /\ split[m].first <= k /\ k < split[m].next
          /\ split[m].state[k] = "unresolved"
      <4>1. CASE m = n
        BY <1>2, <1>16, <2>1, <2>3, <4>1
      <4>2. CASE m # n
        BY <1>15, <2>1, <4>2
      <4> QED
        BY <4>1, <4>2
    <3>2. PICK v \in Workers, d \in Nat : RunsAt(v, d, m, k)
      BY <3>1 DEF Alone, HandedOut
    <3> QED
      BY <1>14, <3>2
  <2> QED
    BY <2>2, <2>3
<1>22. ASSUME NEW m \in Nodes PROVE SplitFits(m)'
  <2>1. CASE m # n
    BY <1>15, <1>18, <2>1 DEF Alone, SplitFits
  <2>2. CASE m = n
    <3>1. \A k \in 1 .. Len(split[n].state) : k >= j + 1 => k >= j
      BY <1>2
    <3> QED
      BY <1>2, <1>16, <1>17, <1>18, <2>2, <3>1 DEF Alone, SplitFits
  <2> QED
    BY <2>1, <2>2
<1>23. ASSUME NEW v \in Workers, NEW d \in Nat, NEW m \in Nodes, OwnsAt(v, d, m)'
       PROVE  OwnerFits(v, d, m)'
  <2>1. OwnerFits(v, d, m) /\ OwnsAt(v, d, m)
    BY <1>14, <1>23 DEF Alone, OwnersFit
  <2>2. d \in 1 .. Height(v) /\ Loop(v, d)' = Loop(v, d) /\ Loop(v, d).node = m
    BY <1>7, <2>1, OthersKeep DEF OwnsAt
  <2>3. /\ split'[m].owner = v /\ split'[m].first = Loop(v, d)'.i
        /\ Len(split'[m].state) = Len(Kids[m])
    BY <1>15, <1>16, <2>1, <2>2 DEF OwnerFits
  <2>4. split'[m].open <=> ~Withdrawn(v, d, m)'
    <3>1. CASE v # w
      BY <1>13, <1>17, <2>1, <3>1, WithdrawnKept DEF OwnerFits
    <3>2. CASE v = w /\ d = h
      <4>1. d # Height(v)' /\ Loop(v, d + 1)'.node = n /\ Top(w) = Loop(w, h) /\ h > 0
        BY <1>1, <1>6, <1>7, <2>2, <3>2, TopFacts
      <4>2. split[m].open <=> m = n
        BY <1>1, <2>2, <3>2, <4>1
      <4>3. Withdrawn(v, d, m)' <=> m # n
        BY <4>1 DEF Withdrawn
      <4> QED
        BY <1>17, <4>2, <4>3
    <3>3. CASE v = w /\ d # h
      <4>1. d < h
        BY <1>1, <2>2, <3>3
      <4> QED
        BY <1>13, <1>17, <2>1, <3>3, <4>1, WithdrawnKept DEF OwnerFits
    <3> QED
      BY <3>1, <3>2, <3>3
  <2> QED
    BY <2>3, <2>4 DEF OwnerFits
<1> QED
  BY <1>12, <1>19, <1>20, <1>21, <1>22, <1>23, <1>24 DEF Alone, OwnersFit

\* A child that comes back is written in its split, which still has an owner.
LEMMA ChildReturnsAlone ==
    ASSUME Fits, Fits', Alone, NEW w \in Workers, ChildReturns(w), OthersStay(w)
    PROVE  Alone'
<1> PICK h : h = Height(w)
  OBVIOUS
<1>1. /\ TypeOK /\ OneHolder /\ h > 0 /\ h \in Nat /\ Top(w).kind = "run"
      /\ Top(w) = Loop(w, h) /\ Top(w).node \in Nodes /\ Top(w).i \in Nat /\ Pop(w)
  BY LabelFacts, TopFacts DEF Fits, Alone, ChildReturns
<1>2. PICK n \in Nodes, j \in Nat : n = Top(w).node /\ j = Top(w).i
  BY <1>1
<1>3. /\ Height(w)' = h - 1 /\ (Rest(w) = <<>> <=> h = 1)
      /\ \A d \in 1 .. h - 1 : Loop(w, d)' = Loop(w, d)
      /\ h > 1 => Head(Rest(w)) = Loop(w, h - 1)
  BY <1>1, PopFacts
<1>4. RunsAt(w, h, n, j)
  BY <1>1, <1>2 DEF RunsAt
<1>5. /\ j < split[n].next /\ j \in 1 .. Len(split[n].state) /\ Owned(n)
  BY <1>1, <1>4 DEF Alone, RunsAreLive
<1>6. PICK st \in States : st = Outcome(w)
  BY DEF Outcome, States
<1>7. split[n] \in Splits
  BY <1>1 DEF TypeOK
<1>8. /\ split'[n] = Settled(split[n], j, st, n \in OrNodes)
      /\ \A m \in Nodes \ {n} : split'[m] = split[m]
  <2>1. split' = [split EXCEPT ![n] = Settled(split[n], j, st, n \in OrNodes)]
    BY <1>2, <1>6 DEF ChildReturns
  <2> QED
    BY <1>1, <2>1 DEF TypeOK
<1>9. /\ split'[n].open = split[n].open /\ split'[n].next = split[n].next
      /\ split'[n].active = split[n].active - 1
      /\ split'[n].settledAt = j \/ split'[n].settledAt = split[n].settledAt
      /\ split'[n].first = split[n].first /\ split'[n].owner = split[n].owner
      /\ Len(split'[n].state) = Len(split[n].state)
      /\ \A k \in 1 .. Len(split[n].state) : k # j => split'[n].state[k] = split[n].state[k]
  <2> DEFINE or == n \in OrNodes
             c == Settled(split[n], j, st, or)
  <2>1. /\ c.open = split[n].open /\ c.next = split[n].next
        /\ c.active = split[n].active - 1
        /\ \/ c.settledAt = j
           \/ c.settledAt = split[n].settledAt
        /\ c.first = split[n].first /\ c.owner = split[n].owner
        /\ Len(c.state) = Len(split[n].state)
        /\ \A k \in 1 .. Len(split[n].state) : k # j => c.state[k] = split[n].state[k]
    <3> HIDE DEF or
    <3> QED
      BY <1>5, <1>7, SettledFacts
  <2>2. split'[n] = c
    BY <1>8
  <2> HIDE DEF c
  <2> QED
    BY <2>1, <2>2
<1>10. pc'[w] \notin Entering
  <2>1. \E l \in {"help", "withdraw", "own", "wait"} : Goto(w, l)
    BY DEF ChildReturns
  <2> QED
    BY <1>1, <2>1 DEF Goto, TypeOK, Entering
<1>11. OneHolder'
  BY <1>1, <1>10, HolderPop
<1>12. Keeps(w, h - 1)
  BY <1>1, <1>3 DEF Keeps
<1>13. ASSUME NEW v \in Workers, NEW d \in Nat, NEW m \in Nodes
       PROVE  /\ OwnsAt(v, d, m)' <=> OwnsAt(v, d, m)
              /\ \A k \in Nat : RunsAt(v, d, m, k)' <=> RunsAt(v, d, m, k) /\ ~(v = w /\ d = h)
  <2>1. CASE v # w \/ d <= h - 1
    <3>1. ~(v = w /\ d = h)
      BY <1>1, <2>1
    <3> QED
      BY <1>12, <2>1, <3>1, LoopsKept
  <2>2. CASE v = w /\ d > h - 1
    BY <1>1, <1>3, <2>2 DEF OwnsAt, RunsAt
  <2> QED
    BY <1>1, <2>1, <2>2
<1>14. \A m \in Nodes : Owned(m)' <=> Owned(m)
  <2>1. \A m \in Nodes : split'[m].owner = split[m].owner
    BY <1>8, <1>9
  <2> QED
    BY <1>13, <2>1 DEF Owned
<1>15. OneRunner'
  BY <1>13 DEF Alone, OneRunner
<1>16. ASSUME NEW v \in Workers, NEW d \in Nat, RunsAt(v, d, n, j) PROVE v = w /\ d = h
  BY <1>1, <1>4, <1>16 DEF Alone, OneRunner
<1>17. RunsAreLive'
  <2>1. SUFFICES ASSUME NEW v \in Workers, NEW d \in Nat, NEW m \in Nodes, NEW k \in Nat,
                        RunsAt(v, d, m, k)'
                 PROVE  /\ k < split'[m].next /\ k \in 1 .. Len(split'[m].state)
                        /\ split'[m].state[k] = "unresolved" /\ Owned(m)'
    BY DEF RunsAreLive
  <2>2. RunsAt(v, d, m, k) /\ ~(v = w /\ d = h)
    BY <1>13, <2>1
  <2>3. /\ k < split[m].next /\ k \in 1 .. Len(split[m].state)
        /\ split[m].state[k] = "unresolved" /\ Owned(m)
    BY <2>2 DEF Alone, RunsAreLive
  <2>4. CASE m = n
    <3>1. k # j
      BY <1>16, <2>2, <2>4
    <3> QED
      BY <1>9, <1>14, <2>3, <2>4, <3>1
  <2>5. CASE m # n
    BY <1>8, <1>14, <2>3, <2>5
  <2> QED
    BY <2>4, <2>5
<1>18. ActiveIsCounted'
  <2>1. ASSUME NEW m \in Nodes
        PROVE  IsFiniteSet(Runs(m)') /\ Cardinality(Runs(m)') = split'[m].active
    <3>0. IsFiniteSet(Runs(m)) /\ Cardinality(Runs(m)) = split[m].active
      BY DEF Alone, ActiveIsCounted
    <3>1. CASE m = n
      <4>1. ASSUME NEW v \in Workers, NEW k \in Nat
            PROVE  <<v, k>> \in Runs(n)' <=> <<v, k>> \in Runs(n) /\ <<v, k>> # <<w, j>>
        <5>1. (\E d \in Nat : RunsAt(v, d, n, k)') <=>
                  (\E d \in Nat : RunsAt(v, d, n, k)) /\ ~(v = w /\ k = j)
          <6>1. ASSUME NEW d \in Nat, RunsAt(v, d, n, k), ~(v = w /\ k = j)
                PROVE  RunsAt(v, d, n, k)'
            <7>1. ~(v = w /\ d = h)
              BY <1>1, <1>4, <6>1 DEF RunsAt
            <7> QED
              BY <1>13, <6>1, <7>1
          <6>2. ASSUME NEW d \in Nat, RunsAt(v, d, n, k)'
                PROVE  RunsAt(v, d, n, k) /\ ~(v = w /\ k = j)
            BY <1>13, <1>16, <6>2
          <6> QED
            BY <6>1, <6>2
        <5> QED
          BY <5>1, InRuns, InRunsNext
      <4>2. Runs(n)' = Runs(n) \ {<<w, j>>}
        BY <4>1, RunPairs
      <4>3. <<w, j>> \in Runs(n)
        BY <1>1, <1>4, InRuns
      <4>4. /\ IsFiniteSet(Runs(n) \ {<<w, j>>})
            /\ Cardinality(Runs(n) \ {<<w, j>>}) = Cardinality(Runs(n)) - 1
        BY <3>0, <3>1, <4>3, FS_RemoveElement
      <4> QED
        BY <1>9, <3>0, <3>1, <4>2, <4>4
    <3>2. CASE m # n
      <4>1. \A v \in Workers, d \in Nat, k \in Nat :
              RunsAt(v, d, m, k)' <=> RunsAt(v, d, m, k)
        <5>1. \A k \in Nat : ~RunsAt(w, h, m, k)
          BY <1>4, <3>2 DEF RunsAt
        <5> QED
          BY <1>13, <5>1
      <4>2. Runs(m)' = Runs(m)
        BY <4>1, RunsKept
      <4> QED
        BY <1>8, <3>0, <3>2, <4>2
    <3> QED
      BY <3>1, <3>2
  <2> QED
    BY <2>1 DEF ActiveIsCounted
<1>21. HandedOut'
  <2>1. SUFFICES ASSUME NEW m \in Nodes, NEW k \in 1 .. Len(split'[m].state),
                        split'[m].first <= k, k < split'[m].next,
                        split'[m].state[k] = "unresolved"
                 PROVE  \E v \in Workers, d \in Nat : RunsAt(v, d, m, k)'
    BY DEF HandedOut
  <2>2. /\ ~(m = n /\ k = j)
        /\ k \in 1 .. Len(split[m].state) /\ split[m].first <= k /\ k < split[m].next
        /\ split[m].state[k] = "unresolved"
    <3>1. CASE m = n
      <4>1. split'[n].state[j] = st /\ st # "unresolved"
        <5> DEFINE or == n \in OrNodes
                   c == Settled(split[n], j, st, or)
        <5>1. c.state[j] = st
          <6> HIDE DEF or
          <6> QED
            BY <1>5, <1>7, SettledFacts
        <5>2. split'[n] = c
          BY <1>8
        <5>3. st # "unresolved"
          BY <1>6 DEF Outcome
        <5> HIDE DEF c
        <5> QED
          BY <5>1, <5>2, <5>3
      <4>2. k # j
        BY <2>1, <3>1, <4>1
      <4> QED
        BY <1>9, <2>1, <3>1, <4>2
    <3>2. CASE m # n
      BY <1>8, <2>1, <3>2
    <3> QED
      BY <3>1, <3>2
  <2>3. PICK v \in Workers, d \in Nat : RunsAt(v, d, m, k)
    BY <2>2 DEF Alone, HandedOut
  <2>4. ~(v = w /\ d = h)
    BY <1>4, <2>2, <2>3 DEF RunsAt
  <2> QED
    BY <1>13, <2>3, <2>4
<1>19. ASSUME NEW m \in Nodes PROVE SplitFits(m)'
  <2>1. CASE m # n
    BY <1>8, <1>14, <2>1 DEF Alone, SplitFits
  <2>2. CASE m = n
    <3>1. split'[n].open => Owned(n)'
      BY <1>5, <1>14
    <3>2. ASSUME NEW k \in 1 .. Len(split'[n].state), k >= split'[n].next
          PROVE  \/ split'[n].state[k] = "unresolved"
                 \/ split'[n].state[k] = "immediate" /\ split'[n].settledAt \in 1 .. k
      <4>1. /\ k \in 1 .. Len(split[n].state) /\ k >= split[n].next
            /\ split[n].next \in Nat
        BY <1>7, <1>9, <3>2, SplitParts
      <4>2. j \in 1 .. k /\ j # k
        BY <1>5, <4>1
      <4>3. split'[n].state[k] = split[n].state[k]
        BY <1>9, <4>1, <4>2
      <4>4. \/ split[n].state[k] = "unresolved"
            \/ split[n].state[k] = "immediate" /\ split[n].settledAt \in 1 .. k
        BY <4>1 DEF Alone, SplitFits
      <4> QED
        BY <1>9, <4>2, <4>3, <4>4
    <3> QED
      BY <2>2, <3>1, <3>2 DEF SplitFits
  <2> QED
    BY <2>1, <2>2
<1>20. ASSUME NEW v \in Workers, NEW d \in Nat, NEW m \in Nodes, OwnsAt(v, d, m)'
       PROVE  OwnerFits(v, d, m)'
  <2>1. OwnsAt(v, d, m) /\ OwnerFits(v, d, m)
    BY <1>13, <1>20 DEF Alone, OwnersFit
  <2>2. d \in 1 .. Height(v)' /\ Loop(v, d)' = Loop(v, d) /\ Loop(v, d).node = m
    BY <1>3, <1>20, <2>1, OthersKeep DEF OwnsAt
  <2>3. /\ split'[m].owner = v /\ split'[m].first = Loop(v, d)'.i
        /\ Len(split'[m].state) = Len(Kids[m])
    <3>1. /\ split'[m].owner = split[m].owner /\ split'[m].first = split[m].first
          /\ Len(split'[m].state) = Len(split[m].state)
      BY <1>8, <1>9
    <3> QED
      BY <2>1, <2>2, <3>1 DEF OwnerFits
  <2>4. split'[m].open <=> split[m].open
    BY <1>8, <1>9
  <2>5. split'[m].open <=> ~Withdrawn(v, d, m)'
    <3>1. CASE v # w
      BY <1>12, <2>1, <2>4, <3>1, WithdrawnKept DEF OwnerFits
    <3>2. CASE v = w /\ d = h - 1
      <4>1. h > 1 /\ d = Height(v)' /\ d # Height(v) /\ d + 1 = h /\ h # 1
        BY <1>1, <1>3, <2>2, <3>2
      <4>2. split[m].open <=> n = m
        BY <1>1, <1>2, <2>1, <3>2, <4>1 DEF OwnerFits, Withdrawn
      <4>3. pc'[w] \in {"wait", "seek"} <=> n # m
        <5>1. Head(Rest(w)).node = m /\ Rest(w) # <<>>
          BY <1>3, <2>2, <3>2, <4>1
        <5>2. IF n = m THEN Goto(w, "withdraw") \/ Goto(w, "own") ELSE Goto(w, "wait")
          BY <1>2, <5>1 DEF ChildReturns
        <5> QED
          BY <1>1, <5>2 DEF Goto, TypeOK
      <4>4. Withdrawn(v, d, m)' <=> n # m
        BY <3>2, <4>1, <4>3 DEF Withdrawn
      <4> QED
        BY <2>4, <4>2, <4>4
    <3>3. CASE v = w /\ d # h - 1
      <4>1. d < h - 1
        BY <1>1, <1>3, <2>2, <3>3
      <4> QED
        BY <1>12, <2>1, <2>4, <3>3, <4>1, WithdrawnKept DEF OwnerFits
    <3> QED
      BY <3>1, <3>2, <3>3
  <2> QED
    BY <2>3, <2>5 DEF OwnerFits
<1> QED
  BY <1>11, <1>15, <1>17, <1>18, <1>19, <1>20, <1>21 DEF Alone, OwnersFit

LEMMA NoneRuns ==
    ASSUME Fits, Alone, NEW w \in Workers, ~Busy(w), NEW n \in Nodes, n = Top(w).node
    PROVE  \A v \in Workers, d \in Nat, j \in Nat : ~RunsAt(v, d, n, j)
<1>1. IsFiniteSet(Runs(n)) /\ Cardinality(Runs(n)) = split[n].active
  BY DEF Alone, ActiveIsCounted
<1>2. Cardinality(Runs(n)) \in Nat /\ ~(split[n].active > 0)
  BY <1>1, FS_CardinalityType DEF Busy
<1>3. Cardinality(Runs(n)) = 0
  BY <1>1, <1>2
<1>4. Runs(n) = {}
  BY <1>1, <1>3, FS_EmptySet
<1> QED
  BY <1>4, InRuns

\* An owner composes when none of its children runs.
LEMMA ComposeAlone ==
    ASSUME Fits, Fits', Alone, NEW w \in Workers, ComposeMoves(w) \/ ComposeReplies(w),
           OthersStay(w)
    PROVE  Alone'
<1> PICK h : h = Height(w)
  OBVIOUS
<1>1. /\ TypeOK /\ OneHolder /\ h > 0 /\ h \in Nat /\ Top(w).kind = "own" /\ pc[w] = "wait"
      /\ Top(w) = Loop(w, h) /\ Top(w).node \in Nodes /\ Pop(w) /\ ~Busy(w) /\ split' = split
  <2>1. /\ pc[w] = "wait" /\ Top(w).kind = "own" /\ Pop(w) /\ ~Busy(w) /\ split' = split
    BY DEF ComposeMoves, ComposeReplies, Composes, Owning, registry
  <2>2. TypeOK /\ OneHolder /\ h > 0
    BY <2>1, LabelFacts DEF Fits, Alone
  <2> QED
    BY <2>1, <2>2, TopFacts
<1>2. PICK n \in Nodes : n = Top(w).node
  BY <1>1
<1>3. /\ Height(w)' = h - 1
      /\ \A d \in 1 .. h - 1 : Loop(w, d)' = Loop(w, d)
  BY <1>1, PopFacts
<1>4. pc'[w] = "ret"
  <2>1. Goto(w, "ret")
    BY DEF ComposeMoves, ComposeReplies, NoVerdict, Return
  <2> QED
    BY <1>1, <2>1 DEF Goto, TypeOK
<1>5. OneHolder'
  BY <1>1, <1>4, HolderPop DEF Entering
<1>6. OwnsAt(w, h, n)
  BY <1>1, <1>2 DEF OwnsAt
<1>7. ~split[n].open
  BY <1>1, <1>6 DEF Alone, OwnersFit, OwnerFits, Withdrawn
<1>8. \A v \in Workers, d \in Nat, j \in Nat : ~RunsAt(v, d, n, j)
  BY <1>1, <1>2, NoneRuns
<1>9. Keeps(w, h - 1)
  BY <1>1, <1>3 DEF Keeps
<1>10. ASSUME NEW v \in Workers, NEW d \in Nat, NEW m \in Nodes
       PROVE  /\ OwnsAt(v, d, m)' <=> OwnsAt(v, d, m) /\ ~(v = w /\ d = h)
              /\ \A k \in Nat : RunsAt(v, d, m, k)' <=> RunsAt(v, d, m, k)
  <2>1. CASE v # w \/ d <= h - 1
    <3>1. ~(v = w /\ d = h)
      BY <1>1, <2>1
    <3> QED
      BY <1>9, <2>1, <3>1, LoopsKept
  <2>2. CASE v = w /\ d > h - 1
    BY <1>1, <1>3, <2>2 DEF OwnsAt, RunsAt
  <2> QED
    BY <1>1, <2>1, <2>2
<1>11. ASSUME NEW m \in Nodes, m # n, Owned(m) PROVE Owned(m)'
  <2>1. PICK o \in Workers, p \in Nat : o = split[m].owner /\ OwnsAt(o, p, m)
    BY <1>11 DEF Owned
  <2>2. ~(o = w /\ p = h)
    BY <1>6, <1>11, <2>1 DEF OwnsAt
  <2>3. OwnsAt(o, p, m)'
    BY <1>10, <2>1, <2>2
  <2> QED
    BY <1>1, <2>1, <2>3 DEF Owned
<1>12. OneRunner'
  BY <1>10 DEF Alone, OneRunner
<1>13. RunsAreLive'
  <2>1. SUFFICES ASSUME NEW v \in Workers, NEW d \in Nat, NEW m \in Nodes, NEW k \in Nat,
                        RunsAt(v, d, m, k)'
                 PROVE  /\ k < split'[m].next /\ k \in 1 .. Len(split'[m].state)
                        /\ split'[m].state[k] = "unresolved" /\ Owned(m)'
    BY DEF RunsAreLive
  <2>2. RunsAt(v, d, m, k) /\ m # n
    BY <1>8, <1>10, <2>1
  <2>3. /\ k < split[m].next /\ k \in 1 .. Len(split[m].state)
        /\ split[m].state[k] = "unresolved" /\ Owned(m)
    BY <2>2 DEF Alone, RunsAreLive
  <2> QED
    BY <1>1, <1>11, <2>2, <2>3
<1>14. ActiveIsCounted'
  BY <1>1, <1>10, RunsKept DEF Alone, ActiveIsCounted
<1>17. HandedOut'
  <2>1. SUFFICES ASSUME NEW m \in Nodes, NEW k \in 1 .. Len(split'[m].state),
                        split'[m].first <= k, k < split'[m].next,
                        split'[m].state[k] = "unresolved"
                 PROVE  \E v \in Workers, d \in Nat : RunsAt(v, d, m, k)'
    BY DEF HandedOut
  <2>2. /\ k \in 1 .. Len(split[m].state) /\ k \in Nat
        /\ split[m].first <= k /\ k < split[m].next /\ split[m].state[k] = "unresolved"
    BY <1>1, <2>1
  <2>3. PICK v \in Workers, d \in Nat : RunsAt(v, d, m, k)
    BY <2>2 DEF Alone, HandedOut
  <2> QED
    BY <1>10, <2>2, <2>3
<1>15. ASSUME NEW m \in Nodes PROVE SplitFits(m)'
  <2>1. SplitFits(m)
    BY DEF Alone
  <2>2. split'[m].open => Owned(m)'
    BY <1>1, <1>7, <1>11, <2>1 DEF SplitFits
  <2> QED
    BY <1>1, <2>1, <2>2 DEF SplitFits
<1>16. ASSUME NEW v \in Workers, NEW d \in Nat, NEW m \in Nodes, OwnsAt(v, d, m)'
       PROVE  OwnerFits(v, d, m)'
  <2>1. OwnsAt(v, d, m) /\ OwnerFits(v, d, m)
    BY <1>10, <1>16 DEF Alone, OwnersFit
  <2>2. d \in 1 .. Height(v)' /\ Loop(v, d)' = Loop(v, d) /\ Loop(v, d).node = m
    BY <1>3, <1>16, <2>1, OthersKeep DEF OwnsAt
  <2>3. /\ split'[m].owner = v /\ split'[m].first = Loop(v, d)'.i
        /\ Len(split'[m].state) = Len(Kids[m])
    BY <1>1, <2>1, <2>2 DEF OwnerFits
  <2>4. split'[m].open <=> ~Withdrawn(v, d, m)'
    <3>1. CASE v # w
      BY <1>1, <1>9, <2>1, <3>1, WithdrawnKept DEF OwnerFits
    <3>2. CASE v = w /\ d = h - 1
      <4>1. Loop(w, h - 1).kind = "own" /\ h > 1
        <5>1. d \in 1 .. h /\ Loop(w, d).kind = "own"
          BY <1>1, <2>1, <3>2 DEF OwnsAt
        <5> QED
          BY <1>1, <3>2, <5>1
      <4> QED
        BY <1>1, <4>1, TopFacts DEF Above
    <3>3. CASE v = w /\ d # h - 1
      <4>1. d < h - 1
        BY <1>1, <1>3, <2>2, <3>3
      <4> QED
        BY <1>1, <1>9, <2>1, <3>3, <4>1, WithdrawnKept DEF OwnerFits
    <3> QED
      BY <3>1, <3>2, <3>3
  <2> QED
    BY <2>3, <2>4 DEF OwnerFits
<1> QED
  BY <1>5, <1>12, <1>13, <1>14, <1>15, <1>16, <1>17 DEF Alone, OwnersFit

LEMMA IdleAlone ==
    ASSUME Fits, Fits', Alone, UNCHANGED <<value, root, registry, thread>>
    PROVE  Alone'
<1>1. /\ split' = split /\ pc' = pc /\ at' = at /\ stack' = stack
  BY DEF registry, thread
<1>2. /\ \A v \in Workers : Height(v)' = Height(v)
      /\ \A v \in Workers, d \in Nat : Loop(v, d)' = Loop(v, d)
  BY <1>1 DEF Height, Loop
<1>3. \A v \in Workers, d \in Nat, m \in Nodes :
        /\ OwnsAt(v, d, m)' <=> OwnsAt(v, d, m)
        /\ Holds(v, d, m)' <=> Holds(v, d, m)
        /\ \A j \in Nat : RunsAt(v, d, m, j)' <=> RunsAt(v, d, m, j)
  BY <1>1, <1>2 DEF OwnsAt, RunsAt, Holds, Searches
<1>4. \A m \in Nodes : Owned(m)' <=> Owned(m)
  BY <1>1, <1>3 DEF Owned
<1>5. OneHolder' /\ OneRunner' /\ RunsAreLive'
  <2>1. OneHolder'
    BY <1>3 DEF Alone, OneHolder
  <2>2. OneRunner'
    BY <1>3 DEF Alone, OneRunner
  <2>3. RunsAreLive'
    BY <1>1, <1>3, <1>4 DEF Alone, RunsAreLive
  <2> QED
    BY <2>1, <2>2, <2>3
<1>6. ActiveIsCounted'
  BY <1>1, <1>3, RunsKept DEF Alone, ActiveIsCounted
<1>9. HandedOut'
  <2>1. SUFFICES ASSUME NEW m \in Nodes, NEW j \in 1 .. Len(split'[m].state),
                        split'[m].first <= j /\ j < split'[m].next,
                        split'[m].state[j] = "unresolved"
                 PROVE  \E v \in Workers, d \in Nat : RunsAt(v, d, m, j)'
    BY DEF HandedOut
  <2>2. PICK v \in Workers, d \in Nat : RunsAt(v, d, m, j)
    BY <1>1, <2>1 DEF Alone, HandedOut
  <2>3. j \in Nat
    BY <2>1
  <2> QED
    BY <1>3, <2>2, <2>3
<1>7. \A m \in Nodes : SplitFits(m)'
  BY <1>1, <1>4 DEF Alone, SplitFits
<1>8. ASSUME NEW v \in Workers, NEW d \in Nat, NEW m \in Nodes, OwnsAt(v, d, m)'
      PROVE  OwnerFits(v, d, m)'
  <2>1. OwnerFits(v, d, m)
    BY <1>3, <1>8 DEF Alone, OwnersFit
  <2>2. d + 1 \in Nat
    OBVIOUS
  <2> QED
    BY <1>1, <1>2, <2>1, <2>2 DEF OwnerFits, Withdrawn
<1> QED
  BY <1>5, <1>6, <1>7, <1>8, <1>9 DEF Alone, OwnersFit

\* An owner takes a child of its own, or lends a hand with another's.
LEMMA ClaimsAlone ==
    ASSUME Fits, Fits', Alone, NEW w \in Workers,
           OwnerClaims(w) \/ OwnerHelpsOther(w) \/ HelperClaims(w), OthersStay(w)
    PROVE  Alone'
<1>1. TypeOK /\ pc[w] \notin Entering /\ pc'[w] \in {"enter", "announce"}
  <2>1. TypeOK /\ pc[w] \in {"own", "seek", "help"}
    BY DEF Fits, OwnerClaims, OwnerHelpsOther, HelperClaims, Owning
  <2>2. Goto(w, "enter") \/ Goto(w, "announce")
    BY DEF OwnerClaims, OwnerHelpsOther, HelperClaims
  <2> QED
    BY <2>1, <2>2 DEF Goto, TypeOK, Entering
<1>2. CASE OwnerClaims(w)
  <2>1. pc[w] = "own" /\ Offers(split[Top(w).node]) /\ Run(w, Top(w).node)
    BY <1>2 DEF OwnerClaims, Owning
  <2>2. Height(w) > 0
    BY <2>1, LabelFacts
  <2>3. Top(w).kind = "own" /\ Top(w).node \in Nodes
    BY <2>1, <2>2, LabelFacts, TopFacts
  <2> QED
    BY <1>1, <2>1, <2>3, RunAlone
<1>3. CASE OwnerHelpsOther(w)
  <2>1. /\ pc[w] = "seek" /\ Open(maxOwned[w]) # {} /\ Run(w, Chosen(maxOwned[w]))
        /\ Top(w).kind = "own"
    BY <1>3 DEF OwnerHelpsOther, Owning
  <2>2. Height(w) > 0
    BY <2>1, LabelFacts
  <2>3. Top(w).node \in Nodes /\ Height(w) \in Nat /\ Top(w) = Loop(w, Height(w))
    BY <2>2, TopFacts
  <2>4. OwnsAt(w, Height(w), Top(w).node)
    BY <2>1, <2>2, <2>3 DEF OwnsAt
  <2>5. ~split[Top(w).node].open
    BY <2>1, <2>3, <2>4 DEF Alone, OwnersFit, OwnerFits, Withdrawn
  <2>6. PICK n \in Nodes : n = Chosen(maxOwned[w]) /\ Offers(split[n])
    BY <1>1, <2>1, ChosenFacts
  <2> QED
    BY <1>1, <2>1, <2>5, <2>6, RunAlone
<1>4. CASE HelperClaims(w)
  <2>1. pc[w] = "help" /\ Open(maxOwned[w]) # {} /\ Run(w, Chosen(maxOwned[w]))
    BY <1>4 DEF HelperClaims
  <2>2. ~(Height(w) > 0)
    BY <2>1, LabelFacts
  <2>3. PICK n \in Nodes : n = Chosen(maxOwned[w]) /\ Offers(split[n])
    BY <1>1, <2>1, ChosenFacts
  <2> QED
    BY <1>1, <2>1, <2>2, <2>3, RunAlone
<1> QED
  BY <1>2, <1>3, <1>4

LEMMA LoopEndsAlone ==
    ASSUME Fits, Fits', Alone, NEW w \in Workers, LoopEnds(w), OthersStay(w)
    PROVE  Alone'
<1>1. /\ TypeOK /\ Pop(w) /\ Top(w).kind = "loop" /\ split' = split /\ pc[w] = "loop"
  BY DEF Fits, LoopEnds, InLoop, registry
<1>2. Height(w) > 0
  BY <1>1, LabelFacts
<1>3. Goto(w, "ret")
  BY DEF LoopEnds, Return
<1>4. pc'[w] = "ret"
  BY <1>1, <1>3 DEF Goto, TypeOK
<1> QED
  BY <1>1, <1>2, <1>4, LoopGoneAlone

LEMMA AloneStep == ASSUME Fits, Fits', Alone, [Next]_vars PROVE Alone'
<1>1. CASE UNCHANGED vars
  BY <1>1, IdleAlone DEF vars
<1>2. ASSUME NEW e \in Limits, Interrupt(e) PROVE Alone'
  BY <1>2, IdleAlone DEF Interrupt
<1>3. ASSUME NEW w \in Workers, WorkerStep(w) PROVE Alone'
  <2>1. OthersStay(w)
    BY <1>3, StepIsMine
  <2> QED
    BY <1>3, <2>1, LabelAlone, RootClaimAlone, RootRecheckAlone, RootDoneAlone, OpenNodeAlone,
       PublishRepliesAlone, LoopEndsAlone, NextKidAlone, BackInLoopAlone, ShareAlone,
       ClaimsAlone, WithdrawAlone, ComposeAlone, ChildReturnsAlone DEF WorkerStep
<1> QED
  BY <1>1, <1>2, <1>3 DEF Next, AtRest

LEMMA AloneInit == ASSUME Init PROVE Alone
<1>1. Fits
  BY FitsInit
<1>2. \A w \in Workers : Height(w) = 0 /\ pc[w] = "claim"
  BY DEF Init, Height
<1>3. \A n \in Nodes : split[n] = NoSplit
  BY DEF Init
<1>4. \A w \in Workers, d \in Nat, n \in Nodes :
        /\ ~Holds(w, d, n) /\ ~OwnsAt(w, d, n) /\ \A j \in Nat : ~RunsAt(w, d, n, j)
  BY <1>2 DEF Holds, OwnsAt, RunsAt
<1>5. OneHolder /\ OneRunner /\ RunsAreLive /\ OwnersFit
  BY <1>4 DEF OneHolder, OneRunner, RunsAreLive, OwnersFit
<1>6. ActiveIsCounted
  <2>1. ASSUME NEW n \in Nodes PROVE Runs(n) = {}
    BY <1>1, <1>4, InRuns, RunPairs
  <2> QED
    BY <1>3, <2>1, FS_EmptySet, NoSplitFacts DEF ActiveIsCounted
<1>8. HandedOut
  BY <1>3, NoSplitFacts DEF HandedOut
<1>7. \A n \in Nodes : SplitFits(n)
  BY <1>3, NoSplitFacts DEF SplitFits
<1> QED
  BY <1>5, <1>6, <1>7, <1>8 DEF Alone

\* No child of a split is run twice, none is written after its split was composed, and
\* `active' counts what the owner waits for (help_splits, run_child, prove_attacker).
THEOREM ChildrenRunOnce == Spec => []ChildrenAreRunOnce
<1>1. Init => Fits /\ Alone
  BY FitsInit, AloneInit
<1>2. Fits /\ Alone /\ [Next]_vars => (Fits /\ Alone)'
  BY FitsStep, AloneStep
<1>3. Fits /\ Alone => ChildrenAreRunOnce
  <2>1. SUFFICES ASSUME Fits, Alone, NEW n \in Nodes
                 PROVE  /\ Cardinality(Runs(n)) = split[n].active
                        /\ \A r \in Runs(n) :
                             /\ split[n].state[r[2]] = "unresolved" /\ r[2] < split[n].next
                             /\ \A q \in Runs(n) : q[2] = r[2] => q = r
                             /\ \E f \in Frames(split[n].owner) : f.kind = "own" /\ f.node = n
    BY DEF ChildrenAreRunOnce
  <2>2. Cardinality(Runs(n)) = split[n].active
    BY <2>1 DEF Alone, ActiveIsCounted
  <2>3. ASSUME NEW r \in Runs(n)
        PROVE  /\ split[n].state[r[2]] = "unresolved" /\ r[2] < split[n].next
               /\ \A q \in Runs(n) : q[2] = r[2] => q = r
               /\ \E f \in Frames(split[n].owner) : f.kind = "own" /\ f.node = n
    <3>1. r[1] \in Workers /\ r[2] \in Nat /\ r = <<r[1], r[2]>>
      BY <2>1, <2>3, RunPairs
    <3>2. PICK d \in Nat : RunsAt(r[1], d, n, r[2])
      BY <2>1, <2>3, <3>1, InRuns
    <3>3. split[n].state[r[2]] = "unresolved" /\ r[2] < split[n].next /\ Owned(n)
      BY <2>1, <3>1, <3>2 DEF Alone, RunsAreLive
    <3>4. ASSUME NEW q \in Runs(n), q[2] = r[2] PROVE q = r
      <4>1. q[1] \in Workers /\ q[2] \in Nat /\ q = <<q[1], q[2]>>
        BY <2>1, <3>4, RunPairs
      <4>2. PICK e \in Nat : RunsAt(q[1], e, n, q[2])
        BY <2>1, <3>4, <4>1, InRuns
      <4>3. q[1] = r[1]
        BY <2>1, <3>1, <3>2, <3>4, <4>1, <4>2 DEF Alone, OneRunner
      <4> QED
        BY <3>1, <3>4, <4>1, <4>3
    <3>5. \E f \in Frames(split[n].owner) : f.kind = "own" /\ f.node = n
      <4>1. PICK o \in Workers, p \in Nat : o = split[n].owner /\ OwnsAt(o, p, n)
        BY <3>3 DEF Owned
      <4>2. stack[o] \in Seq(Loops)
        BY <2>1, StackFacts DEF Fits
      <4>3. Loop(o, p) \in Frames(o)
        BY <4>1, <4>2, FramesOf DEF Frames, Loop, Height, OwnsAt
      <4> QED
        BY <4>1, <4>3 DEF OwnsAt
    <3> QED
      BY <3>3, <3>4, <3>5
  <2> QED
    BY <2>2, <2>3
<1> QED
  BY <1>1, <1>2, <1>3, PTL DEF Spec

-----------------------------------------------------------------------------
(* Third layer: the truth. *)

LEMMA OneKid ==
    ASSUME TreeIsTrue, NEW n \in Nodes, NEW j \in DOMAIN Kids[n]
    PROVE  /\ n \in OrNodes /\ Wins(Kids[n][j]) => Wins(n)
           /\ n \notin OrNodes /\ ~Wins(Kids[n][j]) => ~Wins(n)
           /\ n \notin OrNodes /\ value[Kids[n][j]] = "refuted" => value[n] = "refuted"
<1>1. n \notin Leaves
  BY EmptySeq, Tree DEF Leaves
<1>2. value[n] = Composed(n) /\ Kids[n][j] \in KidSet(n)
  BY <1>1 DEF TreeIsTrue, KidSet
<1>3. CASE n \in OrNodes
  BY <1>2, <1>3 DEF Composed, Wins
<1>4. CASE n \notin OrNodes
  <2>1. ~Wins(Kids[n][j]) => ~(\A k \in KidSet(n) : value[k] \in {"proved", "mate"})
    BY <1>2 DEF Wins
  <2>2. ~Wins(Kids[n][j]) => value[n] \in {"refuted", "failed"}
    BY <1>2, <1>4, <2>1 DEF Composed
  <2>3. value[Kids[n][j]] = "refuted" => ~Wins(Kids[n][j])
    BY DEF Wins
  <2>4. value[Kids[n][j]] = "refuted" => value[n] = "refuted"
    BY <1>2, <1>4, <2>1, <2>3 DEF Composed
  <2> QED
    BY <1>4, <2>2, <2>4 DEF Wins
<1> QED
  BY <1>3, <1>4

LEMMA AllKids ==
    ASSUME TreeIsTrue, NEW n \in Nodes \ Leaves
    PROVE  /\ /\ n \in OrNodes
              /\ \A j \in 1 .. Len(Kids[n]) : ~Wins(Kids[n][j])
              => ~Wins(n)
           /\ /\ n \in OrNodes
              /\ \A j \in 1 .. Len(Kids[n]) : value[Kids[n][j]] = "refuted"
              => value[n] = "refuted"
           /\ /\ n \notin OrNodes
              /\ \A j \in 1 .. Len(Kids[n]) : Wins(Kids[n][j])
              => Wins(n)
<1>1. value[n] = Composed(n)
  BY DEF TreeIsTrue
<1>2. KidSet(n) = {Kids[n][j] : j \in 1 .. Len(Kids[n])}
  BY Tree DEF KidSet
<1>3. ASSUME n \in OrNodes, \A j \in 1 .. Len(Kids[n]) : ~Wins(Kids[n][j]) PROVE ~Wins(n)
  <2>1. ~(\E k \in KidSet(n) : value[k] \in {"proved", "mate"})
    BY <1>2, <1>3 DEF Wins
  <2> QED
    BY <1>1, <1>3, <2>1 DEF Composed, Wins
<1>4. ASSUME n \in OrNodes, \A j \in 1 .. Len(Kids[n]) : value[Kids[n][j]] = "refuted"
      PROVE  value[n] = "refuted"
  <2>1. \A k \in KidSet(n) : value[k] \in {"refuted"}
    BY <1>2, <1>4
  <2>2. ~(\E k \in KidSet(n) : value[k] \in {"proved", "mate"})
    BY <2>1
  <2> QED
    BY <1>1, <1>4, <2>1, <2>2 DEF Composed
<1>5. ASSUME n \notin OrNodes, \A j \in 1 .. Len(Kids[n]) : Wins(Kids[n][j]) PROVE Wins(n)
  <2>1. \A k \in KidSet(n) : value[k] \in {"proved", "mate"}
    BY <1>2, <1>5 DEF Wins
  <2> QED
    BY <1>1, <1>5, <2>1 DEF Composed, Wins
<1> QED
  BY <1>3, <1>4, <1>5

\* The tree does not change, and a step brings back one worker's result.
ResultsStay(w) ==
    /\ value' = value
    /\ \A v \in Workers \ {w} :
         ret'[v] = ret[v] /\ aborted'[v] = aborted[v] /\ timedOut'[v] = timedOut[v]

LEMMA StepIsHonest ==
    ASSUME Fits, NEW w \in Workers, WorkerStep(w)
    PROVE  ResultsStay(w)
<1>1. TypeOK
  BY DEF Fits
<1>2. CASE RootClaim(w) \/ RootPublish(w) \/ RootRecheck(w) \/ RootDone(w)
  BY <1>1, <1>2 DEF ResultsStay, TypeOK, RootClaim, RootPublish, RootRecheck, RootDone,
     Announce, registry, root
<1>3. CASE GiveUp(w) \/ SearchLeaf(w) \/ OpenNode(w) \/ PublishReplies(w)
  BY <1>1, <1>3 DEF ResultsStay, TypeOK, GiveUp, SearchLeaf, OpenNode, PublishReplies, Return
<1>4. CASE LoopEnds(w) \/ NextKid(w)
  BY <1>1, <1>4 DEF ResultsStay, TypeOK, LoopEnds, NextKid, Return
<1>5. CASE BackInLoop(w)
  BY <1>1, <1>5 DEF ResultsStay, TypeOK, BackInLoop, Return
<1>6. CASE SeeDemand(w) \/ Share(w) \/ OwnerClaims(w) \/ OwnerIsDone(w) \/ Withdraw(w)
  BY <1>1, <1>6 DEF ResultsStay, TypeOK, SeeDemand, Share, OwnerClaims, OwnerIsDone, Withdraw
<1>7. CASE LooksForWork(w) \/ OwnerHelpsOther(w) \/ FindsNoWork(w)
  BY <1>1, <1>7 DEF ResultsStay, TypeOK, LooksForWork, OwnerHelpsOther, FindsNoWork
<1>8. CASE ComposeMoves(w) \/ ComposeReplies(w)
  BY <1>1, <1>8 DEF ResultsStay, TypeOK, ComposeMoves, ComposeReplies, Composes, NoVerdict,
     Return
<1>9. CASE ChildReturns(w)
  BY <1>1, <1>9 DEF ResultsStay, TypeOK, ChildReturns
<1>10. CASE HelperClaims(w) \/ HelperAnnounces(w) \/ HelperLeaves(w)
  BY <1>1, <1>10 DEF ResultsStay, TypeOK, HelperClaims, HelperAnnounces, HelperLeaves,
     Announce
<1> QED
  BY <1>2, <1>3, <1>4, <1>5, <1>6, <1>7, <1>8, <1>9, <1>10 DEF WorkerStep

LEMMA SameLoopTrue ==
    ASSUME value' = value, NEW f, NEW k
    PROVE  LoopIsTrue(f, k)' <=> LoopIsTrue(f, k)
BY DEF LoopIsTrue, Wins

\* The first k loops are kept, and as far.
LEMMA LoopsStayTrue ==
    ASSUME Fits, Fits', LoopsAreTrue, NEW w \in Workers, OthersStay(w), value' = value,
           NEW k, Keeps(w, k),
           k > 0 /\ Loop(w, k).kind = "loop" =>
             (k < Height(w)' \/ pc'[w] \in {"enter", "ret"} <=>
              k < Height(w) \/ pc[w] \in {"enter", "ret"}),
           \A d \in k + 1 .. Height(w)' :
             Searches(Loop(w, d))' => LoopIsTrue(Loop(w, d), Done(w, d))'
    PROVE  LoopsAreTrue'
<1>1. SUFFICES ASSUME NEW v \in Workers, NEW d \in 1 .. Height(v)', Searches(Loop(v, d))'
               PROVE  LoopIsTrue(Loop(v, d), Done(v, d))'
  BY DEF LoopsAreTrue
<1>2. CASE v = w /\ d > k
  <2>1. Height(w)' \in Nat /\ k \in Nat
    BY DEF Keeps
  <2> QED
    BY <1>1, <1>2, <2>1
<1>3. CASE ~(v = w /\ d > k)
  <2>1. /\ d \in 1 .. Height(v) /\ Loop(v, d)' = Loop(v, d) /\ Done(v, d)' = Done(v, d)
    <3>1. CASE v # w
      BY <1>1, <3>1, OthersKeep DEF Done
    <3>2. CASE v = w
      <4>1. /\ Height(w) \in Nat /\ Height(w)' \in Nat /\ k \in Nat /\ k <= Height(w)
            /\ k <= Height(w)' /\ d \in 1 .. k /\ Loop(w, d)' = Loop(w, d)
        BY <1>1, <1>3, <3>2, StackFacts DEF Keeps, Fits
      <4>2. CASE d = k
        BY <3>2, <4>1, <4>2 DEF Done
      <4>3. CASE d < k
        BY <3>2, <4>1, <4>3 DEF Done
      <4> QED
        BY <3>2, <4>1, <4>2, <4>3
    <3> QED
      BY <3>1, <3>2
  <2>2. PICK f, x : f = Loop(v, d) /\ x = Done(v, d)
    OBVIOUS
  <2>3. LoopIsTrue(f, x)
    BY <1>1, <2>1, <2>2 DEF LoopsAreTrue, Searches
  <2> QED
    BY <2>1, <2>2, <2>3, SameLoopTrue
<1> QED
  BY <1>2, <1>3

LEMMA SplitStaysTrue ==
    ASSUME value' = value, NEW n \in Nodes, SplitIsTrue(n),
           split'[n].state = split[n].state, split'[n].settledAt = split[n].settledAt,
           split'[n].settleRefuted => split[n].settleRefuted
    PROVE  SplitIsTrue(n)'
BY DEF SplitIsTrue, StateIsTrue, Settles, Wins

\* What is left to show of a step.
LEMMA StaysTrue ==
    ASSUME Fits, True, NEW w \in Workers, OthersStay(w), ResultsStay(w), LoopsAreTrue',
           \A n \in Nodes : SplitIsTrue(n)', ResultIsTrue(w)',
           \A i \in proved' : Wins(RootNode[i])
    PROVE  True'
<1>1. TreeIsTrue'
  BY DEF True, TreeIsTrue, ResultsStay, Composed
<1>2. ASSUME NEW v \in Workers PROVE ResultIsTrue(v)'
  <2>1. CASE v # w
    BY <2>1 DEF True, ResultIsTrue, OthersStay, ResultsStay, Wins
  <2> QED
    BY <2>1
<1>3. \A i \in proved' : Wins(RootNode[i])'
  BY DEF ResultsStay, Wins
<1> QED
  BY <1>1, <1>2, <1>3 DEF True

LEMMA TopIsTrue ==
    ASSUME Fits, True, NEW w \in Workers, Height(w) > 0, Searches(Top(w))
    PROVE  /\ LoopIsTrue(Top(w), Done(w, Height(w)))
           /\ Done(w, Height(w)) = IF Top(w).kind = "loop" /\ pc[w] \in {"enter", "ret"}
                                   THEN Top(w).i - 2 ELSE Top(w).i - 1
<1>1. Top(w) = Loop(w, Height(w)) /\ Height(w) \in 1 .. Height(w)
  BY TopFacts
<1>2. LoopIsTrue(Top(w), Done(w, Height(w)))
  BY <1>1 DEF True, LoopsAreTrue
<1>3. ~(Height(w) < Height(w))
  BY TopFacts
<1> QED
  BY <1>1, <1>2, <1>3 DEF Done

LEMMA StayTrue ==
    ASSUME Fits, Fits', True, NEW w \in Workers, OthersStay(w), ResultsStay(w),
           stack' = stack,
           Height(w) > 0 /\ Top(w).kind = "loop" =>
             (pc'[w] \in {"enter", "ret"} <=> pc[w] \in {"enter", "ret"})
    PROVE  LoopsAreTrue'
<1>1. Height(w) \in Nat /\ Height(w)' = Height(w) /\ \A d \in Nat : Loop(w, d)' = Loop(w, d)
  BY StackFacts DEF Fits, Height, Loop
<1>2. Keeps(w, Height(w))
  BY <1>1 DEF Keeps
<1>3. Height(w) > 0 => Top(w) = Loop(w, Height(w))
  BY TopFacts
<1>4. ~(Height(w) < Height(w)) /\ ~(Height(w) < Height(w)')
  BY <1>1
<1>5. PICK h \in Nat : h = Height(w)
  BY <1>1
<1>6. \A d \in h + 1 .. Height(w)' : FALSE
  BY <1>1, <1>5
<1>7. h > 0 /\ Loop(w, h).kind = "loop" =>
        (h < Height(w)' \/ pc'[w] \in {"enter", "ret"} <=>
         h < Height(w) \/ pc[w] \in {"enter", "ret"})
  BY <1>3, <1>4, <1>5
<1>8. LoopsAreTrue /\ value' = value /\ Keeps(w, h)
  BY <1>2, <1>5 DEF True, ResultsStay
<1> QED
  BY <1>6, <1>7, <1>8, LoopsStayTrue

LEMMA PopTrue ==
    ASSUME Fits, Fits', True, NEW w \in Workers, OthersStay(w), ResultsStay(w),
           Height(w) > 0, Pop(w),
           Height(w) > 1 /\ Loop(w, Height(w) - 1).kind = "loop" => pc'[w] = "ret"
    PROVE  LoopsAreTrue'
<1>1. PICK h \in Nat : h = Height(w) /\ h > 0
  BY StackFacts DEF Fits
<1>2. /\ Height(w)' = h - 1 /\ \A d \in 1 .. h - 1 : Loop(w, d)' = Loop(w, d)
  BY <1>1, PopFacts DEF Fits
<1>3. PICK k \in Nat : k = h - 1
  BY <1>1
<1>4. Keeps(w, k)
  BY <1>1, <1>2, <1>3 DEF Keeps
<1>5. \A d \in k + 1 .. Height(w)' : FALSE
  BY <1>2, <1>3
<1>6. k < Height(w) /\ (k > 0 => h > 1)
  BY <1>1, <1>3
<1>7. k > 0 /\ Loop(w, k).kind = "loop" =>
        (k < Height(w)' \/ pc'[w] \in {"enter", "ret"} <=>
         k < Height(w) \/ pc[w] \in {"enter", "ret"})
  BY <1>1, <1>3, <1>6
<1>8. LoopsAreTrue /\ value' = value
  BY DEF True, ResultsStay
<1> QED
  BY <1>4, <1>5, <1>7, <1>8, LoopsStayTrue

LEMMA PushTrue ==
    ASSUME Fits, Fits', True, NEW w \in Workers, OthersStay(w), ResultsStay(w),
           NEW f \in Loops, Push(w, f), Searches(f) => f.i = 1 /\ f.node \notin Leaves,
           Height(w) > 0 /\ Top(w).kind = "loop" => pc[w] \in {"enter", "ret"}
    PROVE  LoopsAreTrue'
<1>1. PICK h \in Nat : h = Height(w)
  BY StackFacts DEF Fits
<1>2. /\ Height(w)' = h + 1 /\ \A d \in 1 .. h : Loop(w, d)' = Loop(w, d)
      /\ Loop(w, h + 1)' = f
  BY <1>1, PushFacts DEF Fits
<1>3. Keeps(w, h)
  BY <1>1, <1>2 DEF Keeps
<1>4. ASSUME NEW d \in h + 1 .. Height(w)', Searches(Loop(w, d))'
      PROVE  LoopIsTrue(Loop(w, d), Done(w, d))'
  <2>1. d = h + 1
    BY <1>2
  <2>2. Loop(w, d)' = f
    BY <1>2, <2>1
  <2>3. f.i = 1 /\ f.node \notin Leaves
    BY <1>4, <2>2 DEF Searches
  <2>4. Done(w, d)' \in {-1, 0}
    BY <2>2, <2>3 DEF Done
  <2>5. 1 .. Done(w, d)' = {}
    BY <2>4
  <2> QED
    BY <2>2, <2>3, <2>5 DEF LoopIsTrue
<1>5. h > 0 /\ Loop(w, h).kind = "loop" => pc[w] \in {"enter", "ret"}
  BY <1>1, TopFacts
<1>6. h < Height(w)'
  BY <1>2
<1>7. LoopsAreTrue /\ value' = value
  BY DEF True, ResultsStay
<1> QED
  BY <1>3, <1>4, <1>5, <1>6, <1>7, LoopsStayTrue

LEMMA RetopTrue ==
    ASSUME Fits, Fits', True, NEW w \in Workers, OthersStay(w), ResultsStay(w),
           Height(w) > 0, NEW f \in Loops, Retop(w, f), NEW x,
           x = IF f.kind = "loop" /\ pc'[w] \in {"enter", "ret"} THEN f.i - 2 ELSE f.i - 1,
           LoopIsTrue(f, x)
    PROVE  LoopsAreTrue'
<1>1. PICK h \in Nat : h = Height(w) /\ h > 0
  BY StackFacts DEF Fits
<1>2. /\ Height(w)' = h /\ \A d \in 1 .. h - 1 : Loop(w, d)' = Loop(w, d)
      /\ Loop(w, h)' = f
  BY <1>1, RetopFacts DEF Fits
<1>3. PICK k \in Nat : k = h - 1
  BY <1>1
<1>4. Keeps(w, k) /\ k < Height(w) /\ k < Height(w)'
  BY <1>1, <1>2, <1>3 DEF Keeps
<1>5. LoopsAreTrue /\ value' = value
  BY DEF True, ResultsStay
<1>6. ASSUME NEW d \in k + 1 .. Height(w)', Searches(Loop(w, d))'
      PROVE  LoopIsTrue(Loop(w, d), Done(w, d))'
  <2>1. d = h
    BY <1>2, <1>3
  <2>2. Loop(w, d)' = f /\ ~(d < Height(w)')
    BY <1>2, <2>1
  <2>3. Done(w, d)' = x
    BY <2>2 DEF Done
  <2> QED
    BY <1>5, <2>2, <2>3, SameLoopTrue
<1> QED
  BY <1>4, <1>5, <1>6, LoopsStayTrue

LEMMA QuietTrue ==
    ASSUME Fits, True, NEW w \in Workers, OthersStay(w), ResultsStay(w), LoopsAreTrue',
           split' = split, ResultIsTrue(w)', proved' = proved
    PROVE  True'
<1>1. \A n \in Nodes : SplitIsTrue(n)'
  BY SplitStaysTrue DEF True, ResultsStay
<1>2. \A i \in proved' : Wins(RootNode[i])
  BY DEF True
<1> QED
  BY <1>1, <1>2, StaysTrue

\* Steps that move only a label.
LEMMA LabelTrue ==
    ASSUME Fits, Fits', True, NEW w \in Workers, OthersStay(w), ResultsStay(w),
           \/ RootClaim(w) \/ RootPublish(w) \/ GiveUp(w) \/ SearchLeaf(w) \/ SeeDemand(w)
           \/ OwnerIsDone(w) \/ LooksForWork(w) \/ FindsNoWork(w)
           \/ HelperAnnounces(w) \/ HelperLeaves(w)
    PROVE  True'
<1>1. TypeOK
  BY DEF Fits
<1>2. stack' = stack /\ split' = split /\ proved' = proved
  BY DEF RootClaim, RootPublish, GiveUp, SearchLeaf, SeeDemand, OwnerIsDone, LooksForWork,
     FindsNoWork, HelperAnnounces, HelperLeaves, Announce, registry, root
<1>3. Height(w) > 0 /\ Top(w).kind = "loop" =>
        (pc'[w] \in {"enter", "ret"} <=> pc[w] \in {"enter", "ret"})
  <2>1. CASE RootClaim(w) \/ RootPublish(w) \/ HelperLeaves(w)
    <3>1. pc[w] \in {"claim", "publish", "help"}
      BY <2>1 DEF RootClaim, RootPublish, HelperLeaves
    <3>2. ~(Height(w) > 0)
      BY <3>1, LabelFacts
    <3> QED
      BY <3>2
  <2>2. CASE HelperAnnounces(w)
    BY <2>2, LabelFacts DEF HelperAnnounces
  <2>3. CASE \/ GiveUp(w) \/ SearchLeaf(w) \/ SeeDemand(w) \/ OwnerIsDone(w)
             \/ LooksForWork(w) \/ FindsNoWork(w)
    BY <1>1, <2>3 DEF GiveUp, SearchLeaf, SeeDemand, OwnerIsDone, LooksForWork, FindsNoWork,
       Searching, InLoop, Owning, Goto, Return, TypeOK
  <2> QED
    BY <2>1, <2>2, <2>3
<1>4. LoopsAreTrue'
  BY <1>2, <1>3, StayTrue
<1>5. ResultIsTrue(w)'
  <2>1. CASE GiveUp(w)
    <3>1. aborted'[w] = TRUE
      BY <1>1, <2>1, Zenon DEF GiveUp, TypeOK
    <3> QED
      BY <3>1 DEF ResultIsTrue
  <2>2. CASE SearchLeaf(w)
    <3>1. pc[w] = "enter" /\ Return(w, at[w], Verdict(at[w]))
      BY <2>2 DEF SearchLeaf, Searching
    <3>2. PICK n \in Nodes : n = at[w]
      BY <3>1, LabelFacts
    <3>3. PICK r \in Result : r = Verdict(n)
      BY VerdictFacts
    <3>4. at'[w] = n /\ ret'[w] = r
      BY <1>1, <3>1, <3>2, <3>3, ReturnFacts
    <3>5. /\ r.ok <=> Wins(n)
          /\ r.refuted => value[n] = "refuted"
      BY <3>3, VerdictFacts
    <3>6. value' = value
      BY DEF ResultsStay
    <3> QED
      BY <3>4, <3>5, <3>6 DEF ResultIsTrue, Wins
  <2>3. CASE ~GiveUp(w) /\ ~SearchLeaf(w)
    <3>1. pc'[w] # "ret"
      BY <1>1, <2>3 DEF RootClaim, RootPublish, SeeDemand, OwnerIsDone, LooksForWork,
         FindsNoWork, HelperAnnounces, HelperLeaves, Goto, TypeOK
    <3> QED
      BY <3>1 DEF ResultIsTrue
  <2> QED
    BY <2>1, <2>2, <2>3
<1> QED
  BY <1>2, <1>4, <1>5, QuietTrue

LEMMA RootRecheckTrue ==
    ASSUME Fits, Fits', True, NEW w \in Workers, OthersStay(w), ResultsStay(w), RootRecheck(w)
    PROVE  True'
<1>1. /\ TypeOK /\ pc[w] = "recheck" /\ split' = split /\ proved' = proved /\ pc'[w] # "ret"
  BY DEF Fits, RootRecheck, root, Goto, TypeOK
<1>2. ~(Height(w) > 0)
  BY <1>1, LabelFacts
<1>3. ResultIsTrue(w)'
  BY <1>1 DEF ResultIsTrue
<1>4. CASE stack' = stack
  BY <1>1, <1>2, <1>3, <1>4, StayTrue, QuietTrue
<1>5. CASE ~(Priority[at[w]] > best)
  <2>1. PICK f \in Loops : Push(w, f) /\ f.kind = "root"
    BY <1>5, RootRecheckPush
  <2>2. LoopsAreTrue'
    BY <1>2, <2>1, PushTrue DEF Searches
  <2> QED
    BY <1>1, <1>3, <2>2, QuietTrue
<1> QED
  BY <1>4, <1>5 DEF RootRecheck

LEMMA OpenNodeTrue ==
    ASSUME Fits, Fits', True, NEW w \in Workers, OthersStay(w), ResultsStay(w), OpenNode(w)
    PROVE  True'
<1>1. /\ TypeOK /\ pc[w] = "enter" /\ split' = split /\ proved' = proved /\ pc'[w] # "ret"
      /\ at[w] \notin Leaves
  BY DEF Fits, OpenNode, Searching, root, registry, Goto, TypeOK
<1>2. ResultIsTrue(w)'
  BY <1>1 DEF ResultIsTrue
<1>3. PICK f \in Loops : Push(w, f) /\ f.kind = "loop" /\ f.node = at[w] /\ f.i = 1
  BY OpenNodePush
<1>4. LoopsAreTrue'
  BY <1>1, <1>3, PushTrue
<1> QED
  BY <1>1, <1>2, <1>4, QuietTrue

LEMMA NextKidTrue ==
    ASSUME Fits, Fits', True, NEW w \in Workers, OthersStay(w), ResultsStay(w), NextKid(w)
    PROVE  True'
<1>1. /\ TypeOK /\ pc[w] = "loop" /\ split' = split /\ proved' = proved /\ pc'[w] = "enter"
      /\ Top(w).kind = "loop"
  BY DEF Fits, NextKid, InLoop, root, registry, Enter, Goto, TypeOK
<1>2. ResultIsTrue(w)' /\ Height(w) > 0
  BY <1>1, LabelFacts DEF ResultIsTrue
<1>3. PICK f \in Loops : /\ Retop(w, f) /\ f.kind = "loop" /\ f.node = Top(w).node
                         /\ f.i = Top(w).i + 1 /\ f.hopeless = Top(w).hopeless
  BY NextKidRetop
<1>4. LoopIsTrue(Top(w), Top(w).i - 1)
  BY <1>1, <1>2, TopIsTrue DEF Searches
<1>5. LoopIsTrue(f, Top(w).i - 1)
  BY <1>3, <1>4 DEF LoopIsTrue
<1>6. Top(w).i - 1 = f.i - 2
  BY <1>2, <1>3, TopFacts
<1>7. LoopsAreTrue'
  BY <1>1, <1>2, <1>3, <1>5, <1>6, RetopTrue
<1> QED
  BY <1>1, <1>2, <1>7, QuietTrue

LEMMA ReturnTrue ==
    ASSUME Fits, NEW w \in Workers, ResultsStay(w), NEW n \in Nodes, NEW r \in Result,
           Return(w, n, r), r.ok <=> Wins(n), r.refuted => value[n] = "refuted"
    PROVE  ResultIsTrue(w)'
<1>1. at'[w] = n /\ ret'[w] = r /\ value' = value
  BY ReturnFacts DEF Fits, ResultsStay
<1> QED
  BY <1>1 DEF ResultIsTrue, Wins

\* The child a loop has called for, coming back.
LEMMA CalledKid ==
    ASSUME Fits, NEW w \in Workers, pc[w] = "ret", Height(w) > 0, Top(w).kind \in {"loop", "run"}
    PROVE  \E j \in Nat : /\ j = (IF Top(w).kind = "loop" THEN Top(w).i - 1 ELSE Top(w).i)
                          /\ j \in 1 .. Len(Kids[Top(w).node])
                          /\ at[w] = Kids[Top(w).node][j]
<1>1. /\ Calls(Top(w)) /\ at[w] = Callee(Top(w)) /\ LoopFits(Top(w)) /\ Top(w).node \in Nodes
      /\ Top(w).i \in Nat
  BY LabelFacts, TopFacts
<1>2. CASE Top(w).kind = "loop"
  <2>1. /\ Top(w).i > 1 /\ Top(w).i <= Len(Kids[Top(w).node]) + 1
        /\ at[w] = Kids[Top(w).node][Top(w).i - 1]
    BY <1>1, <1>2 DEF Calls, Callee, LoopFits
  <2>2. Top(w).i - 1 \in 1 .. Len(Kids[Top(w).node])
    BY <1>1, <2>1, Tree
  <2> QED
    BY <1>2, <2>1, <2>2
<1>3. CASE Top(w).kind = "run"
  BY <1>1, <1>3, Tree DEF Callee, LoopFits
<1> QED
  BY <1>2, <1>3

LEMMA BackInLoopTrue ==
    ASSUME Fits, Fits', True, NEW w \in Workers, OthersStay(w), ResultsStay(w), BackInLoop(w)
    PROVE  True'
<1>1. /\ TypeOK /\ Height(w) > 0 /\ pc[w] = "ret" /\ Top(w).kind = "loop" /\ split' = split
      /\ proved' = proved /\ aborted' = aborted
  BY LabelFacts DEF Fits, BackInLoop, InLoop, root, registry
<1>2. PICK n \in Nodes : n = Top(w).node
  BY <1>1, TopFacts
<1>3. PICK j \in Nat : /\ j = Top(w).i - 1 /\ j \in DOMAIN Kids[n] /\ at[w] = Kids[n][j]
  BY <1>1, <1>2, CalledKid, Tree
<1>4. TreeIsTrue /\ ResultIsTrue(w) /\ ret[w] \in Result
  BY <1>1 DEF True, TypeOK
<1>5. ret[w].ok \in BOOLEAN /\ ret[w].refuted \in BOOLEAN
  BY <1>4, Zenon DEF Result
<1>6. CASE aborted[w] /\ Pop(w) /\ Return(w, Top(w).node, Nothing)
  <2>1. pc'[w] = "ret"
    BY <1>1, <1>2, <1>6, NothingFacts, ReturnFacts
  <2>2. LoopsAreTrue'
    BY <1>1, <1>6, <2>1, PopTrue
  <2>3. ResultIsTrue(w)'
    BY <1>1, <1>6 DEF ResultIsTrue
  <2> QED
    BY <1>1, <2>2, <2>3, QuietTrue
<1>7. CASE /\ ~aborted[w] /\ Pop(w) /\ ret[w].ok = (Top(w).node \in OrNodes)
           /\ Return(w, Top(w).node, [ok |-> Top(w).node \in OrNodes,
                                      refuted |-> ~(Top(w).node \in OrNodes) /\ ret[w].refuted])
  <2>1. PICK r \in Result : /\ Return(w, n, r) /\ r.ok = (n \in OrNodes)
                            /\ r.refuted = (~(n \in OrNodes) /\ ret[w].refuted)
    <3>1. /\ (n \in OrNodes) \in BOOLEAN /\ (~(n \in OrNodes) /\ ret[w].refuted) \in BOOLEAN
      OBVIOUS
    <3> DEFINE g == [ok |-> n \in OrNodes, refuted |-> ~(n \in OrNodes) /\ ret[w].refuted]
    <3>2. /\ g \in Result /\ g.ok = (n \in OrNodes)
          /\ g.refuted = (~(n \in OrNodes) /\ ret[w].refuted)
      BY <3>1, Zenon DEF Result
    <3>3. Return(w, n, g)
      BY <1>2, <1>7
    <3> HIDE DEF g
    <3> QED
      BY <3>2, <3>3, Zenon
  <2>2. pc'[w] = "ret"
    BY <1>1, <2>1, ReturnFacts
  <2>3. LoopsAreTrue'
    BY <1>1, <1>7, <2>2, PopTrue
  <2>4. /\ n \in OrNodes <=> Wins(Kids[n][j])
        /\ ret[w].refuted => value[Kids[n][j]] = "refuted"
    <3>1. /\ ret[w].ok <=> Wins(Kids[n][j])
          /\ ret[w].refuted => value[Kids[n][j]] = "refuted"
      BY <1>1, <1>3, <1>4, <1>7 DEF ResultIsTrue
    <3>2. ret[w].ok <=> n \in OrNodes
      BY <1>2, <1>7, Zenon
    <3> QED
      BY <3>1, <3>2
  <2>5. n \in OrNodes <=> Wins(n)
    BY <1>3, <1>4, <2>4, OneKid
  <2>6. r.ok <=> Wins(n)
    BY <2>1, <2>5, Zenon
  <2>7. r.refuted => value[n] = "refuted"
    <3>1. r.refuted => n \notin OrNodes /\ ret[w].refuted
      BY <2>1, Zenon
    <3> QED
      BY <1>3, <1>4, <2>4, <3>1, OneKid
  <2>8. ResultIsTrue(w)'
    BY <2>1, <2>6, <2>7, ReturnTrue
  <2> QED
    BY <1>1, <2>3, <2>8, QuietTrue
<1>8. CASE ~aborted[w] /\ ~(ret[w].ok = (Top(w).node \in OrNodes)) /\ Goto(w, "loop")
  <2>1. PICK f \in Loops : /\ Retop(w, f) /\ f.kind = "loop" /\ f.node = Top(w).node
                           /\ f.i = Top(w).i
                           /\ f.hopeless = (Top(w).hopeless /\ ret[w].refuted)
    BY <1>8, BackInLoopRetop, Zenon
  <2>2. pc'[w] = "loop"
    BY <1>1, <1>8, GotoFacts DEF Labels
  <2>3. LoopIsTrue(Top(w), j - 1)
    <3>1. j - 1 = Top(w).i - 2 /\ Top(w).i \in Nat
      BY <1>1, <1>3, TopFacts
    <3> QED
      BY <1>1, <3>1, TopIsTrue DEF Searches
  <2>4. /\ ret[w].ok <=> Wins(Kids[n][j])
        /\ ret[w].refuted => value[Kids[n][j]] = "refuted"
    BY <1>1, <1>3, <1>4, <1>8 DEF ResultIsTrue
  <2>5. n \in OrNodes <=> ~Wins(Kids[n][j])
    <3>1. n \in OrNodes <=> ~ret[w].ok
      <4>1. ~(ret[w].ok = (n \in OrNodes))
        BY <1>2, <1>8
      <4>2. CASE ret[w].ok /\ n \in OrNodes
        <5>1. ret[w].ok = TRUE /\ (n \in OrNodes) = TRUE
          BY <1>5, <4>2, Zenon
        <5> QED
          BY <4>1, <5>1, Zenon
      <4>3. CASE ~ret[w].ok /\ n \notin OrNodes
        <5>1. ret[w].ok = FALSE
          BY <1>5, <4>3, Zenon
        <5>2. (n \in OrNodes) = FALSE
          BY <4>3
        <5> QED
          BY <4>1, <5>1, <5>2, Zenon
      <4> QED
        BY <4>2, <4>3, Zenon
    <3> QED
      BY <2>4, <3>1
  <2>6. f.hopeless => Top(w).hopeless /\ ret[w].refuted
    BY <2>1, Zenon
  <2>7. LoopIsTrue(f, j)
    <3>1. f.node = n /\ n \notin Leaves
      BY <1>2, <2>1, <2>3 DEF LoopIsTrue
    <3>2. ASSUME NEW k \in 1 .. j
          PROVE  IF n \in OrNodes
                 THEN ~Wins(Kids[n][k]) /\ (f.hopeless => value[Kids[n][k]] = "refuted")
                 ELSE Wins(Kids[n][k])
      <4>1. CASE k = j
        BY <2>4, <2>5, <2>6, <4>1
      <4>2. CASE k # j
        <5>1. k \in 1 .. j - 1
          BY <3>2, <4>2
        <5> QED
          BY <1>2, <2>3, <2>6, <5>1 DEF LoopIsTrue
      <4> QED
        BY <4>1, <4>2
    <3> QED
      BY <3>1, <3>2 DEF LoopIsTrue
  <2>8. j = f.i - 1
    BY <1>3, <2>1
  <2>9. LoopsAreTrue'
    BY <1>1, <2>1, <2>2, <2>7, <2>8, RetopTrue
  <2>10. ResultIsTrue(w)'
    BY <2>2 DEF ResultIsTrue
  <2> QED
    BY <1>1, <2>9, <2>10, QuietTrue
<1> QED
  BY <1>6, <1>7, <1>8, Zenon DEF BackInLoop

\* A move that mates wins the node, and a loop that has tried every child knows.
LEMMA LoopEndsTrue ==
    ASSUME Fits, Fits', True, NEW w \in Workers, OthersStay(w), ResultsStay(w), LoopEnds(w)
    PROVE  True'
<1>1. /\ TypeOK /\ pc[w] = "loop" /\ Top(w).kind = "loop" /\ split' = split /\ Pop(w)
      /\ proved' = proved /\ aborted' = aborted
  BY DEF Fits, LoopEnds, InLoop, root, registry
<1>2. Height(w) > 0
  BY <1>1, LabelFacts
<1>3. PICK n \in Nodes, j \in Nat : /\ n = Top(w).node /\ j = Top(w).i
                                    /\ j \in 1 .. Len(Kids[n]) + 1
  BY <1>1, <1>2, TopFacts DEF LoopFits
<1>4. TreeIsTrue /\ LoopIsTrue(Top(w), j - 1) /\ Len(Kids[n]) \in Nat
  BY <1>1, <1>2, <1>3, TopIsTrue, Tree DEF True, Searches
<1>5. Top(w).hopeless \in BOOLEAN
  BY <1>2, TopFacts
<1>6. PICK r \in Result : /\ Return(w, n, r)
                          /\ r.ok <=> Wins(n)
                          /\ r.refuted => value[n] = "refuted"
  <2>1. CASE HasKid(w) /\ n \in OrNodes /\ value[Kid(w)] = "mate"
             /\ Return(w, n, [ok |-> TRUE, refuted |-> FALSE])
    <3>1. j \in DOMAIN Kids[n] /\ Wins(Kids[n][j])
      BY <1>3, <2>1, Tree DEF HasKid, Kid, Wins
    <3>2. Wins(n)
      BY <1>4, <2>1, <3>1, OneKid
    <3> DEFINE g == [ok |-> TRUE, refuted |-> FALSE]
    <3>3. TRUE \in BOOLEAN /\ FALSE \in BOOLEAN
      OBVIOUS
    <3>4. g \in Result /\ g.ok /\ ~g.refuted
      BY <3>3, Zenon DEF Result
    <3>5. Return(w, n, g)
      BY <2>1
    <3> HIDE DEF g
    <3> QED
      BY <3>2, <3>4, <3>5
  <2>2. CASE ~HasKid(w) /\ Return(w, n, [ok |-> ~(n \in OrNodes),
                                         refuted |-> n \in OrNodes /\ Top(w).hopeless])
    <3> DEFINE g == [ok |-> ~(n \in OrNodes), refuted |-> n \in OrNodes /\ Top(w).hopeless]
    <3>1. (~(n \in OrNodes)) \in BOOLEAN /\ (n \in OrNodes /\ Top(w).hopeless) \in BOOLEAN
      OBVIOUS
    <3>2. /\ g \in Result /\ (g.ok <=> n \notin OrNodes)
          /\ (g.refuted <=> n \in OrNodes /\ Top(w).hopeless)
      BY <3>1, Zenon DEF Result
    <3>3. Return(w, n, g)
      BY <2>2
    <3>4. j - 1 = Len(Kids[n])
      BY <1>3, <1>4, <2>2 DEF HasKid
    <3>5. /\ n \notin Leaves
          /\ \A k \in 1 .. Len(Kids[n]) :
               IF n \in OrNodes
               THEN ~Wins(Kids[n][k]) /\ (Top(w).hopeless => value[Kids[n][k]] = "refuted")
               ELSE Wins(Kids[n][k])
      BY <1>3, <1>4, <3>4 DEF LoopIsTrue
    <3> HIDE DEF g
    <3>6. g.ok <=> Wins(n)
      BY <1>4, <3>2, <3>5, AllKids
    <3>7. g.refuted => value[n] = "refuted"
      BY <1>4, <3>2, <3>5, AllKids
    <3> QED
      BY <3>2, <3>3, <3>6, <3>7
  <2> QED
    BY <1>3, <2>1, <2>2, Zenon DEF LoopEnds
<1>7. ResultIsTrue(w)' /\ pc'[w] = "ret"
  BY <1>1, <1>6, ReturnTrue, ReturnFacts
<1>8. LoopsAreTrue'
  BY <1>1, <1>2, <1>7, PopTrue
<1> QED
  BY <1>1, <1>7, <1>8, QuietTrue

\* Sharing out what is left of a loop.
LEMMA PublishedTrue ==
    ASSUME value' = value, NEW n \in Nodes, NEW from \in Nat \ {0}, NEW seq \in Nat,
           NEW w \in Workers, split'[n] = Published(n, from, seq, w)
    PROVE  SplitIsTrue(n)'
<1>1. PICK c \in Splits : c = Published(n, from, seq, w)
  BY PublishedFacts
<1>2. /\ ~c.settleRefuted /\ Len(c.state) = Len(Kids[n])
      /\ \/ c.settledAt = 0
         \/ /\ c.settledAt \in from .. Len(Kids[n]) /\ n \in OrNodes
            /\ value[Kids[n][c.settledAt]] = "mate"
      /\ \A i \in 1 .. Len(Kids[n]) :
           c.state[i] = IF i = c.settledAt THEN "immediate" ELSE "unresolved"
  BY <1>1, PublishedFacts
<1>3. \A j \in 1 .. Len(c.state) :
        \/ c.state[j] = "unresolved"
        \/ c.state[j] = "immediate" /\ j = c.settledAt /\ value[Kids[n][j]] = "mate"
  BY <1>2
<1>4. c.settledAt = 0 => \A j \in 1 .. Len(c.state) : c.state[j] = "unresolved"
  BY <1>2
<1>5. /\ \A j \in 1 .. Len(c.state) : StateIsTrue(Kids[n][j], c.state[j])
      /\ c.settledAt = 0 => \A j \in 1 .. Len(c.state) : c.state[j] \notin Settles(n)
  BY <1>3, <1>4 DEF StateIsTrue, Settles, Wins
<1>6. c.settledAt > 0 => /\ c.settledAt \in DOMAIN Kids[n] /\ n \in OrNodes
                         /\ Wins(Kids[n][c.settledAt])
  <2>1. ASSUME c.settledAt > 0 PROVE c.settledAt \in 1 .. Len(Kids[n])
    BY <1>2, <2>1
  <2> QED
    BY <1>2, <2>1, Tree DEF Wins
<1>7. split'[n] = c
  BY <1>1
<1> QED
  BY <1>2, <1>5, <1>6, <1>7 DEF SplitIsTrue, StateIsTrue, Wins

LEMMA PublishRepliesTrue ==
    ASSUME Fits, Fits', True, NEW w \in Workers, OthersStay(w), ResultsStay(w),
           PublishReplies(w)
    PROVE  True'
<1>1. /\ TypeOK /\ pc[w] = "enter" /\ pc'[w] = "own" /\ proved' = proved /\ value' = value
      /\ at[w] \notin Leaves
  BY DEF Fits, PublishReplies, Searching, root, Goto, TypeOK
<1>2. PICK n \in Nodes : n = at[w]
  BY <1>1, LabelFacts
<1>3. PICK f \in Loops : Push(w, f) /\ f.kind = "own" /\ f.node = n /\ f.i = 1
  BY <1>2, PublishRepliesPush
<1>4. LoopsAreTrue'
  BY <1>1, <1>2, <1>3, PushTrue
<1>5. split' = [split EXCEPT ![n] = Published(n, 1, 0, w)]
  BY <1>2 DEF PublishReplies
<1>6. split'[n] = Published(n, 1, 0, w) /\ \A m \in Nodes \ {n} : split'[m] = split[m]
  BY <1>1, <1>5 DEF TypeOK
<1>7. 1 \in Nat \ {0} /\ 0 \in Nat
  OBVIOUS
<1>8. SplitIsTrue(n)'
  BY <1>1, <1>6, <1>7, PublishedTrue
<1>9. ASSUME NEW m \in Nodes, m # n PROVE SplitIsTrue(m)'
  BY <1>1, <1>6, <1>9, SplitStaysTrue DEF True
<1>10. ResultIsTrue(w)'
  BY <1>1 DEF ResultIsTrue
<1>11. \A i \in proved' : Wins(RootNode[i])
  BY <1>1 DEF True
<1> QED
  BY <1>4, <1>8, <1>9, <1>10, <1>11, StaysTrue

LEMMA ShareTrue ==
    ASSUME Fits, Fits', True, NEW w \in Workers, OthersStay(w), ResultsStay(w), Share(w)
    PROVE  True'
<1>1. /\ TypeOK /\ pc[w] = "share" /\ Top(w).kind = "loop" /\ pc'[w] = "own"
      /\ proved' = proved /\ value' = value /\ nextSeq \in Nat
  BY DEF Fits, Share, InLoop, root, Goto, TypeOK
<1>2. Height(w) > 0
  BY <1>1, LabelFacts
<1>3. PICK n \in Nodes, from \in Nat \ {0}, seq \in Nat :
        n = Top(w).node /\ from = Top(w).i /\ seq = nextSeq
  BY <1>1, <1>2, TopFacts, Tree DEF LoopFits
<1>4. PICK f \in Loops : /\ Retop(w, f) /\ f.kind = "own" /\ f.node = n /\ f.i = from
                         /\ f.hopeless = Top(w).hopeless
  BY <1>3, ShareRetop
<1>5. LoopIsTrue(f, from - 1)
  <2>1. LoopIsTrue(Top(w), from - 1)
    BY <1>1, <1>2, <1>3, TopIsTrue DEF Searches
  <2> QED
    BY <1>3, <1>4, <2>1 DEF LoopIsTrue
<1>6. LoopsAreTrue'
  BY <1>1, <1>2, <1>4, <1>5, RetopTrue
<1>7. split' = [split EXCEPT ![n] = Published(n, from, seq, w)]
  BY <1>3 DEF Share
<1>8. split'[n] = Published(n, from, seq, w) /\ \A m \in Nodes \ {n} : split'[m] = split[m]
  BY <1>1, <1>7 DEF TypeOK
<1>9. SplitIsTrue(n)'
  BY <1>1, <1>8, PublishedTrue
<1>10. ASSUME NEW m \in Nodes, m # n PROVE SplitIsTrue(m)'
  BY <1>1, <1>8, <1>10, SplitStaysTrue DEF True
<1>11. ResultIsTrue(w)'
  BY <1>1 DEF ResultIsTrue
<1>12. \A i \in proved' : Wins(RootNode[i])
  BY <1>1 DEF True
<1> QED
  BY <1>6, <1>9, <1>10, <1>11, <1>12, StaysTrue

\* Handing out a child says nothing about it.
LEMMA RunTrue ==
    ASSUME Fits, Fits', True, NEW w \in Workers, OthersStay(w), ResultsStay(w),
           OwnerClaims(w) \/ OwnerHelpsOther(w) \/ HelperClaims(w)
    PROVE  True'
<1>1. /\ TypeOK /\ pc[w] \in {"own", "seek", "help"} /\ pc'[w] # "ret" /\ proved' = proved
      /\ value' = value
  BY DEF Fits, OwnerClaims, OwnerHelpsOther, HelperClaims, Owning, root, Goto, TypeOK
<1>2. PICK n \in Nodes : Run(w, n)
  <2>1. CASE OwnerClaims(w)
    <3>1. Run(w, Top(w).node) /\ pc[w] = "own"
      BY <2>1 DEF OwnerClaims, Owning
    <3>2. Top(w).node \in Nodes
      BY <3>1, LabelFacts, TopFacts
    <3> QED
      BY <3>1, <3>2
  <2>2. CASE OwnerHelpsOther(w) \/ HelperClaims(w)
    BY <1>1, <2>2, ChosenFacts DEF OwnerHelpsOther, HelperClaims
  <2> QED
    BY <2>1, <2>2
<1>3. PICK f \in Loops : Push(w, f) /\ f.kind = "run"
  BY <1>2, RunPush
<1>4. LoopsAreTrue'
  <2>1. Height(w) > 0 => Top(w).kind # "loop"
    BY <1>1, LabelFacts
  <2> QED
    BY <1>3, <2>1, PushTrue DEF Searches
<1>5. ASSUME NEW m \in Nodes PROVE SplitIsTrue(m)'
  <2>1. /\ split'[m].state = split[m].state /\ split'[m].settledAt = split[m].settledAt
        /\ split'[m].settleRefuted = split[m].settleRefuted
    <3>1. split[n] \in Splits
      BY <1>1 DEF TypeOK
    <3>2. split'[n] = Taken(split[n]) /\ (m # n => split'[m] = split[m])
      BY <1>1, <1>2 DEF Run, TypeOK
    <3> QED
      BY <3>1, <3>2, TakenFacts
  <2>2. split'[m].settleRefuted => split[m].settleRefuted
    BY <2>1, Zenon
  <2> QED
    BY <1>1, <2>1, <2>2, SplitStaysTrue DEF True
<1>6. ResultIsTrue(w)'
  BY <1>1 DEF ResultIsTrue
<1>7. \A i \in proved' : Wins(RootNode[i])
  BY <1>1 DEF True
<1> QED
  BY <1>4, <1>5, <1>6, <1>7, StaysTrue

LEMMA WithdrawTrue ==
    ASSUME Fits, Fits', True, NEW w \in Workers, OthersStay(w), ResultsStay(w), Withdraw(w)
    PROVE  True'
<1>1. /\ TypeOK /\ pc[w] = "withdraw" /\ Top(w).kind = "own" /\ pc'[w] = "wait"
      /\ proved' = proved /\ value' = value /\ stack' = stack
  BY DEF Fits, Withdraw, Owning, root, Goto, TypeOK
<1>2. PICK n \in Nodes : n = Top(w).node
  BY <1>1, LabelFacts, TopFacts
<1>3. LoopsAreTrue'
  BY <1>1, StayTrue
<1>4. ASSUME NEW m \in Nodes PROVE SplitIsTrue(m)'
  <2>1. split[n] \in Splits
    BY <1>1 DEF TypeOK
  <2>2. \/ split'[m] = split[m]
        \/ m = n /\ split'[m] = [split[n] EXCEPT !.open = FALSE]
    BY <1>1, <1>2 DEF Withdraw, TypeOK
  <2>3. split'[m].state = split[m].state /\ split'[m].settledAt = split[m].settledAt
    BY <2>1, <2>2, SMT DEF Splits
  <2>4. split'[m].settleRefuted => split[m].settleRefuted
    BY <2>1, <2>2, Zenon DEF Splits
  <2> QED
    BY <1>1, <2>3, <2>4, SplitStaysTrue DEF True
<1>5. ResultIsTrue(w)'
  BY <1>1 DEF ResultIsTrue
<1>6. \A i \in proved' : Wins(RootNode[i])
  BY <1>1 DEF True
<1> QED
  BY <1>3, <1>4, <1>5, <1>6, StaysTrue

LEMMA RootDoneTrue ==
    ASSUME Fits, Fits', True, NEW w \in Workers, OthersStay(w), ResultsStay(w), RootDone(w)
    PROVE  True'
<1>1. /\ TypeOK /\ pc[w] = "ret" /\ Top(w).kind = "root" /\ pc'[w] = "claim" /\ Pop(w)
      /\ split' = split /\ value' = value
  BY DEF Fits, RootDone, Goto, TypeOK
<1>2. Height(w) > 0 /\ Height(w) \in Nat
  BY <1>1, LabelFacts, TopFacts
<1>3. /\ at[w] = Callee(Top(w)) /\ LoopFits(Top(w))
      /\ Height(w) > 1 => /\ Above(Top(w), Loop(w, Height(w) - 1))
                          /\ Loop(w, Height(w) - 1) \in Loops
  BY <1>1, <1>2, LabelFacts, TopFacts
<1>4. ~(Height(w) > 1)
  BY <1>1, <1>3 DEF Above
<1>5. LoopsAreTrue'
  BY <1>1, <1>2, <1>4, PopTrue
<1>6. ASSUME NEW i \in proved' PROVE Wins(RootNode[i])
  <2>1. CASE i \in proved
    BY <2>1 DEF True
  <2>2. CASE i \notin proved
    <3>1. ret[w].ok /\ ~aborted[w] /\ i = Top(w).i
      BY <1>6, <2>2 DEF RootDone
    <3>2. at[w] = RootNode[i]
      BY <1>1, <1>3, <3>1 DEF Callee, LoopFits
    <3> QED
      BY <1>1, <3>1, <3>2 DEF True, ResultIsTrue
  <2> QED
    BY <2>1, <2>2
<1>7. ResultIsTrue(w)'
  BY <1>1 DEF ResultIsTrue
<1>8. \A n \in Nodes : SplitIsTrue(n)'
  BY <1>1, SplitStaysTrue DEF True
<1> QED
  BY <1>5, <1>6, <1>7, <1>8, StaysTrue

\* What a split says once none of its children is unfinished.
LEMMA ComposeTrue ==
    ASSUME Fits, Fits', Alone, True, NEW w \in Workers, OthersStay(w), ResultsStay(w),
           ComposeMoves(w) \/ ComposeReplies(w)
    PROVE  True'
<1>1. /\ TypeOK /\ pc[w] = "wait" /\ Top(w).kind = "own" /\ split' = split /\ Pop(w)
      /\ proved' = proved
  BY DEF Fits, ComposeMoves, ComposeReplies, Composes, Owning, root, registry
<1>2. Height(w) > 0
  BY <1>1, LabelFacts
<1>3. PICK h \in Nat, n \in Nodes, i \in Nat :
        h = Height(w) /\ n = Top(w).node /\ i = Top(w).i
  BY <1>2, TopFacts
<1>4. PICK sp \in Splits : sp = split[n]
  BY <1>1 DEF TypeOK
<1>5. /\ TreeIsTrue /\ LoopIsTrue(Top(w), i - 1) /\ SplitIsTrue(n)
  BY <1>1, <1>2, <1>3, TopIsTrue DEF True, Searches
<1>6. /\ sp.first = i /\ Len(sp.state) = Len(Kids[n]) /\ Len(Kids[n]) \in Nat
      /\ sp.settledAt \in Nat /\ i > 0
  <2>1. OwnsAt(w, h, n) /\ Top(w) = Loop(w, h)
    BY <1>1, <1>2, <1>3, TopFacts DEF OwnsAt
  <2>2. split[n].first = i /\ Len(split[n].state) = Len(Kids[n])
    BY <1>3, <2>1 DEF Alone, OwnersFit, OwnerFits
  <2>3. sp.first \in Nat \ {0} /\ sp.settledAt \in Nat
    BY SplitParts
  <2> QED
    BY <1>4, <2>2, <2>3, Tree
<1>7. sp.settleRefuted \in BOOLEAN /\ Top(w).hopeless \in BOOLEAN
  BY <1>2, SplitParts, TopFacts
<1>8. pc'[w] = "ret"
  <2>1. Goto(w, "ret")
    BY DEF ComposeMoves, ComposeReplies, NoVerdict, Return
  <2> QED
    BY <1>1, <2>1 DEF Goto, TypeOK
<1>9. LoopsAreTrue'
  BY <1>1, <1>2, <1>8, PopTrue
<1>10. /\ n \notin Leaves
       /\ \A j \in 1 .. i - 1 :
            IF n \in OrNodes
            THEN ~Wins(Kids[n][j]) /\ (Top(w).hopeless => value[Kids[n][j]] = "refuted")
            ELSE Wins(Kids[n][j])
  BY <1>3, <1>5 DEF LoopIsTrue
<1>11. /\ \A j \in 1 .. Len(Kids[n]) : StateIsTrue(Kids[n][j], sp.state[j])
       /\ sp.settledAt = 0 => \A j \in 1 .. Len(Kids[n]) : sp.state[j] \notin Settles(n)
       /\ sp.settledAt > 0 =>
            /\ sp.settledAt \in DOMAIN Kids[n]
            /\ Wins(Kids[n][sp.settledAt]) <=> n \in OrNodes
            /\ sp.settleRefuted => value[Kids[n][sp.settledAt]] = "refuted"
  BY <1>4, <1>5, <1>6 DEF SplitIsTrue
<1>12. \A j \in 1 .. Len(Kids[n]) : sp.state[j] \in States
  <2>1. sp.state \in Seq(States)
    BY SplitParts
  <2> QED
    BY <1>6, <2>1
<1>13. ASSUME sp.settledAt = 0, Children(sp) \cap Unfinished = {}, NEW j \in i .. Len(Kids[n])
       PROVE  sp.state[j] \in States \ (Unfinished \cup Settles(n)) /\ j \in 1 .. Len(Kids[n])
  <2>1. j \in 1 .. Len(Kids[n]) /\ j \in sp.first .. Len(sp.state)
    BY <1>6
  <2>2. sp.state[j] \in Children(sp)
    BY <2>1 DEF Children
  <2> QED
    BY <1>11, <1>12, <1>13, <2>1, <2>2
<1>14. CASE ComposeMoves(w) /\ aborted' # [aborted EXCEPT ![w] = TRUE]
  <2>1. n \in OrNodes
    BY <1>3, <1>14 DEF ComposeMoves, Composes
  <2> DEFINE a == [ok |-> sp.settledAt > 0,
                   refuted |-> sp.settledAt = 0 /\ Top(w).hopeless
                                 /\ Children(sp) \subseteq {"refuted"}]
  <2>2. Return(w, n, a) /\ ~(sp.settledAt = 0 /\ Children(sp) \cap Unfinished # {})
    BY <1>3, <1>4, <1>14, Zenon DEF ComposeMoves, NoVerdict
  <2>3. /\ a \in Result /\ (a.ok <=> sp.settledAt > 0)
        /\ (a.refuted <=> sp.settledAt = 0 /\ Top(w).hopeless
                            /\ Children(sp) \subseteq {"refuted"})
    <3>1. /\ (sp.settledAt > 0) \in BOOLEAN
          /\ (sp.settledAt = 0 /\ Top(w).hopeless /\ Children(sp) \subseteq {"refuted"}) \in BOOLEAN
      OBVIOUS
    <3> QED
      BY <3>1, Zenon DEF Result
  <2> HIDE DEF a
  <2>4. ASSUME sp.settledAt > 0 PROVE Wins(n)
    BY <1>5, <1>11, <2>1, <2>4, OneKid
  <2>5. ASSUME sp.settledAt = 0 PROVE ~Wins(n)
    <3>1. ASSUME NEW j \in 1 .. Len(Kids[n]) PROVE ~Wins(Kids[n][j])
      <4>1. CASE j \in 1 .. i - 1
        BY <1>10, <2>1, <4>1
      <4>2. CASE j \in i .. Len(Kids[n])
        <5>1. sp.state[j] \in {"failed", "refuted"}
          BY <1>13, <2>1, <2>2, <2>5, <4>2 DEF States, Unfinished, Settles
        <5> QED
          BY <1>11, <5>1 DEF StateIsTrue
      <4> QED
        BY <1>3, <1>6, <4>1, <4>2
    <3> QED
      BY <1>5, <1>10, <2>1, <3>1, AllKids
  <2>6. ASSUME a.refuted PROVE value[n] = "refuted"
    <3>1. /\ sp.settledAt = 0 /\ Top(w).hopeless
          /\ Children(sp) \subseteq {"refuted"}
      BY <2>3, <2>6
    <3>2. ASSUME NEW j \in 1 .. Len(Kids[n]) PROVE value[Kids[n][j]] = "refuted"
      <4>1. CASE j \in 1 .. i - 1
        BY <1>10, <2>1, <3>1, <4>1
      <4>2. CASE j \in i .. Len(Kids[n])
        <5>1. sp.state[j] = "refuted"
          BY <1>6, <3>1, <4>2 DEF Children
        <5> QED
          BY <1>11, <5>1 DEF StateIsTrue
      <4> QED
        BY <1>3, <1>6, <4>1, <4>2
    <3> QED
      BY <1>5, <1>10, <2>1, <3>2, AllKids
  <2>7. a.ok <=> Wins(n)
    BY <1>6, <2>3, <2>4, <2>5
  <2>8. ResultIsTrue(w)'
    BY <2>2, <2>3, <2>6, <2>7, ReturnTrue
  <2> QED
    BY <1>1, <1>9, <2>8, QuietTrue
<1>15. CASE ComposeReplies(w) /\ aborted' # [aborted EXCEPT ![w] = TRUE]
  <2>1. n \notin OrNodes
    BY <1>3, <1>15 DEF ComposeReplies, Composes
  <2> DEFINE a == [ok |-> sp.settledAt = 0, refuted |-> sp.settledAt > 0 /\ sp.settleRefuted]
  <2>2. Return(w, n, a) /\ ~(sp.settledAt = 0 /\ Children(sp) \cap Unfinished # {})
    BY <1>3, <1>4, <1>15, Zenon DEF ComposeReplies, NoVerdict
  <2>3. /\ a \in Result /\ (a.ok <=> sp.settledAt = 0)
        /\ (a.refuted <=> sp.settledAt > 0 /\ sp.settleRefuted)
    <3>1. (sp.settledAt = 0) \in BOOLEAN /\ (sp.settledAt > 0 /\ sp.settleRefuted) \in BOOLEAN
      OBVIOUS
    <3> QED
      BY <3>1, Zenon DEF Result
  <2> HIDE DEF a
  <2>4. ASSUME sp.settledAt > 0 PROVE ~Wins(n)
    BY <1>5, <1>11, <2>1, <2>4, OneKid
  <2>5. ASSUME sp.settledAt = 0 PROVE Wins(n)
    <3>1. ASSUME NEW j \in 1 .. Len(Kids[n]) PROVE Wins(Kids[n][j])
      <4>1. CASE j \in 1 .. i - 1
        BY <1>10, <2>1, <4>1
      <4>2. CASE j \in i .. Len(Kids[n])
        <5>1. sp.state[j] \in {"proved", "immediate"}
          BY <1>13, <2>1, <2>2, <2>5, <4>2 DEF States, Unfinished, Settles
        <5> QED
          BY <1>11, <5>1 DEF StateIsTrue
      <4> QED
        BY <1>3, <1>6, <4>1, <4>2
    <3> QED
      BY <1>5, <1>10, <2>1, <3>1, AllKids
  <2>6. ASSUME a.refuted PROVE value[n] = "refuted"
    BY <1>5, <1>11, <2>1, <2>3, <2>6, OneKid
  <2>7. a.ok <=> Wins(n)
    BY <1>6, <2>3, <2>4, <2>5
  <2>8. ResultIsTrue(w)'
    BY <2>2, <2>3, <2>6, <2>7, ReturnTrue
  <2> QED
    BY <1>1, <1>9, <2>8, QuietTrue
<1>16. CASE aborted' = [aborted EXCEPT ![w] = TRUE]
  <2>1. aborted'[w] = TRUE
    BY <1>1, <1>16, Zenon DEF TypeOK
  <2>2. ResultIsTrue(w)'
    BY <2>1 DEF ResultIsTrue
  <2> QED
    BY <1>1, <1>9, <2>2, QuietTrue
<1> QED
  BY <1>14, <1>15, <1>16

LEMMA SettledTrue ==
    ASSUME NEW n \in Nodes, NEW sp \in Splits, sp = split[n], SplitIsTrue(n),
           Len(sp.state) <= Len(Kids[n]), NEW j \in 1 .. Len(sp.state), NEW st \in States,
           st # "immediate", StateIsTrue(Kids[n][j], st), value' = value,
           split'[n] = Settled(sp, j, st, n \in OrNodes)
    PROVE  SplitIsTrue(n)'
<1> PICK or : or = (n \in OrNodes)
  OBVIOUS
<1>1. or <=> n \in OrNodes
  BY Zenon
<1> DEFINE settles == IF or THEN st = "proved" ELSE st \in {"failed", "refuted"}
           first == settles /\ (sp.settledAt = 0 \/ j < sp.settledAt)
<1>2. PICK c \in Splits : c = Settled(sp, j, st, or)
  BY SettledFacts
<1>3. /\ c.settledAt = (IF first THEN j ELSE sp.settledAt)
      /\ c.settleRefuted = (IF first THEN st = "refuted" ELSE sp.settleRefuted)
      /\ Len(c.state) = Len(sp.state) /\ c.state[j] = st
      /\ \A k \in 1 .. Len(sp.state) : k # j => c.state[k] = sp.state[k]
  BY <1>2, SettledFacts
<1>4. settles <=> st \in Settles(n)
  BY <1>1 DEF Settles
<1>5. /\ sp.settledAt \in Nat /\ j \in DOMAIN Kids[n] /\ Len(sp.state) \in Nat
      /\ sp.settleRefuted \in BOOLEAN
  <2>1. sp.state \in Seq(States) /\ sp.settledAt \in Nat /\ sp.settleRefuted \in BOOLEAN
    BY SplitParts
  <2> QED
    BY <2>1, Tree
<1> HIDE DEF settles
<1>6. /\ \A k \in 1 .. Len(sp.state) : StateIsTrue(Kids[n][k], sp.state[k])
      /\ sp.settledAt = 0 =>
           \A k \in 1 .. Len(sp.state) : sp.state[k] \notin Settles(n)
      /\ sp.settledAt > 0 =>
           /\ sp.settledAt \in DOMAIN Kids[n]
           /\ Wins(Kids[n][sp.settledAt]) <=> n \in OrNodes
           /\ sp.settleRefuted => value[Kids[n][sp.settledAt]] = "refuted"
  BY DEF SplitIsTrue
<1>7. \A k \in 1 .. Len(c.state) : StateIsTrue(Kids[n][k], c.state[k])
  BY <1>3, <1>6
<1>8. c.settledAt = 0 => \A k \in 1 .. Len(c.state) : c.state[k] \notin Settles(n)
  <2>1. SUFFICES ASSUME c.settledAt = 0
                 PROVE  \A k \in 1 .. Len(c.state) : c.state[k] \notin Settles(n)
    OBVIOUS
  <2>2. ~first /\ sp.settledAt = 0
    BY <1>3, <2>1
  <2>3. st \notin Settles(n)
    BY <1>4, <2>2
  <2> QED
    BY <1>3, <1>6, <2>2, <2>3
<1>9. c.settledAt > 0 =>
        /\ c.settledAt \in DOMAIN Kids[n]
        /\ Wins(Kids[n][c.settledAt]) <=> n \in OrNodes
        /\ c.settleRefuted => value[Kids[n][c.settledAt]] = "refuted"
  <2>1. CASE first
    <3>1. c.settledAt = j /\ (c.settleRefuted => st = "refuted") /\ st \in Settles(n)
      BY <1>3, <1>4, <2>1
    <3> QED
      BY <1>5, <3>1 DEF StateIsTrue, Settles
  <2>2. CASE ~first
    <3>1. c.settledAt = sp.settledAt /\ (c.settleRefuted => sp.settleRefuted)
      BY <1>3, <2>2
    <3> QED
      BY <1>6, <3>1
  <2> QED
    BY <2>1, <2>2
<1>10. split'[n] = c
  BY <1>2
<1> QED
  BY <1>7, <1>8, <1>9, <1>10 DEF SplitIsTrue, StateIsTrue, Wins

LEMMA ChildReturnsTrue ==
    ASSUME Fits, Fits', Alone, True, NEW w \in Workers, OthersStay(w), ResultsStay(w),
           ChildReturns(w)
    PROVE  True'
<1>1. /\ TypeOK /\ pc[w] = "ret" /\ Top(w).kind = "run" /\ Pop(w) /\ proved' = proved
      /\ value' = value
  BY DEF Fits, ChildReturns
<1>2. Height(w) > 0 /\ Height(w) \in Nat
  BY <1>1, LabelFacts, TopFacts
<1>3. PICK n \in Nodes, j \in Nat, h \in Nat : n = Top(w).node /\ j = Top(w).i /\ h = Height(w)
  BY <1>2, TopFacts
<1>4. at[w] = Kids[n][j]
  BY <1>1, <1>2, <1>3, CalledKid
<1>5. j \in 1 .. Len(split[n].state)
  <2>1. RunsAt(w, h, n, j)
    BY <1>1, <1>2, <1>3, TopFacts DEF RunsAt
  <2> QED
    BY <2>1 DEF Alone, RunsAreLive
<1>6. pc'[w] # "ret"
  <2>1. \E l \in {"help", "withdraw", "own", "wait"} : Goto(w, l)
    BY DEF ChildReturns
  <2> QED
    BY <1>1, <2>1 DEF Goto, TypeOK
<1>7. LoopsAreTrue'
  <2>1. Height(w) > 1 => Loop(w, Height(w) - 1).kind # "loop"
    BY <1>1, <1>2, TopFacts DEF Above
  <2> QED
    BY <1>1, <1>2, <2>1, PopTrue
<1>8. ResultIsTrue(w)'
  BY <1>6 DEF ResultIsTrue
<1>9. PICK st \in States : st = Outcome(w) /\ st # "immediate"
  BY DEF Outcome, States
<1>10. StateIsTrue(Kids[n][j], st)
  <2>1. ~aborted[w] => /\ ret[w].ok <=> Wins(Kids[n][j])
                       /\ ret[w].refuted => value[Kids[n][j]] = "refuted"
    BY <1>1, <1>4 DEF True, ResultIsTrue
  <2>2. CASE aborted[w]
    <3>1. st = "abandoned"
      BY <1>9, <2>2 DEF Outcome
    <3> QED
      BY <3>1 DEF StateIsTrue
  <2>3. CASE ~aborted[w] /\ ret[w].ok
    <3>1. st = "proved"
      BY <1>9, <2>3 DEF Outcome
    <3> QED
      BY <2>1, <2>3, <3>1 DEF StateIsTrue
  <2>4. CASE ~aborted[w] /\ ~ret[w].ok
    <3>1. st \in {"failed", "refuted"} /\ (st = "refuted" => ret[w].refuted)
      BY <1>9, <2>4 DEF Outcome
    <3> QED
      BY <2>1, <2>4, <3>1 DEF StateIsTrue
  <2> QED
    BY <2>2, <2>3, <2>4
<1>11. /\ split'[n] = Settled(split[n], j, st, n \in OrNodes)
       /\ \A m \in Nodes \ {n} : split'[m] = split[m]
  <2>1. split' = [split EXCEPT ![n] = Settled(split[n], j, st, n \in OrNodes)]
    BY <1>3, <1>9 DEF ChildReturns
  <2> QED
    BY <1>1, <2>1 DEF TypeOK
<1>12. SplitIsTrue(n)'
  <2>1. PICK sp \in Splits : sp = split[n] /\ Len(sp.state) <= Len(Kids[n])
    BY <1>1 DEF TypeOK
  <2>2. SplitIsTrue(n)
    BY DEF True
  <2> QED
    BY <1>1, <1>5, <1>9, <1>10, <1>11, <2>1, <2>2, SettledTrue
<1>13. ASSUME NEW m \in Nodes, m # n PROVE SplitIsTrue(m)'
  BY <1>1, <1>11, <1>13, SplitStaysTrue DEF True
<1>14. \A i \in proved' : Wins(RootNode[i])
  BY <1>1 DEF True
<1> QED
  BY <1>7, <1>8, <1>12, <1>13, <1>14, StaysTrue

LEMMA IdleTrue ==
    ASSUME Fits, True, UNCHANGED <<value, root, registry, thread>>
    PROVE  True'
<1>1. /\ value' = value /\ split' = split /\ pc' = pc /\ at' = at /\ stack' = stack
      /\ ret' = ret /\ aborted' = aborted /\ proved' = proved
  BY DEF registry, root, thread
<1>2. TreeIsTrue'
  BY <1>1 DEF True, TreeIsTrue, Composed
<1>3. LoopsAreTrue'
  <2>1. SUFFICES ASSUME NEW v \in Workers, NEW d \in 1 .. Height(v)', Searches(Loop(v, d))'
                 PROVE  LoopIsTrue(Loop(v, d), Done(v, d))'
    BY DEF LoopsAreTrue
  <2>2. Height(v)' = Height(v) /\ Loop(v, d)' = Loop(v, d)
    BY <1>1 DEF Height, Loop
  <2>3. Done(v, d)' = Done(v, d)
    BY <1>1, <2>2 DEF Done
  <2>4. PICK f, x : f = Loop(v, d) /\ x = Done(v, d)
    OBVIOUS
  <2>5. LoopIsTrue(f, x)
    BY <2>1, <2>2, <2>4 DEF True, LoopsAreTrue, Searches
  <2> QED
    BY <1>1, <2>2, <2>3, <2>4, <2>5, SameLoopTrue
<1>4. \A n \in Nodes : SplitIsTrue(n)'
  BY <1>1, SplitStaysTrue DEF True
<1>5. \A v \in Workers : ResultIsTrue(v)'
  BY <1>1 DEF True, ResultIsTrue, Wins
<1>6. \A i \in proved' : Wins(RootNode[i])'
  BY <1>1 DEF True, Wins
<1> QED
  BY <1>2, <1>3, <1>4, <1>5, <1>6 DEF True

LEMMA TrueStep == ASSUME Fits, Fits', Alone, True, [Next]_vars PROVE True'
<1>1. CASE UNCHANGED vars
  BY <1>1, IdleTrue DEF vars
<1>2. ASSUME NEW e \in Limits, Interrupt(e) PROVE True'
  BY <1>2, IdleTrue DEF Interrupt
<1>3. ASSUME NEW w \in Workers, WorkerStep(w) PROVE True'
  <2>1. OthersStay(w) /\ ResultsStay(w)
    BY <1>3, StepIsMine, StepIsHonest
  <2> QED
    BY <1>3, <2>1, LabelTrue, RootRecheckTrue, RootDoneTrue, OpenNodeTrue, PublishRepliesTrue,
       LoopEndsTrue, NextKidTrue, BackInLoopTrue, ShareTrue, RunTrue, WithdrawTrue,
       ComposeTrue, ChildReturnsTrue DEF WorkerStep
<1> QED
  BY <1>1, <1>2, <1>3 DEF Next, AtRest

LEMMA TrueInit == ASSUME Init PROVE True
<1>1. TreeIsTrue
  BY DEF Init, TreeIsTrue
<1>2. \A w \in Workers : Height(w) = 0 /\ pc[w] = "claim"
  BY DEF Init, Height
<1>3. LoopsAreTrue
  BY <1>2 DEF LoopsAreTrue
<1>4. ASSUME NEW n \in Nodes PROVE SplitIsTrue(n)
  <2>1. split[n] = NoSplit
    BY DEF Init
  <2>2. split[n].settledAt = 0 /\ Len(split[n].state) = 0
    BY <2>1, NoSplitFacts
  <2> QED
    BY <2>2 DEF SplitIsTrue
<1>5. \A w \in Workers : ResultIsTrue(w)
  BY <1>2 DEF ResultIsTrue
<1>6. proved = {}
  BY DEF Init
<1> QED
  BY <1>1, <1>3, <1>4, <1>5, <1>6 DEF True

\* Whatever is abandoned, withdrawn or cancelled on the way, a verdict that a worker
\* returns, a split keeps or the depth records is the truth (run_child, help_splits).
THEOREM VerdictsHold == Spec => []VerdictsAreTrue
<1>1. Init => Fits /\ Alone /\ True
  BY FitsInit, AloneInit, TrueInit
<1>2. Fits /\ Alone /\ True /\ [Next]_vars => (Fits /\ Alone /\ True)'
  BY FitsStep, AloneStep, TrueStep
<1>3. Fits /\ Alone /\ True => VerdictsAreTrue
  <2>1. SUFFICES ASSUME Fits, True PROVE VerdictsAreTrue
    OBVIOUS
  <2>2. ASSUME NEW w \in Workers, pc[w] = "ret", ~aborted[w]
        PROVE  /\ ret[w].ok = Wins(at[w])
               /\ ret[w].refuted => value[at[w]] = "refuted"
    <3>1. ret[w] \in Result
      BY <2>1 DEF Fits, TypeOK
    <3>2. ret[w].ok \in BOOLEAN
      BY <3>1, Zenon DEF Result
    <3>5. Wins(at[w]) \in BOOLEAN
      BY DEF Wins
    <3>3. /\ ret[w].ok <=> Wins(at[w])
          /\ ret[w].refuted => value[at[w]] = "refuted"
      BY <2>1, <2>2 DEF True, ResultIsTrue
    <3>4. ret[w].ok = Wins(at[w])
      BY <3>2, <3>3, <3>5, Zenon
    <3> QED
      BY <3>3, <3>4
  <2>3. ASSUME NEW n \in Nodes, NEW j \in DOMAIN split[n].state
        PROVE  StateIsTrue(Kids[n][j], split[n].state[j])
    <3>1. split[n] \in Splits
      BY <2>1 DEF Fits, TypeOK
    <3>2. DOMAIN split[n].state = 1 .. Len(split[n].state)
      BY <3>1, SplitParts
    <3> QED
      BY <2>1, <2>3, <3>2 DEF True, SplitIsTrue
  <2> QED
    BY <2>1, <2>2, <2>3 DEF VerdictsAreTrue, True, StateIsTrue
<1> QED
  BY <1>1, <1>2, <1>3, PTL DEF Spec

-----------------------------------------------------------------------------
(* Fourth layer: the bottom of a stack, and the depth as a whole. *)

\* A worker without a loop takes a root move, or helps.
LEMMA Grounded ==
    ASSUME Fits, NEW w \in Workers, WorkerStep(w), Height(w) = 0
    PROVE  \/ RootClaim(w) \/ RootPublish(w) \/ RootRecheck(w)
           \/ HelperClaims(w) \/ HelperLeaves(w)
<1>1. pc[w] \in {"claim", "help", "done", "publish", "recheck"}
  BY LabelFacts
<1> QED
  BY <1>1 DEF WorkerStep, RootDone, GiveUp, SearchLeaf, OpenNode, PublishReplies, Searching,
     LoopEnds, NextKid, BackInLoop, SeeDemand, Share, InLoop, OwnerClaims, OwnerIsDone,
     Withdraw, LooksForWork, OwnerHelpsOther, FindsNoWork, ComposeMoves, ComposeReplies,
     Composes, Owning, ChildReturns, HelperAnnounces

LEMMA PushBottom ==
    ASSUME Fits, NEW w \in Workers, Height(w) > 0, NEW f \in Loops, Push(w, f)
    PROVE  Height(w)' > 0 /\ Loop(w, 1)' = Loop(w, 1)
<1>1. PICK h \in Nat : h = Height(w)
  BY StackFacts DEF Fits
<1>2. Height(w)' = h + 1 /\ \A d \in 1 .. h : Loop(w, d)' = Loop(w, d)
  BY <1>1, PushFacts DEF Fits
<1> QED
  BY <1>1, <1>2

LEMMA RetopBottom ==
    ASSUME Fits, NEW w \in Workers, Height(w) > 0, Searches(Top(w)), NEW f \in Loops, Retop(w, f)
    PROVE  Height(w)' > 0 /\ Loop(w, 1)' = Loop(w, 1)
<1>1. PICK h \in Nat : h = Height(w)
  BY StackFacts DEF Fits
<1>2. Height(w)' = h /\ \A d \in 1 .. h - 1 : Loop(w, d)' = Loop(w, d)
  BY <1>1, RetopFacts DEF Fits
<1>3. h > 1
  BY <1>1, TopFacts DEF Searches
<1> QED
  BY <1>1, <1>2, <1>3

LEMMA PopBottom ==
    ASSUME Fits, NEW w \in Workers, Height(w) > 1, Pop(w)
    PROVE  Height(w)' > 0 /\ Loop(w, 1)' = Loop(w, 1)
<1>1. PICK h \in Nat : h = Height(w) /\ h > 1
  BY StackFacts DEF Fits
<1>2. Height(w)' = h - 1 /\ \A d \in 1 .. h - 1 : Loop(w, d)' = Loop(w, d)
  BY <1>1, PopFacts DEF Fits
<1> QED
  BY <1>1, <1>2

\* The bottom loop ends with the root move, or with the child, it stands for.
LEMMA Bottom ==
    ASSUME Fits, NEW w \in Workers, WorkerStep(w), Height(w) > 0, ~RootDone(w),
           ~(ChildReturns(w) /\ Height(w) = 1)
    PROVE  Height(w)' > 0 /\ Loop(w, 1)' = Loop(w, 1)
<1>1. Height(w) \in Nat /\ (Searches(Top(w)) => Height(w) > 1)
  BY TopFacts DEF Searches
<1>2. pc[w] \notin {"claim", "publish", "recheck", "help"}
  BY LabelFacts
<1>3. CASE \/ GiveUp(w) \/ SearchLeaf(w) \/ SeeDemand(w) \/ OwnerIsDone(w) \/ Withdraw(w)
           \/ LooksForWork(w) \/ FindsNoWork(w) \/ HelperAnnounces(w)
  <2>1. stack' = stack
    BY <1>3 DEF GiveUp, SearchLeaf, SeeDemand, OwnerIsDone, Withdraw, LooksForWork,
       FindsNoWork, HelperAnnounces
  <2> QED
    BY <2>1 DEF Height, Loop
<1>4. CASE OpenNode(w) \/ PublishReplies(w) \/ OwnerClaims(w) \/ OwnerHelpsOther(w)
  <2>1. \E f \in Loops : Push(w, f)
    <3>1. CASE OpenNode(w) \/ PublishReplies(w)
      BY <3>1, OpenNodePush, PublishRepliesPush
    <3>2. CASE OwnerClaims(w)
      <4>1. Top(w).node \in Nodes /\ Run(w, Top(w).node)
        BY <3>2, TopFacts DEF OwnerClaims
      <4> QED
        BY <4>1, RunPush
    <3>3. CASE OwnerHelpsOther(w)
      <4>1. Chosen(maxOwned[w]) \in Nodes /\ Run(w, Chosen(maxOwned[w]))
        BY <3>3, ChosenFacts DEF OwnerHelpsOther, Fits
      <4> QED
        BY <4>1, RunPush
    <3> QED
      BY <1>4, <3>1, <3>2, <3>3
  <2> QED
    BY <2>1, PushBottom
<1>5. CASE NextKid(w) \/ Share(w)
  <2>1. Searches(Top(w)) /\ \E f \in Loops : Retop(w, f)
    BY <1>5, NextKidRetop, ShareRetop DEF NextKid, Share, InLoop, Searches
  <2> QED
    BY <2>1, RetopBottom
<1>6. CASE BackInLoop(w)
  <2>1. Searches(Top(w))
    BY <1>6 DEF BackInLoop, InLoop, Searches
  <2>2. CASE aborted[w] \/ ret[w].ok = (Top(w).node \in OrNodes)
    <3>1. Pop(w)
      BY <1>6, <2>2, Zenon DEF BackInLoop
    <3> QED
      BY <1>1, <2>1, <3>1, PopBottom
  <2>3. CASE ~aborted[w] /\ ~(ret[w].ok = (Top(w).node \in OrNodes))
    <3>1. \E f \in Loops : Retop(w, f)
      BY <1>6, <2>3, BackInLoopRetop, Zenon
    <3> QED
      BY <2>1, <3>1, RetopBottom
  <2> QED
    BY <2>2, <2>3
<1>7. CASE LoopEnds(w) \/ ComposeMoves(w) \/ ComposeReplies(w)
  <2>1. Searches(Top(w)) /\ Pop(w)
    BY <1>7 DEF LoopEnds, InLoop, ComposeMoves, ComposeReplies, Composes, Owning, Searches
  <2> QED
    BY <1>1, <2>1, PopBottom
<1>8. CASE ChildReturns(w)
  <2>1. Pop(w) /\ Height(w) > 1
    BY <1>1, <1>8 DEF ChildReturns
  <2> QED
    BY <2>1, PopBottom
<1> QED
  BY <1>2, <1>3, <1>4, <1>5, <1>6, <1>7, <1>8 DEF WorkerStep, RootClaim, RootPublish,
     RootRecheck, HelperClaims, HelperLeaves

LEMMA RootAtBottom ==
    ASSUME Fits, NEW w \in Workers, RootDone(w)
    PROVE  Height(w) = 1 /\ Top(w) = Loop(w, 1) /\ at[w] = Callee(Top(w)) /\ LoopFits(Top(w))
<1>1. pc[w] = "ret" /\ Top(w).kind = "root"
  BY DEF RootDone
<1>2. /\ Height(w) > 0 /\ Height(w) \in Nat /\ at[w] = Callee(Top(w))
      /\ Top(w) = Loop(w, Height(w)) /\ LoopFits(Top(w))
  BY <1>1, LabelFacts, TopFacts
<1>3. ~(Height(w) > 1)
  BY <1>1, <1>2, TopFacts DEF Above
<1> QED
  BY <1>2, <1>3

\* What the verdict on a root move is about.
LEMMA RootVerdict ==
    ASSUME Fits, True, NEW w \in Workers, RootDone(w)
    PROVE  /\ Height(w) = 1 /\ Top(w) = Loop(w, 1) /\ Top(w).i \in Roots
           /\ Height(w)' = 0 /\ pc'[w] = "claim"
           /\ ~aborted[w] => (ret[w].ok <=> Wins(RootNode[Top(w).i]))
<1>1. /\ TypeOK /\ pc[w] = "ret" /\ Top(w).kind = "root" /\ Pop(w) /\ Goto(w, "claim")
  BY DEF Fits, RootDone
<1>2. Height(w) = 1 /\ Top(w) = Loop(w, 1) /\ at[w] = Callee(Top(w)) /\ LoopFits(Top(w))
  BY RootAtBottom
<1>4. Top(w).i \in Roots /\ at[w] = RootNode[Top(w).i]
  BY <1>1, <1>2 DEF LoopFits, Callee
<1>5. ~aborted[w] => (ret[w].ok <=> Wins(at[w]))
  BY <1>1 DEF True, ResultIsTrue
<1>6. Height(w)' = 0
  BY <1>1, <1>2, PopFacts
<1>7. pc'[w] = "claim"
  BY <1>1 DEF Goto, TypeOK
<1> QED
  BY <1>2, <1>4, <1>5, <1>6, <1>7

\* Only the verdict on a root move touches the best one.
LEMMA BestKept ==
    ASSUME NEW w \in Workers, WorkerStep(w), ~RootDone(w)
    PROVE  best' = best /\ happened' = happened
BY DEF WorkerStep, RootClaim, RootPublish, RootRecheck, GiveUp, SearchLeaf, OpenNode,
   PublishReplies, LoopEnds, NextKid, BackInLoop, SeeDemand, Share, OwnerClaims, OwnerIsDone,
   Withdraw, LooksForWork, OwnerHelpsOther, FindsNoWork, ComposeMoves, ComposeReplies,
   Composes, ChildReturns, HelperClaims, HelperAnnounces, HelperLeaves, root

\* A root move that is recorded as the best one wins.
LEMMA BestWins ==
    ASSUME Fits, True, Served, NEW w \in Workers, WorkerStep(w)
    PROVE  /\ best' # N => Wins(RootNode[best])'
           /\ Undisturbed' => Undisturbed
           /\ Undisturbed' /\ RootDone(w) => ~(ret[w].ok /\ ~aborted[w])
<1>1. value' = value /\ best \in 0 .. N
  BY StepIsHonest DEF ResultsStay, Fits, TypeOK
<1>2. CASE ~RootDone(w)
  BY <1>1, <1>2, BestKept DEF Served, Undisturbed, Wins
<1>3. CASE RootDone(w)
  <2>1. PICK i \in Roots : i = Top(w).i /\ (~aborted[w] => (ret[w].ok <=> Wins(RootNode[i])))
    BY <1>3, RootVerdict
  <2>2. happened' = happened /\ i \in Nat /\ i < N
    BY <1>3, Tree DEF RootDone, Roots
  <2>3. CASE ret[w].ok /\ ~aborted[w]
    <3>1. best' = IF i < best THEN i ELSE best
      BY <1>3, <2>1, <2>3 DEF RootDone
    <3>2. Wins(RootNode[i]) /\ best' # N
      BY <1>1, <2>1, <2>2, <2>3, <3>1, Tree
    <3> QED
      BY <1>1, <2>2, <3>1, <3>2 DEF Served, Undisturbed, Wins
  <2>4. CASE ~(ret[w].ok /\ ~aborted[w])
    <3>1. best' = best
      BY <1>3, <2>4 DEF RootDone
    <3> QED
      BY <1>1, <2>2, <2>4, <3>1 DEF Served, Undisturbed, Wins
  <2> QED
    BY <2>3, <2>4
<1> QED
  BY <1>2, <1>3

\* Who is past the root moves was there, or has just found none left.
LEMMA PastStep ==
    ASSUME Fits, Fits', True, Undisturbed, NEW w \in Workers, WorkerStep(w), Past(w)'
    PROVE  Past(w) \/ nextIndex' >= N
<1>1. TypeOK /\ nextIndex \in Nat /\ N \in Nat
  BY Tree DEF Fits, TypeOK
<1>2. CASE Height(w) > 0 /\ ~RootDone(w) /\ ~(ChildReturns(w) /\ Height(w) = 1)
  <2>1. Height(w)' > 0 /\ Loop(w, 1)' = Loop(w, 1)
    BY <1>2, Bottom
  <2>2. pc'[w] \notin {"help", "done"}
    BY <2>1 DEF Fits, Here, TopFits
  <2> QED
    BY <1>2, <2>1, <2>2 DEF Past
<1>3. CASE RootDone(w)
  BY <1>3, RootVerdict DEF Past
<1>4. CASE ChildReturns(w) /\ Height(w) = 1
  <2>1. Top(w).kind = "run" /\ Top(w) = Loop(w, 1)
    BY <1>4, TopFacts DEF ChildReturns
  <2> QED
    BY <1>4, <2>1 DEF Past
<1>5. CASE Height(w) = 0
  <2>1. CASE RootClaim(w)
    <3>1. /\ nextIndex' = nextIndex + 1 /\ stack' = stack
          /\ nextIndex >= N \/ Goto(w, "publish")
      BY <1>1, <2>1 DEF RootClaim, Undisturbed
    <3>2. Height(w)' = 0
      BY <1>5, <3>1 DEF Height
    <3>3. Goto(w, "publish") => pc'[w] = "publish"
      BY <1>1 DEF Goto, TypeOK
    <3> QED
      BY <1>1, <3>1, <3>2, <3>3 DEF Past
  <2>2. CASE RootPublish(w)
    <3>1. pc'[w] = "recheck" /\ stack' = stack
      BY <1>1, <2>2 DEF RootPublish, Goto, TypeOK
    <3>2. Height(w)' = 0
      BY <1>5, <3>1 DEF Height
    <3> QED
      BY <3>1, <3>2 DEF Past
  <2>3. CASE RootRecheck(w) /\ Priority[at[w]] > best
    <3>1. pc'[w] = "claim" /\ stack' = stack
      BY <1>1, <2>3 DEF RootRecheck, Goto, TypeOK
    <3>2. Height(w)' = 0
      BY <1>5, <3>1 DEF Height
    <3> QED
      BY <3>1, <3>2 DEF Past
  <2>4. CASE RootRecheck(w) /\ ~(Priority[at[w]] > best)
    <3>1. PICK f \in Loops : Push(w, f) /\ f.kind = "root"
      BY <2>4, RootRecheckPush
    <3>2. pc'[w] = "enter"
      BY <1>1, <2>4 DEF RootRecheck, Goto, TypeOK
    <3>3. Loop(w, 0 + 1)' = f /\ 0 + 1 = 1
      BY <1>1, <1>5, <3>1, PushFacts
    <3> QED
      BY <3>1, <3>2, <3>3 DEF Past
  <2>5. CASE HelperClaims(w) \/ HelperLeaves(w)
    BY <2>5 DEF HelperClaims, HelperLeaves, Past
  <2> QED
    BY <1>5, <2>1, <2>2, <2>3, <2>4, <2>5, Grounded
<1>6. Height(w) \in Nat
  BY <1>1, StackFacts
<1> QED
  BY <1>2, <1>3, <1>4, <1>5, <1>6

LEMMA NextIndexMoves ==
    ASSUME NEW w \in Workers, WorkerStep(w), nextIndex \in Nat, nextIndex' # nextIndex
    PROVE  RootClaim(w)
BY DEF WorkerStep, RootPublish, RootRecheck, RootDone, GiveUp, SearchLeaf, OpenNode,
   PublishReplies, LoopEnds, NextKid, BackInLoop, SeeDemand, Share, OwnerClaims, OwnerIsDone,
   Withdraw, LooksForWork, OwnerHelpsOther, FindsNoWork, ComposeMoves, ComposeReplies,
   Composes, ChildReturns, HelperClaims, HelperAnnounces, HelperLeaves, root

\* A root move stays in hand until there is a verdict on it.
LEMMA InHandKept ==
    ASSUME Fits, Fits', Undisturbed, NEW w \in Workers, WorkerStep(w), NEW i \in Roots,
           InHand(i), ~(RootDone(w) /\ Top(w).i = i)
    PROVE  InHand(i)'
<1>1. TypeOK /\ i \in Nat /\ N \in Nat /\ i < N /\ Priority[RootNode[i]] = i /\ OthersStay(w)
  BY Tree, StepIsMine DEF Fits, Roots
<1>2. PICK v \in Workers : \/ pc[v] \in {"publish", "recheck"} /\ at[v] = RootNode[i]
                           \/ /\ Height(v) > 0 /\ Loop(v, 1).kind = "root"
                              /\ Loop(v, 1).i = i
  BY DEF InHand
<1>3. CASE v # w
  <2>1. /\ Height(v)' = Height(v) /\ Loop(v, 1)' = Loop(v, 1) /\ pc'[v] = pc[v]
        /\ at'[v] = at[v]
    BY <1>1, <1>3, OthersKeep
  <2> QED
    BY <1>2, <2>1 DEF InHand
<1>4. CASE v = w /\ pc[w] \in {"publish", "recheck"} /\ at[w] = RootNode[i]
  <2>1. Height(w) = 0
    BY <1>4, LabelFacts
  <2>2. CASE RootPublish(w)
    <3>1. pc'[w] = "recheck" /\ at' = at
      BY <1>1, <2>2 DEF RootPublish, Goto, TypeOK
    <3> QED
      BY <1>4, <3>1 DEF InHand
  <2>3. CASE RootRecheck(w)
    <3>1. ~(Priority[at[w]] > best)
      BY <1>1, <1>4 DEF Undisturbed
    <3>2. PICK f \in Loops : Push(w, f) /\ f.kind = "root" /\ f.i = i
      BY <1>1, <1>4, <2>3, <3>1, RootRecheckPush
    <3>3. Loop(w, 0 + 1)' = f /\ 0 + 1 = 1 /\ Height(w)' = 0 + 1
      BY <1>1, <2>1, <3>2, PushFacts
    <3> QED
      BY <3>2, <3>3 DEF InHand
  <2> QED
    BY <1>4, <2>1, <2>2, <2>3, Grounded DEF RootClaim, HelperClaims, HelperLeaves
<1>5. CASE v = w /\ Height(w) > 0 /\ Loop(w, 1).kind = "root" /\ Loop(w, 1).i = i
  <2>1. ~RootDone(w)
    BY <1>5, RootAtBottom
  <2>2. ~(ChildReturns(w) /\ Height(w) = 1)
    BY <1>5, TopFacts DEF ChildReturns
  <2>3. Height(w)' > 0 /\ Loop(w, 1)' = Loop(w, 1)
    BY <1>5, <2>1, <2>2, Bottom
  <2> QED
    BY <1>5, <2>3 DEF InHand
<1> QED
  BY <1>2, <1>3, <1>4, <1>5

LEMMA AnsweredStep ==
    ASSUME Fits, Fits', True, Served, Undisturbed', NEW w \in Workers, WorkerStep(w)
    PROVE  Answered'
<1>1. /\ Undisturbed /\ Untroubled /\ Answered /\ value' = value /\ nextIndex \in Nat
      /\ nextIndex' \in {nextIndex, nextIndex + 1}
  BY BestWins, StepIsHonest, StepIsMine DEF Served, ResultsStay, Fits, TypeOK, OthersStay
<1>2. ASSUME NEW i \in Roots, i < nextIndex PROVE ~Wins(RootNode[i])' \/ InHand(i)'
  <2>1. CASE ~Wins(RootNode[i])
    BY <1>1, <2>1 DEF Wins
  <2>2. CASE Wins(RootNode[i])
    <3>1. InHand(i)
      BY <1>1, <1>2, <2>2 DEF Answered
    <3>2. ~(RootDone(w) /\ Top(w).i = i)
      <4>1. SUFFICES ASSUME RootDone(w), Top(w).i = i PROVE FALSE
        OBVIOUS
      <4>2. ~aborted[w] /\ ~(ret[w].ok /\ ~aborted[w])
        BY <1>1, <4>1, BestWins DEF Untroubled
      <4> QED
        BY <2>2, <4>1, <4>2, RootVerdict
    <3> QED
      BY <1>1, <3>1, <3>2, InHandKept
  <2> QED
    BY <2>1, <2>2
<1>3. ASSUME NEW i \in Roots, i = nextIndex, nextIndex' = nextIndex + 1 PROVE InHand(i)'
  <2>1. RootClaim(w) /\ Fits
    BY <1>1, <1>3, NextIndexMoves
  <2>2. i \in Nat /\ N \in Nat /\ i < N
    BY Tree, <1>3 DEF Roots
  <2>3. Goto(w, "publish") /\ at' = [at EXCEPT ![w] = RootNode[i]]
    BY <1>1, <1>3, <2>1, <2>2 DEF RootClaim, Undisturbed
  <2>4. pc'[w] = "publish" /\ at'[w] = RootNode[i]
    BY <2>1, <2>3 DEF Goto, Fits, TypeOK
  <2> QED
    BY <2>4 DEF InHand
<1>4. ASSUME NEW i \in Roots, i < nextIndex' PROVE ~Wins(RootNode[i])' \/ InHand(i)'
  <2>1. i \in Nat
    BY Tree
  <2> QED
    BY <1>1, <1>2, <1>3, <1>4, <2>1
<1> QED
  BY <1>4 DEF Answered

LEMMA AllTakenStep ==
    ASSUME Fits, Fits', True, Undisturbed, AllTaken, NEW w \in Workers, WorkerStep(w)
    PROVE  AllTaken'
<1>1. OthersStay(w) /\ nextIndex \in Nat /\ nextIndex' \in Nat /\ nextIndex' >= nextIndex
  BY StepIsMine DEF Fits, TypeOK, OthersStay
<1>2. ASSUME NEW v \in Workers, Past(v)' PROVE nextIndex' >= N
  <2>1. CASE v = w
    BY <1>1, <1>2, <2>1, PastStep, Tree DEF AllTaken
  <2>2. CASE v # w
    <3>1. Height(v)' = Height(v) /\ Loop(v, 1)' = Loop(v, 1) /\ pc'[v] = pc[v]
      BY <1>1, <2>2, OthersKeep
    <3>2. Past(v)
      BY <1>2, <3>1 DEF Past
    <3> QED
      BY <1>1, <3>2, Tree DEF AllTaken
  <2> QED
    BY <2>1, <2>2
<1> QED
  BY <1>2 DEF AllTaken

-----------------------------------------------------------------------------
(* Fourth layer: splits that nobody disturbs are searched to the end. *)

\* An owner that composes has every child it shared back, or a settling one.
LEMMA AllBack ==
    ASSUME Fits, Alone, Untroubled, WithdrawnLate, NEW w \in Workers,
           pc[w] = "wait", ~Busy(w), split[Top(w).node].settledAt = 0
    PROVE  Children(split[Top(w).node]) \cap Unfinished = {}
<1>1. PICK h \in Nat, n \in Nodes : /\ h = Height(w) /\ n = Top(w).node /\ h > 0
                                    /\ Top(w) = Loop(w, h) /\ Loop(w, h).kind = "own"
  BY LabelFacts, TopFacts
<1>2. OwnsAt(w, h, n)
  BY <1>1 DEF OwnsAt
<1>3. ~split[n].open
  BY <1>1, <1>2 DEF Alone, OwnersFit, OwnerFits, Withdrawn
<1>4. \A v \in Workers, d \in Nat, j \in Nat : ~RunsAt(v, d, n, j)
  BY <1>1, NoneRuns
<1>5. PICK sp \in Splits : sp = split[n]
  BY DEF Fits, TypeOK
<1>6. sp.first \in Nat /\ sp.first > 0 /\ Len(sp.state) \in Nat /\ sp.next \in Nat
  BY SplitParts
<1>7. sp.next > Len(sp.state)
  BY <1>1, <1>3, <1>5, <1>6 DEF WithdrawnLate, HandedAll
<1>8. ASSUME NEW j \in sp.first .. Len(sp.state) PROVE sp.state[j] \notin Unfinished
  <2>1. j \in 1 .. Len(sp.state) /\ j < sp.next /\ sp.first <= j /\ j \in Nat
    BY <1>6, <1>7
  <2>2. sp.state[j] # "unresolved"
    BY <1>4, <1>5, <2>1 DEF Alone, HandedOut
  <2>3. sp.state[j] # "abandoned"
    BY <1>5, <2>1 DEF Untroubled
  <2> QED
    BY <2>2, <2>3 DEF Unfinished
<1> QED
  BY <1>1, <1>5, <1>8 DEF Children

\* Nobody gives up.
LEMMA NobodyAborts ==
    ASSUME Fits, Alone, True, Served, Undisturbed', NEW w \in Workers, WorkerStep(w),
           NEW v \in Workers
    PROVE  ~cancel'[v] /\ ~aborted'[v]
<1>1. /\ TypeOK /\ Undisturbed /\ Untroubled /\ WithdrawnLate
      /\ ~cancel[v] /\ ~aborted[v] /\ ~cancel[w] /\ ~aborted[w]
  BY BestWins DEF Served, Fits, Untroubled
<1>2. CASE RootPublish(w) \/ HelperAnnounces(w)
  <2>1. /\ cancel' = [cancel EXCEPT ![w] = FALSE]
        /\ aborted' = [aborted EXCEPT ![w] = FALSE]
    BY <1>2 DEF RootPublish, HelperAnnounces, Announce
  <2> QED
    BY <1>1, <2>1 DEF TypeOK
<1>3. CASE RootDone(w)
  <2>1. ~(ret[w].ok /\ ~aborted[w])
    BY <1>3, BestWins
  <2>2. cancel' = cancel /\ aborted' = aborted
    BY <1>3, <2>1 DEF RootDone
  <2> QED
    BY <1>1, <2>2
<1>4. CASE GiveUp(w)
  BY <1>1, <1>4 DEF GiveUp, Stopped, Undisturbed
<1>5. CASE ComposeMoves(w) \/ ComposeReplies(w)
  <2>1. pc[w] = "wait" /\ ~Busy(w) /\ cancel' = cancel
    BY <1>5 DEF ComposeMoves, ComposeReplies, Composes, Owning, root
  <2>2. split[Top(w).node].settledAt = 0 => Children(split[Top(w).node]) \cap Unfinished = {}
    BY <1>1, <2>1, AllBack
  <2>3. aborted' = aborted
    BY <1>5, <2>2 DEF ComposeMoves, ComposeReplies
  <2> QED
    BY <1>1, <2>1, <2>3
<1>6. CASE ChildReturns(w)
  <2>1. cancel' = cancel /\ (aborted' = aborted \/ aborted' = [aborted EXCEPT ![w] = FALSE])
    BY <1>6 DEF ChildReturns
  <2> QED
    BY <1>1, <2>1 DEF TypeOK
<1>7. CASE ~(\/ RootPublish(w) \/ HelperAnnounces(w) \/ RootDone(w) \/ GiveUp(w)
             \/ ComposeMoves(w) \/ ComposeReplies(w) \/ ChildReturns(w))
  <2>1. cancel' = cancel /\ aborted' = aborted
    BY <1>7 DEF WorkerStep, RootClaim, RootRecheck, SearchLeaf, OpenNode, PublishReplies,
       LoopEnds, NextKid, BackInLoop, SeeDemand, Share, OwnerClaims, OwnerIsDone, Withdraw,
       LooksForWork, OwnerHelpsOther, FindsNoWork, HelperClaims, HelperLeaves, root
  <2> QED
    BY <1>1, <2>1
<1> QED
  BY <1>2, <1>3, <1>4, <1>5, <1>6, <1>7

\* What a step leaves of the splits.
SplitsGrow(w) ==
    \A n \in Nodes :
        /\ \A j \in 1 .. Len(split'[n].state) : split'[n].state[j] # "abandoned"
        /\ split'[n].open \/ HandedAll(n)'
        /\ HandedAll(n) => HandedAll(n)' \/ \E d \in Nat : OwnsAt(w, d, n)' /\ pc'[w] = "own"

LEMMA SameSplitsGrow ==
    ASSUME Untroubled, WithdrawnLate, split' = split, NEW w
    PROVE  SplitsGrow(w)
BY DEF SplitsGrow, Untroubled, WithdrawnLate, HandedAll

LEMMA PublishGrows ==
    ASSUME Fits, Untroubled, WithdrawnLate, NEW w \in Workers, NEW n \in Nodes,
           NEW from \in Nat \ {0}, NEW seq \in Nat,
           split'[n] = Published(n, from, seq, w), \A m \in Nodes \ {n} : split'[m] = split[m],
           NEW e \in Nat, OwnsAt(w, e, n)', pc'[w] = "own"
    PROVE  SplitsGrow(w)
<1>1. PICK c \in Splits : c = Published(n, from, seq, w)
  BY PublishedFacts
<1>2. /\ c.open /\ Len(c.state) = Len(Kids[n])
      /\ \A i \in 1 .. Len(Kids[n]) :
           c.state[i] = IF i = c.settledAt THEN "immediate" ELSE "unresolved"
  BY <1>1, PublishedFacts
<1>3. split'[n] = c
  BY <1>1
<1>4. \A j \in 1 .. Len(split'[n].state) : split'[n].state[j] # "abandoned"
  BY <1>2, <1>3
<1>5. split'[n].open
  BY <1>2, <1>3
<1>6. ASSUME NEW m \in Nodes, m # n
      PROVE  /\ \A j \in 1 .. Len(split'[m].state) : split'[m].state[j] # "abandoned"
             /\ split'[m].open \/ HandedAll(m)'
             /\ HandedAll(m) => HandedAll(m)'
  BY <1>6 DEF Untroubled, WithdrawnLate, HandedAll
<1> QED
  BY <1>4, <1>5, <1>6 DEF SplitsGrow

LEMMA RunGrows ==
    ASSUME Fits, Untroubled, WithdrawnLate, NEW w \in Workers, NEW n \in Nodes, Run(w, n)
    PROVE  SplitsGrow(w)
<1>1. PICK sp \in Splits : sp = split[n]
  BY DEF Fits, TypeOK
<1>2. PICK c \in Splits : c = Taken(sp)
  BY TakenFacts
<1>3. /\ c.open = sp.open /\ c.next = sp.next + 1 /\ c.settledAt = sp.settledAt
      /\ c.state = sp.state /\ sp.next \in Nat /\ Len(sp.state) \in Nat
  BY <1>2, TakenFacts, SplitParts
<1>4. split'[n] = c /\ \A m \in Nodes \ {n} : split'[m] = split[m]
  BY <1>1, <1>2 DEF Run, Fits, TypeOK
<1>5. HandedAll(n) => HandedAll(n)'
  BY <1>1, <1>3, <1>4 DEF HandedAll
<1>6. split'[n].open \/ HandedAll(n)'
  BY <1>1, <1>3, <1>4, <1>5 DEF WithdrawnLate
<1>7. \A j \in 1 .. Len(split'[n].state) : split'[n].state[j] # "abandoned"
  BY <1>1, <1>3, <1>4 DEF Untroubled
<1>8. ASSUME NEW m \in Nodes, m # n
      PROVE  /\ \A j \in 1 .. Len(split'[m].state) : split'[m].state[j] # "abandoned"
             /\ split'[m].open \/ HandedAll(m)'
             /\ HandedAll(m) => HandedAll(m)'
  BY <1>4, <1>8 DEF Untroubled, WithdrawnLate, HandedAll
<1> QED
  BY <1>5, <1>6, <1>7, <1>8 DEF SplitsGrow

LEMMA WithdrawGrows ==
    ASSUME Fits, Untroubled, WithdrawnLate, NEW w \in Workers, Withdraw(w)
    PROVE  SplitsGrow(w)
<1>1. PICK n \in Nodes : /\ n = Top(w).node /\ n = Loop(w, Height(w)).node
                         /\ pc[w] = "withdraw"
  BY LabelFacts, TopFacts DEF Withdraw, Owning
<1>2. PICK sp \in Splits : sp = split[n]
  BY DEF Fits, TypeOK
<1>3. PICK c \in Splits : c = [sp EXCEPT !.open = FALSE]
  BY ClosedFacts
<1>4. c.next = sp.next /\ c.settledAt = sp.settledAt /\ c.state = sp.state
  BY <1>3, ClosedFacts
<1>5. split'[n] = c /\ \A m \in Nodes \ {n} : split'[m] = split[m]
  <2>1. split' = [split EXCEPT ![n] = c]
    BY <1>1, <1>2, <1>3 DEF Withdraw
  <2> QED
    BY <2>1 DEF Fits, TypeOK
<1>6. HandedAll(n)'
  BY <1>1, <1>2, <1>4, <1>5 DEF WithdrawnLate, HandedAll
<1>7. \A j \in 1 .. Len(split'[n].state) : split'[n].state[j] # "abandoned"
  BY <1>2, <1>4, <1>5 DEF Untroubled
<1>8. ASSUME NEW m \in Nodes, m # n
      PROVE  /\ \A j \in 1 .. Len(split'[m].state) : split'[m].state[j] # "abandoned"
             /\ split'[m].open \/ HandedAll(m)'
             /\ HandedAll(m) => HandedAll(m)'
  BY <1>5, <1>8 DEF Untroubled, WithdrawnLate, HandedAll
<1> QED
  BY <1>6, <1>7, <1>8 DEF SplitsGrow

LEMMA ReturnGrows ==
    ASSUME Fits, Alone, Untroubled, WithdrawnLate, NEW w \in Workers, ChildReturns(w)
    PROVE  SplitsGrow(w)
<1>1. /\ TypeOK /\ Height(w) > 0 /\ Height(w) \in Nat /\ Top(w).kind = "run"
      /\ Top(w) = Loop(w, Height(w))
  BY LabelFacts, TopFacts DEF Fits, ChildReturns
<1>2. PICK n \in Nodes, j \in Nat : n = Top(w).node /\ j = Top(w).i
  BY <1>1, TopFacts
<1>3. RunsAt(w, Height(w), n, j)
  BY <1>1, <1>2 DEF RunsAt
<1>4. PICK sp \in Splits : sp = split[n] /\ j \in 1 .. Len(sp.state)
  BY <1>1, <1>3 DEF Alone, RunsAreLive, TypeOK
<1>5. PICK st \in States : st = Outcome(w) /\ st # "abandoned"
  BY DEF Outcome, States, Untroubled
<1> DEFINE or == n \in OrNodes
           c == Settled(sp, j, st, or)
<1>7. /\ c.open = sp.open /\ c.next = sp.next
      /\ \/ c.settledAt = j
         \/ c.settledAt = sp.settledAt
      /\ c.state[j] = st
      /\ Len(c.state) = Len(sp.state)
      /\ \A k \in 1 .. Len(sp.state) : k # j => c.state[k] = sp.state[k]
  <2> HIDE DEF or
  <2> QED
    BY <1>4, SettledFacts
<1>8. split'[n] = c /\ \A m \in Nodes \ {n} : split'[m] = split[m]
  <2>1. split' = [split EXCEPT ![n] = c]
    BY <1>2, <1>4, <1>5 DEF ChildReturns
  <2> HIDE DEF c
  <2> QED
    BY <1>1, <2>1 DEF TypeOK
<1> HIDE DEF c
<1>9. \A k \in 1 .. Len(split'[n].state) : split'[n].state[k] # "abandoned"
  BY <1>4, <1>5, <1>7, <1>8 DEF Untroubled
<1>10. HandedAll(n) => HandedAll(n)'
  <2>1. j \in Nat /\ j > 0
    BY <1>4
  <2> QED
    BY <1>4, <1>7, <1>8, <2>1 DEF HandedAll
<1>11. split'[n].open \/ HandedAll(n)'
  BY <1>4, <1>7, <1>8, <1>10 DEF WithdrawnLate
<1>12. ASSUME NEW m \in Nodes, m # n
       PROVE  /\ \A k \in 1 .. Len(split'[m].state) : split'[m].state[k] # "abandoned"
              /\ split'[m].open \/ HandedAll(m)'
              /\ HandedAll(m) => HandedAll(m)'
  BY <1>8, <1>12 DEF Untroubled, WithdrawnLate, HandedAll
<1> QED
  BY <1>9, <1>10, <1>11, <1>12 DEF SplitsGrow

LEMMA SharingGrows ==
    ASSUME Fits, Untroubled, WithdrawnLate, NEW w \in Workers, PublishReplies(w) \/ Share(w)
    PROVE  SplitsGrow(w)
<1>1. TypeOK /\ pc'[w] = "own"
  BY DEF Fits, PublishReplies, Share, Goto, TypeOK
<1>2. CASE PublishReplies(w)
  <2>1. PICK n \in Nodes, h \in Nat, f \in Loops :
          /\ n = at[w] /\ h = Height(w)
          /\ Push(w, f) /\ f.kind = "own" /\ f.node = n
    <3>1. at[w] \in Nodes /\ Height(w) \in Nat
      BY <1>1, <1>2, LabelFacts, StackFacts DEF PublishReplies, Searching
    <3> QED
      BY <1>2, <3>1, PublishRepliesPush
  <2>2. OwnsAt(w, h + 1, n)'
    BY <1>1, <2>1, PushFacts DEF OwnsAt
  <2>3. split' = [split EXCEPT ![n] = Published(n, 1, 0, w)]
    BY <1>2, <2>1 DEF PublishReplies
  <2>4. split'[n] = Published(n, 1, 0, w) /\ \A m \in Nodes \ {n} : split'[m] = split[m]
    BY <1>1, <2>3 DEF TypeOK
  <2>5. 1 \in Nat \ {0} /\ 0 \in Nat /\ h + 1 \in Nat
    OBVIOUS
  <2> QED
    BY <1>1, <2>2, <2>4, <2>5, PublishGrows
<1>3. CASE Share(w)
  <2>1. /\ Height(w) > 0 /\ Height(w) \in Nat /\ Top(w).node \in Nodes
        /\ Top(w).i \in Nat \ {0} /\ nextSeq \in Nat
    <3>1. Height(w) > 0 /\ Top(w).kind = "loop"
      BY <1>3, LabelFacts DEF Share, InLoop
    <3> QED
      BY <1>1, <3>1, TopFacts DEF LoopFits, TypeOK
  <2>2. PICK n \in Nodes, h \in Nat, from \in Nat \ {0}, seq \in Nat :
          n = Top(w).node /\ h = Height(w) /\ from = Top(w).i /\ seq = nextSeq
    BY <2>1
  <2>3. PICK f \in Loops : Retop(w, f) /\ f.kind = "own" /\ f.node = n
    BY <1>3, <2>2, ShareRetop
  <2>4. OwnsAt(w, h, n)'
    BY <1>1, <2>1, <2>2, <2>3, RetopFacts DEF OwnsAt
  <2>5. split' = [split EXCEPT ![n] = Published(n, from, seq, w)]
    BY <1>3, <2>2 DEF Share
  <2>6. split'[n] = Published(n, from, seq, w) /\ \A m \in Nodes \ {n} : split'[m] = split[m]
    BY <1>1, <2>5 DEF TypeOK
  <2> QED
    BY <1>1, <2>4, <2>6, PublishGrows
<1> QED
  BY <1>2, <1>3

LEMMA SplitsGrowOn ==
    ASSUME Fits, Alone, Untroubled, WithdrawnLate, NEW w \in Workers, WorkerStep(w)
    PROVE  SplitsGrow(w)
<1>1. CASE OwnerClaims(w) \/ OwnerHelpsOther(w) \/ HelperClaims(w)
  <2>1. PICK n \in Nodes : Run(w, n)
    <3>1. CASE OwnerClaims(w)
      <4>1. Run(w, Top(w).node) /\ pc[w] = "own"
        BY <3>1 DEF OwnerClaims, Owning
      <4>2. Top(w).node \in Nodes
        BY <4>1, LabelFacts, TopFacts
      <4> QED
        BY <4>1, <4>2
    <3>2. CASE OwnerHelpsOther(w) \/ HelperClaims(w)
      BY <3>2, ChosenFacts DEF OwnerHelpsOther, HelperClaims, Fits
    <3> QED
      BY <1>1, <3>1, <3>2
  <2> QED
    BY <2>1, RunGrows
<1>2. CASE PublishReplies(w) \/ Share(w) \/ Withdraw(w) \/ ChildReturns(w)
  BY <1>2, SharingGrows, WithdrawGrows, ReturnGrows
<1>3. CASE ~(\/ OwnerClaims(w) \/ OwnerHelpsOther(w) \/ HelperClaims(w) \/ PublishReplies(w)
             \/ Share(w) \/ Withdraw(w) \/ ChildReturns(w))
  <2>1. split' = split
    BY <1>3 DEF WorkerStep, RootClaim, RootPublish, RootRecheck, RootDone, GiveUp, SearchLeaf,
       OpenNode, LoopEnds, NextKid, BackInLoop, SeeDemand, OwnerIsDone, LooksForWork,
       FindsNoWork, ComposeMoves, ComposeReplies, Composes, HelperAnnounces, HelperLeaves,
       registry
  <2> QED
    BY <2>1, SameSplitsGrow
<1> QED
  BY <1>1, <1>2, <1>3

\* An owner leaves its split when there is nothing left to hand out.
LEMMA OwnerIsDoneHanded ==
    ASSUME Fits, Alone, NEW w \in Workers, OwnerIsDone(w)
    PROVE  HandedAll(Top(w).node)
<1>1. PICK h \in Nat, n \in Nodes : /\ h = Height(w) /\ n = Top(w).node /\ h > 0
                                    /\ Top(w) = Loop(w, h) /\ Loop(w, h).kind = "own"
                                    /\ pc[w] = "own" /\ ~Offers(split[n])
  BY LabelFacts, TopFacts DEF OwnerIsDone, Owning
<1>2. OwnsAt(w, h, n)
  BY <1>1 DEF OwnsAt
<1>3. split[n].open
  BY <1>1, <1>2 DEF Alone, OwnersFit, OwnerFits, Withdrawn
<1>4. PICK sp \in Splits : sp = split[n]
  BY DEF Fits, TypeOK
<1>5. sp.settledAt \in Nat /\ sp.next \in Nat /\ Len(sp.state) \in Nat
  BY SplitParts
<1> QED
  BY <1>1, <1>3, <1>4, <1>5 DEF Offers, HandedAll

\* A worker comes to withdraw a split only when there is nothing left to hand out.
LEMMA ComesToWithdraw ==
    ASSUME Fits, Alone, Untroubled, NEW w \in Workers, WorkerStep(w), pc'[w] = "withdraw"
    PROVE  OwnerIsDone(w)
<1>1. TypeOK /\ ~aborted[w]
  BY DEF Fits, Untroubled
<1>2. CASE ChildReturns(w)
  <2>1. \E l \in {"help", "own", "wait"} : Goto(w, l)
    BY <1>1, <1>2 DEF ChildReturns
  <2> QED
    BY <1>1, <2>1 DEF Goto, TypeOK
<1>3. CASE RootClaim(w) \/ RootPublish(w) \/ RootRecheck(w) \/ RootDone(w)
  BY <1>1, <1>3 DEF RootClaim, RootPublish, RootRecheck, RootDone, Goto, TypeOK
<1>4. CASE \/ GiveUp(w) \/ SearchLeaf(w) \/ OpenNode(w) \/ PublishReplies(w) \/ LoopEnds(w)
           \/ NextKid(w)
  BY <1>1, <1>4 DEF GiveUp, SearchLeaf, OpenNode, PublishReplies, LoopEnds, NextKid, Goto,
     Enter, Return, TypeOK
<1>5. CASE BackInLoop(w)
  BY <1>1, <1>5 DEF BackInLoop, Goto, Return, TypeOK
<1>6. CASE \/ SeeDemand(w) \/ Share(w) \/ OwnerClaims(w) \/ Withdraw(w) \/ LooksForWork(w)
           \/ OwnerHelpsOther(w) \/ FindsNoWork(w)
  BY <1>1, <1>6 DEF SeeDemand, Share, OwnerClaims, Withdraw, LooksForWork, OwnerHelpsOther,
     FindsNoWork, Goto, TypeOK
<1>7. CASE \/ ComposeMoves(w) \/ ComposeReplies(w) \/ HelperClaims(w) \/ HelperAnnounces(w)
           \/ HelperLeaves(w)
  <2>1. \E l \in {"ret", "announce", "enter", "done"} : Goto(w, l)
    BY <1>7 DEF ComposeMoves, ComposeReplies, NoVerdict, Return, HelperClaims,
       HelperAnnounces, HelperLeaves
  <2> QED
    BY <1>1, <2>1 DEF Goto, TypeOK
<1> QED
  BY <1>2, <1>3, <1>4, <1>5, <1>6, <1>7 DEF WorkerStep

LEMMA WithdrawnLateStep ==
    ASSUME Fits, Fits', Alone, Alone', Untroubled, WithdrawnLate,
           NEW w \in Workers, WorkerStep(w)
    PROVE  WithdrawnLate'
<1>1. SplitsGrow(w) /\ OthersStay(w)
  BY SplitsGrowOn, StepIsMine
<1>2. ASSUME NEW v \in Workers, pc'[v] = "withdraw"
      PROVE  HandedAll(Loop(v, Height(v)).node)'
  <2>1. CASE v = w
    <3>1. OwnerIsDone(w)
      BY <1>2, <2>1, ComesToWithdraw
    <3>2. stack' = stack /\ split' = split /\ HandedAll(Top(w).node)
      BY <3>1, OwnerIsDoneHanded DEF OwnerIsDone, registry
    <3>3. Top(w) = Loop(w, Height(w))
      BY <3>1, LabelFacts, TopFacts DEF OwnerIsDone, Owning
    <3>4. Loop(w, Height(w))' = Loop(w, Height(w))
      BY <3>2 DEF Loop, Height
    <3> QED
      BY <2>1, <3>2, <3>3, <3>4 DEF HandedAll
  <2>2. CASE v # w
    <3>1. pc[v] = "withdraw" /\ stack'[v] = stack[v]
      BY <1>1, <1>2, <2>2 DEF OthersStay
    <3>2. PICK h \in Nat, n \in Nodes : /\ h = Height(v) /\ h > 0 /\ Loop(v, h).kind = "own"
                                        /\ n = Loop(v, h).node
      BY <3>1, LabelFacts, TopFacts
    <3>3. Height(v)' = h /\ Loop(v, h)' = Loop(v, h)
      BY <3>1, <3>2 DEF Height, Loop
    <3>4. OwnsAt(v, h, n)' /\ HandedAll(n)
      BY <3>1, <3>2, <3>3 DEF OwnsAt, WithdrawnLate
    <3>5. ASSUME NEW d \in Nat, OwnsAt(w, d, n)' PROVE FALSE
      <4>1. OwnerFits(v, h, n)' /\ OwnerFits(w, d, n)'
        BY <3>4, <3>5 DEF Alone, OwnersFit
      <4>2. split'[n].owner = v /\ split'[n].owner = w
        BY <4>1 DEF OwnerFits
      <4> QED
        BY <2>2, <4>2
    <3>6. HandedAll(n)'
      BY <1>1, <3>4, <3>5 DEF SplitsGrow
    <3> QED
      BY <3>2, <3>3, <3>6 DEF HandedAll
  <2> QED
    BY <2>1, <2>2
<1>3. \A n \in Nodes : split'[n].open \/ HandedAll(n)'
  BY <1>1 DEF SplitsGrow
<1> QED
  BY <1>2, <1>3 DEF WithdrawnLate, HandedAll

LEMMA ServedStep ==
    ASSUME Fits, Fits', Alone, Alone', True, Served, [Next]_vars
    PROVE  Served'
<1>1. CASE UNCHANGED <<value, root, registry, thread>> /\ (Undisturbed' => Undisturbed)
  <2>1. /\ nextIndex' = nextIndex /\ best' = best /\ cancel' = cancel /\ value' = value
        /\ aborted' = aborted /\ pc' = pc /\ stack' = stack /\ split' = split /\ at' = at
    BY <1>1 DEF root, registry, thread
  <2>2. best' # N => Wins(RootNode[best])'
    BY <2>1 DEF Served, Wins
  <2>3. ASSUME Undisturbed' PROVE Untroubled' /\ WithdrawnLate' /\ Answered' /\ AllTaken'
    <3>1. Untroubled /\ WithdrawnLate /\ Answered /\ AllTaken
      BY <1>1, <2>3 DEF Served
    <3>2. Untroubled'
      BY <2>1, <3>1 DEF Untroubled
    <3>3. WithdrawnLate'
      BY <2>1, <3>1 DEF WithdrawnLate, HandedAll, Loop, Height
    <3>4. Answered'
      BY <2>1, <3>1 DEF Answered, InHand, Loop, Height, Wins
    <3>5. AllTaken'
      BY <2>1, <3>1 DEF AllTaken, Past, Loop, Height
    <3> QED
      BY <3>2, <3>3, <3>4, <3>5
  <2> QED
    BY <2>2, <2>3 DEF Served
<1>2. CASE UNCHANGED vars
  BY <1>1, <1>2 DEF vars, root, Undisturbed
<1>3. ASSUME NEW e \in Limits, Interrupt(e) PROVE Served'
  BY <1>1, <1>3 DEF Interrupt, Undisturbed
<1>4. ASSUME NEW w \in Workers, WorkerStep(w) PROVE Served'
  <2>1. /\ best' # N => Wins(RootNode[best])'
        /\ Undisturbed' => Undisturbed
    BY <1>4, BestWins
  <2>2. ASSUME Undisturbed' PROVE Untroubled' /\ WithdrawnLate' /\ Answered' /\ AllTaken'
    <3>1. Undisturbed /\ Untroubled /\ WithdrawnLate /\ Answered /\ AllTaken
      BY <2>1, <2>2 DEF Served
    <3>2. \A v \in Workers : ~cancel'[v] /\ ~aborted'[v]
      BY <1>4, <2>2, NobodyAborts
    <3>3. SplitsGrow(w)
      BY <1>4, <3>1, SplitsGrowOn
    <3>4. Untroubled'
      BY <3>2, <3>3 DEF Untroubled, SplitsGrow
    <3>5. WithdrawnLate' /\ Answered' /\ AllTaken'
      BY <1>4, <2>2, <3>1, WithdrawnLateStep, AnsweredStep, AllTakenStep
    <3> QED
      BY <3>4, <3>5
  <2> QED
    BY <2>1, <2>2 DEF Served
<1> QED
  BY <1>2, <1>3, <1>4 DEF Next, AtRest

LEMMA ServedInit == ASSUME Init PROVE Served
<1>1. best = N /\ nextIndex = 0
  BY DEF Init
<1>2. ASSUME NEW n \in Nodes
      PROVE  HandedAll(n) /\ Len(split[n].state) = 0
  <2>1. split[n] = NoSplit
    BY DEF Init
  <2> QED
    BY <2>1, NoSplitFacts DEF HandedAll
<1>3. Untroubled
  BY <1>2 DEF Untroubled, Init
<1>4. WithdrawnLate
  BY <1>2 DEF WithdrawnLate, Init
<1>5. Answered
  BY <1>1, Tree DEF Answered
<1>6. AllTaken
  BY DEF AllTaken, Past, Init, Height
<1> QED
  BY <1>1, <1>3, <1>4, <1>5, <1>6 DEF Served

\* Who takes a step has not come home.
LEMMA NotHome ==
    ASSUME Fits, NEW w \in Workers, WorkerStep(w)
    PROVE  ~Finished
<1>1. pc[w] = "done" => Height(w) = 0
  BY LabelFacts
<1>2. pc[w] # "done"
  BY <1>1, Grounded DEF RootClaim, RootPublish, RootRecheck, HelperClaims, HelperLeaves
<1> QED
  BY <1>2 DEF Finished

\* A depth searched with helpers keeps the promise its caller reads (routes.h): a
\* key move it names wins, and when nothing has interrupted it, none means that no
\* root move wins at this depth.
THEOREM SplittingKeepsThePromise == Spec => ImplementsDepth
<1> DEFINE IInv == Fits /\ Alone /\ True /\ Served
<1>1. Init => IInv
  BY FitsInit, AloneInit, TrueInit, ServedInit
<1>2. IInv /\ [Next]_vars => IInv'
  BY FitsStep, AloneStep, TrueStep, ServedStep
<1>3. Init => Depth!Init
  <2> SUFFICES ASSUME Init PROVE Depth!Init
    OBVIOUS
  <2>1. 1 \in Workers
    BY Tree
  <2>2. ~Finished
    BY <2>1 DEF Init, Finished
  <2> QED
    BY <2>2 DEF Depth!Init, Init, Roots
<1>4. IInv /\ IInv' /\ [Next]_vars => [Depth!Next]_(Depth!depthVars)
  <2> SUFFICES ASSUME IInv, IInv', [Next]_vars PROVE [Depth!Next]_(Depth!depthVars)
    OBVIOUS
  <2> HIDE DEF IInv
  <2>1. CASE UNCHANGED vars
    BY <2>1 DEF vars, root, thread, Depth!depthVars, Finished, Wins
  <2>2. ASSUME NEW e \in Limits, Interrupt(e) PROVE Depth!Next
    <3>1. /\ value' = value /\ best' = best /\ pc' = pc /\ happened' = happened \cup {e}
          /\ ~Finished
      BY <2>2 DEF Interrupt, root, thread, Finished
    <3> QED
      BY <3>1 DEF Depth!Next, Depth!Interrupt, Finished, Wins
  <2>3. ASSUME NEW w \in Workers, WorkerStep(w) PROVE [Depth!Next]_(Depth!depthVars)
    <3>1. value' = value /\ happened' = happened /\ best' \in 0 .. N /\ N \in Nat
      BY <2>3, StepIsHonest, BestKept, Tree DEF IInv, Fits, TypeOK, RootDone, ResultsStay
    <3>2. ~Finished
      BY <2>3, NotHome DEF IInv
    <3>3. CASE ~Finished'
      <4>1. {i \in Roots : Wins(RootNode[i])}' = {i \in Roots : Wins(RootNode[i])}
        BY <3>1 DEF Wins
      <4>2. /\ Finished' = Finished /\ (happened # {})' = (happened # {})
            /\ (IF Finished THEN best ELSE N)' = (IF Finished THEN best ELSE N)
        BY <3>1, <3>2, <3>3 DEF Finished
      <4> QED
        BY <4>1, <4>2 DEF Depth!depthVars
    <3>4. CASE Finished' /\ best' # N
      <4>1. best' \in {i \in Roots : Wins(RootNode[i])}
        BY <3>1, <3>4 DEF IInv, Served, Wins, Roots
      <4> QED
        BY <3>1, <3>2, <3>4, <4>1 DEF Depth!Next, Depth!Prove, Wins
    <3>5. CASE Finished' /\ best' = N
      <4>1. happened # {} \/ {i \in Roots : Wins(RootNode[i])} = {}
        <5>1. SUFFICES ASSUME happened = {}, NEW i \in Roots, Wins(RootNode[i]) PROVE FALSE
          OBVIOUS
        <5>2. Undisturbed'
          BY <3>1, <3>5, <5>1 DEF Undisturbed
        <5>3. Answered' /\ AllTaken'
          BY <5>2 DEF IInv, Served
        <5>4. \A v \in Workers : pc'[v] = "done" /\ ~(Height(v)' > 0)
          BY <3>5 DEF IInv, Fits, Here, TopFits, Finished
        <5>5. nextIndex' >= N
          BY <5>3, <5>4, Tree DEF AllTaken, Past
        <5>6. i \in Nat /\ i < N /\ nextIndex' \in Nat
          BY Tree DEF Roots, IInv, Fits, TypeOK
        <5>7. InHand(i)'
          BY <3>1, <5>1, <5>3, <5>5, <5>6 DEF Answered, Wins
        <5> QED
          BY <5>4, <5>7 DEF InHand
      <4> QED
        BY <3>1, <3>2, <3>5, <4>1 DEF Depth!Next, Depth!Fail, Wins
    <3> QED
      BY <3>3, <3>4, <3>5
  <2> QED
    BY <2>1, <2>2, <2>3 DEF Next, AtRest
<1> QED
  BY <1>1, <1>2, <1>3, <1>4, PTL DEF Spec, ImplementsDepth, Depth!Spec

=============================================================================

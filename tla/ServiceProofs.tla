---------------------------- MODULE ServiceProofs ----------------------------
(***************************************************************************)
(* What solve_line prints is true, and what the program prints of it is     *)
(* true and in order, for any jobs, depth, lanes, threads and input.        *)
(*                                                                          *)
(* The portfolio first.  The argument follows each lane (LaneTrue).  A lane *)
(* that still searches in earnest has failed every depth below the one it   *)
(* is at, so what an unrestricted lane proves is shortest; a lane that gave *)
(* up was cancelled, so another has won; and lane 0, which always runs, is  *)
(* done without an answer only if it was late, gave up, or there is no      *)
(* mate.  The plan adds that lane 0 is the first unrestricted one, whatever *)
(* cap orders the rest.                                                     *)
(*                                                                          *)
(* Then the program around it.  Asking lists the lines that ask something.  *)
(* A session answers them one at a time: every line dealt with has had its  *)
(* effect, except the command that waits for the search, so the search that *)
(* runs is that of the last question taken, its position is the one named   *)
(* before it, and the stop flag is up only if a stop follows it.  A file    *)
(* may have many questions in hand: the pending lines stand in the order of *)
(* the input (Stands), and the questions without an answer, among those     *)
(* read, are exactly the pending lines not yet printed.                     *)
(*                                                                          *)
(* Last, the two meet: a portfolio's line is one that Service allows.       *)
(***************************************************************************)
EXTENDS Portfolio, Service, FiniteSetTheorems, SequenceTheorems, TLAPS

\* What is the same in every state of a behaviour.
JobTrue ==
    /\ shortest \in 1 .. Never /\ keys \subseteq 1 .. RootMoves
    /\ hopeless => shortest = Never
    /\ config.all => (keys = {} <=> shortest = Never)
    /\ config.cap \in Nat

Restrictions == {"K2", "K3", "X2", "R2", "C4", "R1", "Rq2", "cap-or-check", "cap-only",
                 "cap-or-check-K3", "cap-or-check-X2"}
Names  == Restrictions \cup {"unrestricted", "depth-first"}
Routes == {"dfpn", "depth-first"}

LaneEntry ==
    {e \in [name : Names, restricts : BOOLEAN, weight : Nat, route : Routes] :
        e.name = "unrestricted" => ~e.restricts}

LaneState ==
    [pc : {"search", "report", "tell", "done"}, depth : 1 .. MaxDepth, mate : Nat,
     refuted : BOOLEAN, timedOut : BOOLEAN, gaveUp : BOOLEAN]

TypeOK ==
    /\ phase \in {"plan", "lanes", "roots", "done"}
    /\ plan.entries \in Seq(LaneEntry)
    /\ phase = "lanes" => /\ lane \in [Lanes -> LaneState]
                          /\ cancel \in [Lanes -> BOOLEAN]
                          /\ proved \in [Lanes -> Nat]
    /\ winner \in Nat /\ told \in Nat
    /\ root \in 1 .. RootMoves + 1
    /\ found \in Seq(1 .. RootMoves)
    /\ phase # "done" => line = NoLine

PhaseTrue ==
    /\ phase = "plan" => plan.entries = <<>> /\ found = <<>> /\ root = 1 /\ winner = 0
                         /\ ~limited
    /\ phase = "lanes" => /\ ~config.all /\ Len(plan.entries) # 0
                          /\ plan.entries[1] = Unrestricted
    /\ phase = "roots" => config.all /\ plan.entries = <<>> /\ ~limited

\* A mate lane l may come back with.
Mate(l, n) == /\ n \in shortest .. MaxDepth
              /\ ~Restricts(l) /\ ~config.direct => n = shortest

LaneTrue(l) ==
    /\ lane[l].pc = "search" /\ ~lane[l].gaveUp /\ ~Restricts(l) /\ ~config.direct
          => lane[l].depth <= shortest
    /\ lane[l].pc = "report" => Mate(l, lane[l].mate)
    /\ lane[l].pc = "tell" => proved[l] > 0 /\ winner # 0
    /\ proved[l] > 0 => Mate(l, proved[l])
    /\ cancel[l] \/ lane[l].gaveUp => winner # 0
    /\ ~Restricts(l) /\ lane[l].refuted => hopeless
    /\ l = 1 /\ lane[l].pc = "done"
          => lane[l].timedOut \/ lane[l].gaveUp \/ proved[l] > 0 \/ shortest = Never

WinnerTrue == winner # 0 => winner \in Lanes /\ proved[winner] > 0

RootsTrue ==
    phase = "roots" =>
        ToSet(found) = keys \cap (1 .. root - 1) /\ Len(found) = Cardinality(ToSet(found))

IInv ==
    /\ JobTrue /\ TypeOK /\ PhaseTrue
    /\ phase = "lanes" => \A l \in Lanes : LaneTrue(l)
    /\ WinnerTrue /\ RootsTrue
    /\ AnswerIsTrue /\ SilenceIsNoMate /\ BoundsAreTrue
    /\ CancelledForAnAnswer /\ KeysAreExact

-----------------------------------------------------------------------------
(* The plan. *)

\* A nonempty set of naturals has a least element, the one Min chooses.
LEMMA MinIsLeast ==
    ASSUME NEW S \in SUBSET Nat, S # {}
    PROVE  Min(S) \in S /\ \A y \in S : Min(S) <= y
<1> DEFINE T == {0 .. n : n \in S}
<1>1. T \subseteq FiniteSubsetsOf(Nat) /\ T # {}
  <2>1. \A n \in Nat : IsFiniteSet(0 .. n)
    BY FS_Interval
  <2>2. \A n \in Nat : 0 .. n \in SUBSET Nat
    OBVIOUS
  <2>3. \A n \in S : 0 .. n \in FiniteSubsetsOf(Nat)
    BY <2>1, <2>2, Zenon DEF FiniteSubsetsOf
  <2> QED
    BY <2>3
<1>2. IsWellFoundedOn(StrictSubsetOrdering(Nat), FiniteSubsetsOf(Nat))
  BY FS_StrictSubsetOrderingWellFounded
<1>3. \E a \in T : \A b \in T : ~(<<b, a>> \in StrictSubsetOrdering(Nat))
  BY <1>1, <1>2, WFMin
<1>4. PICK x \in S : \A y \in S : ~(<<0 .. y, 0 .. x>> \in StrictSubsetOrdering(Nat))
  BY <1>3
<1>5. ASSUME NEW y \in S, y < x PROVE FALSE
  <2>1. 0 .. y \subseteq 0 .. x /\ 0 .. y # 0 .. x /\ 0 .. x \subseteq Nat
    BY <1>5
  <2> QED
    BY <1>4, <2>1 DEF StrictSubsetOrdering
<1>6. \E z \in S : \A y \in S : z <= y
  BY <1>5
<1> QED
  BY <1>6 DEF Min

LEMMA EntryTyped ==
    ASSUME NEW name \in Names, NEW restricts \in BOOLEAN, NEW weight \in Nat,
           NEW route \in Routes, name = "unrestricted" => ~restricts
    PROVE  PortfolioEntry(name, restricts, weight, route) \in LaneEntry
<1>1. PortfolioEntry(name, restricts, weight, route)
        \in [name : Names, restricts : BOOLEAN, weight : Nat, route : Routes]
  BY Zenon DEF PortfolioEntry
<1>2. /\ PortfolioEntry(name, restricts, weight, route).name = name
      /\ PortfolioEntry(name, restricts, weight, route).restricts = restricts
  BY DEF PortfolioEntry
<1> QED
  BY <1>1, <1>2, Zenon DEF LaneEntry

LEMMA EntriesTyped ==
    /\ Unrestricted \in LaneEntry
    /\ \A name \in Restrictions, weight \in Nat :
         Restricted(name, weight) \in LaneEntry
    /\ PortfolioEntry("depth-first", FALSE, 100, "depth-first") \in LaneEntry
<1>0. /\ 300 \in Nat /\ 100 \in Nat
      /\ "unrestricted" \in Names /\ "depth-first" \in Names
      /\ "dfpn" \in Routes /\ "depth-first" \in Routes
      /\ \A r \in Restrictions : r \in Names /\ r # "unrestricted"
  BY DEF Names, Restrictions, Routes
<1>1. Unrestricted \in LaneEntry
  BY <1>0, EntryTyped, Zenon DEF Unrestricted
<1>2. ASSUME NEW name \in Restrictions, NEW weight \in Nat
      PROVE  Restricted(name, weight) \in LaneEntry
  <2>1. name \in Names /\ name # "unrestricted"
    BY <1>0
  <2> QED
    BY <1>0, <2>1, EntryTyped, Zenon DEF Restricted
<1>3. PortfolioEntry("depth-first", FALSE, 100, "depth-first") \in LaneEntry
  BY <1>0, EntryTyped, Zenon
<1> QED
  BY <1>1, <1>2, <1>3

LEMMA AppendTyped ==
    ASSUME NEW S, NEW list \in Seq(S), NEW e \in S
    PROVE  /\ Append(list, e) \in Seq(S)
           /\ Len(Append(list, e)) = Len(list) + 1
           /\ \A i \in 1 .. Len(list) : Append(list, e)[i] = list[i]
           /\ Append(list, e)[Len(list) + 1] = e
OBVIOUS

\* The lists: lane 0 first, and at most one entry of another route, the last one.
LEMMA AllEntries ==
    /\ all_entries \in Seq(LaneEntry) /\ all_entries[1] = Unrestricted
    /\ \/ Len(all_entries) = 8 /\ Foreign = {}
       \/ Len(all_entries) = 9 /\ Foreign = {9}
<1>1. /\ restriction_portfolio \in Seq(LaneEntry) /\ Len(restriction_portfolio) = 8
      /\ restriction_portfolio[1] = Unrestricted
  <2>1. /\ "K2" \in Restrictions /\ 212 \in Nat
        /\ "K3" \in Restrictions /\ 212 \in Nat
        /\ "X2" \in Restrictions /\ 81 \in Nat
        /\ "R2" \in Restrictions /\ 65 \in Nat
        /\ "C4" \in Restrictions /\ 49 \in Nat
        /\ "R1" \in Restrictions /\ 41 \in Nat
        /\ "Rq2" \in Restrictions /\ 41 \in Nat
    BY DEF Restrictions
  <2>2. /\ Restricted("K2", 212) \in LaneEntry
        /\ Restricted("K3", 212) \in LaneEntry
        /\ Restricted("X2", 81) \in LaneEntry
        /\ Restricted("R2", 65) \in LaneEntry
        /\ Restricted("C4", 49) \in LaneEntry
        /\ Restricted("R1", 41) \in LaneEntry
        /\ Restricted("Rq2", 41) \in LaneEntry
    BY <2>1, EntriesTyped, Zenon
  <2> QED
    BY <2>2, EntriesTyped DEF restriction_portfolio
<1>2. /\ capture_portfolio \in Seq(LaneEntry) /\ Len(capture_portfolio) = 8
      /\ capture_portfolio[1] = Unrestricted
  <2>1. /\ "cap-or-check" \in Restrictions /\ 180 \in Nat
        /\ "cap-only" \in Restrictions /\ 130 \in Nat
        /\ "cap-or-check-K3" \in Restrictions /\ 100 \in Nat
        /\ "K2" \in Restrictions /\ 100 \in Nat
        /\ "K3" \in Restrictions /\ 80 \in Nat
        /\ "cap-or-check-X2" \in Restrictions /\ 60 \in Nat
        /\ "X2" \in Restrictions /\ 50 \in Nat
    BY DEF Restrictions
  <2>2. /\ Restricted("cap-or-check", 180) \in LaneEntry
        /\ Restricted("cap-only", 130) \in LaneEntry
        /\ Restricted("cap-or-check-K3", 100) \in LaneEntry
        /\ Restricted("K2", 100) \in LaneEntry
        /\ Restricted("K3", 80) \in LaneEntry
        /\ Restricted("cap-or-check-X2", 60) \in LaneEntry
        /\ Restricted("X2", 50) \in LaneEntry
    BY <2>1, EntriesTyped, Zenon
  <2> QED
    BY <2>2, EntriesTyped DEF capture_portfolio
<1>3. \A i \in 2 .. 8 : restriction_portfolio[i].route = "dfpn"
  BY DEF restriction_portfolio, Restricted, PortfolioEntry
<1> DEFINE direct == PortfolioEntry("depth-first", FALSE, 100, "depth-first")
<1>4. direct \in LaneEntry /\ direct.route = "depth-first"
  BY EntriesTyped DEF PortfolioEntry
<1>5. CASE config.goal = "mate"
  <2>1. Foreign = {}
    BY <1>5 DEF Foreign
  <2> QED
    BY <1>1, <1>2, <1>5, <2>1 DEF all_entries
<1>6. CASE config.goal # "mate"
  <2>1. all_entries = Append(restriction_portfolio, direct)
    BY <1>6 DEF all_entries, with_route
  <2> HIDE DEF direct
  <2>2. /\ all_entries \in Seq(LaneEntry) /\ Len(all_entries) = 9
        /\ all_entries[9] = direct
        /\ \A i \in 1 .. 8 : all_entries[i] = restriction_portfolio[i]
    <3> DEFINE list == restriction_portfolio
    <3>1. list \in Seq(LaneEntry) /\ Len(list) = 8 /\ direct \in LaneEntry
      BY <1>1, <1>4
    <3> HIDE DEF list
    <3>2. /\ Append(list, direct) \in Seq(LaneEntry)
          /\ Len(Append(list, direct)) = Len(list) + 1
          /\ \A i \in 1 .. Len(list) : Append(list, direct)[i] = list[i]
          /\ Append(list, direct)[Len(list) + 1] = direct
      BY <3>1, AppendTyped, ZenonT(60)
    <3> QED
      BY <2>1, <3>1, <3>2 DEF list
  <2>3. Foreign = {9}
    BY <1>3, <1>4, <1>6, <2>2 DEF Foreign
  <2> QED
    BY <1>1, <2>2, <2>3
<1> QED
  BY <1>5, <1>6

\* Place puts lane 0 first and leaves no gap.
LEMMA PlaceFills ==
    /\ \A i \in 1 .. Len(all_entries) : Place(i) = 1 <=> i = 1
    /\ \A n \in 1 .. Len(all_entries) : \E i \in 1 .. Len(all_entries) : Place(i) = n
<1>1. \A i \in 2 .. 9 : IsFiniteSet(2 .. i) /\ Cardinality(2 .. i) = i - 1
  BY FS_Interval
<1>2. CASE Len(all_entries) = 8 /\ Foreign = {}
  <2>1. Cardinality(Foreign) = 0
    BY <1>2, FS_EmptySet
  <2>2. \A i \in 2 .. 8 : (2 .. i) \ Foreign = 2 .. i
    BY <1>2
  <2>3. ASSUME NEW i \in 2 .. 8
        PROVE  Place(i) = i
    <3>1. i # 1 /\ i \notin Foreign /\ i \in 2 .. 9
      BY <1>2
    <3>2. Cardinality((2 .. i) \ Foreign) = i - 1
      BY <1>1, <2>2, <3>1
    <3> QED
      BY <2>1, <3>1, <3>2 DEF Place
  <2> QED
    BY <1>2, <2>3 DEF Place
<1>3. CASE Len(all_entries) = 9 /\ Foreign = {9}
  <2>1. Cardinality(Foreign) = 1
    BY <1>3, FS_Singleton
  <2>2. \A i \in 2 .. 8 : (2 .. i) \ Foreign = 2 .. i
    BY <1>3
  <2>3. ASSUME NEW i \in 2 .. 8
        PROVE  Place(i) = i + 1
    <3>1. i # 1 /\ i \notin Foreign /\ i \in 2 .. 9
      BY <1>3
    <3>2. Cardinality((2 .. i) \ Foreign) = i - 1
      BY <1>1, <2>2, <3>1
    <3> QED
      BY <2>1, <3>1, <3>2 DEF Place
  <2>4. (2 .. 9) \cap Foreign = Foreign
    BY <1>3
  <2>5. Place(9) = 2
    BY <1>3, <2>1, <2>4 DEF Place
  <2>6. Place(1) = 1
    BY DEF Place
  <2>7. \A n \in 3 .. 9 : n - 1 \in 2 .. 8 /\ Place(n - 1) = n
    BY <2>3
  <2>8. \A n \in 1 .. 9 : \E i \in 1 .. 9 : Place(i) = n
    BY <2>5, <2>6, <2>7
  <2>9. \A i \in 1 .. 9 : Place(i) = 1 <=> i = 1
    BY <2>3, <2>5, <2>6
  <2> QED
    BY <1>3, <2>8, <2>9
<1> QED
  BY <1>2, <1>3, AllEntries

\* Whatever the goal and the cap, lane 0 is the unrestricted one.
LEMMA PlanTrue ==
    ASSUME config.cap \in Nat
    PROVE  Entries \in Seq(LaneEntry) /\ Len(Entries) # 0 /\ Entries[1] = Unrestricted
<1>1. Capped \in Seq(LaneEntry) /\ Len(Capped) # 0 /\ Capped[1] = Unrestricted
  <2>1. CASE config.cap = 0 \/ config.cap >= Len(all_entries)
    BY <2>1, AllEntries DEF Capped
  <2>2. CASE ~(config.cap = 0 \/ config.cap >= Len(all_entries))
    <3> DEFINE at(n) == CHOOSE i \in 1 .. Len(all_entries) : Place(i) = n
    <3>1. Capped = [n \in 1 .. config.cap |-> all_entries[at(n)]]
      BY <2>2 DEF Capped
    <3>2. Len(all_entries) \in Nat
      BY AllEntries
    <3>3. \A n \in 1 .. config.cap : n \in 1 .. Len(all_entries)
      BY <2>2, <3>2
    <3>4. \A n \in 1 .. config.cap : at(n) \in 1 .. Len(all_entries) /\ Place(at(n)) = n
      BY <3>3, PlaceFills
    <3>5. 1 \in 1 .. config.cap /\ at(1) = 1
      BY <2>2, <3>2, <3>4, PlaceFills
    <3> HIDE DEF at
    <3>6. \A n \in 1 .. config.cap : all_entries[at(n)] \in LaneEntry
      BY <3>4, AllEntries
    <3> QED
      BY <2>2, <3>1, <3>5, <3>6, AllEntries
  <2> QED
    BY <2>1, <2>2
<1>2. <<Unrestricted>> \in Seq(LaneEntry) /\ Len(<<Unrestricted>>) # 0
  BY EntriesTyped
<1> QED
  BY <1>1, <1>2 DEF Entries

-----------------------------------------------------------------------------
(* The steps of the lanes. *)

LEMMA InitInv == Init => IInv
<1> SUFFICES ASSUME Init PROVE IInv
  OBVIOUS
<1>1. JobTrue
  BY CasesAssumption DEF Init, JobTrue, Never
<1>2. TypeOK
  BY PortfolioAssumption DEF Init, TypeOK
<1>3. PhaseTrue /\ WinnerTrue /\ RootsTrue
  BY DEF Init, PhaseTrue, WinnerTrue, RootsTrue
<1>4. Lanes = {}
  BY DEF Init, Lanes
<1>5. /\ AnswerIsTrue /\ SilenceIsNoMate /\ BoundsAreTrue
      /\ CancelledForAnAnswer /\ KeysAreExact
  BY <1>4 DEF Init, NoLine, AnswerIsTrue, SilenceIsNoMate, BoundsAreTrue,
              CancelledForAnAnswer, KeysAreExact
<1>6. phase # "lanes"
  BY DEF Init
<1> QED
  BY <1>1, <1>2, <1>3, <1>5, <1>6 DEF IInv

\* While the lanes run, the line is empty and the lanes' facts are all there is.
LEMMA LanesFrame ==
    ASSUME IInv, phase = "lanes", UNCHANGED <<job, phase, plan, roots, line>>,
           lane' \in [Lanes -> LaneState], cancel' \in [Lanes -> BOOLEAN],
           proved' \in [Lanes -> Nat], winner' \in Nat, told' \in Nat,
           \A l \in Lanes : LaneTrue(l)', WinnerTrue', BoundsAreTrue'
    PROVE  IInv'
<1>1. /\ config' = config /\ shortest' = shortest /\ hopeless' = hopeless /\ keys' = keys
      /\ phase' = "lanes" /\ plan' = plan /\ root' = root /\ found' = found
      /\ limited' = limited /\ line' = line /\ Lanes' = Lanes
  BY DEF job, roots, Lanes
<1>2. JobTrue'
  BY <1>1 DEF IInv, JobTrue
<1>3. TypeOK'
  BY <1>1 DEF IInv, TypeOK
<1>4. PhaseTrue' /\ RootsTrue'
  BY <1>1 DEF IInv, PhaseTrue, RootsTrue
<1>5. line' = NoLine
  BY <1>1 DEF IInv, TypeOK
<1>6. AnswerIsTrue' /\ SilenceIsNoMate' /\ KeysAreExact'
  BY <1>1, <1>5 DEF NoLine, AnswerIsTrue, SilenceIsNoMate, KeysAreExact
<1>7. CancelledForAnAnswer'
  BY <1>1 DEF CancelledForAnAnswer, LaneTrue, WinnerTrue
<1> QED
  BY <1>1, <1>2, <1>3, <1>4, <1>6, <1>7 DEF IInv

\* A step that changes one lane's own state.
LEMMA OneLane ==
    ASSUME IInv, phase = "lanes", NEW k \in Lanes, NEW state \in LaneState,
           lane' = [lane EXCEPT ![k] = state],
           UNCHANGED <<job, phase, plan, cancel, judged, roots, line>>,
           LaneTrue(k)', BoundsAreTrue'
    PROVE  IInv'
<1>1. /\ lane \in [Lanes -> LaneState] /\ cancel \in [Lanes -> BOOLEAN]
      /\ proved \in [Lanes -> Nat] /\ winner \in Nat /\ told \in Nat
      /\ \A l \in Lanes : LaneTrue(l)
      /\ WinnerTrue
  BY DEF IInv, TypeOK
<1>2. /\ config' = config /\ shortest' = shortest /\ hopeless' = hopeless /\ plan' = plan
      /\ cancel' = cancel /\ proved' = proved /\ winner' = winner /\ told' = told
      /\ Lanes' = Lanes
  BY DEF job, judged, Lanes
<1>3. lane' \in [Lanes -> LaneState]
  BY <1>1
<1>4. ASSUME NEW l \in Lanes
      PROVE  LaneTrue(l)'
  <2>1. CASE l # k
    <3>1. lane'[l] = lane[l]
      BY <1>1, <2>1
    <3> QED
      BY <1>1, <1>2, <3>1 DEF LaneTrue, Mate, Restricts, Never
  <2> QED
    BY <2>1
<1>5. WinnerTrue'
  BY <1>1, <1>2 DEF WinnerTrue
<1> QED
  BY <1>1, <1>2, <1>3, <1>4, <1>5, LanesFrame

\* What a step of lane l starts from.
LEMMA LaneKnown ==
    ASSUME IInv, phase = "lanes", NEW l \in Lanes
    PROVE  /\ lane \in [Lanes -> LaneState] /\ lane[l] \in LaneState
           /\ cancel \in [Lanes -> BOOLEAN]
           /\ proved \in [Lanes -> Nat] /\ winner \in Nat /\ told \in Nat
           /\ LaneTrue(l) /\ shortest \in 1 .. Never /\ MaxDepth \in Nat \ {0}
           /\ (hopeless => shortest = Never) /\ BoundsAreTrue
           /\ Restricts(l) \in BOOLEAN
<1>1. plan.entries[l] \in LaneEntry
  BY DEF IInv, TypeOK, Lanes
<1>2. Restricts(l) \in BOOLEAN
  BY <1>1 DEF Restricts, LaneEntry
<1> QED
  BY <1>2, PortfolioAssumption DEF IInv, TypeOK, JobTrue

\* GoesOn finishes the lane or takes it one depth further.
LEMMA GoesOnTo ==
    ASSUME NEW l \in Lanes, lane \in [Lanes -> LaneState], NEW state \in LaneState,
           GoesOn(l, state), state.depth = lane[l].depth, MaxDepth \in Nat
    PROVE  \E new \in LaneState :
              /\ lane' = [lane EXCEPT ![l] = new]
              /\ new.mate = state.mate /\ new.refuted = state.refuted
              /\ new.timedOut = state.timedOut /\ new.gaveUp = state.gaveUp
              /\ \/ lane[l].depth = MaxDepth /\ new.pc = "done"
                 \/ /\ lane[l].depth < MaxDepth /\ new.pc = state.pc
                    /\ new.depth = lane[l].depth + 1
<1>1. CASE LastDepth(l)
  <2> DEFINE new == [state EXCEPT !.pc = "done"]
  <2>1. new \in LaneState
    BY DEF LaneState
  <2>2. /\ lane' = [lane EXCEPT ![l] = new]
        /\ lane[l].depth = MaxDepth
    BY <1>1 DEF GoesOn, LastDepth
  <2>3. /\ new.mate = state.mate /\ new.refuted = state.refuted /\ new.pc = "done"
        /\ new.timedOut = state.timedOut /\ new.gaveUp = state.gaveUp
    BY DEF LaneState
  <2> QED
    BY <2>1, <2>2, <2>3, Zenon
<1>2. CASE ~LastDepth(l)
  <2> DEFINE new == [state EXCEPT !.depth = state.depth + 1]
  <2>1. lane[l].depth \in 1 .. MaxDepth /\ lane[l].depth < MaxDepth
    BY <1>2 DEF LastDepth, LaneState
  <2>2. new \in LaneState
    BY <2>1 DEF LaneState
  <2>3. lane' = [lane EXCEPT ![l] = new]
    BY <1>2 DEF GoesOn
  <2>4. /\ new.mate = state.mate /\ new.refuted = state.refuted /\ new.pc = state.pc
        /\ new.timedOut = state.timedOut /\ new.gaveUp = state.gaveUp
        /\ new.depth = lane[l].depth + 1
    BY DEF LaneState
  <2> QED
    BY <2>1, <2>2, <2>3, <2>4, Zenon
<1> QED
  BY <1>1, <1>2

\* A depth failed in earnest: an unrestricted lane's is below every mate.
LEMMA FailsStep ==
    ASSUME IInv, NEW l \in Lanes, LaneFails(l) PROVE IInv'
<1>1. phase = "lanes" /\ lane[l].pc = "search" /\ ~lane[l].gaveUp
  BY DEF LaneFails, Searching, InSearch
<1>2. ~Restricts(l) => lane[l].depth < shortest
  BY DEF LaneFails
<1>3. PICK r \in BOOLEAN : /\ r => hopeless \/ Restricts(l)
                           /\ GoesOn(l, [lane[l] EXCEPT !.refuted = r])
  BY DEF LaneFails
<1> DEFINE state == [lane[l] EXCEPT !.refuted = r]
<1>4. state \in LaneState
  BY <1>1, LaneKnown DEF LaneState
<1>5. /\ state.depth = lane[l].depth /\ state.pc = "search" /\ state.refuted = r
      /\ state.timedOut = lane[l].timedOut /\ ~state.gaveUp
  BY <1>1, LaneKnown DEF LaneState
<1> HIDE DEF state
<1>6. GoesOn(l, state)
  BY <1>3 DEF state
<1>7. PICK new \in LaneState :
        /\ lane' = [lane EXCEPT ![l] = new]
        /\ new.mate = state.mate /\ new.refuted = state.refuted
        /\ new.timedOut = state.timedOut /\ new.gaveUp = state.gaveUp
        /\ \/ lane[l].depth = MaxDepth /\ new.pc = "done"
           \/ /\ lane[l].depth < MaxDepth /\ new.pc = state.pc
              /\ new.depth = lane[l].depth + 1
  BY <1>1, <1>4, <1>5, <1>6, LaneKnown, GoesOnTo
<1>8. /\ UNCHANGED <<job, phase, plan, cancel, judged, roots, line>>
      /\ lane'[l] = new /\ shortest' = shortest /\ hopeless' = hopeless
      /\ config' = config /\ plan' = plan /\ cancel' = cancel
      /\ proved' = proved /\ winner' = winner
  BY <1>1, <1>7, LaneKnown DEF LaneFails, job, judged
<1>9. BoundsAreTrue'
  <2>1. BoundsAreTrue
    BY DEF IInv
  <2>2. bounds' = bounds \/ /\ ~Restricts(l)
                            /\ bounds' = bounds \cup {[depth |-> lane[l].depth, cancelled |-> FALSE]}
    BY DEF LaneFails, PublishProvenBound
  <2> QED
    BY <1>2, <1>8, <2>1, <2>2 DEF BoundsAreTrue
<1>10. LaneTrue(l)'
  <2>1. /\ LaneTrue(l) /\ shortest \in 1 .. Never /\ MaxDepth \in Nat \ {0}
        /\ lane[l].depth \in 1 .. MaxDepth /\ Restricts(l)' = Restricts(l)
    BY <1>1, <1>8, LaneKnown DEF LaneState, Restricts
  <2>2. l = 1 /\ new.pc = "done" => Restricts(l) \/ shortest = Never
    BY <1>2, <1>5, <1>7, <2>1 DEF Never
  <2>3. ~Restricts(1)
    BY <1>1 DEF IInv, PhaseTrue, Restricts, Unrestricted, PortfolioEntry
  <2>4. new.pc = "search" /\ ~Restricts(l) => new.depth <= shortest
    BY <1>2, <1>7, <2>1
  <2>5. ~Restricts(l) /\ new.refuted => hopeless
    BY <1>3, <1>5, <1>7
  <2>6. new.pc \in {"search", "done"} /\ ~new.gaveUp
    BY <1>5, <1>7
  <2> QED
    BY <1>8, <2>1, <2>2, <2>3, <2>4, <2>5, <2>6 DEF LaneTrue, Mate, Never
<1> QED
  BY <1>1, <1>7, <1>8, <1>9, <1>10, OneLane

\* No depth is searched: the axioms refute the job.
LEMMA RefutesStep ==
    ASSUME IInv, NEW l \in Lanes, LaneRefutes(l) PROVE IInv'
<1>1. phase = "lanes" /\ lane[l].pc = "search" /\ ~lane[l].gaveUp /\ hopeless
  BY DEF LaneRefutes, Searching, InSearch
<1> DEFINE new == [lane[l] EXCEPT !.pc = "done", !.refuted = TRUE]
<1>2. /\ new \in LaneState
      /\ new.pc = "done" /\ new.gaveUp = lane[l].gaveUp
  BY <1>1, LaneKnown DEF LaneState
<1>3. lane' = [lane EXCEPT ![l] = new]
  BY <1>1, LaneKnown DEF LaneRefutes, LaneState
<1> HIDE DEF new
<1>4. /\ UNCHANGED <<job, phase, plan, cancel, judged, roots, line>> /\ bounds' = bounds
      /\ lane'[l] = new /\ shortest' = shortest /\ hopeless' = hopeless
      /\ config' = config /\ plan' = plan /\ cancel' = cancel
      /\ proved' = proved /\ winner' = winner
  BY <1>1, <1>3, LaneKnown DEF LaneRefutes, job, judged
<1>5. BoundsAreTrue'
  BY <1>4 DEF IInv, BoundsAreTrue
<1>6. LaneTrue(l)'
  BY <1>1, <1>2, <1>4, LaneKnown DEF LaneTrue, Mate, Never, Restricts
<1> QED
  BY <1>1, <1>2, <1>3, <1>4, <1>5, <1>6, OneLane

\* A proof: the shortest mate, if the lane is unrestricted and deepens.
LEMMA ProvesStep ==
    ASSUME IInv, NEW l \in Lanes, LaneProves(l) PROVE IInv'
<1>1. phase = "lanes" /\ lane[l].pc = "search" /\ ~lane[l].gaveUp
  BY DEF LaneProves, Searching, InSearch
<1>2. PICK mate \in shortest .. lane[l].depth :
        lane' = [lane EXCEPT ![l].pc = "report", ![l].mate = mate]
  BY DEF LaneProves
<1>3. /\ lane[l].depth \in 1 .. MaxDepth /\ shortest \in 1 .. Never /\ MaxDepth \in Nat
      /\ mate \in Nat /\ mate \in shortest .. MaxDepth
  BY <1>1, <1>2, LaneKnown DEF LaneState, Never
<1> DEFINE new == [lane[l] EXCEPT !.pc = "report", !.mate = mate]
<1>4. /\ new \in LaneState
      /\ new.pc = "report" /\ new.mate = mate /\ new.gaveUp = lane[l].gaveUp
      /\ new.refuted = lane[l].refuted
  BY <1>1, <1>3, LaneKnown DEF LaneState
<1>5. lane' = [lane EXCEPT ![l] = new]
  BY <1>1, <1>2, LaneKnown DEF LaneState
<1> HIDE DEF new
<1>6. /\ UNCHANGED <<job, phase, plan, cancel, judged, roots, line>> /\ bounds' = bounds
      /\ lane'[l] = new /\ shortest' = shortest /\ hopeless' = hopeless
      /\ config' = config /\ plan' = plan /\ cancel' = cancel
      /\ proved' = proved /\ winner' = winner
  BY <1>1, <1>5, LaneKnown DEF LaneProves, job, judged
<1>7. BoundsAreTrue'
  BY <1>6 DEF IInv, BoundsAreTrue
<1>8. LaneTrue(l) /\ Restricts(l)' = Restricts(l)
  BY <1>1, <1>6, LaneKnown DEF Restricts
<1>9. Mate(l, mate)
  BY <1>1, <1>2, <1>3, <1>8 DEF LaneTrue, Mate
<1>10. LaneTrue(l)'
  BY <1>1, <1>4, <1>6, <1>8, <1>9 DEF LaneTrue, Mate, Never
<1> QED
  BY <1>1, <1>4, <1>5, <1>6, <1>7, <1>10, OneLane

\* A limit ends the lane, and says so.
LEMMA TimesOutStep ==
    ASSUME IInv, NEW l \in Lanes, LaneTimesOut(l) PROVE IInv'
<1>1. phase = "lanes" /\ lane[l].pc = "search" /\ ~lane[l].gaveUp
  BY DEF LaneTimesOut, Searching, InSearch
<1> DEFINE new == [lane[l] EXCEPT !.pc = "done", !.timedOut = TRUE]
<1>2. /\ new \in LaneState
      /\ new.pc = "done" /\ new.timedOut /\ new.gaveUp = lane[l].gaveUp
      /\ new.refuted = lane[l].refuted
  BY <1>1, LaneKnown DEF LaneState
<1>3. lane' = [lane EXCEPT ![l] = new]
  BY <1>1, LaneKnown DEF LaneTimesOut, LaneState
<1> HIDE DEF new
<1>4. /\ UNCHANGED <<job, phase, plan, cancel, judged, roots, line>> /\ bounds' = bounds
      /\ lane'[l] = new /\ shortest' = shortest /\ hopeless' = hopeless
      /\ config' = config /\ plan' = plan /\ cancel' = cancel
      /\ proved' = proved /\ winner' = winner
  BY <1>1, <1>3, LaneKnown DEF LaneTimesOut, job, judged
<1>5. BoundsAreTrue'
  BY <1>4 DEF IInv, BoundsAreTrue
<1>6. LaneTrue(l)'
  BY <1>1, <1>2, <1>4, LaneKnown DEF LaneTrue, Mate, Never, Restricts
<1> QED
  BY <1>1, <1>2, <1>3, <1>4, <1>5, <1>6, OneLane

\* A cancelled lane gives up, in its own search or in its split: another has won.
LEMMA GivesUpStep ==
    ASSUME IInv, NEW l \in Lanes, LaneGivesUp(l) \/ SplitGivesUp(l) PROVE IInv'
<1>1. phase = "lanes" /\ lane[l].pc = "search" /\ cancel[l]
  BY DEF LaneGivesUp, SplitGivesUp, Searching, InSearch
<1> DEFINE state == [lane[l] EXCEPT !.gaveUp = TRUE]
<1>2. /\ state \in LaneState /\ state.depth = lane[l].depth /\ state.pc = "search"
      /\ state.refuted = lane[l].refuted /\ state.gaveUp
  BY <1>1, LaneKnown DEF LaneState
<1>3. GoesOn(l, state)
  BY DEF LaneGivesUp, SplitGivesUp
<1> HIDE DEF state
<1>4. PICK new \in LaneState :
        /\ lane' = [lane EXCEPT ![l] = new]
        /\ new.mate = state.mate /\ new.refuted = state.refuted
        /\ new.timedOut = state.timedOut /\ new.gaveUp = state.gaveUp
        /\ \/ lane[l].depth = MaxDepth /\ new.pc = "done"
           \/ /\ lane[l].depth < MaxDepth /\ new.pc = state.pc
              /\ new.depth = lane[l].depth + 1
  BY <1>1, <1>2, <1>3, LaneKnown, GoesOnTo
<1>5. /\ UNCHANGED <<job, phase, plan, cancel, judged, roots, line>>
      /\ lane'[l] = new /\ shortest' = shortest /\ hopeless' = hopeless
      /\ config' = config /\ plan' = plan /\ cancel' = cancel
      /\ proved' = proved /\ winner' = winner
  BY <1>1, <1>4, LaneKnown DEF LaneGivesUp, SplitGivesUp, job, judged
<1>6. BoundsAreTrue'
  <2>1. \/ bounds' = bounds
        \/ bounds' = bounds \cup {[depth |-> lane[l].depth, cancelled |-> TRUE]}
    BY DEF LaneGivesUp, SplitGivesUp, PublishProvenBound
  <2> QED
    BY <1>5, <2>1 DEF IInv, BoundsAreTrue
<1>7. LaneTrue(l) /\ Restricts(l)' = Restricts(l)
  BY <1>1, <1>5, LaneKnown DEF Restricts
<1>8. /\ new.gaveUp /\ new.pc \in {"search", "done"} /\ new.refuted = lane[l].refuted
      /\ winner # 0
  BY <1>1, <1>2, <1>4, <1>7 DEF LaneTrue
<1>9. LaneTrue(l)'
  BY <1>5, <1>7, <1>8 DEF LaneTrue, Mate, Never
<1> QED
  BY <1>1, <1>4, <1>5, <1>6, <1>9, OneLane

\* The lane that was first to prove stays the winner.
LEMMA AcceptStep ==
    ASSUME IInv, NEW l \in Lanes, Accept(l) PROVE IInv'
<1>1. phase = "lanes" /\ lane[l].pc = "report"
  BY DEF Accept
<1>2. /\ LaneTrue(l) /\ lane[l] \in LaneState /\ lane \in [Lanes -> LaneState]
      /\ proved \in [Lanes -> Nat] /\ cancel \in [Lanes -> BOOLEAN] /\ winner \in Nat
      /\ told \in Nat /\ shortest \in 1 .. Never
  BY <1>1, LaneKnown
<1>3. Mate(l, lane[l].mate) /\ lane[l].mate \in Nat /\ lane[l].mate > 0
  BY <1>1, <1>2 DEF LaneTrue, Mate, LaneState
<1> DEFINE new == [lane[l] EXCEPT !.pc = IF winner = 0 THEN "tell" ELSE "done"]
<1>4. /\ new \in LaneState
      /\ new.pc = (IF winner = 0 THEN "tell" ELSE "done")
      /\ new.gaveUp = lane[l].gaveUp /\ new.refuted = lane[l].refuted
  BY <1>2 DEF LaneState
<1>5. lane' = [lane EXCEPT ![l] = new]
  BY <1>2 DEF Accept, LaneState
<1> HIDE DEF new
<1>6. /\ UNCHANGED <<job, phase, plan, roots, line>>
      /\ shortest' = shortest /\ hopeless' = hopeless /\ bounds' = bounds
      /\ config' = config /\ plan' = plan /\ cancel' = cancel /\ told' = told
      /\ proved' = [proved EXCEPT ![l] = lane[l].mate]
      /\ winner' = (IF winner = 0 THEN l ELSE winner)
  BY DEF Accept, job
<1>7. l \in Nat \ {0} /\ Lanes' = Lanes
  BY <1>6 DEF Lanes, IInv, TypeOK
<1>8. /\ lane' \in [Lanes -> LaneState] /\ proved' \in [Lanes -> Nat]
      /\ winner' \in Nat /\ winner' # 0 /\ cancel' \in [Lanes -> BOOLEAN] /\ told' \in Nat
  BY <1>2, <1>3, <1>4, <1>5, <1>6, <1>7
<1>9. ASSUME NEW m \in Lanes
      PROVE  LaneTrue(m)'
  <2>1. LaneTrue(m) /\ Restricts(m)' = Restricts(m)
    BY <1>1, <1>6, LaneKnown DEF Restricts
  <2>2. CASE m # l
    <3>1. lane'[m] = lane[m] /\ proved'[m] = proved[m]
      BY <1>2, <1>5, <1>6, <2>2
    <3> QED
      BY <1>6, <1>8, <2>1, <3>1 DEF LaneTrue, Mate, Never
  <2>3. CASE m = l
    <3>1. lane'[l] = new /\ proved'[l] = lane[l].mate
      BY <1>2, <1>5, <1>6
    <3>2. /\ proved'[l] > 0 /\ proved'[l] \in shortest .. MaxDepth
          /\ ~Restricts(l)' /\ ~config.direct => proved'[l] = shortest
      BY <1>3, <2>1, <2>3, <3>1 DEF Mate
    <3>3. proved'[l] > 0 /\ Mate(l, proved[l])'
      BY <1>6, <3>2 DEF Mate
    <3> QED
      BY <1>2, <1>4, <1>6, <1>8, <2>1, <2>3, <3>1, <3>3 DEF LaneTrue
  <2> QED
    BY <2>2, <2>3
<1>10. WinnerTrue'
  BY <1>2, <1>3, <1>6, <1>7 DEF WinnerTrue, IInv
<1>11. BoundsAreTrue'
  BY <1>6 DEF IInv, BoundsAreTrue
<1> QED
  BY <1>1, <1>6, <1>8, <1>9, <1>10, <1>11, LanesFrame

\* The winner tells one more lane, or has told them all.
LEMMA TellStep ==
    ASSUME IInv, NEW l \in Lanes, TellLane(l) PROVE IInv'
<1>1. phase = "lanes" /\ lane[l].pc = "tell"
  BY DEF TellLane
<1>2. /\ LaneTrue(l) /\ lane[l] \in LaneState /\ lane \in [Lanes -> LaneState]
      /\ proved \in [Lanes -> Nat] /\ cancel \in [Lanes -> BOOLEAN] /\ winner \in Nat
      /\ told \in Nat
  BY <1>1, LaneKnown
<1>3. proved[l] > 0 /\ winner # 0
  BY <1>1, <1>2 DEF LaneTrue
<1>4. /\ UNCHANGED <<job, phase, plan, roots, line>>
      /\ shortest' = shortest /\ hopeless' = hopeless /\ bounds' = bounds
      /\ config' = config /\ plan' = plan /\ proved' = proved /\ winner' = winner
  BY DEF TellLane, job
<1>5. CASE told < Len(plan.entries)
  <2>1. /\ told' = told + 1 /\ lane' = lane
        /\ cancel' = [cancel EXCEPT ![told + 1] = TRUE]
    BY <1>5 DEF TellLane
  <2>2. /\ lane' \in [Lanes -> LaneState] /\ cancel' \in [Lanes -> BOOLEAN]
        /\ proved' \in [Lanes -> Nat] /\ winner' \in Nat /\ told' \in Nat
    <3>1. lane' \in [Lanes -> LaneState] /\ proved' \in [Lanes -> Nat] /\ winner' \in Nat
      BY <1>2, <1>4, <2>1
    <3>2. cancel' \in [Lanes -> BOOLEAN]
      BY <1>2, <2>1, Zenon
    <3>3. told' \in Nat
      BY <1>2, <2>1
    <3> QED
      BY <3>1, <3>2, <3>3
  <2>3. ASSUME NEW m \in Lanes
        PROVE  LaneTrue(m)'
    <3>1. LaneTrue(m) /\ Restricts(m)' = Restricts(m)
      BY <1>1, <1>4, LaneKnown DEF Restricts
    <3> QED
      BY <1>3, <1>4, <2>1, <3>1 DEF LaneTrue, Mate, Never
  <2>4. WinnerTrue' /\ BoundsAreTrue'
    BY <1>4 DEF IInv, WinnerTrue, BoundsAreTrue, Lanes
  <2> QED
    BY <1>1, <1>4, <2>2, <2>3, <2>4, LanesFrame
<1>6. CASE ~(told < Len(plan.entries))
  <2> DEFINE new == [lane[l] EXCEPT !.pc = "done"]
  <2>1. /\ new \in LaneState
        /\ new.pc = "done" /\ new.gaveUp = lane[l].gaveUp /\ new.refuted = lane[l].refuted
    BY <1>2 DEF LaneState
  <2>2. /\ lane' = [lane EXCEPT ![l] = new] /\ told' = told /\ cancel' = cancel
    BY <1>2, <1>6 DEF TellLane, LaneState
  <2> HIDE DEF new
  <2>3. lane'[l] = new
    BY <1>2, <2>2
  <2>4. LaneTrue(l)'
    BY <1>2, <1>3, <1>4, <2>1, <2>2, <2>3 DEF LaneTrue, Mate, Never, Restricts
  <2>5. BoundsAreTrue' /\ UNCHANGED <<job, phase, plan, cancel, judged, roots, line>>
    BY <1>4, <2>2 DEF IInv, BoundsAreTrue, judged
  <2> QED
    BY <1>1, <2>1, <2>2, <2>4, <2>5, OneLane
<1> QED
  BY <1>5, <1>6

-----------------------------------------------------------------------------
(* The steps of the caller. *)

LEMMA StateTyped ==
    ASSUME NEW at \in {"search", "report", "tell", "done"}, NEW depth \in 1 .. MaxDepth,
           NEW mate \in Nat, NEW refuted \in BOOLEAN, NEW timedOut \in BOOLEAN,
           NEW gaveUp \in BOOLEAN
    PROVE  [pc |-> at, depth |-> depth, mate |-> mate, refuted |-> refuted,
            timedOut |-> timedOut, gaveUp |-> gaveUp] \in LaneState
BY Zenon DEF LaneState

\* The lanes start with nothing proved; lane 0 is the unrestricted one and runs.
LEMMA LaunchStep == ASSUME IInv, Launch PROVE IInv'
<1>1. /\ phase = "plan" /\ ~config.all /\ phase' = "lanes"
      /\ UNCHANGED <<job, winner, told, bounds, roots, line>>
      /\ plan'.entries = Entries
      /\ cancel' = [i \in 1 .. Len(Entries) |-> FALSE]
      /\ proved' = [i \in 1 .. Len(Entries) |-> 0]
  BY DEF Launch
<1>2. /\ config' = config /\ shortest' = shortest /\ hopeless' = hopeless /\ keys' = keys
      /\ root' = root /\ found' = found /\ limited' = limited /\ line' = line
      /\ bounds' = bounds /\ winner' = winner /\ told' = told
  BY <1>1 DEF job, roots
<1>3. /\ Entries \in Seq(LaneEntry) /\ Len(Entries) # 0 /\ Entries[1] = Unrestricted
  BY PlanTrue DEF IInv, JobTrue
<1>4. Lanes' = 1 .. Len(Entries) /\ Len(Entries) \in Nat /\ 1 \in 1 .. Len(Entries)
  BY <1>1, <1>3 DEF Lanes
<1>5. PICK running \in 1 .. Len(Entries) :
        lane' = [i \in 1 .. Len(Entries) |->
                    [pc |-> IF i <= running THEN "search" ELSE "done",
                     depth |-> IF config.direct \/ Entries[i].restricts THEN MaxDepth ELSE 1,
                     mate |-> 0, refuted |-> FALSE, timedOut |-> FALSE, gaveUp |-> FALSE]]
  <2>1. Len(Entries) \in 1 .. Len(Entries)
    BY <1>4
  <2>2. (IF "refused" \in faults THEN 1 .. Len(Entries) ELSE {Len(Entries)})
          \subseteq 1 .. Len(Entries)
    BY <2>1
  <2> QED
    BY <2>2 DEF Launch
<1>6. ASSUME NEW i \in 1 .. Len(Entries)
      PROVE  /\ lane'[i] \in LaneState
             /\ lane'[i].pc = (IF i <= running THEN "search" ELSE "done")
             /\ lane'[i].depth = (IF config.direct \/ Entries[i].restricts THEN MaxDepth ELSE 1)
             /\ ~lane'[i].refuted /\ ~lane'[i].gaveUp
  <2>1. MaxDepth \in 1 .. MaxDepth /\ 1 \in 1 .. MaxDepth /\ 0 \in Nat
    BY PortfolioAssumption
  <2> DEFINE at == IF i <= running THEN "search" ELSE "done"
             depth == IF config.direct \/ Entries[i].restricts THEN MaxDepth ELSE 1
  <2>2. at \in {"search", "report", "tell", "done"} /\ depth \in 1 .. MaxDepth
    BY <2>1
  <2> HIDE DEF at, depth
  <2>3. lane'[i] = [pc |-> at, depth |-> depth, mate |-> 0, refuted |-> FALSE,
                    timedOut |-> FALSE, gaveUp |-> FALSE]
    BY <1>5 DEF at, depth
  <2>4. [pc |-> at, depth |-> depth, mate |-> 0, refuted |-> FALSE,
         timedOut |-> FALSE, gaveUp |-> FALSE] \in LaneState
    BY <2>1, <2>2, StateTyped
  <2> QED
    BY <2>3, <2>4 DEF at, depth
<1>7. lane' \in [Lanes' -> LaneState]
  BY <1>4, <1>5, <1>6
<1>8. cancel' \in [Lanes' -> BOOLEAN] /\ proved' \in [Lanes' -> Nat]
  BY <1>1, <1>4
<1>9. ASSUME NEW l \in Lanes' PROVE LaneTrue(l)'
  <2>1. /\ l \in 1 .. Len(Entries) /\ cancel'[l] = FALSE /\ proved'[l] = 0
        /\ Restricts(l)' = Entries[l].restricts
    BY <1>1, <1>4 DEF Restricts
  <2>2. shortest \in 1 .. Never
    BY DEF IInv, JobTrue
  <2>3. l = 1 => lane'[l].pc = "search"
    BY <1>6, <2>1
  <2> QED
    BY <1>2, <1>6, <2>1, <2>2, <2>3 DEF LaneTrue
<1>10. JobTrue'
  BY <1>2 DEF IInv, JobTrue
<1>11. TypeOK'
  BY <1>1, <1>2, <1>3, <1>7, <1>8 DEF IInv, TypeOK
<1>12. PhaseTrue'
  BY <1>1, <1>2, <1>3 DEF PhaseTrue
<1>13. WinnerTrue' /\ RootsTrue'
  BY <1>1, <1>2 DEF IInv, PhaseTrue, WinnerTrue, RootsTrue
<1>14. line' = NoLine
  BY <1>1, <1>2 DEF IInv, TypeOK
<1>15. /\ AnswerIsTrue' /\ SilenceIsNoMate' /\ BoundsAreTrue'
       /\ CancelledForAnAnswer' /\ KeysAreExact'
  BY <1>1, <1>2, <1>4, <1>14
  DEF IInv, NoLine, AnswerIsTrue, SilenceIsNoMate, BoundsAreTrue, CancelledForAnAnswer,
      KeysAreExact
<1> QED
  BY <1>9, <1>10, <1>11, <1>12, <1>13, <1>15 DEF IInv

\* The verdict: an answer is one of the lanes' mates, and silence is lane 0's.
LEMMA JoinStep == ASSUME IInv, Join PROVE IInv'
<1>1. /\ phase = "lanes" /\ \A l \in Lanes : lane[l].pc = "done"
      /\ phase' = "done" /\ UNCHANGED <<job, plan, lane, cancel, judged, bounds, roots>>
      /\ line' = (IF Pick = 0 THEN NoAnswerLine ELSE AnswerLine)
  BY DEF Join
<1>2. /\ config' = config /\ shortest' = shortest /\ hopeless' = hopeless /\ keys' = keys
      /\ plan' = plan /\ cancel' = cancel /\ proved' = proved /\ winner' = winner
      /\ told' = told /\ bounds' = bounds /\ root' = root /\ found' = found
      /\ limited' = limited /\ Lanes' = Lanes
  BY <1>1 DEF job, judged, roots, Lanes
<1>3. /\ ~config.all /\ plan.entries[1] = Unrestricted /\ plan.entries \in Seq(LaneEntry)
      /\ proved \in [Lanes -> Nat] /\ 1 \in Lanes /\ Lanes \subseteq Nat \ {0}
      /\ \A l \in Lanes : LaneTrue(l)
      /\ \A l \in Lanes : cancel[l] => winner # 0
      /\ shortest \in 1 .. Never
  BY <1>1 DEF IInv, JobTrue, TypeOK, PhaseTrue, Lanes, LaneTrue
<1>4. CASE Provers = {}
  <2>1. Pick = 0
    BY <1>4 DEF Pick
  <2> DEFINE complete == Min({l \in Lanes : plan.entries[l].name = "unrestricted"})
  <2>2. complete = 1
    <3> DEFINE open == {l \in Lanes : plan.entries[l].name = "unrestricted"}
    <3>1. 1 \in open /\ open \in SUBSET Nat /\ \A l \in open : l >= 1
      <4>0. Unrestricted.name = "unrestricted"
        BY DEF Unrestricted, PortfolioEntry
      <4>1. plan.entries[1].name = "unrestricted"
        BY <1>3, <4>0
      <4>2. 1 \in Lanes /\ \A l \in Lanes : l \in Nat /\ l >= 1
        BY <1>3
      <4>3. 1 \in open /\ \A l \in open : l \in Lanes
        BY <4>1, <4>2
      <4> HIDE DEF open
      <4> QED
        BY <4>2, <4>3
    <3> HIDE DEF open
    <3>2. Min(open) \in open /\ \A y \in open : Min(open) <= y
      BY <3>1, MinIsLeast
    <3>3. Min(open) \in Nat /\ Min(open) >= 1 /\ Min(open) <= 1
      BY <3>1, <3>2
    <3>4. Min(open) = 1
      BY <3>3
    <3> QED
      BY <3>4 DEF open
  <2>3. line' = [NoLine EXCEPT !.refuted = lane[1].refuted, !.timeout = lane[1].timedOut]
    BY <1>1, <2>1, <2>2 DEF NoAnswerLine
  <2>4. /\ line'.accepted = FALSE /\ line'.refuted = lane[1].refuted
        /\ line'.timeout = lane[1].timedOut
    BY <2>3 DEF NoLine
  <2>5. \A l \in Lanes : ~(proved[l] > 0)
    BY <1>4 DEF Provers
  <2>6. winner = 0
    BY <2>5 DEF IInv, WinnerTrue
  <2>7. ~Restricts(1)
    BY <1>3 DEF Restricts, Unrestricted, PortfolioEntry
  <2>8. lane[1].refuted => hopeless
    BY <1>3, <2>7 DEF LaneTrue
  <2>9. ~lane[1].timedOut => shortest = Never
    BY <1>1, <1>3, <2>5, <2>6 DEF LaneTrue
  <2>10. SilenceIsNoMate'
    BY <1>2, <2>4, <2>8, <2>9 DEF SilenceIsNoMate, Never
  <2>11. AnswerIsTrue' /\ CancelledForAnAnswer'
    BY <1>2, <1>3, <2>4, <2>6 DEF AnswerIsTrue, CancelledForAnAnswer
  <2> QED
    BY <1>1, <1>2, <1>3, <2>10, <2>11
    DEF IInv, JobTrue, TypeOK, PhaseTrue, WinnerTrue, RootsTrue, BoundsAreTrue, KeysAreExact,
        Never
<1>5. CASE Provers # {}
  <2>1. Provers \in SUBSET Nat /\ 0 \notin Provers
    BY <1>3 DEF Provers
  <2>2. Pick \in Provers
    BY <1>5, <2>1, MinIsLeast DEF Pick
  <2>3. /\ Pick \in Lanes /\ Pick # 0 /\ proved[Pick] > 0
        /\ Mate(Pick, proved[Pick]) /\ plan.entries[Pick] \in LaneEntry
    BY <1>3, <2>1, <2>2 DEF Provers, LaneTrue, Lanes
  <2>4. plan.entries[Pick].name = "unrestricted" => ~Restricts(Pick)
    BY <2>3 DEF LaneEntry, Restricts
  <2>5. /\ line'.accepted = TRUE /\ line'.depth = proved[Pick]
        /\ line'.via = (IF plan.entries[Pick].name = "unrestricted" THEN "none"
                        ELSE plan.entries[Pick].name)
    BY <1>1, <2>3 DEF AnswerLine, NoLine
  <2>6. plan.entries[Pick].name \in Names
    BY <2>3 DEF LaneEntry
  <2>7. line'.via = "none" => ~Restricts(Pick)
    BY <2>4, <2>5, <2>6 DEF Names, Restrictions
  <2>8. AnswerIsTrue'
    BY <1>2, <2>3, <2>5, <2>7 DEF AnswerIsTrue, Mate
  <2>9. SilenceIsNoMate' /\ CancelledForAnAnswer'
    BY <1>2, <1>3, <2>5 DEF SilenceIsNoMate, CancelledForAnAnswer, IInv, WinnerTrue
  <2> QED
    BY <1>1, <1>2, <1>3, <2>8, <2>9
    DEF IInv, JobTrue, TypeOK, PhaseTrue, WinnerTrue, RootsTrue, BoundsAreTrue, KeysAreExact,
        Never
<1> QED
  BY <1>4, <1>5

\* Only what the line says is left to show of a step of the enumeration.
LEMMA RootsFrame ==
    ASSUME IInv, phase \in {"plan", "roots"}, config.all,
           UNCHANGED <<job, plan, lane, cancel, judged, bounds>>,
           phase' \in {"roots", "done"}, root' \in 1 .. RootMoves + 1,
           found' \in Seq(1 .. RootMoves),
           phase' = "roots" => line' = NoLine /\ ~limited',
           RootsTrue', SilenceIsNoMate', KeysAreExact'
    PROVE  IInv'
<1>1. /\ config' = config /\ shortest' = shortest /\ hopeless' = hopeless /\ keys' = keys
      /\ plan' = plan /\ cancel' = cancel /\ proved' = proved /\ winner' = winner
      /\ told' = told /\ bounds' = bounds /\ Lanes' = Lanes
  BY DEF job, judged, Lanes
<1>2. plan.entries = <<>> /\ Lanes = {}
  BY DEF IInv, PhaseTrue, Lanes
<1>3. JobTrue'
  BY <1>1 DEF IInv, JobTrue, Never
<1>4. TypeOK'
  BY <1>1 DEF IInv, TypeOK
<1>5. PhaseTrue'
  BY <1>1, <1>2 DEF PhaseTrue
<1>6. WinnerTrue' /\ BoundsAreTrue'
  BY <1>1 DEF IInv, WinnerTrue, BoundsAreTrue
<1>7. AnswerIsTrue' /\ CancelledForAnAnswer'
  BY <1>1, <1>2 DEF AnswerIsTrue, CancelledForAnAnswer
<1> QED
  BY <1>3, <1>4, <1>5, <1>6, <1>7 DEF IInv

LEMMA EnumerateStep == ASSUME IInv, Enumerate PROVE IInv'
<1>1. /\ phase = "plan" /\ config.all /\ phase' = "roots"
      /\ UNCHANGED <<job, plan, lane, cancel, judged, bounds>>
      /\ root' = root /\ found' = found /\ limited' = limited /\ line' = line
      /\ config' = config /\ keys' = keys
  BY DEF Enumerate, roots, job
<1>2. found = <<>> /\ root = 1 /\ ~limited /\ line = NoLine
      /\ root \in 1 .. RootMoves + 1 /\ found \in Seq(1 .. RootMoves)
  BY <1>1 DEF IInv, PhaseTrue, TypeOK
<1>3. RootsTrue'
  <2>1. ToSet(found') = {} /\ Len(found') = 0
    BY <1>1, <1>2 DEF ToSet
  <2>2. keys \cap (1 .. root - 1) = {}
    BY <1>2
  <2>3. Cardinality({}) = 0
    BY FS_EmptySet
  <2>4. keys' \cap (1 .. root' - 1) = {}
    BY <1>1, <2>2
  <2> QED
    BY <2>1, <2>3, <2>4 DEF RootsTrue
<1>4. SilenceIsNoMate' /\ KeysAreExact'
  BY <1>1 DEF SilenceIsNoMate, KeysAreExact
<1> QED
  BY <1>1, <1>2, <1>3, <1>4, RootsFrame

\* What the enumeration has found is what the roots before it hold.
LEMMA RootsKnown ==
    ASSUME IInv, phase = "roots"
    PROVE  /\ config.all /\ root \in 1 .. RootMoves + 1 /\ found \in Seq(1 .. RootMoves)
           /\ ToSet(found) = keys \cap (1 .. root - 1)
           /\ Len(found) = Cardinality(ToSet(found)) /\ Len(found) \in Nat
           /\ ~limited /\ line = NoLine /\ keys \subseteq 1 .. RootMoves
           /\ shortest \in 1 .. Never /\ (keys = {} <=> shortest = Never)
           /\ (found = <<>> <=> ToSet(found) = {})
<1>1. /\ config.all /\ root \in 1 .. RootMoves + 1 /\ found \in Seq(1 .. RootMoves)
      /\ ToSet(found) = keys \cap (1 .. root - 1)
      /\ Len(found) = Cardinality(ToSet(found))
      /\ ~limited /\ line = NoLine /\ keys \subseteq 1 .. RootMoves
      /\ shortest \in 1 .. Never /\ (keys = {} <=> shortest = Never)
  BY DEF IInv, PhaseTrue, TypeOK, RootsTrue, JobTrue
<1>2. found = <<>> <=> ToSet(found) = {}
  BY <1>1 DEF ToSet
<1> QED
  BY <1>1, <1>2

LEMMA LimitAtTheHeadStep == ASSUME IInv, LimitAtTheHead PROVE IInv'
<1>1. /\ phase = "roots" /\ phase' = "done" /\ limited' = TRUE
      /\ UNCHANGED <<job, plan, lane, cancel, judged, bounds>>
      /\ root' = root /\ found' = found
      /\ config' = config /\ keys' = keys /\ shortest' = shortest /\ hopeless' = hopeless
      /\ line' = [NoLine EXCEPT !.accepted = found # <<>>,
                                !.depth = IF found = <<>> THEN 0 ELSE MaxDepth,
                                !.timeout = found = <<>> /\ TRUE]
  BY DEF LimitAtTheHead, PrintRoots, job
<1>2. line'.accepted = (found # <<>>) /\ line'.refuted = FALSE
      /\ line'.timeout = (found = <<>>)
  BY <1>1 DEF NoLine
<1>3. RootsTrue' /\ SilenceIsNoMate'
  BY <1>1, <1>2 DEF RootsTrue, SilenceIsNoMate
<1>4. KeysAreExact'
  BY <1>1, RootsKnown DEF KeysAreExact
<1> QED
  BY <1>1, <1>3, <1>4, RootsKnown, RootsFrame

LEMMA LimitInTheSearchStep == ASSUME IInv, LimitInTheSearch PROVE IInv'
<1>1. /\ phase = "roots" /\ phase' = "done" /\ limited' = TRUE
      /\ UNCHANGED <<job, plan, lane, cancel, judged, bounds>>
      /\ root' = root /\ found' = <<>>
      /\ config' = config /\ keys' = keys /\ shortest' = shortest /\ hopeless' = hopeless
      /\ line' = [NoLine EXCEPT !.accepted = <<>> # <<>>,
                                !.depth = IF <<>> = <<>> THEN 0 ELSE MaxDepth,
                                !.timeout = <<>> = <<>> /\ TRUE]
  BY DEF LimitInTheSearch, PrintRoots, job
<1>2. line'.refuted = FALSE /\ line'.timeout = TRUE
  BY <1>1 DEF NoLine
<1>3. RootsTrue' /\ SilenceIsNoMate'
  BY <1>1, <1>2 DEF RootsTrue, SilenceIsNoMate
<1>4. KeysAreExact'
  <2>1. ToSet(<<>>) = {} /\ Len(<<>>) = 0 /\ Cardinality({}) = 0
    BY FS_EmptySet DEF ToSet
  <2> QED
    BY <1>1, <2>1 DEF KeysAreExact
<1> QED
  BY <1>1, <1>3, <1>4, RootsKnown, RootsFrame

LEMMA SearchRootMoveStep == ASSUME IInv, SearchRootMove PROVE IInv'
<1>1. /\ phase = "roots" /\ phase' = "roots" /\ root <= RootMoves
      /\ UNCHANGED <<job, plan, lane, cancel, judged, bounds>>
      /\ root' = root + 1 /\ limited' = limited /\ line' = line
      /\ found' = (IF root \in keys THEN Append(found, root) ELSE found)
      /\ config' = config /\ keys' = keys
  BY DEF SearchRootMove, job
<1>2. /\ root \in 1 .. RootMoves + 1 /\ found \in Seq(1 .. RootMoves) /\ Len(found) \in Nat
      /\ ToSet(found) = keys \cap (1 .. root - 1) /\ Len(found) = Cardinality(ToSet(found))
  BY <1>1, RootsKnown
<1>3. root \in 1 .. RootMoves /\ root' \in 1 .. RootMoves + 1
  BY <1>1, <1>2, PortfolioAssumption
<1>4. RootsTrue' /\ found' \in Seq(1 .. RootMoves)
  <2>1. CASE root \notin keys
    <3>1. keys \cap (1 .. root) = keys \cap (1 .. root - 1)
      BY <1>3, <2>1
    <3>2. found' = found /\ root' - 1 = root
      BY <1>1, <1>3, <2>1
    <3> QED
      BY <1>1, <1>2, <3>1, <3>2 DEF RootsTrue
  <2>2. CASE root \in keys
    <3>1. /\ found' \in Seq(1 .. RootMoves) /\ Len(found') = Len(found) + 1
          /\ \A i \in 1 .. Len(found) : found'[i] = found[i]
          /\ found'[Len(found) + 1] = root
      <4>1. found' = Append(found, root) /\ root \in 1 .. RootMoves
        BY <1>1, <1>3, <2>2
      <4>2. /\ Append(found, root) \in Seq(1 .. RootMoves)
            /\ Len(Append(found, root)) = Len(found) + 1
            /\ \A i \in 1 .. Len(found) : Append(found, root)[i] = found[i]
            /\ Append(found, root)[Len(found) + 1] = root
        BY <1>2, <4>1, AppendTyped, ZenonT(60)
      <4> QED
        BY <4>1, <4>2
    <3>2. ToSet(found') = ToSet(found) \cup {root}
      <4>1. ToSet(found') = {found'[i] : i \in 1 .. Len(found) + 1}
        BY <3>1 DEF ToSet
      <4>2. ToSet(found) = {found[i] : i \in 1 .. Len(found)}
        BY DEF ToSet
      <4>3. 1 .. Len(found) + 1 = (1 .. Len(found)) \cup {Len(found) + 1}
        BY <1>2
      <4> QED
        BY <3>1, <4>1, <4>2, <4>3
    <3>3. ToSet(found) \cup {root} = keys \cap (1 .. root)
      BY <1>2, <1>3, <2>2
    <3>4. root \notin ToSet(found)
      BY <1>2, <1>3
    <3>5. IsFiniteSet(ToSet(found))
      <4>1. IsFiniteSet(1 .. root - 1)
        BY <1>2, FS_Interval
      <4> QED
        BY <1>2, <4>1, FS_Subset
    <3>6. Cardinality(ToSet(found) \cup {root}) = Cardinality(ToSet(found)) + 1
      BY <3>4, <3>5, FS_AddElement
    <3>7. root' - 1 = root
      BY <1>1, <1>3
    <3> QED
      BY <1>1, <1>2, <3>1, <3>2, <3>3, <3>6, <3>7 DEF RootsTrue
  <2> QED
    BY <2>1, <2>2
<1>5. SilenceIsNoMate' /\ KeysAreExact'
  BY <1>1 DEF SilenceIsNoMate, KeysAreExact
<1> QED
  BY <1>1, <1>3, <1>4, <1>5, RootsKnown, RootsFrame

LEMMA RootsDoneStep == ASSUME IInv, RootsDone PROVE IInv'
<1>1. /\ phase = "roots" /\ phase' = "done" /\ limited' = limited /\ root > RootMoves
      /\ UNCHANGED <<job, plan, lane, cancel, judged, bounds>>
      /\ root' = root /\ found' = found
      /\ config' = config /\ keys' = keys /\ shortest' = shortest /\ hopeless' = hopeless
      /\ line' = [NoLine EXCEPT !.accepted = found # <<>>,
                                !.depth = IF found = <<>> THEN 0 ELSE MaxDepth,
                                !.timeout = found = <<>> /\ limited']
  BY DEF RootsDone, PrintRoots, job
<1>2. /\ ~limited /\ root = RootMoves + 1
      /\ ToSet(found) = keys /\ Len(found) = Cardinality(ToSet(found))
      /\ (found = <<>> <=> shortest = Never)
  <2>1. root = RootMoves + 1 /\ 1 .. root - 1 = 1 .. RootMoves
    BY <1>1, RootsKnown, PortfolioAssumption
  <2> QED
    BY <1>1, <2>1, RootsKnown
<1>3. line'.accepted = (found # <<>>) /\ line'.refuted = FALSE /\ line'.timeout = FALSE
  BY <1>1, <1>2 DEF NoLine
<1>4. RootsTrue' /\ SilenceIsNoMate'
  BY <1>1, <1>2, <1>3 DEF RootsTrue, SilenceIsNoMate, Never
<1>5. KeysAreExact'
  BY <1>1, <1>2, <1>3 DEF KeysAreExact
<1> QED
  BY <1>1, <1>4, <1>5, RootsKnown, RootsFrame

-----------------------------------------------------------------------------
LEMMA StepInv == IInv /\ [Next \/ Done]_vars => IInv'
<1> SUFFICES ASSUME IInv, [Next \/ Done]_vars PROVE IInv'
  OBVIOUS
<1>1. CASE UNCHANGED vars
  BY <1>1 DEF vars, job, judged, roots, IInv, JobTrue, TypeOK, PhaseTrue, LaneTrue, Mate,
              WinnerTrue, RootsTrue, AnswerIsTrue, SilenceIsNoMate, BoundsAreTrue,
              CancelledForAnAnswer, KeysAreExact, Lanes, Restricts
<1>2. CASE Caller
  BY <1>2, LaunchStep, JoinStep, EnumerateStep, LimitAtTheHeadStep, LimitInTheSearchStep,
     SearchRootMoveStep, RootsDoneStep DEF Caller
<1>3. ASSUME NEW l \in Lanes, LaneStep(l) PROVE IInv'
  BY <1>3, FailsStep, RefutesStep, ProvesStep, TimesOutStep, GivesUpStep, AcceptStep, TellStep
  DEF LaneStep
<1> QED
  BY <1>1, <1>2, <1>3 DEF Next, Done

\* The inductive invariant: what is known of every lane at every moment.
THEOREM Invariance == Spec => []IInv
BY InitInv, StepInv, PTL DEF Spec

\* solve.h:684-762.  Whatever lane is reported, an answer is a mate no shorter than
\* the shortest, and the shortest when the line names no restriction.
THEOREM AnswersAreMates == Spec => []AnswerIsTrue
<1>1. IInv => AnswerIsTrue
  BY DEF IInv
<1> QED
  BY <1>1, Invariance, PTL

\* solve.h:730-760.  A line without an answer or a timeout says there is no mate
\* within the depth, and a `refuted' one that there is none: no restricted,
\* refused, cancelled or late lane makes it say so.
THEOREM SilenceMeansNoMate == Spec => []SilenceIsNoMate
<1>1. IInv => SilenceIsNoMate
  BY DEF IInv
<1> QED
  BY <1>1, Invariance, PTL

\* routes.h:17-47.  A bound published before the cancellation is true, and so no
\* restricted lane publishes one.
THEOREM UncancelledBoundsAreTrue == Spec => []BoundsAreTrue
<1>1. IInv => BoundsAreTrue
  BY DEF IInv
<1> QED
  BY <1>1, Invariance, PTL

\* solve.h:586-637.  A lane is cancelled only for an answer that will be printed.
THEOREM NobodyStopsInVain == Spec => []CancelledForAnAnswer
<1>1. IInv => CancelledForAnAnswer
  BY DEF IInv
<1> QED
  BY <1>1, Invariance, PTL

\* routes.h:600-676.  --all-solutions lists keys, each once, and all of them
\* without a limit.
THEOREM EnumeratedKeysAreExact == Spec => []KeysAreExact
<1>1. IInv => KeysAreExact
  BY DEF IInv
<1> QED
  BY <1>1, Invariance, PTL

-----------------------------------------------------------------------------
(* The program around the search. *)

\* The lines that are dealt with, the one the main thread is joining for included.
Handled == IF sniffed # Nothing THEN 0 ELSE read

\* Those whose effect has been had.
Settled == IF pc = "join" THEN Handled - 1 ELSE Handled

LineRecords == Commands \cup FileLines
Verdicts == [kind : {"error", "none", "timeout", "mate"}, depth : Nat, via : BOOLEAN]
AnswerRecords ==
    [pos : Positions, score : Nat, shortest : BOOLEAN, noMate : BOOLEAN, gaveUp : BOOLEAN, bad : BOOLEAN]

InputTrue ==
    /\ base \in Options
    /\ IsSession(lines, forced) \/ IsFile(lines, forced)
    /\ lines \in Seq(LineRecords)

PlacesTrue ==
    /\ sent \in 0 .. Len(lines) /\ read \in 0 .. sent
    /\ sniffed # Nothing => read = 1 /\ sniffed = lines[1]
    /\ mode \in {"none", "uci", "epd"} /\ (mode = "none" <=> pc = "start")
    /\ mode = "none" => read = 0 /\ sniffed = Nothing /\ answers = <<>>
    /\ mode = "uci" => IsSession(lines, forced) /\ pc \in {"read", "join", "end"}
    /\ mode = "epd" => IsFile(lines, forced) /\ pc \in {"read", "spawn", "work", "emit", "end"}

\* The first q questions, and no others, are among the first h lines.
Taken(h, q) ==
    /\ q \in 0 .. Len(Asking)
    /\ \A k \in DOMAIN Asking : k <= q <=> Asking[k] <= h

\* The search c is that of the i-th line, the question after the q answered ones,
\* and nothing that would have joined it is among the first s lines.
Serves(i, s, c, q, stopped) ==
    /\ q + 1 \in DOMAIN Asking /\ Asking[q + 1] = i /\ lines[i].op = "go"
    /\ \A k \in i + 1 .. s : lines[k].op \notin {"go", "position"}
    /\ c.pos = Named[i - 1] /\ c.config \in Options /\ c.config.budget = lines[i].budget
    /\ stopped => StoppedLater(i)
    /\ c.pc = "print" => c.result \in Results(c.pos, c.config, StoppedLater(i))

SearchShaped(c) ==
    /\ c = [pc |-> c.pc, pos |-> c.pos, config |-> c.config, result |-> c.result]
    /\ c.pc \in {"none", "solve", "print", "done"}

Busy(c) == c.pc \in {"solve", "print"}

SessionTrue ==
    /\ SearchShaped(search)
    /\ mode # "uci" => ~Busy(search)
    /\ pc = "join" => Handled \in 1 .. Len(lines) /\ command = lines[Handled]
    /\ mode # "epd" => /\ position = Named[Settled]
                       /\ Taken(Settled, IF Busy(search) THEN Len(answers) + 1 ELSE Len(answers))
    /\ Busy(search) => \E i \in 1 .. Settled : Serves(i, Settled, search, Len(answers), stop)

\* Where the lines p stand among the first h, and that those after the e-th are
\* the ones without an answer when q are given.
Stands(where, p, h, q, e) ==
    /\ where \in [1 .. Len(p) -> 1 .. h]
    /\ \A j \in 1 .. Len(p) : p[j] = lines[where[j]]
    /\ \A i, j \in 1 .. Len(p) : i < j => where[i] < where[j]
    /\ \A k \in DOMAIN Asking :
         k <= q <=> Asking[k] <= h /\ \A j \in e + 1 .. Len(p) : Asking[k] # where[j]

Emitted == IF pc = "emit" THEN emitted ELSE 0

FileTrue ==
    /\ pending \in Seq(FileLines) /\ \A j \in 1 .. Len(pending) : pending[j].op # "comment"
    /\ mode # "epd" \/ base.parallel = 1 => pending = <<>>
    /\ answers \in Seq(AnswerRecords) /\ Len(answers) <= Len(Asking)
    /\ mode = "epd" => \E where : Stands(where, pending, Handled, Len(answers), Emitted)

PoolLabels == {"off", "claim", "solve", "mark", "left"}

PoolTrue ==
    /\ pool \in [0 .. base.parallel -> PoolLabels]
    /\ mine \in [0 .. base.parallel -> Nat]
    /\ next \in Nat \ {0}
    /\ pc \notin {"work", "emit"} => \A w \in 0 .. base.parallel : pool[w] \in {"off", "left"}
    /\ pc \in {"work", "emit"} =>
         /\ DOMAIN buffers = 1 .. Len(pending) /\ done \subseteq 1 .. Len(pending)
         /\ emitted \in 0 .. Len(pending) /\ (pc = "work" => emitted = 0)
         /\ \A i \in done : buffers[i] \in LineResults(pending[i])
         /\ \A w \in 0 .. base.parallel :
              /\ pool[w] \in {"solve", "mark"} => mine[w] \in 1 .. Len(pending)
              /\ pool[w] = "mark" => buffers[mine[w]] \in LineResults(pending[mine[w]])

SaidTrue ==
    \A n \in DOMAIN answers :
        answers[n].pos = Asked(Asking[n]) /\ TrueOf(answers[n], Asking[n])

ServiceInv ==
    /\ InputTrue /\ PlacesTrue /\ SessionTrue /\ FileTrue /\ PoolTrue /\ SaidTrue

-----------------------------------------------------------------------------
(* Recursion over the input. *)

\* f starts at first, and each of its n steps is the step.
Follows(f, n, first, step) == f[0] = first /\ \A i \in 1 .. n : f[i] = step[<<i, f[i - 1]>>]

\* A function defined by recursion on the numbers up to n exists.
LEMMA Recursion ==
    ASSUME NEW n \in Nat, NEW S, NEW first \in S, NEW step \in [(1 .. n) \X S -> S]
    PROVE  \E f \in [0 .. n -> S] : Follows(f, n, first, step)
<1> USE DEF Follows
<1> DEFINE Extends(m) == \E f \in [0 .. m -> S] : Follows(f, m, first, step)
           Bad == {m \in 0 .. n : ~Extends(m)}
<1>1. Extends(0)
  <2> DEFINE f == [i \in 0 .. 0 |-> first]
  <2>1. f \in [0 .. 0 -> S] /\ f[0] = first
    OBVIOUS
  <2>2. \A i \in 1 .. 0 : FALSE
    OBVIOUS
  <2> QED
    BY <2>1, <2>2
<1>2. ASSUME NEW m \in 1 .. n, Extends(m - 1) PROVE Extends(m)
  <2>1. PICK f \in [0 .. m - 1 -> S] : Follows(f, m - 1, first, step)
    BY <1>2
  <2> DEFINE h == [i \in 0 .. m |-> IF i = m THEN step[<<m, f[m - 1]>>] ELSE f[i]]
  <2>2. step[<<m, f[m - 1]>>] \in S
    BY <2>1
  <2>3. h \in [0 .. m -> S] /\ h[m] = step[<<m, f[m - 1]>>] /\ \A i \in 0 .. m - 1 : h[i] = f[i]
    BY <2>1, <2>2
  <2>4. h[0] = first
    BY <2>1, <2>3
  <2>5. ASSUME NEW i \in 1 .. m PROVE h[i] = step[<<i, h[i - 1]>>]
    <3>1. CASE i = m
      <4>1. m - 1 \in 0 .. m - 1 /\ i - 1 = m - 1
        BY <3>1
      <4> QED
        BY <2>3, <3>1, <4>1
    <3>2. CASE i # m
      <4>1. i \in 1 .. m - 1 /\ i \in 0 .. m - 1 /\ i - 1 \in 0 .. m - 1
        BY <3>2
      <4>2. f[i] = step[<<i, f[i - 1]>>]
        BY <2>1, <4>1
      <4>3. h[i] = f[i] /\ h[i - 1] = f[i - 1]
        BY <2>3, <4>1
      <4> QED
        BY <4>2, <4>3
    <3> QED
      BY <3>1, <3>2
  <2> HIDE DEF h
  <2> QED
    BY <2>3, <2>4, <2>5
<1>3. Bad = {}
  <2>1. SUFFICES ASSUME Bad # {} PROVE FALSE
    OBVIOUS
  <2>2. Bad \in SUBSET Nat
    OBVIOUS
  <2> HIDE DEF Extends
  <2>3. PICK m \in Bad : \A y \in Bad : m <= y
    <3> HIDE DEF Bad
    <3> QED
      BY <2>1, <2>2, MinIsLeast
  <2>4. m # 0
    BY <1>1, <2>3
  <2>5. m \in 1 .. n /\ m - 1 \in 0 .. n /\ m - 1 \notin Bad
    BY <2>3, <2>4
  <2>6. Extends(m - 1)
    BY <2>5
  <2> QED
    BY <1>2, <2>3, <2>5, <2>6
<1> QED
  <2>1. n \in 0 .. n
    OBVIOUS
  <2> QED
    BY <1>3, <2>1

-----------------------------------------------------------------------------
(* The questions, in the order of the input. *)

IsQuestion(i) == lines[i].op \in {"go", "epd"}

\* q lists the questions among the first n lines, in their order.
Lists(q, n) ==
    /\ \A k \in 1 .. Len(q) : q[k] \in 1 .. n /\ IsQuestion(q[k])
    /\ \A k, l \in 1 .. Len(q) : k < l => q[k] < q[l]
    /\ \A i \in 1 .. n : IsQuestion(i) => \E k \in 1 .. Len(q) : q[k] = i

\* What the recursion says of each number of lines.
LEMMA QuestionsRecur ==
    ASSUME lines \in Seq(LineRecords)
    PROVE  /\ Questions[0] = <<>>
           /\ \A i \in 1 .. Len(lines) :
                Questions[i] = IF IsQuestion(i) THEN Append(Questions[i - 1], i) ELSE Questions[i - 1]
<1> DEFINE n == Len(lines)
           add(x) == IF IsQuestion(x[1]) THEN Append(x[2], x[1]) ELSE x[2]
           step == [x \in (1 .. n) \X Seq(Nat) |-> add(x)]
<1>1. n \in Nat
  OBVIOUS
<1>2. ASSUME NEW i \in 1 .. n, NEW q \in Seq(Nat) PROVE Append(q, i) \in Seq(Nat)
  BY <1>1
<1>3. step \in [(1 .. n) \X Seq(Nat) -> Seq(Nat)]
  BY <1>2
<1>4. \A i \in 1 .. n, q \in Seq(Nat) : step[<<i, q>>] = IF IsQuestion(i) THEN Append(q, i) ELSE q
  OBVIOUS
<1>5. <<>> \in Seq(Nat)
  OBVIOUS
<1> HIDE DEF step, n
<1>6. PICK f \in [0 .. n -> Seq(Nat)] : Follows(f, n, <<>>, step)
  BY <1>1, <1>3, <1>5, Recursion, Zenon
<1>7. f[0] = <<>> /\ \A i \in 1 .. n : f[i] = IF IsQuestion(i) THEN Append(f[i - 1], i) ELSE f[i - 1]
  <2>1. f[0] = <<>>
    BY <1>6 DEF Follows
  <2>2. ASSUME NEW i \in 1 .. n
        PROVE  f[i] = IF IsQuestion(i) THEN Append(f[i - 1], i) ELSE f[i - 1]
    <3>1. f[i - 1] \in Seq(Nat)
      BY <1>1, <1>6
    <3>2. f[i] = step[<<i, f[i - 1]>>]
      BY <1>6 DEF Follows
    <3> QED
      BY <1>4, <3>1, <3>2
  <2> QED
    BY <2>1, <2>2
<1>8. \A i \in 0 .. n : f[i] = IF i = 0 THEN <<>>
                               ELSE IF lines[i].op \in {"go", "epd"} THEN Append(f[i - 1], i) ELSE f[i - 1]
  <2>1. ASSUME NEW i \in 0 .. n, i # 0 PROVE i \in 1 .. n
    BY <1>1, <2>1
  <2> QED
    BY <1>7, <2>1, Zenon DEF IsQuestion
<1>9. f = [i \in 0 .. n |-> IF i = 0 THEN <<>>
                            ELSE IF lines[i].op \in {"go", "epd"} THEN Append(f[i - 1], i) ELSE f[i - 1]]
  BY <1>6, <1>8, Zenon
<1>10. Questions = [i \in 0 .. n |-> IF i = 0 THEN <<>>
                                     ELSE IF lines[i].op \in {"go", "epd"}
                                          THEN Append(Questions[i - 1], i) ELSE Questions[i - 1]]
  BY <1>9, Zenon DEF Questions, n
<1> HIDE DEF Questions
<1>11. \A i \in 0 .. n : Questions[i] = IF i = 0 THEN <<>>
                                        ELSE IF lines[i].op \in {"go", "epd"}
                                             THEN Append(Questions[i - 1], i) ELSE Questions[i - 1]
  BY <1>10, Zenon
<1>12. ASSUME NEW i \in 1 .. n PROVE i \in 0 .. n /\ i # 0
  BY <1>1
<1>13. 0 \in 0 .. n
  BY <1>1
<1> QED
  BY <1>11, <1>12, <1>13, Zenon DEF n, IsQuestion

\* One line more is listed, or not, as it is a question.
LEMMA ListsNext ==
    ASSUME NEW i \in Nat \ {0}, NEW q \in Seq(Nat), Lists(q, i - 1)
    PROVE  /\ IsQuestion(i) => Append(q, i) \in Seq(Nat) /\ Lists(Append(q, i), i)
           /\ ~IsQuestion(i) => Lists(q, i)
<1> DEFINE r == Append(q, i)
<1>1. /\ r \in Seq(Nat) /\ Len(r) = Len(q) + 1 /\ r[Len(q) + 1] = i /\ Len(q) \in Nat
      /\ \A k \in 1 .. Len(q) : r[k] = q[k]
  OBVIOUS
<1> HIDE DEF r
<1>2. ASSUME IsQuestion(i) PROVE Lists(r, i)
  <2>1. ASSUME NEW k \in 1 .. Len(r) PROVE r[k] \in 1 .. i /\ IsQuestion(r[k])
    <3>1. CASE k = Len(q) + 1
      BY <1>1, <1>2, <3>1
    <3>2. CASE k \in 1 .. Len(q)
      <4>1. q[k] \in 1 .. i - 1 /\ IsQuestion(q[k])
        BY <3>2 DEF Lists
      <4>2. q[k] \in 1 .. i
        BY <4>1
      <4> QED
        BY <1>1, <3>2, <4>1, <4>2
    <3> QED
      BY <1>1, <3>1, <3>2
  <2>2. ASSUME NEW k \in 1 .. Len(r), NEW l \in 1 .. Len(r), k < l PROVE r[k] < r[l]
    <3>1. k \in 1 .. Len(q) /\ r[k] = q[k] /\ q[k] \in 1 .. i - 1
      <4>1. k \in 1 .. Len(q)
        BY <1>1, <2>2
      <4>2. r[k] = q[k]
        BY <1>1, <4>1
      <4>3. q[k] \in 1 .. i - 1
        BY <4>1 DEF Lists
      <4> QED
        BY <4>1, <4>2, <4>3
    <3>2. CASE l = Len(q) + 1
      BY <1>1, <3>1, <3>2
    <3>3. CASE l \in 1 .. Len(q)
      BY <1>1, <2>2, <3>1, <3>3 DEF Lists
    <3> QED
      BY <1>1, <3>2, <3>3
  <2>3. ASSUME NEW j \in 1 .. i, IsQuestion(j) PROVE \E k \in 1 .. Len(r) : r[k] = j
    <3>1. CASE j = i
      BY <1>1, <3>1
    <3>2. CASE j \in 1 .. i - 1
      <4>1. PICK k \in 1 .. Len(q) : q[k] = j
        BY <2>3, <3>2 DEF Lists
      <4>2. k \in 1 .. Len(r) /\ r[k] = j
        BY <1>1, <4>1
      <4> QED
        BY <4>2
    <3> QED
      BY <3>1, <3>2
  <2> QED
    BY <2>1, <2>2, <2>3 DEF Lists
<1>3. ASSUME ~IsQuestion(i) PROVE Lists(q, i)
  <2>1. ASSUME NEW j \in 1 .. i, IsQuestion(j) PROVE j \in 1 .. i - 1
    BY <1>3, <2>1
  <2>2. \A k \in 1 .. Len(q) : q[k] \in 1 .. i - 1 => q[k] \in 1 .. i
    OBVIOUS
  <2> QED
    BY <2>1, <2>2 DEF Lists
<1> QED
  BY <1>1, <1>2, <1>3 DEF r

\* Asking lists all the questions.
LEMMA AskingLists ==
    ASSUME lines \in Seq(LineRecords)
    PROVE  Asking \in Seq(Nat) /\ Lists(Asking, Len(lines)) /\ Len(Asking) \in Nat
<1> DEFINE n == Len(lines)
           Good(i) == Questions[i] \in Seq(Nat) /\ Lists(Questions[i], i)
           Bad == {i \in 0 .. n : ~Good(i)}
<1>1. n \in Nat
  OBVIOUS
<1>2. Good(0)
  <2>1. Questions[0] = <<>> /\ <<>> \in Seq(Nat) /\ Len(<<>>) = 0
    BY QuestionsRecur
  <2>2. Lists(<<>>, 0)
    BY <2>1 DEF Lists
  <2> QED
    BY <2>1, <2>2
<1>3. ASSUME NEW i \in 1 .. n, Good(i - 1) PROVE Good(i)
  <2>1. Questions[i] = IF IsQuestion(i) THEN Append(Questions[i - 1], i) ELSE Questions[i - 1]
    BY QuestionsRecur
  <2>2. i \in Nat \ {0}
    BY <1>1
  <2> QED
    BY <1>3, <2>1, <2>2, ListsNext
<1>4. ASSUME Bad # {} PROVE FALSE
  <2>1. Bad \in SUBSET Nat
    OBVIOUS
  <2> HIDE DEF Good
  <2>2. PICK i \in Bad : \A j \in Bad : i <= j
    <3> HIDE DEF Bad
    <3> QED
      BY <1>4, <2>1, MinIsLeast
  <2>3. i # 0
    BY <1>2, <2>2
  <2>4. i \in 1 .. n /\ i - 1 \in 0 .. n /\ i - 1 \notin Bad
    BY <1>1, <2>2, <2>3
  <2>5. Good(i - 1)
    BY <2>4
  <2> QED
    BY <1>3, <2>2, <2>4, <2>5
<1>5. n \in 0 .. n
  BY <1>1
<1>6. Good(n)
  BY <1>4, <1>5
<1> QED
  BY <1>6 DEF Asking

\* What the recursion says of the positions.
LEMMA NamedRecur ==
    ASSUME lines \in Seq(LineRecords)
    PROVE  /\ Named[0] = Start /\ Start \in Positions
           /\ \A i \in 1 .. Len(lines) :
                Named[i] = Moved(Named[i - 1], lines[i]) /\ Named[i] \in Positions
<1> DEFINE n == Len(lines)
           step == [x \in (1 .. n) \X Positions |-> Moved(x[2], lines[x[1]])]
<1>1. n \in Nat
  OBVIOUS
<1>2. ASSUME NEW i \in 1 .. n, NEW p \in Positions PROVE Moved(p, lines[i]) \in Positions
  <2>1. lines[i] \in LineRecords
    BY <1>1
  <2>2. lines[i].op = "position" => lines[i].pos \in Positions
    BY <2>1 DEF LineRecords, Commands, FileLines
  <2>3. CASE lines[i].op # "position"
    BY <2>3 DEF Moved
  <2>4. CASE lines[i].op = "position"
    <3>1. After[lines[i].pos] \in Positions
      BY <2>2, <2>4, ServiceAssumption
    <3> QED
      BY <2>2, <2>4, <3>1 DEF Moved
  <2> QED
    BY <2>3, <2>4
<1>3. step \in [(1 .. n) \X Positions -> Positions]
  BY <1>2
<1>4. \A i \in 1 .. n, p \in Positions : step[<<i, p>>] = Moved(p, lines[i])
  OBVIOUS
<1>5. Start \in Positions
  BY ServiceAssumption
<1> HIDE DEF step, n
<1>6. PICK f \in [0 .. n -> Positions] : Follows(f, n, Start, step)
  BY <1>1, <1>3, <1>5, Recursion, Zenon
<1>7. f[0] = Start /\ \A i \in 1 .. n : f[i] = Moved(f[i - 1], lines[i])
  <2>1. f[0] = Start
    BY <1>6 DEF Follows
  <2>2. ASSUME NEW i \in 1 .. n PROVE f[i] = Moved(f[i - 1], lines[i])
    <3>1. f[i - 1] \in Positions
      BY <1>1, <1>6
    <3>2. f[i] = step[<<i, f[i - 1]>>]
      BY <1>6 DEF Follows
    <3> QED
      BY <1>4, <3>1, <3>2
  <2> QED
    BY <2>1, <2>2
<1>8. \A i \in 0 .. n : f[i] = IF i = 0 THEN Start ELSE Moved(f[i - 1], lines[i])
  <2>1. ASSUME NEW i \in 0 .. n, i # 0 PROVE i \in 1 .. n
    BY <1>1, <2>1
  <2> QED
    BY <1>7, <2>1, Zenon
<1>9. f = [i \in 0 .. n |-> IF i = 0 THEN Start ELSE Moved(f[i - 1], lines[i])]
  BY <1>6, <1>8, Zenon
<1>10. Named = [i \in 0 .. n |-> IF i = 0 THEN Start ELSE Moved(Named[i - 1], lines[i])]
  BY <1>9, Zenon DEF Named, n
<1> HIDE DEF Named
<1>11. \A i \in 0 .. n : Named[i] = IF i = 0 THEN Start ELSE Moved(Named[i - 1], lines[i])
  BY <1>10, Zenon
<1>12. ASSUME NEW i \in 1 .. n PROVE i \in 0 .. n /\ i # 0
  BY <1>1
<1>13. Named[0] = Start
  BY <1>1, <1>11
<1>14. \A i \in 1 .. n : Named[i] = Moved(Named[i - 1], lines[i])
  BY <1>11, <1>12, Zenon
<1> DEFINE Bad == {i \in 0 .. n : Named[i] \notin Positions}
<1>15. ASSUME Bad # {} PROVE FALSE
  <2>1. Bad \in SUBSET Nat
    OBVIOUS
  <2>2. PICK i \in Bad : \A j \in Bad : i <= j
    <3> HIDE DEF Bad
    <3> QED
      BY <1>15, <2>1, MinIsLeast
  <2>3. i # 0
    BY <1>5, <1>13, <2>2
  <2>4. i \in 1 .. n /\ i - 1 \in 0 .. n /\ i - 1 \notin Bad
    BY <1>1, <2>2, <2>3
  <2>5. Named[i - 1] \in Positions
    BY <2>4
  <2>6. Named[i] \in Positions
    BY <1>2, <1>14, <2>4, <2>5 DEF n
  <2> QED
    BY <2>2, <2>6
<1>16. \A i \in 1 .. n : Named[i] \in Positions
  BY <1>12, <1>15
<1> QED
  BY <1>5, <1>13, <1>14, <1>16 DEF n

-----------------------------------------------------------------------------
(* What the questions are does not change; which are taken does. *)

LEMMA InputFrame ==
    ASSUME lines' = lines
    PROVE  /\ Asking' = Asking /\ Named' = Named
           /\ \A i : Asked(i)' = Asked(i)
           /\ \A i : StoppedLater(i)' = StoppedLater(i)
<1>1. Questions' = Questions
  BY DEF Questions
<1>2. Named' = Named
  BY DEF Named
<1>3. Asking' = Asking
  BY <1>1 DEF Asking
<1>4. \A i : Asked(i)' = Asked(i)
  BY <1>2 DEF Asked
<1>5. \A i : StoppedLater(i)' = StoppedLater(i)
  BY DEF StoppedLater
<1> QED
  BY <1>2, <1>3, <1>4, <1>5

\* A line that asks nothing takes no question, and one that asks takes the next.
LEMMA TakenNext ==
    ASSUME InputTrue, NEW h \in Nat, NEW q, Taken(h, q), h + 1 \in 1 .. Len(lines)
    PROVE  /\ ~IsQuestion(h + 1) => Taken(h + 1, q)
           /\ IsQuestion(h + 1) =>
                Taken(h + 1, q + 1) /\ q + 1 \in DOMAIN Asking /\ Asking[q + 1] = h + 1
<1> DEFINE n == Len(Asking)
<1>1. Asking \in Seq(Nat) /\ Lists(Asking, Len(lines)) /\ n \in Nat /\ DOMAIN Asking = 1 .. n
  BY AskingLists DEF InputTrue
<1>2. \A k \in 1 .. n : Asking[k] \in Nat /\ IsQuestion(Asking[k])
  BY <1>1 DEF Lists
<1>3. q \in 0 .. n /\ \A k \in 1 .. n : k <= q <=> Asking[k] <= h
  BY <1>1 DEF Taken
<1>4. ASSUME ~IsQuestion(h + 1) PROVE Taken(h + 1, q)
  <2>1. ASSUME NEW k \in 1 .. n PROVE Asking[k] <= h <=> Asking[k] <= h + 1
    <3>1. Asking[k] # h + 1
      BY <1>2, <1>4
    <3> QED
      BY <1>2, <3>1
  <2> QED
    BY <1>1, <1>3, <2>1 DEF Taken
<1>5. ASSUME IsQuestion(h + 1)
      PROVE  Taken(h + 1, q + 1) /\ q + 1 \in DOMAIN Asking /\ Asking[q + 1] = h + 1
  <2>1. PICK j \in 1 .. n : Asking[j] = h + 1
    BY <1>1, <1>5 DEF Lists
  <2>2. j = q + 1
    <3>1. ~(j <= q)
      BY <1>3, <2>1
    <3>2. ASSUME q + 1 < j PROVE FALSE
      <4>1. q + 1 \in 1 .. n
        BY <1>3, <2>1, <3>2
      <4>2. Asking[q + 1] < h + 1
        BY <1>1, <2>1, <3>2, <4>1 DEF Lists
      <4>3. Asking[q + 1] <= h
        BY <1>2, <4>1, <4>2
      <4> QED
        BY <1>3, <4>1, <4>3
    <3> QED
      BY <1>3, <2>1, <3>1, <3>2
  <2>3. ASSUME NEW k \in 1 .. n PROVE k <= q + 1 <=> Asking[k] <= h + 1
    <3>1. CASE k <= q
      BY <1>2, <1>3, <3>1
    <3>2. CASE k = q + 1
      BY <2>1, <2>2, <3>2
    <3>3. CASE k > q + 1
      <4>1. Asking[j] < Asking[k]
        BY <1>1, <2>2, <3>3 DEF Lists
      <4> QED
        BY <1>2, <1>3, <2>1, <3>3, <4>1
    <3> QED
      BY <1>3, <3>1, <3>2, <3>3
  <2>4. q + 1 \in 1 .. n
    BY <2>1, <2>2
  <2> QED
    BY <1>1, <2>1, <2>2, <2>3, <2>4 DEF Taken
<1> QED
  BY <1>4, <1>5

-----------------------------------------------------------------------------
(* What one search may say. *)

LEMMA ResultShape ==
    ASSUME NEW p \in Readable, NEW c \in Options, NEW b \in BOOLEAN, NEW r \in Results(p, c, b)
    PROVE  /\ r.kind \in {"none", "mate", "timeout"}
           /\ r.kind = "none" => Mates(p) = {}
           /\ r.kind = "mate" => r.depth \in Mates(p) /\ (~r.via /\ ~c.direct => r.depth = MateIn[p])
           /\ r.kind = "timeout" => c.budget \/ b
           /\ r.via \in BOOLEAN
<1>1. MateIn[p] \in Nat /\ Depth \in Nat
  BY ServiceAssumption
<1>2. Mates(p) # {} => MateIn[p] \in Mates(p)
  BY <1>1 DEF Mates
<1>4. CASE Mates(p) = {} /\ r = Result("none", 0, FALSE)
  <2>1. r.kind = "none" /\ r.via = FALSE
    BY <1>4 DEF Result
  <2> QED
    BY <1>4, <2>1
<1>5. CASE Mates(p) # {} /\ r = Result("mate", MateIn[p], FALSE)
  <2>1. r.kind = "mate" /\ r.depth = MateIn[p] /\ r.via = FALSE
    BY <1>5 DEF Result
  <2> QED
    BY <1>2, <1>5, <2>1
<1>6. CASE (c.budget \/ b) /\ r = Result("timeout", 0, FALSE)
  <2>1. r.kind = "timeout" /\ r.via = FALSE
    BY <1>6 DEF Result
  <2> QED
    BY <1>6, <2>1
<1>7. ASSUME NEW n \in Mates(p), r = Result("mate", n, TRUE) PROVE r.kind = "mate" /\ r.depth \in Mates(p) /\ r.via = TRUE
  BY <1>7 DEF Result
<1>8. ASSUME c.direct, NEW n \in Mates(p), r = Result("mate", n, FALSE)
      PROVE  r.kind = "mate" /\ r.depth \in Mates(p) /\ r.via = FALSE
  BY <1>8 DEF Result
<1>9. \/ Mates(p) = {} /\ r = Result("none", 0, FALSE)
      \/ Mates(p) # {} /\ r = Result("mate", MateIn[p], FALSE)
      \/ (c.budget \/ b) /\ r = Result("timeout", 0, FALSE)
      \/ \E n \in Mates(p) : r = Result("mate", n, TRUE)
      \/ c.direct /\ \E n \in Mates(p) : r = Result("mate", n, FALSE)
  BY DEF Results
<1>10. CASE \E n \in Mates(p) : r = Result("mate", n, TRUE)
  <2>1. r.kind = "mate" /\ r.depth \in Mates(p) /\ r.via = TRUE
    BY <1>7, <1>10
  <2> QED
    BY <2>1
<1>11. CASE c.direct /\ \E n \in Mates(p) : r = Result("mate", n, FALSE)
  <2>1. r.kind = "mate" /\ r.depth \in Mates(p) /\ r.via = FALSE
    BY <1>8, <1>11
  <2> QED
    BY <1>11, <2>1
<1> QED
  BY <1>4, <1>5, <1>6, <1>9, <1>10, <1>11

LEMMA ResultTyped ==
    ASSUME NEW p \in Positions, NEW c, NEW b, NEW r \in Results(p, c, b) PROVE r \in Verdicts
<1>1. MateIn[p] \in Nat /\ Mates(p) \subseteq Nat
  BY ServiceAssumption DEF Mates
<1>2. ASSUME NEW kind \in {"error", "none", "timeout", "mate"}, NEW n \in Nat, NEW via \in BOOLEAN
      PROVE  Result(kind, n, via) \in Verdicts
  BY DEF Result, Verdicts
<1>3. \/ r = Result("error", 0, FALSE) \/ r = Result("none", 0, FALSE) \/ r = Result("timeout", 0, FALSE)
      \/ r = Result("mate", MateIn[p], FALSE)
      \/ \E n \in Mates(p) : r = Result("mate", n, TRUE) \/ r = Result("mate", n, FALSE)
  BY DEF Results
<1>4. CASE \/ r = Result("error", 0, FALSE) \/ r = Result("none", 0, FALSE) \/ r = Result("timeout", 0, FALSE)
           \/ r = Result("mate", MateIn[p], FALSE)
  BY <1>1, <1>2, <1>4
<1>5. CASE \E n \in Mates(p) : r = Result("mate", n, TRUE) \/ r = Result("mate", n, FALSE)
  <2>1. PICK n \in Mates(p) : r = Result("mate", n, TRUE) \/ r = Result("mate", n, FALSE)
    BY <1>5
  <2>2. n \in Nat
    BY <1>1
  <2> QED
    BY <1>2, <2>1, <2>2
<1> QED
  BY <1>3, <1>4, <1>5

\* What a session or a file prints of a result is true of the question it is about.
LEMMA SaysTrue ==
    ASSUME NEW i, Asked(i) \in Positions, NEW c \in Options, NEW b \in BOOLEAN,
           NEW r \in Results(Asked(i), c, b), c.budget \/ b => Budget(i) \/ StoppedLater(i)
    PROVE  /\ Rendered(Asked(i), c, r).pos = Asked(i) /\ TrueOf(Rendered(Asked(i), c, r), i)
           /\ Line(Asked(i), c, r).pos = Asked(i) /\ TrueOf(Line(Asked(i), c, r), i)
           /\ Rendered(Asked(i), c, r) \in AnswerRecords /\ Line(Asked(i), c, r) \in AnswerRecords
<1> DEFINE p == Asked(i)
<1>1. /\ Rendered(p, c, r).pos = p /\ Line(p, c, r).pos = p
      /\ Rendered(p, c, r).score = (IF r.kind = "mate" THEN r.depth ELSE 0)
      /\ Line(p, c, r).score = (IF r.kind = "mate" THEN r.depth ELSE 0)
      /\ Rendered(p, c, r).shortest = (r.kind = "mate" /\ ~r.via /\ ~c.direct)
      /\ Line(p, c, r).shortest = (r.kind = "mate" /\ ~r.via /\ ~c.direct)
      /\ Rendered(p, c, r).noMate = (r.kind \in {"none", "error"})
      /\ Line(p, c, r).noMate = (r.kind = "none")
      /\ Rendered(p, c, r).gaveUp = (r.kind = "timeout") /\ Line(p, c, r).gaveUp = (r.kind = "timeout")
      /\ Rendered(p, c, r).bad = FALSE /\ Line(p, c, r).bad = (r.kind = "error")
  BY DEF Rendered, Line, Answer
<1>2. ASSUME p \in Readable
      PROVE  /\ r.kind \in {"none", "mate", "timeout"}
             /\ r.kind = "none" => Mates(p) = {}
             /\ r.kind = "mate" => r.depth \in Mates(p) /\ (~r.via /\ ~c.direct => r.depth = MateIn[p])
             /\ r.kind = "timeout" => Budget(i) \/ StoppedLater(i)
  BY <1>2, ResultShape
<1>3. TrueOf(Rendered(p, c, r), i)
  BY <1>1, <1>2 DEF TrueOf
<1>4. TrueOf(Line(p, c, r), i)
  BY <1>1, <1>2 DEF TrueOf
<1>5. Rendered(p, c, r) \in AnswerRecords /\ Line(p, c, r) \in AnswerRecords
  <2>1. r \in Verdicts
    BY ResultTyped
  <2>2. r.depth \in Nat /\ r.via \in BOOLEAN /\ c.direct \in BOOLEAN
    BY <2>1 DEF Verdicts, Options
  <2> QED
    BY <2>2 DEF Rendered, Line, Answer, AnswerRecords
<1> QED
  BY <1>1, <1>3, <1>4, <1>5

-----------------------------------------------------------------------------
(* How the lines of a file come to be pending, and to be answered. *)

LEMMA StandsNone ==
    ASSUME NEW h \in Nat, NEW q, Taken(h, q), NEW e \in Nat
    PROVE  \E w : Stands(w, <<>>, h, q, e)
<1> DEFINE w == [j \in 1 .. 0 |-> 1]
<1>1. w \in [1 .. Len(<<>>) -> 1 .. h] /\ Len(<<>>) = 0
  OBVIOUS
<1>2. \A j \in e + 1 .. Len(<<>>) : FALSE
  OBVIOUS
<1> HIDE DEF w
<1>3. Stands(w, <<>>, h, q, e)
  BY <1>1, <1>2 DEF Stands, Taken
<1> QED
  BY <1>3

LEMMA StandsDone ==
    ASSUME NEW w, NEW p \in Seq(FileLines), NEW h, NEW q \in 0 .. Len(Asking), Stands(w, p, h, q, Len(p))
    PROVE  Taken(h, q)
<1>1. \A j \in Len(p) + 1 .. Len(p) : FALSE
  OBVIOUS
<1> QED
  BY <1>1 DEF Stands, Taken

\* A comment stands nowhere.
LEMMA StandsSkip ==
    ASSUME InputTrue, NEW w, NEW p \in Seq(FileLines), NEW h \in Nat, NEW q, NEW e \in Nat,
           Stands(w, p, h, q, e), ~IsQuestion(h + 1)
    PROVE  Stands(w, p, h + 1, q, e)
<1>1. Asking \in Seq(Nat) /\ Lists(Asking, Len(lines)) /\ DOMAIN Asking = 1 .. Len(Asking)
  BY AskingLists DEF InputTrue
<1>2. ASSUME NEW k \in DOMAIN Asking PROVE Asking[k] <= h <=> Asking[k] <= h + 1
  <2>1. Asking[k] \in Nat /\ IsQuestion(Asking[k])
    BY <1>1 DEF Lists
  <2>2. Asking[k] # h + 1
    BY <2>1
  <2> QED
    BY <2>1, <2>2
<1>3. w \in [1 .. Len(p) -> 1 .. h + 1]
  BY DEF Stands
<1> QED
  BY <1>2, <1>3 DEF Stands

\* A line that is queued stands last.
LEMMA StandsQueue ==
    ASSUME InputTrue, NEW w, NEW p \in Seq(FileLines), NEW h \in Nat, NEW q \in Nat, NEW e \in 0 .. Len(p),
           Stands(w, p, h, q, e), h + 1 \in 1 .. Len(lines), lines[h + 1] \in FileLines
    PROVE  \E v : Stands(v, Append(p, lines[h + 1]), h + 1, q, e)
<1> DEFINE n == Len(p)
           r == Append(p, lines[h + 1])
           v == [j \in 1 .. n + 1 |-> IF j = n + 1 THEN h + 1 ELSE w[j]]
<1>1. /\ r \in Seq(FileLines) /\ Len(r) = n + 1 /\ r[n + 1] = lines[h + 1] /\ n \in Nat
      /\ \A j \in 1 .. n : r[j] = p[j]
  OBVIOUS
<1>2. w \in [1 .. n -> 1 .. h]
  BY DEF Stands
<1>3. v \in [1 .. n + 1 -> 1 .. h + 1] /\ v[n + 1] = h + 1 /\ \A j \in 1 .. n : v[j] = w[j]
  BY <1>1, <1>2
<1> HIDE DEF v, r
<1>4. \A j \in 1 .. n + 1 : r[j] = lines[v[j]]
  <2>1. ASSUME NEW j \in 1 .. n PROVE r[j] = lines[v[j]]
    BY <1>1, <1>3 DEF Stands
  <2>2. r[n + 1] = lines[v[n + 1]]
    BY <1>1, <1>3
  <2>3. ASSUME NEW j \in 1 .. n + 1 PROVE j = n + 1 \/ j \in 1 .. n
    BY <1>1
  <2> QED
    BY <2>1, <2>2, <2>3, Zenon
<1>5. ASSUME NEW i \in 1 .. n + 1, NEW j \in 1 .. n + 1, i < j PROVE v[i] < v[j]
  <2>1. i \in 1 .. n /\ v[i] = w[i] /\ w[i] \in 1 .. h
    <3>1. i \in 1 .. n
      BY <1>1, <1>5
    <3> HIDE DEF n
    <3> QED
      BY <1>2, <1>3, <3>1
  <2>2. CASE j = n + 1
    BY <1>3, <2>1, <2>2
  <2>3. CASE j \in 1 .. n
    BY <1>3, <1>5, <2>1, <2>3 DEF Stands
  <2> QED
    BY <1>1, <2>2, <2>3
<1>6. ASSUME NEW k \in DOMAIN Asking
      PROVE  k <= q <=> Asking[k] <= h + 1 /\ \A j \in e + 1 .. n + 1 : Asking[k] # v[j]
  <2>1. Asking[k] \in Nat
    BY AskingLists DEF InputTrue, Lists
  <2>2. k <= q <=> Asking[k] <= h /\ \A j \in e + 1 .. n : Asking[k] # w[j]
    BY DEF Stands
  <2>3. n + 1 \in e + 1 .. n + 1 /\ \A j \in e + 1 .. n : v[j] = w[j] /\ j \in e + 1 .. n + 1
    BY <1>1, <1>3
  <2>4. CASE Asking[k] = h + 1
    BY <1>3, <2>1, <2>2, <2>3, <2>4
  <2>5. CASE Asking[k] # h + 1
    <3>1. Asking[k] <= h <=> Asking[k] <= h + 1
      BY <2>1, <2>5
    <3>2. (\A j \in e + 1 .. n : Asking[k] # w[j]) <=> \A j \in e + 1 .. n + 1 : Asking[k] # v[j]
      <4>1. ASSUME NEW j \in e + 1 .. n + 1 PROVE j = n + 1 \/ j \in e + 1 .. n
        BY <1>1
      <4> QED
        BY <1>3, <2>3, <2>5, <4>1
    <3> QED
      BY <2>2, <3>1, <3>2
  <2> QED
    BY <2>4, <2>5
<1>7. Stands(v, r, h + 1, q, e)
  BY <1>1, <1>3, <1>4, <1>5, <1>6 DEF Stands
<1> QED
  BY <1>7 DEF r

\* The first line that is owed answers the next question, if it asks one.
LEMMA StandsEmit ==
    ASSUME InputTrue, NEW w, NEW p \in Seq(FileLines), NEW h \in 0 .. Len(lines), NEW q \in 0 .. Len(Asking),
           NEW e \in Nat, e < Len(p), Stands(w, p, h, q, e)
    PROVE  LET i == w[e + 1]
           IN  /\ i \in 1 .. Len(lines) /\ p[e + 1] = lines[i]
               /\ ~IsQuestion(i) => Stands(w, p, h, q, e + 1)
               /\ IsQuestion(i) => /\ q + 1 \in DOMAIN Asking /\ Asking[q + 1] = i
                                   /\ Stands(w, p, h, q + 1, e + 1)
<1> DEFINE i == w[e + 1]
           n == Len(p)
           m == Len(Asking)
           Owed(k, d) == \E j \in d .. n : Asking[k] = w[j]
<1>1. /\ Asking \in Seq(Nat) /\ Lists(Asking, Len(lines)) /\ m \in Nat /\ DOMAIN Asking = 1 .. m
      /\ \A k \in 1 .. m : Asking[k] \in Nat /\ IsQuestion(Asking[k])
      /\ lines \in Seq(LineRecords)
  BY AskingLists DEF InputTrue, Lists
<1>2. /\ w \in [1 .. n -> 1 .. h] /\ n \in Nat /\ e + 1 \in 1 .. n
      /\ \A j, l \in 1 .. n : j < l => w[j] < w[l]
      /\ \A j \in 1 .. n : p[j] = lines[w[j]]
  <2>1. /\ w \in [1 .. n -> 1 .. h] /\ \A j \in 1 .. n : p[j] = lines[w[j]]
        /\ \A j, l \in 1 .. n : j < l => w[j] < w[l]
    BY Zenon DEF Stands
  <2>2. n \in Nat /\ e + 1 \in 1 .. n
    OBVIOUS
  <2> QED
    BY <2>1, <2>2
<1>3. \A k \in 1 .. m : k <= q <=> Asking[k] <= h /\ ~Owed(k, e + 1)
  BY <1>1 DEF Stands
<1>4. i \in 1 .. h /\ i \in 1 .. Len(lines) /\ p[e + 1] = lines[i]
  <2>1. i \in 1 .. h /\ p[e + 1] = lines[i]
    <3> HIDE DEF n
    <3> QED
      BY <1>2
  <2>2. h <= Len(lines) /\ Len(lines) \in Nat /\ h \in Nat
    BY <1>1
  <2> HIDE DEF i
  <2> QED
    BY <2>1, <2>2
<1>5. \A j \in e + 2 .. n : j \in 1 .. n /\ i < w[j]
  BY <1>2
<1>6. \A k \in 1 .. m : Owed(k, e + 1) <=> Asking[k] = i \/ Owed(k, e + 2)
  <2>1. ASSUME NEW j \in e + 1 .. n PROVE j = e + 1 \/ j \in e + 2 .. n
    BY <1>2
  <2>2. e + 1 \in e + 1 .. n /\ \A j \in e + 2 .. n : j \in e + 1 .. n
    BY <1>2
  <2> QED
    BY <2>1, <2>2
<1> HIDE DEF i, n, m
<1>7. ASSUME NEW r, \A k \in 1 .. m : k <= r <=> Asking[k] <= h /\ ~Owed(k, e + 2)
      PROVE  Stands(w, p, h, r, e + 1)
  <2>1. (e + 1) + 1 = e + 2
    OBVIOUS
  <2> QED
    BY <1>1, <1>2, <1>7, <2>1 DEF Stands, n
<1>8. ASSUME ~IsQuestion(i) PROVE Stands(w, p, h, q, e + 1)
  <2>1. \A k \in 1 .. m : Asking[k] # i
    BY <1>1, <1>8
  <2>2. \A k \in 1 .. m : k <= q <=> Asking[k] <= h /\ ~Owed(k, e + 2)
    <3> HIDE DEF Owed
    <3> QED
      BY <1>3, <1>6, <2>1
  <2> HIDE DEF Owed
  <2> QED
    BY <1>7, <2>2
<1>9. ASSUME IsQuestion(i)
      PROVE  q + 1 \in DOMAIN Asking /\ Asking[q + 1] = i /\ Stands(w, p, h, q + 1, e + 1)
  <2>1. PICK k \in 1 .. m : Asking[k] = i
    BY <1>1, <1>4, <1>9 DEF Lists, m
  <2>2. ~(k <= q)
    <3>1. Owed(k, e + 1)
      <4> HIDE DEF Owed
      <4> QED
        BY <1>6, <2>1
    <3> HIDE DEF Owed
    <3> QED
      BY <1>3, <3>1
  <2>3. \A j, l \in 1 .. m : j < l => Asking[j] < Asking[l]
    BY <1>1 DEF Lists, m
  <2>4. ASSUME NEW j \in 1 .. m, j < k PROVE j <= q
    <3>1. Asking[j] < i
      BY <2>1, <2>3, <2>4
    <3>0. Asking[j] \in Nat /\ i \in Nat /\ h \in Nat /\ i <= h
      <4>1. i \in 1 .. h
        BY <1>4
      <4> QED
        BY <1>1, <4>1
    <3>2. ~Owed(j, e + 2)
      <4> SUFFICES ASSUME NEW l \in e + 2 .. n, Asking[j] = w[l] PROVE FALSE
        OBVIOUS
      <4>1. i < Asking[j]
        BY <1>5
      <4> QED
        BY <3>0, <3>1, <4>1
    <3>3. Asking[j] # i /\ Asking[j] <= h
      BY <3>0, <3>1
    <3> HIDE DEF Owed
    <3> QED
      BY <1>3, <1>6, <3>2, <3>3
  <2>5. k = q + 1
    <3>1. ASSUME q + 1 < k PROVE FALSE
      <4>1. q + 1 \in 1 .. m
        BY <1>1, <3>1 DEF m
      <4>2. q + 1 <= q
        BY <2>4, <3>1, <4>1
      <4> QED
        BY <4>2
    <3> QED
      BY <2>2, <3>1
  <2>6. ASSUME NEW j \in 1 .. m PROVE j <= q + 1 <=> Asking[j] <= h /\ ~Owed(j, e + 2)
    <3>1. CASE j = k
      <4>1. ~Owed(k, e + 2)
        BY <1>2, <1>4, <1>5, <2>1
      <4> HIDE DEF Owed
      <4> QED
        BY <1>4, <2>1, <2>5, <3>1, <4>1
    <3>2. CASE j # k
      <4>1. Asking[j] # i
        <5>1. j < k \/ k < j
          BY <3>2
        <5> QED
          BY <1>1, <2>1, <2>3, <5>1
      <4>2. j <= q + 1 <=> j <= q
        BY <2>5, <3>2
      <4> HIDE DEF Owed
      <4> QED
        BY <1>3, <1>6, <4>1, <4>2
    <3> QED
      BY <3>1, <3>2
  <2>7. Stands(w, p, h, q + 1, e + 1)
    <3> HIDE DEF Owed
    <3> QED
      BY <1>7, <2>6
  <2> QED
    BY <1>1, <2>1, <2>5, <2>7
<1> QED
  BY <1>4, <1>8, <1>9 DEF i

-----------------------------------------------------------------------------
(* What a step leaves as it was. *)

LEMMA InputKept ==
    ASSUME InputTrue, UNCHANGED inputs, base' \in Options PROVE InputTrue'
BY DEF InputTrue, inputs, IsSession, IsFile

LEMMA SaidKept ==
    ASSUME SaidTrue, UNCHANGED inputs, answers' = answers, base'.budget = base.budget PROVE SaidTrue'
<1>1. lines' = lines
  BY DEF inputs
<1>2. \A i : Budget(i)' = Budget(i)
  BY <1>1 DEF Budget
<1>3. \A a, i : TrueOf(a, i)' <=> TrueOf(a, i)
  BY <1>1, <1>2, InputFrame DEF TrueOf, Mates
<1> QED
  BY <1>1, <1>3, InputFrame DEF SaidTrue

\* An answer more, about the next question.
LEMMA SaidMore ==
    ASSUME SaidTrue, answers \in Seq(AnswerRecords), UNCHANGED inputs, base' = base,
           NEW a \in AnswerRecords, answers' = Append(answers, a),
           a.pos = Asked(Asking[Len(answers) + 1]), TrueOf(a, Asking[Len(answers) + 1])
    PROVE  SaidTrue' /\ answers' \in Seq(AnswerRecords) /\ Len(answers') = Len(answers) + 1
<1> DEFINE n == Len(answers)
<1>1. /\ answers' \in Seq(AnswerRecords) /\ Len(answers') = n + 1 /\ answers'[n + 1] = a
      /\ \A k \in 1 .. n : answers'[k] = answers[k]
      /\ DOMAIN answers = 1 .. n /\ DOMAIN answers' = 1 .. n + 1 /\ n \in Nat
  OBVIOUS
<1> HIDE DEF n
<1>2. lines' = lines
  BY DEF inputs
<1>3. \A i : Budget(i)' = Budget(i)
  BY <1>2 DEF Budget
<1>4. \A b, i : TrueOf(b, i)' <=> TrueOf(b, i)
  BY <1>2, <1>3, InputFrame DEF TrueOf, Mates
<1>5. ASSUME NEW k \in 1 .. n + 1
      PROVE  answers'[k].pos = Asked(Asking[k]) /\ TrueOf(answers'[k], Asking[k])
  <2>1. CASE k = n + 1
    BY <1>1, <2>1 DEF n
  <2>2. CASE k \in 1 .. n
    BY <1>1, <2>2 DEF SaidTrue
  <2> QED
    BY <1>1, <2>1, <2>2
<1>6. SaidTrue'
  BY <1>1, <1>2, <1>4, <1>5, InputFrame DEF SaidTrue
<1> QED
  BY <1>1, <1>6 DEF n

LEMMA PoolKept ==
    ASSUME PoolTrue, UNCHANGED chunk, base'.parallel = base.parallel,
           \/ pc \notin {"work", "emit"} /\ pc' \notin {"work", "emit"}
           \/ pc' = pc /\ base' = base
    PROVE  PoolTrue'
<1>1. CASE pc \notin {"work", "emit"} /\ pc' \notin {"work", "emit"}
  BY <1>1 DEF PoolTrue, chunk
<1>2. CASE pc' = pc /\ base' = base
  <2>1. \A l : LineResults(l)' = LineResults(l)
    BY <1>2 DEF LineResults
  <2> QED
    BY <1>2, <2>1 DEF PoolTrue, chunk
<1> QED
  BY <1>1, <1>2

LEMMA FileKept ==
    ASSUME FileTrue, UNCHANGED inputs, pending' = pending, answers' = answers, Handled' = Handled,
           Emitted' = Emitted, mode' = mode, base'.parallel = base.parallel
    PROVE  FileTrue'
<1>1. lines' = lines
  BY DEF inputs
<1>2. ASSUME mode = "epd" PROVE (\E w : Stands(w, pending, Handled, Len(answers), Emitted))'
  <2>1. PICK w : Stands(w, pending, Handled, Len(answers), Emitted)
    BY <1>2 DEF FileTrue
  <2> DEFINE p == pending
             h == Handled
             q == Len(answers)
             e == Emitted
  <2>2. Stands(w, pending', Handled', Len(answers'), Emitted')
    BY <2>1
  <2>3. Asking' = Asking
    BY <1>1, InputFrame
  <2>4. Stands(w, pending, Handled, Len(answers), Emitted)'
    BY <1>1, <2>1, <2>3 DEF Stands
  <2> QED
    BY <2>4
<1> QED
  BY <1>1, <1>2, InputFrame DEF FileTrue

\* Outside a file nothing is pending.
LEMMA FileIdle ==
    ASSUME FileTrue, UNCHANGED inputs, pending' = pending, answers' = answers, mode # "epd", mode' # "epd"
    PROVE  FileTrue'
<1>1. Asking' = Asking
  BY InputFrame DEF inputs
<1> QED
  BY <1>1 DEF FileTrue

LEMMA SessionKept ==
    ASSUME SessionTrue, UNCHANGED inputs, UNCHANGED answers, UNCHANGED uciVars,
           Handled' = Handled, Settled' = Settled, command' = command, pc' = "join" => pc = "join",
           mode' = mode \/ mode = "none"
    PROVE  SessionTrue'
<1>1. lines' = lines /\ search' = search /\ stop' = stop /\ position' = position
  BY DEF inputs, uciVars
<1>2. Asking' = Asking /\ Named' = Named
  BY <1>1, InputFrame
<1>3. \A h, q : Taken(h, q)' <=> Taken(h, q)
  BY <1>2 DEF Taken
<1>4. (mode # "epd" => /\ position = Named[Settled]
                       /\ Taken(Settled, IF Busy(search) THEN Len(answers) + 1 ELSE Len(answers)))'
  <2>1. ASSUME mode' # "epd" PROVE mode # "epd"
    BY <2>1
  <2>2. Busy(search)' = Busy(search)
    BY <1>1 DEF Busy
  <2>3. Taken(Settled, IF Busy(search) THEN Len(answers) + 1 ELSE Len(answers))
           => Taken(Settled, IF Busy(search) THEN Len(answers) + 1 ELSE Len(answers))'
    BY <1>2, <2>2 DEF Taken
  <2> QED
    BY <1>1, <1>2, <2>1, <2>3 DEF SessionTrue
<1>5. (Busy(search) => \E i \in 1 .. Settled : Serves(i, Settled, search, Len(answers), stop))'
  <2>1. ASSUME Busy(search)' PROVE (\E i \in 1 .. Settled : Serves(i, Settled, search, Len(answers), stop))'
    <3>1. Busy(search)
      BY <1>1, <2>1 DEF Busy
    <3>2. PICK i \in 1 .. Settled : Serves(i, Settled, search, Len(answers), stop)
      BY <3>1 DEF SessionTrue
    <3>3. Serves(i, Settled, search, Len(answers), stop)'
      BY <1>1, <1>2, <3>2, InputFrame DEF Serves
    <3> QED
      BY <3>2, <3>3
  <2> QED
    BY <2>1
<1>6. (mode # "uci" => ~Busy(search))'
  BY <1>1 DEF SessionTrue, Busy
<1>7. (pc = "join" => Handled \in 1 .. Len(lines) /\ command = lines[Handled])'
  BY <1>1 DEF SessionTrue
<1> QED
  BY <1>1, <1>4, <1>5, <1>6, <1>7 DEF SessionTrue

LEMMA SessionIdle ==
    ASSUME SessionTrue, UNCHANGED uciVars, mode # "uci", mode' = "epd", pc' # "join"
    PROVE  SessionTrue'
BY DEF SessionTrue, uciVars, Busy

LEMMA HandledTyped == ASSUME InputTrue, PlacesTrue PROVE Handled \in 0 .. Len(lines) /\ Len(lines) \in Nat
BY DEF InputTrue, PlacesTrue, Handled

\* The line the main loop takes is the one after those dealt with.
LEMMA NextLineTrue ==
    ASSUME InputTrue, PlacesTrue, NextLine
    PROVE  /\ Handled \in Nat /\ Handled + 1 \in 1 .. Len(lines) /\ Current = lines[Handled + 1]
           /\ Handled' = Handled + 1 /\ read' \in 0 .. sent /\ sniffed' = Nothing
           /\ pc = "read" /\ Settled = Handled
<1>1. pc = "read" /\ Settled = Handled
  BY DEF NextLine, Settled
<1>2. CASE sniffed # Nothing
  <2>1. sniffed' = Nothing /\ read' = read /\ read = 1 /\ sniffed = lines[1]
    BY <1>2 DEF NextLine, PlacesTrue
  <2>2. Handled = 0 /\ Handled' = 1 /\ Current = lines[1]
    BY <1>2, <2>1 DEF Handled, Current
  <2> QED
    BY <1>1, <2>1, <2>2 DEF PlacesTrue, InputTrue
<1>3. CASE sniffed = Nothing
  <2>1. sniffed' = Nothing /\ read' = read + 1 /\ read < sent
    BY <1>3 DEF NextLine, TakeLine, MoreInput
  <2>2. Handled = read /\ Handled' = read + 1 /\ Current = lines[read + 1]
    BY <1>3, <2>1 DEF Handled, Current
  <2> QED
    BY <1>1, <2>1, <2>2 DEF PlacesTrue, InputTrue
<1> QED
  BY <1>2, <1>3

-----------------------------------------------------------------------------
(* The session. *)

LEMMA StartInv == ServiceInit => ServiceInv
<1> SUFFICES ASSUME ServiceInit PROVE ServiceInv
  OBVIOUS
<1>1. PICK c \in Runs : lines = c.lines /\ forced = c.forced /\ base = c.config
  BY DEF ServiceInit
<1>2. base \in Options /\ (IsSession(lines, forced) \/ IsFile(lines, forced))
  BY <1>1, RunsAssumption
<1>3. lines \in Seq(LineRecords)
  <2>1. lines \in Seq(Commands) \/ lines \in Seq(FileLines)
    BY <1>2 DEF IsSession, IsFile
  <2>2. Commands \subseteq LineRecords /\ FileLines \subseteq LineRecords
    BY DEF LineRecords
  <2> HIDE DEF LineRecords
  <2>3. lines \in Seq(Commands) => lines \in Seq(LineRecords)
    BY <2>2
  <2>4. lines \in Seq(FileLines) => lines \in Seq(LineRecords)
    BY <2>2
  <2> QED
    BY <2>1, <2>3, <2>4
<1>4. InputTrue
  BY <1>2, <1>3 DEF InputTrue
<1>5. /\ mode = "none" /\ sent = 0 /\ read = 0 /\ sniffed = Nothing /\ pc = "start"
      /\ position = Start /\ search = Idle /\ pending = <<>> /\ next = 1 /\ answers = <<>>
      /\ mine = [w \in 0 .. base.parallel |-> 0] /\ pool = [w \in 0 .. base.parallel |-> "off"]
  BY DEF ServiceInit
<1>6. Len(lines) \in Nat /\ Asking \in Seq(Nat) /\ Lists(Asking, Len(lines)) /\ Len(Asking) \in Nat
  BY <1>3, AskingLists
<1>7. PlacesTrue
  BY <1>5, <1>6 DEF PlacesTrue
<1>8. Settled = 0
  BY <1>5 DEF Settled, Handled
<1>9. Taken(0, 0)
  <2>1. ASSUME NEW k \in DOMAIN Asking PROVE ~(k <= 0) /\ ~(Asking[k] <= 0)
    BY <1>6 DEF Lists
  <2> QED
    BY <1>6, <2>1 DEF Taken
<1>10. SessionTrue
  <2>1. SearchShaped(search) /\ ~Busy(search) /\ Len(answers) = 0
    BY <1>5 DEF Idle, Busy, SearchShaped
  <2>2. Named[0] = Start
    BY <1>3, NamedRecur
  <2> QED
    BY <1>5, <1>8, <1>9, <2>1, <2>2 DEF SessionTrue
<1>11. FileTrue
  BY <1>5, <1>6 DEF FileTrue
<1>12. PoolTrue
  BY <1>5 DEF PoolTrue, PoolLabels
<1>13. SaidTrue
  BY <1>5 DEF SaidTrue
<1> QED
  BY <1>4, <1>7, <1>10, <1>11, <1>12, <1>13 DEF ServiceInv

LEMMA SendStep == ASSUME ServiceInv, Send PROVE ServiceInv'
<1>1. /\ sent < Len(lines) /\ sent' = sent + 1
      /\ UNCHANGED inputs /\ UNCHANGED uciVars /\ UNCHANGED chunk /\ UNCHANGED answers
      /\ UNCHANGED mode /\ UNCHANGED read /\ UNCHANGED sniffed /\ UNCHANGED pc
      /\ UNCHANGED command /\ UNCHANGED base
  BY DEF Send, mainVars
<1>2. Handled' = Handled /\ Settled' = Settled /\ Emitted' = Emitted
  BY <1>1 DEF Handled, Settled, Emitted, chunk
<1>3. PlacesTrue'
  BY <1>1 DEF ServiceInv, PlacesTrue, InputTrue, inputs
<1>4. InputTrue' /\ SaidTrue' /\ PoolTrue' /\ SessionTrue'
  BY <1>1, <1>2, InputKept, SaidKept, PoolKept, SessionKept DEF ServiceInv, InputTrue
<1>5. FileTrue'
  BY <1>1, <1>2, FileKept DEF ServiceInv, chunk
<1> QED
  BY <1>3, <1>4, <1>5 DEF ServiceInv

LEMMA ForceUciStep == ASSUME ServiceInv, ForceUci PROVE ServiceInv'
<1>1. /\ pc = "start" /\ forced /\ mode' = "uci" /\ pc' = "read"
      /\ UNCHANGED inputs /\ UNCHANGED uciVars /\ UNCHANGED chunk /\ UNCHANGED answers
      /\ UNCHANGED sent /\ UNCHANGED read /\ UNCHANGED sniffed /\ UNCHANGED command /\ UNCHANGED base
  BY DEF ForceUci, Goto
<1>2. mode = "none" /\ IsSession(lines, forced)
  BY <1>1 DEF ServiceInv, PlacesTrue, InputTrue, IsFile
<1>3. Handled' = Handled /\ Settled' = Settled
  BY <1>1 DEF Handled, Settled
<1>4. PlacesTrue'
  BY <1>1, <1>2 DEF ServiceInv, PlacesTrue, InputTrue, inputs
<1>5. InputTrue' /\ SaidTrue' /\ PoolTrue' /\ SessionTrue'
  BY <1>1, <1>2, <1>3, InputKept, SaidKept, PoolKept, SessionKept DEF ServiceInv, InputTrue
<1>6. FileTrue'
  BY <1>1, <1>2, FileIdle DEF ServiceInv, chunk
<1> QED
  BY <1>4, <1>5, <1>6 DEF ServiceInv

LEMMA SniffStep == ASSUME ServiceInv, Sniff PROVE ServiceInv'
<1>1. /\ pc = "start" /\ ~forced /\ read < sent /\ read' = read + 1 /\ pc' = "read"
      /\ mode' = (IF lines[read + 1].op = "uci" THEN "uci" ELSE "epd")
      /\ sniffed' = (IF lines[read + 1].op = "blank" THEN Nothing ELSE lines[read + 1])
      /\ UNCHANGED inputs /\ UNCHANGED uciVars /\ UNCHANGED chunk /\ UNCHANGED answers
      /\ UNCHANGED sent /\ UNCHANGED command /\ UNCHANGED base
  BY DEF Sniff, Goto, TakeLine, MoreInput
<1>2. /\ mode = "none" /\ read = 0 /\ sniffed = Nothing /\ answers = <<>> /\ sent \in 1 .. Len(lines)
      /\ Handled = 0 /\ Settled = 0
  BY <1>1 DEF ServiceInv, PlacesTrue, InputTrue, Handled, Settled
<1>3. lines \in Seq(LineRecords) /\ lines # <<>> /\ 1 \in 1 .. Len(lines) /\ lines[1] \in LineRecords
  BY <1>2 DEF ServiceInv, InputTrue
<1>4. lines[1] # Nothing
  BY <1>3 DEF LineRecords, Commands, FileLines, Nothing
<1>5. Handled' = IF lines[1].op = "blank" THEN 1 ELSE 0
  BY <1>1, <1>2, <1>4 DEF Handled
<1>6. InputTrue' /\ SaidTrue' /\ PoolTrue'
  BY <1>1, <1>2, InputKept, SaidKept, PoolKept DEF ServiceInv, InputTrue
<1>7. Taken(0, 0) /\ ~Busy(search)
  BY <1>2 DEF ServiceInv, SessionTrue
<1>8. CASE lines[1].op = "uci"
  <2>1. IsSession(lines, forced)
    <3>1. lines \in Seq(FileLines) => lines[1] \in FileLines
      BY <1>3
    <3>2. lines[1] \notin FileLines
      BY <1>8 DEF FileLines
    <3> QED
      BY <3>1, <3>2 DEF ServiceInv, InputTrue, IsFile
  <2>2. mode' = "uci" /\ sniffed' = lines[1] /\ Handled' = Handled /\ Settled' = Settled /\ read' = 1
    BY <1>1, <1>2, <1>5, <1>8 DEF Settled
  <2>3. PlacesTrue'
    BY <1>1, <1>2, <2>1, <2>2 DEF PlacesTrue, inputs
  <2>4. SessionTrue'
    BY <1>1, <1>2, <2>2, SessionKept DEF ServiceInv
  <2>5. FileTrue'
    BY <1>1, <1>2, <2>2, FileIdle DEF ServiceInv, chunk
  <2> QED
    BY <1>6, <2>3, <2>4, <2>5 DEF ServiceInv
<1>9. CASE lines[1].op # "uci"
  <2>1. IsFile(lines, forced)
    BY <1>1, <1>3, <1>9 DEF ServiceInv, InputTrue, IsSession
  <2>2. mode' = "epd" /\ read' = 1
    BY <1>1, <1>2, <1>9
  <2>3. PlacesTrue'
    BY <1>1, <1>2, <2>1, <2>2 DEF PlacesTrue, inputs
  <2>4. SessionTrue'
    BY <1>1, <1>2, <2>2, SessionIdle DEF ServiceInv
  <2>5. FileTrue'
    <3>1. Taken(Handled', 0) /\ Handled' \in Nat
      <4>1. CASE lines[1].op = "blank"
        <5>1. ~IsQuestion(0 + 1)
          BY <4>1 DEF IsQuestion
        <5>2. Taken(0 + 1, 0)
          BY <1>3, <1>7, <5>1, TakenNext DEF ServiceInv
        <5> QED
          BY <1>5, <4>1, <5>2
      <4>2. CASE lines[1].op # "blank"
        BY <1>5, <1>7, <4>2
      <4> QED
        BY <4>1, <4>2
    <3>2. pending = <<>> /\ pending' = <<>> /\ answers' = <<>> /\ lines' = lines /\ Emitted' = 0 /\ Len(answers') = 0
      BY <1>1, <1>2 DEF ServiceInv, FileTrue, chunk, inputs, Emitted
    <3>3. PICK w : Stands(w, <<>>, Handled', 0, 0)
      BY <3>1, StandsNone
    <3>4. (\E v : Stands(v, pending, Handled, Len(answers), Emitted))'
      <4>1. Stands(w, pending, Handled, Len(answers), Emitted)'
        BY <3>2, <3>3, InputFrame DEF Stands
      <4> QED
        BY <4>1
    <3>5. Asking' = Asking
      BY <3>2, InputFrame
    <3> QED
      BY <1>1, <1>2, <3>2, <3>4, <3>5 DEF ServiceInv, FileTrue
  <2> QED
    BY <1>6, <2>3, <2>4, <2>5 DEF ServiceInv
<1> QED
  BY <1>8, <1>9

LEMMA ServesOn ==
    ASSUME NEW i \in Nat, NEW s \in Nat, NEW c, NEW q, NEW st, Serves(i, s, c, q, st),
           lines[s + 1].op \notin {"go", "position"}
    PROVE  Serves(i, s + 1, c, q, st)
<1>1. ASSUME NEW k \in i + 1 .. s + 1 PROVE k = s + 1 \/ k \in i + 1 .. s
  OBVIOUS
<1>2. \A k \in i + 1 .. s + 1 : lines[k].op \notin {"go", "position"}
  BY <1>1 DEF Serves
<1> QED
  BY <1>2 DEF Serves

\* A command that sets no position leaves it.
LEMMA NamedNext ==
    ASSUME InputTrue, NEW h \in Nat, h + 1 \in 1 .. Len(lines)
    PROVE  /\ Named[h + 1] = Moved(Named[h], lines[h + 1])
           /\ lines[h + 1].op # "position" => Named[h + 1] = Named[h]
<1>1. Named[h + 1] = Moved(Named[h], lines[h + 1])
  <2>1. Named[h + 1] = Moved(Named[(h + 1) - 1], lines[h + 1])
    BY NamedRecur DEF InputTrue
  <2>2. (h + 1) - 1 = h
    OBVIOUS
  <2> QED
    BY <2>1, <2>2
<1> QED
  BY <1>1 DEF Moved

\* How the session's invariant is shown for the state after a step.
LEMMA SessionTo ==
    ASSUME UNCHANGED inputs, NEW s, Settled' = s, mode' = "uci",
           SearchShaped(search'),
           pc' = "join" => Handled' \in 1 .. Len(lines) /\ command' = lines[Handled'],
           position' = Named[s],
           Taken(s, IF Busy(search') THEN Len(answers') + 1 ELSE Len(answers')),
           Busy(search') => \E i \in 1 .. s : Serves(i, s, search', Len(answers'), stop')
    PROVE  SessionTrue'
<1>1. lines' = lines
  BY DEF inputs
<1>2. Asking' = Asking /\ Named' = Named
  BY <1>1, InputFrame
<1>3. (Busy(search))' = Busy(search')
  BY DEF Busy
<1>4. Taken(Settled, IF Busy(search) THEN Len(answers) + 1 ELSE Len(answers))'
  BY <1>2, <1>3 DEF Taken
<1>5. (Busy(search) => \E i \in 1 .. Settled : Serves(i, Settled, search, Len(answers), stop))'
  <2>1. ASSUME Busy(search') PROVE (\E i \in 1 .. Settled : Serves(i, Settled, search, Len(answers), stop))'
    <3>1. PICK i \in 1 .. s : Serves(i, s, search', Len(answers'), stop')
      BY <2>1
    <3>2. Serves(i, Settled, search, Len(answers), stop)'
      BY <1>1, <1>2, <3>1, InputFrame DEF Serves
    <3> QED
      BY <3>1, <3>2
  <2> QED
    BY <1>3, <2>1
<1>6. SearchShaped(search)'
  BY DEF SearchShaped
<1> QED
  BY <1>1, <1>2, <1>4, <1>5, <1>6 DEF SessionTrue

\* What is known when the main loop takes a command.
LEMMA SessionKnown ==
    ASSUME ServiceInv, mode = "uci"
    PROVE  /\ position = Named[Settled] /\ Settled \in Nat
           /\ Taken(Settled, IF Busy(search) THEN Len(answers) + 1 ELSE Len(answers))
           /\ SearchShaped(search)
           /\ pc = "join" => /\ Handled \in 1 .. Len(lines) /\ command = lines[Handled]
                             /\ Settled = Handled - 1
           /\ Busy(search) => \E i \in 1 .. Settled : Serves(i, Settled, search, Len(answers), stop)
           /\ lines \in Seq(Commands) /\ IsSession(lines, forced)
           /\ base \in Options
<1>1. Handled \in Nat
  BY HandledTyped DEF ServiceInv
<1>2. pc = "join" => Handled \in 1 .. Len(lines) /\ command = lines[Handled]
  BY DEF ServiceInv, SessionTrue
<1>3. Settled \in Nat /\ (pc = "join" => Settled = Handled - 1)
  BY <1>1, <1>2 DEF Settled
<1>4. IsSession(lines, forced)
  BY DEF ServiceInv, PlacesTrue
<1> QED
  BY <1>2, <1>3, <1>4 DEF ServiceInv, SessionTrue, IsSession, InputTrue

LEMMA HandleAtOnceStep == ASSUME ServiceInv, HandleAtOnce PROVE ServiceInv'
<1> DEFINE h == Handled
           q == IF Busy(search) THEN Len(answers) + 1 ELSE Len(answers)
<1>1. /\ mode = "uci" /\ NextLine /\ Current.op \in {"uci", "isready", "setoption", "unknown"}
      /\ base' = (IF Current.op = "setoption" THEN [base EXCEPT !.portfolio = Current.value] ELSE base)
      /\ UNCHANGED inputs /\ UNCHANGED uciVars /\ UNCHANGED chunk /\ UNCHANGED answers
      /\ UNCHANGED sent /\ UNCHANGED mode /\ UNCHANGED pc /\ UNCHANGED command
  BY DEF HandleAtOnce
<1>2. /\ h \in Nat /\ h + 1 \in 1 .. Len(lines) /\ Current = lines[h + 1] /\ Handled' = h + 1
      /\ read' \in 0 .. sent /\ sniffed' = Nothing /\ pc = "read" /\ Settled = h
  BY <1>1, NextLineTrue DEF ServiceInv
<1>3. Settled' = h + 1
  BY <1>1, <1>2 DEF Settled
<1>4. base' \in Options /\ base'.budget = base.budget /\ base'.parallel = base.parallel
  <2>1. lines[h + 1] \in Commands
    BY <1>1, <1>2, SessionKnown
  <2>2. Current.op = "setoption" => Current.value \in BOOLEAN
    BY <1>2, <2>1 DEF Commands
  <2>3. base \in Options
    BY DEF ServiceInv, InputTrue
  <2> QED
    BY <1>1, <2>2, <2>3 DEF Options
<1>5. InputTrue' /\ SaidTrue' /\ PoolTrue'
  BY <1>1, <1>2, <1>4, InputKept, SaidKept, PoolKept DEF ServiceInv
<1>6. FileTrue'
  BY <1>1, FileIdle DEF ServiceInv, chunk
<1>7. PlacesTrue'
  BY <1>1, <1>2 DEF ServiceInv, PlacesTrue, inputs
<1>8. SessionTrue'
  <2>1. ~IsQuestion(h + 1) /\ lines[h + 1].op \notin {"go", "position"}
    BY <1>1, <1>2 DEF IsQuestion
  <2>2. Taken(h, q)
    BY <1>1, <1>2, SessionKnown
  <2>3. Taken(h + 1, q)
    BY <1>2, <2>1, <2>2, TakenNext DEF ServiceInv
  <2>4. position = Named[h + 1]
    BY <1>1, <1>2, <2>1, SessionKnown, NamedNext DEF ServiceInv
  <2>5. ASSUME Busy(search) PROVE \E i \in 1 .. h + 1 : Serves(i, h + 1, search, Len(answers), stop)
    <3>1. PICK i \in 1 .. h : Serves(i, h, search, Len(answers), stop)
      BY <1>1, <1>2, <2>5, SessionKnown
    <3> QED
      BY <1>2, <2>1, <3>1, ServesOn
  <2>6. search' = search /\ stop' = stop /\ position' = position
    BY <1>1 DEF uciVars
  <2> QED
    BY <1>1, <1>2, <1>3, <2>3, <2>4, <2>5, <2>6, SessionKnown, SessionTo
<1> QED
  BY <1>5, <1>6, <1>7, <1>8 DEF ServiceInv

\* A command that will join the search: the line is dealt with, its effect is to come.
LEMMA TakesCommand ==
    ASSUME ServiceInv, mode = "uci", NextLine, command' = Current, pc' = "join",
           UNCHANGED inputs, UNCHANGED chunk, UNCHANGED answers, UNCHANGED sent, UNCHANGED mode,
           UNCHANGED base, UNCHANGED position, UNCHANGED search,
           stop' = stop \/ (stop' = TRUE /\ Current.op \in {"stop", "quit"})
    PROVE  ServiceInv'
<1> DEFINE h == Handled
<1>1. /\ h \in Nat /\ h + 1 \in 1 .. Len(lines) /\ Current = lines[h + 1] /\ Handled' = h + 1
      /\ read' \in 0 .. sent /\ sniffed' = Nothing /\ pc = "read" /\ Settled = h
  BY NextLineTrue DEF ServiceInv
<1>2. Settled' = h
  BY <1>1 DEF Settled
<1>3. InputTrue' /\ SaidTrue' /\ PoolTrue'
  BY <1>1, InputKept, SaidKept, PoolKept DEF ServiceInv, InputTrue
<1>4. FileTrue'
  BY FileIdle DEF ServiceInv, chunk
<1>5. PlacesTrue'
  BY <1>1 DEF ServiceInv, PlacesTrue, inputs
<1>6. ASSUME Busy(search) PROVE \E i \in 1 .. h : Serves(i, h, search, Len(answers), stop')
  <2>1. PICK i \in 1 .. h : Serves(i, h, search, Len(answers), stop)
    BY <1>1, <1>6, SessionKnown
  <2>2. ASSUME stop' # stop PROVE StoppedLater(i)
    <3>1. lines[h + 1].op \in {"stop", "quit"} /\ h + 1 \in i + 1 .. Len(lines)
      BY <1>1, <2>2
    <3>2. \A k \in i + 1 .. (h + 1) - 1 : lines[k].op \notin {"go", "position"}
      BY <1>1, <2>1 DEF Serves
    <3> QED
      BY <3>1, <3>2 DEF StoppedLater
  <2>3. Serves(i, h, search, Len(answers), stop')
    <3>1. stop' => StoppedLater(i)
      BY <2>1, <2>2 DEF Serves
    <3> QED
      BY <2>1, <3>1 DEF Serves
  <2> QED
    BY <2>3
<1>7. SessionTrue'
  BY <1>1, <1>2, <1>6, SessionKnown, SessionTo DEF inputs
<1> QED
  BY <1>3, <1>4, <1>5, <1>7 DEF ServiceInv

LEMMA HandleAfterJoinStep == ASSUME ServiceInv, HandleAfterJoin PROVE ServiceInv'
BY TakesCommand DEF HandleAfterJoin, Goto, uciVars

LEMMA HandleStopStep == ASSUME ServiceInv, HandleStop PROVE ServiceInv'
BY TakesCommand DEF HandleStop, Goto

\* The search is joined: its answer, if there was one, is printed.
LEMMA JoinedTrue ==
    ASSUME ServiceInv, Joined
    PROVE  /\ mode = "uci" /\ Handled \in 1 .. Len(lines) /\ command = lines[Handled]
           /\ Settled = Handled - 1 /\ Handled - 1 \in Nat /\ (Handled - 1) + 1 = Handled
           /\ ~Busy(search) /\ Taken(Handled - 1, Len(answers)) /\ position = Named[Handled - 1]
           /\ command \in Commands /\ base \in Options
<1>1. pc = "join" /\ search.pc \in {"none", "done"}
  BY DEF Joined
<1>2. mode = "uci"
  BY <1>1 DEF ServiceInv, PlacesTrue
<1>3. ~Busy(search)
  BY <1>1 DEF Busy
<1>4. Handled \in 1 .. Len(lines) /\ command = lines[Handled] /\ Settled = Handled - 1
  BY <1>1, <1>2, SessionKnown
<1>5. lines \in Seq(Commands) /\ position = Named[Settled] /\ Taken(Settled, Len(answers)) /\ base \in Options
  BY <1>2, <1>3, SessionKnown
<1> QED
  BY <1>2, <1>3, <1>4, <1>5

\* What the steps after a join leave as it was.
LEMMA AfterJoin ==
    ASSUME ServiceInv, Joined, UNCHANGED inputs, UNCHANGED sent, UNCHANGED mode, UNCHANGED read,
           UNCHANGED sniffed, UNCHANGED base, UNCHANGED chunk, UNCHANGED answers, pc' \in {"read", "end"}
    PROVE  /\ InputTrue' /\ PlacesTrue' /\ FileTrue' /\ PoolTrue' /\ SaidTrue'
           /\ Settled' = Handled /\ mode' = "uci" /\ pc' # "join"
<1>1. pc = "join" /\ mode = "uci"
  BY JoinedTrue DEF Joined
<1>2. InputTrue' /\ SaidTrue' /\ PoolTrue'
  BY <1>1, InputKept, SaidKept, PoolKept DEF ServiceInv, InputTrue
<1>3. FileTrue'
  BY <1>1, FileIdle DEF ServiceInv, chunk
<1>4. PlacesTrue'
  BY <1>1 DEF ServiceInv, PlacesTrue, inputs
<1>5. Settled' = Handled
  BY DEF Settled, Handled
<1> QED
  BY <1>1, <1>2, <1>3, <1>4, <1>5

LEMMA SetPositionStep == ASSUME ServiceInv, SetPosition PROVE ServiceInv'
<1> DEFINE h == Handled
<1>1. /\ Joined /\ command.op = "position" /\ pc' = "read" /\ search' = Idle
      /\ position' = Moved(position, command)
      /\ UNCHANGED inputs /\ UNCHANGED sent /\ UNCHANGED mode /\ UNCHANGED read
      /\ UNCHANGED sniffed /\ UNCHANGED base /\ UNCHANGED chunk /\ UNCHANGED answers
  BY DEF SetPosition, Goto, Moved
<1>2. /\ h \in 1 .. Len(lines) /\ command = lines[h] /\ h - 1 \in Nat /\ (h - 1) + 1 = h
      /\ Taken(h - 1, Len(answers)) /\ position = Named[h - 1]
  BY <1>1, JoinedTrue
<1>3. InputTrue' /\ PlacesTrue' /\ FileTrue' /\ PoolTrue' /\ SaidTrue' /\ Settled' = h /\ mode' = "uci"
  BY <1>1, AfterJoin
<1>4. ~IsQuestion(h)
  BY <1>1, <1>2 DEF IsQuestion
<1>5. Taken(h, Len(answers))
  BY <1>2, <1>4, TakenNext DEF ServiceInv
<1>6. position' = Named[h]
  BY <1>1, <1>2, NamedNext DEF ServiceInv
<1>7. ~Busy(search') /\ SearchShaped(search')
  BY <1>1 DEF Busy, Idle, SearchShaped
<1>8. SessionTrue'
  BY <1>1, <1>3, <1>5, <1>6, <1>7, SessionTo
<1> QED
  BY <1>3, <1>8 DEF ServiceInv

LEMMA GoStep == ASSUME ServiceInv, Go PROVE ServiceInv'
<1> DEFINE h == Handled
           n == Len(answers)
<1>1. /\ Joined /\ command.op = "go" /\ pc' = "read" /\ stop' = FALSE /\ position' = position
      /\ search' = [pc |-> "solve", pos |-> position, result |-> Nothing,
                    config |-> [base EXCEPT !.budget = command.budget]]
      /\ UNCHANGED inputs /\ UNCHANGED sent /\ UNCHANGED mode /\ UNCHANGED read
      /\ UNCHANGED sniffed /\ UNCHANGED base /\ UNCHANGED chunk /\ UNCHANGED answers
  BY DEF Go, Goto
<1>2. /\ h \in 1 .. Len(lines) /\ command = lines[h] /\ h - 1 \in Nat /\ (h - 1) + 1 = h
      /\ Taken(h - 1, n) /\ position = Named[h - 1] /\ command \in Commands /\ base \in Options
  BY <1>1, JoinedTrue
<1>3. InputTrue' /\ PlacesTrue' /\ FileTrue' /\ PoolTrue' /\ SaidTrue' /\ Settled' = h /\ mode' = "uci"
  BY <1>1, AfterJoin
<1>4. IsQuestion(h)
  BY <1>1, <1>2 DEF IsQuestion
<1>5. Taken(h, n + 1) /\ n + 1 \in DOMAIN Asking /\ Asking[n + 1] = h
  BY <1>2, <1>4, TakenNext DEF ServiceInv
<1>6. position' = Named[h]
  BY <1>1, <1>2, NamedNext DEF ServiceInv
<1>7. /\ search'.pc = "solve" /\ search'.pos = Named[h - 1]
      /\ search'.config = [base EXCEPT !.budget = command.budget] /\ SearchShaped(search')
  BY <1>1, <1>2 DEF SearchShaped
<1>8. search'.config \in Options /\ search'.config.budget = lines[h].budget
  <2>1. command.budget \in BOOLEAN
    BY <1>1, <1>2 DEF Commands
  <2> QED
    BY <1>2, <1>7, <2>1 DEF Options
<1>9. Busy(search')
  BY <1>7 DEF Busy
<1>10. Serves(h, h, search', n, stop')
  <2>1. \A k \in h + 1 .. h : FALSE
    BY <1>2
  <2> QED
    BY <1>1, <1>2, <1>5, <1>7, <1>8, <2>1 DEF Serves
<1>11. h \in 1 .. h
  BY <1>2
<1>12. SessionTrue'
  BY <1>1, <1>3, <1>5, <1>6, <1>7, <1>9, <1>10, <1>11, SessionTo
<1> QED
  BY <1>3, <1>12 DEF ServiceInv

LEMMA StoppedStep == ASSUME ServiceInv, Stopped PROVE ServiceInv'
<1> DEFINE h == Handled
<1>1. /\ Joined /\ command.op \in {"stop", "quit"} /\ pc' \in {"read", "end"} /\ search' = Idle
      /\ position' = position
      /\ UNCHANGED inputs /\ UNCHANGED sent /\ UNCHANGED mode /\ UNCHANGED read
      /\ UNCHANGED sniffed /\ UNCHANGED base /\ UNCHANGED chunk /\ UNCHANGED answers
  BY DEF Stopped, Goto
<1>2. /\ h \in 1 .. Len(lines) /\ command = lines[h] /\ h - 1 \in Nat /\ (h - 1) + 1 = h
      /\ Taken(h - 1, Len(answers)) /\ position = Named[h - 1]
  BY <1>1, JoinedTrue
<1>3. /\ InputTrue' /\ PlacesTrue' /\ FileTrue' /\ PoolTrue' /\ SaidTrue' /\ Settled' = h /\ mode' = "uci"
      /\ pc' # "join"
  BY <1>1, AfterJoin
<1>4. ~IsQuestion(h) /\ lines[h].op # "position"
  BY <1>1, <1>2 DEF IsQuestion
<1>5. Taken(h, Len(answers))
  BY <1>2, <1>4, TakenNext DEF ServiceInv
<1>6. position' = Named[h]
  BY <1>1, <1>2, <1>4, NamedNext DEF ServiceInv
<1>7. ~Busy(search') /\ SearchShaped(search')
  BY <1>1 DEF Busy, Idle, SearchShaped
<1>8. SessionTrue'
  BY <1>1, <1>3, <1>5, <1>6, <1>7, SessionTo
<1> QED
  BY <1>3, <1>8 DEF ServiceInv

LEMMA CloseSessionStep == ASSUME ServiceInv, CloseSession PROVE ServiceInv'
<1>1. /\ mode = "uci" /\ pc = "read" /\ pc' = "end"
      /\ UNCHANGED inputs /\ UNCHANGED sent /\ UNCHANGED mode /\ UNCHANGED read
      /\ UNCHANGED sniffed /\ UNCHANGED command /\ UNCHANGED base /\ UNCHANGED uciVars
      /\ UNCHANGED chunk /\ UNCHANGED answers
  BY DEF CloseSession, Goto, NoMoreLines
<1>2. Handled' = Handled /\ Settled' = Settled
  BY <1>1 DEF Handled, Settled
<1>3. InputTrue' /\ SaidTrue' /\ PoolTrue' /\ SessionTrue'
  BY <1>1, <1>2, InputKept, SaidKept, PoolKept, SessionKept DEF ServiceInv, InputTrue
<1>4. FileTrue'
  BY <1>1, FileIdle DEF ServiceInv, chunk
<1>5. PlacesTrue'
  BY <1>1 DEF ServiceInv, PlacesTrue, inputs
<1> QED
  BY <1>3, <1>4, <1>5 DEF ServiceInv

\* A search that runs is a session's.
LEMMA BusyTrue ==
    ASSUME ServiceInv, Busy(search)
    PROVE  /\ mode = "uci" /\ Settled \in 0 .. Len(lines)
           /\ Taken(Settled, Len(answers) + 1) /\ position = Named[Settled]
           /\ \E i \in 1 .. Settled : Serves(i, Settled, search, Len(answers), stop)
           /\ pc = "join" => Handled \in 1 .. Len(lines) /\ command = lines[Handled]
           /\ SearchShaped(search)
<1>1. mode = "uci"
  BY DEF ServiceInv, SessionTrue
<1>2. Settled \in 0 .. Len(lines)
  <2>1. Handled \in 0 .. Len(lines) /\ Len(lines) \in Nat
    BY HandledTyped DEF ServiceInv
  <2>2. CASE pc = "join"
    BY <1>1, <2>1, <2>2, SessionKnown
  <2>3. CASE pc # "join"
    BY <2>1, <2>3 DEF Settled
  <2> QED
    BY <2>2, <2>3
<1> QED
  BY <1>1, <1>2, SessionKnown

LEMMA SearchEndsStep == ASSUME ServiceInv, SearchEnds PROVE ServiceInv'
<1>1. /\ search.pc = "solve" /\ UNCHANGED inputs /\ UNCHANGED sent /\ UNCHANGED mode /\ UNCHANGED read
      /\ UNCHANGED sniffed /\ UNCHANGED pc /\ UNCHANGED command /\ UNCHANGED base
      /\ UNCHANGED position /\ UNCHANGED stop /\ UNCHANGED chunk /\ UNCHANGED answers
  BY DEF SearchEnds, mainVars
<1>2. PICK r \in Results(search.pos, search.config, stop) :
        search' = [search EXCEPT !.pc = "print", !.result = r]
  BY DEF SearchEnds
<1>3. Busy(search)
  BY <1>1 DEF Busy
<1>4. mode = "uci"
  BY <1>3, BusyTrue
<1>5. Handled' = Handled /\ Settled' = Settled
  BY <1>1 DEF Handled, Settled
<1>6. InputTrue' /\ SaidTrue' /\ PoolTrue'
  BY <1>1, InputKept, SaidKept, PoolKept DEF ServiceInv, InputTrue
<1>7. FileTrue'
  BY <1>1, <1>4, FileIdle DEF ServiceInv, chunk
<1>8. PlacesTrue'
  BY <1>1 DEF ServiceInv, PlacesTrue, inputs
<1>9. PICK i \in 1 .. Settled : Serves(i, Settled, search, Len(answers), stop)
  BY <1>3, BusyTrue
<1>10. /\ search'.pc = "print" /\ search'.pos = search.pos /\ search'.config = search.config
       /\ search'.result = r /\ SearchShaped(search')
  <2>1. search = [pc |-> search.pc, pos |-> search.pos, config |-> search.config, result |-> search.result]
    BY <1>3, BusyTrue DEF SearchShaped
  <2>2. search' = [pc |-> "print", pos |-> search.pos, config |-> search.config, result |-> r]
    BY <1>2, <2>1
  <2> QED
    BY <2>2 DEF SearchShaped
<1>11. Serves(i, Settled, search', Len(answers), stop)
  <2>1. Results(search.pos, search.config, stop) \subseteq Results(search.pos, search.config, StoppedLater(i))
    BY <1>9 DEF Serves, Results
  <2> QED
    BY <1>9, <1>10, <2>1 DEF Serves
<1>12. Busy(search')
  BY <1>10 DEF Busy
<1>13. SessionTrue'
  BY <1>1, <1>3, <1>4, <1>5, <1>9, <1>10, <1>11, <1>12, BusyTrue, SessionTo DEF inputs
<1> QED
  BY <1>6, <1>7, <1>8, <1>13 DEF ServiceInv

LEMMA ReportStep == ASSUME ServiceInv, Report PROVE ServiceInv'
<1> DEFINE q == Len(answers)
           a == Rendered(search.pos, search.config, search.result)
<1>1. /\ search.pc = "print" /\ answers' = Append(answers, a) /\ search' = [search EXCEPT !.pc = "done"]
      /\ UNCHANGED inputs /\ UNCHANGED sent /\ UNCHANGED mode /\ UNCHANGED read
      /\ UNCHANGED sniffed /\ UNCHANGED pc /\ UNCHANGED command /\ UNCHANGED base
      /\ UNCHANGED position /\ UNCHANGED stop /\ UNCHANGED chunk
  BY DEF Report, mainVars
<1>2. Busy(search)
  BY <1>1 DEF Busy
<1>3. mode = "uci" /\ Taken(Settled, q + 1) /\ position = Named[Settled]
  BY <1>2, BusyTrue
<1>4. PICK i \in 1 .. Settled : Serves(i, Settled, search, q, stop)
  BY <1>2, BusyTrue
<1>5. /\ q + 1 \in DOMAIN Asking /\ Asking[q + 1] = i /\ lines[i].op = "go"
      /\ search.pos = Named[i - 1] /\ search.config \in Options /\ search.config.budget = lines[i].budget
      /\ search.result \in Results(search.pos, search.config, StoppedLater(i))
  BY <1>1, <1>4 DEF Serves
<1>6. Asked(i) = search.pos /\ Budget(i) = search.config.budget
  BY <1>5 DEF Asked, Budget
<1>7. Asked(i) \in Positions
  <2>1. i \in 1 .. Len(lines) /\ lines \in Seq(LineRecords)
    BY <1>2, BusyTrue DEF ServiceInv, InputTrue
  <2>2. i = 1 \/ i - 1 \in 1 .. Len(lines)
    BY <2>1
  <2>3. CASE i = 1
    BY <1>5, <1>6, <2>1, <2>3, NamedRecur
  <2>4. CASE i - 1 \in 1 .. Len(lines)
    BY <1>5, <1>6, <2>1, <2>4, NamedRecur
  <2> QED
    BY <2>2, <2>3, <2>4
<1>8. StoppedLater(i) \in BOOLEAN
  BY DEF StoppedLater
<1>9. a.pos = Asked(i) /\ TrueOf(a, i) /\ a \in AnswerRecords
  BY <1>5, <1>6, <1>7, <1>8, SaysTrue
<1>10. SaidTrue' /\ answers' \in Seq(AnswerRecords) /\ Len(answers') = q + 1
  BY <1>1, <1>5, <1>9, SaidMore DEF ServiceInv, FileTrue
<1>11. Handled' = Handled /\ Settled' = Settled
  BY <1>1 DEF Handled, Settled
<1>12. InputTrue' /\ PoolTrue'
  BY <1>1, InputKept, PoolKept DEF ServiceInv, InputTrue
<1>13. PlacesTrue'
  BY <1>1, <1>3 DEF ServiceInv, PlacesTrue, inputs
<1>14. FileTrue'
  <2>1. Asking' = Asking /\ Len(Asking) \in Nat /\ DOMAIN Asking = 1 .. Len(Asking)
    BY <1>1, InputFrame, AskingLists DEF inputs, ServiceInv, InputTrue
  <2> QED
    BY <1>1, <1>3, <1>5, <1>10, <2>1 DEF ServiceInv, FileTrue, chunk
<1>15. SearchShaped(search') /\ ~Busy(search')
  <2>1. search = [pc |-> search.pc, pos |-> search.pos, config |-> search.config, result |-> search.result]
    BY <1>2, BusyTrue DEF SearchShaped
  <2>2. search' = [pc |-> "done", pos |-> search.pos, config |-> search.config, result |-> search.result]
    BY <1>1, <2>1
  <2> QED
    BY <2>2 DEF SearchShaped, Busy
<1>16. SessionTrue'
  BY <1>1, <1>2, <1>3, <1>10, <1>11, <1>15, BusyTrue, SessionTo DEF inputs
<1> QED
  BY <1>10, <1>12, <1>13, <1>14, <1>16 DEF ServiceInv

-----------------------------------------------------------------------------
(* The reader of a file. *)

\* What is known of a file's lines while they are read.
LEMMA FileKnown ==
    ASSUME ServiceInv, mode = "epd"
    PROVE  /\ base \in Options /\ lines \in Seq(FileLines) /\ Len(lines) \in Nat
           /\ Handled \in 0 .. Len(lines)
           /\ pending \in Seq(FileLines) /\ \A j \in 1 .. Len(pending) : pending[j].op # "comment"
           /\ Len(pending) \in Nat
           /\ answers \in Seq(AnswerRecords) /\ Len(answers) \in 0 .. Len(Asking) /\ Len(Asking) \in Nat
           /\ \E w : Stands(w, pending, Handled, Len(answers), Emitted)
           /\ DOMAIN Asking = 1 .. Len(Asking)
<1>1. Asking \in Seq(Nat) /\ Len(Asking) \in Nat
  BY AskingLists DEF ServiceInv, InputTrue
<1>2. IsFile(lines, forced)
  BY DEF ServiceInv, PlacesTrue
<1> QED
  BY <1>1, <1>2, HandledTyped DEF ServiceInv, FileTrue, InputTrue, IsFile

\* What a line of a file asks.
LEMMA FileAsks ==
    ASSUME lines \in Seq(FileLines), NEW i \in 1 .. Len(lines)
    PROVE  /\ IsQuestion(i) <=> lines[i].op = "epd"
           /\ lines[i].op \in {"epd", "comment", "blank"}
           /\ lines[i].op = "epd" => /\ Asked(i) = lines[i].pos /\ Asked(i) \in Positions
                                     /\ Budget(i) = base.budget
<1>1. lines[i] \in FileLines
  OBVIOUS
<1> QED
  BY <1>1 DEF FileLines, IsQuestion, Asked, Budget

\* What is printed of a line answers it, and nothing else.
LEMMA SaysLine ==
    ASSUME ServiceInv, mode = "epd", NEW i \in 1 .. Len(lines), NEW r \in LineResults(lines[i]),
           UNCHANGED inputs, base' = base, answers' = Say(lines[i], r), lines[i].op # "comment",
           IsQuestion(i) => Len(answers) + 1 \in DOMAIN Asking /\ Asking[Len(answers) + 1] = i
    PROVE  /\ SaidTrue' /\ answers' \in Seq(AnswerRecords)
           /\ Len(answers') = IF IsQuestion(i) THEN Len(answers) + 1 ELSE Len(answers)
<1>1. /\ lines \in Seq(FileLines) /\ base \in Options /\ answers \in Seq(AnswerRecords)
  BY FileKnown
<1>2. CASE lines[i].op = "epd"
  <2> DEFINE a == Line(lines[i].pos, base, r)
  <2>1. /\ IsQuestion(i) /\ Asked(i) = lines[i].pos /\ Asked(i) \in Positions /\ Budget(i) = base.budget
    BY <1>1, <1>2, FileAsks
  <2>2. r \in Results(Asked(i), base, FALSE) /\ answers' = Append(answers, a)
    BY <1>2, <2>1 DEF LineResults, Say
  <2>3. a.pos = Asked(i) /\ TrueOf(a, i) /\ a \in AnswerRecords
    BY <1>1, <2>1, <2>2, SaysTrue
  <2> QED
    BY <1>1, <2>1, <2>2, <2>3, SaidMore DEF ServiceInv
<1>3. CASE lines[i].op = "blank"
  <2>1. ~IsQuestion(i) /\ answers' = answers
    BY <1>1, <1>3, FileAsks DEF Say
  <2> QED
    BY <1>1, <2>1, SaidKept DEF ServiceInv
<1> QED
  BY <1>1, <1>2, <1>3, FileAsks

\* How the file's invariant is shown for the state after a step.
LEMMA FileTo ==
    ASSUME UNCHANGED inputs, base' = base, mode' = "epd",
           pending' \in Seq(FileLines), \A j \in 1 .. Len(pending') : pending'[j].op # "comment",
           base.parallel = 1 => pending' = <<>>,
           answers' \in Seq(AnswerRecords), Len(answers') <= Len(Asking),
           NEW h, Handled' = h, NEW e, Emitted' = e,
           \E w : Stands(w, pending', h, Len(answers'), e)
    PROVE  FileTrue'
<1>1. lines' = lines
  BY DEF inputs
<1>2. Asking' = Asking
  BY <1>1, InputFrame
<1>3. PICK w : Stands(w, pending', h, Len(answers'), e)
  OBVIOUS
<1>4. Stands(w, pending, Handled, Len(answers), Emitted)'
  BY <1>1, <1>2, <1>3 DEF Stands
<1>5. (\E v : Stands(v, pending, Handled, Len(answers), Emitted))'
  BY <1>4
<1> QED
  BY <1>2, <1>5 DEF FileTrue

\* A pool that does not work.
LEMMA PoolRests ==
    ASSUME PoolTrue, UNCHANGED <<pool, mine, next, base>>, pc \notin {"work", "emit"}, pc' \notin {"work", "emit"}
    PROVE  PoolTrue'
BY DEF PoolTrue

LEMMA SkipStep == ASSUME ServiceInv, Skip PROVE ServiceInv'
<1> DEFINE h == Handled
<1>1. /\ mode = "epd" /\ NextLine /\ Current.op = "comment"
      /\ UNCHANGED inputs /\ UNCHANGED uciVars /\ UNCHANGED chunk /\ UNCHANGED answers
      /\ UNCHANGED sent /\ UNCHANGED mode /\ UNCHANGED pc /\ UNCHANGED command /\ UNCHANGED base
  BY DEF Skip
<1>2. /\ h \in Nat /\ h + 1 \in 1 .. Len(lines) /\ Current = lines[h + 1] /\ Handled' = h + 1
      /\ read' \in 0 .. sent /\ sniffed' = Nothing /\ pc = "read"
  BY <1>1, NextLineTrue DEF ServiceInv
<1>3. InputTrue' /\ SaidTrue' /\ PoolTrue' /\ SessionTrue'
  BY <1>1, <1>2, InputKept, SaidKept, PoolKept, SessionIdle DEF ServiceInv, InputTrue
<1>4. PlacesTrue'
  BY <1>1, <1>2 DEF ServiceInv, PlacesTrue, inputs
<1>5. ~IsQuestion(h + 1) /\ Emitted = 0 /\ Emitted' = 0
  BY <1>1, <1>2 DEF IsQuestion, Emitted
<1>6. PICK w : Stands(w, pending, h, Len(answers), 0)
  BY <1>1, <1>5, FileKnown
<1>7. Stands(w, pending, h + 1, Len(answers), 0)
  BY <1>1, <1>2, <1>5, <1>6, FileKnown, StandsSkip DEF ServiceInv
<1>8. FileTrue'
  BY <1>1, <1>2, <1>5, <1>7, FileKnown, FileTo DEF chunk, ServiceInv, FileTrue
<1> QED
  BY <1>3, <1>4, <1>8 DEF ServiceInv

LEMMA SolveNowStep == ASSUME ServiceInv, SolveNow PROVE ServiceInv'
<1> DEFINE h == Handled
           q == Len(answers)
<1>1. /\ mode = "epd" /\ NextLine /\ Current.op # "comment" /\ base.parallel = 1
      /\ UNCHANGED inputs /\ UNCHANGED uciVars /\ UNCHANGED chunk
      /\ UNCHANGED sent /\ UNCHANGED mode /\ UNCHANGED pc /\ UNCHANGED command /\ UNCHANGED base
  BY DEF SolveNow
<1>2. /\ h \in Nat /\ h + 1 \in 1 .. Len(lines) /\ Current = lines[h + 1] /\ Handled' = h + 1
      /\ read' \in 0 .. sent /\ sniffed' = Nothing /\ pc = "read"
  BY <1>1, NextLineTrue DEF ServiceInv
<1>3. PICK r \in LineResults(lines[h + 1]) : answers' = Say(lines[h + 1], r)
  BY <1>2 DEF SolveNow
<1>4. pending = <<>> /\ Emitted = 0 /\ Emitted' = 0 /\ pending' = <<>>
  BY <1>1, <1>2 DEF ServiceInv, FileTrue, Emitted, chunk
<1>5. Taken(h, q)
  <2>1. PICK w : Stands(w, <<>>, h, q, 0)
    BY <1>1, <1>4, FileKnown
  <2>2. <<>> \in Seq(FileLines) /\ Len(<<>>) = 0
    OBVIOUS
  <2>3. q \in 0 .. Len(Asking)
    BY <1>1, FileKnown
  <2> QED
    BY <2>1, <2>2, <2>3, StandsDone
<1>6. /\ IsQuestion(h + 1) => /\ Taken(h + 1, q + 1) /\ q + 1 \in DOMAIN Asking /\ Asking[q + 1] = h + 1
      /\ ~IsQuestion(h + 1) => Taken(h + 1, q)
  BY <1>2, <1>5, TakenNext DEF ServiceInv
<1>7. /\ SaidTrue' /\ answers' \in Seq(AnswerRecords)
      /\ Len(answers') = IF IsQuestion(h + 1) THEN q + 1 ELSE q
  BY <1>1, <1>2, <1>3, <1>6, SaysLine
<1>8. Taken(h + 1, Len(answers')) /\ Len(answers') <= Len(Asking)
  BY <1>1, <1>6, <1>7, FileKnown
<1>9. \E w : Stands(w, <<>>, h + 1, Len(answers'), 0)
  BY <1>2, <1>8, StandsNone
<1>10. FileTrue'
  BY <1>1, <1>2, <1>4, <1>7, <1>8, <1>9, FileTo
<1>11. InputTrue' /\ PoolTrue' /\ SessionTrue'
  BY <1>1, <1>2, InputKept, PoolKept, SessionIdle DEF ServiceInv, InputTrue
<1>12. PlacesTrue'
  BY <1>1, <1>2 DEF ServiceInv, PlacesTrue, inputs
<1> QED
  BY <1>7, <1>10, <1>11, <1>12 DEF ServiceInv

LEMMA QueueStep == ASSUME ServiceInv, Queue PROVE ServiceInv'
<1> DEFINE h == Handled
           q == Len(answers)
           asks == lines[h + 1]
<1>1. /\ mode = "epd" /\ NextLine /\ Current.op # "comment" /\ base.parallel > 1
      /\ pending' = Append(pending, Current) /\ pc' \in {"read", "spawn"}
      /\ UNCHANGED inputs /\ UNCHANGED uciVars /\ UNCHANGED answers
      /\ UNCHANGED sent /\ UNCHANGED mode /\ UNCHANGED command /\ UNCHANGED base
      /\ UNCHANGED <<pool, mine, next, base>>
  BY DEF Queue, Goto
<1>2. /\ h \in Nat /\ h + 1 \in 1 .. Len(lines) /\ Current = asks /\ Handled' = h + 1
      /\ read' \in 0 .. sent /\ sniffed' = Nothing /\ pc = "read"
  BY <1>1, NextLineTrue DEF ServiceInv
<1>3. InputTrue' /\ SaidTrue' /\ PoolTrue' /\ SessionTrue'
  BY <1>1, <1>2, InputKept, SaidKept, PoolRests, SessionIdle DEF ServiceInv, InputTrue
<1>4. PlacesTrue'
  BY <1>1, <1>2 DEF ServiceInv, PlacesTrue, inputs
<1>5. Emitted = 0 /\ Emitted' = 0
  BY <1>1, <1>2 DEF Emitted
<1>6. /\ pending \in Seq(FileLines) /\ \A j \in 1 .. Len(pending) : pending[j].op # "comment"
      /\ lines \in Seq(FileLines) /\ q \in 0 .. Len(Asking) /\ Len(pending) \in Nat /\ Len(Asking) \in Nat
      /\ answers \in Seq(AnswerRecords)
  BY <1>1, FileKnown
<1>7. asks \in FileLines
  BY <1>2, <1>6
<1>8. PICK w : Stands(w, pending, h, q, 0)
  BY <1>1, <1>5, FileKnown
<1>9. \E v : Stands(v, Append(pending, asks), h + 1, q, 0)
  BY <1>2, <1>6, <1>7, <1>8, StandsQueue DEF ServiceInv
<1>10. pending' \in Seq(FileLines) /\ \A j \in 1 .. Len(pending') : pending'[j].op # "comment"
  BY <1>1, <1>2, <1>6, <1>7
<1>11. FileTrue'
  BY <1>1, <1>2, <1>5, <1>6, <1>9, <1>10, FileTo
<1> QED
  BY <1>3, <1>4, <1>11 DEF ServiceInv

LEMMA LastChunkStep == ASSUME ServiceInv, LastChunk PROVE ServiceInv'
<1>1. /\ mode = "epd" /\ pc = "read" /\ pc' \in {"end", "spawn"}
      /\ UNCHANGED inputs /\ UNCHANGED sent /\ UNCHANGED mode /\ UNCHANGED read
      /\ UNCHANGED sniffed /\ UNCHANGED command /\ UNCHANGED base /\ UNCHANGED uciVars
      /\ UNCHANGED chunk /\ UNCHANGED answers
  BY DEF LastChunk, Goto, NoMoreLines
<1>2. Handled' = Handled /\ Emitted' = Emitted
  BY <1>1 DEF Handled, Emitted
<1>3. InputTrue' /\ SaidTrue' /\ PoolTrue' /\ SessionTrue'
  BY <1>1, InputKept, SaidKept, PoolKept, SessionIdle DEF ServiceInv, InputTrue
<1>4. FileTrue'
  BY <1>1, <1>2, FileKept DEF ServiceInv, chunk
<1>5. PlacesTrue'
  BY <1>1 DEF ServiceInv, PlacesTrue, inputs
<1> QED
  BY <1>3, <1>4, <1>5 DEF ServiceInv

LEMMA SpawnStep == ASSUME ServiceInv, Spawn PROVE ServiceInv'
<1>1. /\ pc = "spawn" /\ pc' \in {"work", "emit"} /\ next' = 1 /\ emitted' = 0 /\ done' = {}
      /\ buffers' = [i \in 1 .. Len(pending) |-> Nothing]
      /\ UNCHANGED inputs /\ UNCHANGED sent /\ UNCHANGED mode /\ UNCHANGED read
      /\ UNCHANGED sniffed /\ UNCHANGED command /\ UNCHANGED base /\ UNCHANGED uciVars
      /\ UNCHANGED pending /\ UNCHANGED mine /\ UNCHANGED answers
  BY DEF Spawn, Goto
<1>2. mode = "epd"
  BY <1>1 DEF ServiceInv, PlacesTrue
<1>3. Handled' = Handled /\ Emitted' = Emitted
  BY <1>1 DEF Handled, Emitted
<1>4. InputTrue' /\ SaidTrue' /\ SessionTrue'
  BY <1>1, <1>2, InputKept, SaidKept, SessionIdle DEF ServiceInv, InputTrue
<1>5. FileTrue'
  BY <1>1, <1>2, <1>3, FileKept DEF ServiceInv
<1>6. PlacesTrue'
  BY <1>1, <1>2 DEF ServiceInv, PlacesTrue, inputs
<1>7. PoolTrue'
  <2>1. pool \in [0 .. base.parallel -> PoolLabels] /\ mine \in [0 .. base.parallel -> Nat]
    BY DEF ServiceInv, PoolTrue
  <2>2. PICK n \in 0 .. Min({base.parallel, Len(pending)}) :
          pool' = [w \in DOMAIN pool |-> IF w \in 1 .. n \/ (n = 0 /\ w = Main) THEN "claim" ELSE "off"]
    BY DEF Spawn
  <2>3. \A w \in 0 .. base.parallel : pool'[w] \in {"claim", "off"}
    BY <2>1, <2>2
  <2>4. pool' \in [0 .. base.parallel -> PoolLabels]
    BY <2>1, <2>2 DEF PoolLabels
  <2>5. Len(pending) \in Nat
    BY <1>2, FileKnown
  <2>6. DOMAIN buffers' = 1 .. Len(pending)
    BY <1>1
  <2>7. /\ mine' \in [0 .. base'.parallel -> Nat] /\ next' \in Nat \ {0}
        /\ done' \subseteq 1 .. Len(pending') /\ emitted' \in 0 .. Len(pending')
    BY <1>1, <2>1, <2>5
  <2>8. \A w \in 0 .. base'.parallel : pool'[w] \notin {"solve", "mark"}
    BY <1>1, <2>3
  <2> QED
    BY <1>1, <2>4, <2>6, <2>7, <2>8 DEF PoolTrue
<1> QED
  BY <1>4, <1>5, <1>6, <1>7 DEF ServiceInv

-----------------------------------------------------------------------------
(* The workers. *)

\* A worker that does something does it while the main thread works or prints.
LEMMA WorkerKnown ==
    ASSUME ServiceInv, NEW w \in DOMAIN pool, pool[w] \notin {"off", "left"}
    PROVE  /\ w \in 0 .. base.parallel /\ pc \in {"work", "emit"} /\ mode = "epd"
           /\ pool \in [0 .. base.parallel -> PoolLabels] /\ mine \in [0 .. base.parallel -> Nat]
           /\ next \in Nat \ {0} /\ Len(pending) \in Nat
           /\ DOMAIN buffers = 1 .. Len(pending) /\ done \subseteq 1 .. Len(pending)
           /\ emitted \in 0 .. Len(pending) /\ (pc = "work" => emitted = 0)
           /\ \A i \in done : buffers[i] \in LineResults(pending[i])
           /\ \A v \in 0 .. base.parallel :
                /\ pool[v] \in {"solve", "mark"} => mine[v] \in 1 .. Len(pending)
                /\ pool[v] = "mark" => buffers[mine[v]] \in LineResults(pending[mine[v]])
<1>1. pool \in [0 .. base.parallel -> PoolLabels] /\ w \in 0 .. base.parallel
  BY DEF ServiceInv, PoolTrue
<1>2. pc \in {"work", "emit"}
  BY <1>1 DEF ServiceInv, PoolTrue
<1>3. mode = "epd"
  BY <1>2 DEF ServiceInv, PlacesTrue
<1>4. Len(pending) \in Nat
  BY <1>3, FileKnown
<1> QED
  BY <1>1, <1>2, <1>3, <1>4 DEF ServiceInv, PoolTrue

\* What the workers do concerns the pool only.
LEMMA WorkerKeeps ==
    ASSUME ServiceInv, mode = "epd", UNCHANGED inputs, UNCHANGED sent, UNCHANGED mainVars, UNCHANGED uciVars,
           UNCHANGED pending, UNCHANGED emitted, UNCHANGED answers, pc # "join"
    PROVE  /\ InputTrue' /\ PlacesTrue' /\ SessionTrue' /\ FileTrue' /\ SaidTrue'
           /\ \A l : LineResults(l)' = LineResults(l)
<1>1. /\ UNCHANGED mode /\ UNCHANGED read /\ UNCHANGED sniffed /\ UNCHANGED pc
      /\ UNCHANGED command /\ UNCHANGED base
  BY DEF mainVars
<1>2. Handled' = Handled /\ Emitted' = Emitted
  BY <1>1 DEF Handled, Emitted
<1>3. InputTrue' /\ SaidTrue' /\ SessionTrue'
  BY <1>1, InputKept, SaidKept, SessionIdle DEF ServiceInv, InputTrue
<1>4. FileTrue'
  BY <1>1, <1>2, FileKept DEF ServiceInv
<1>5. PlacesTrue'
  BY <1>1 DEF ServiceInv, PlacesTrue, inputs
<1>6. \A l : LineResults(l)' = LineResults(l)
  BY <1>1 DEF LineResults
<1> QED
  BY <1>3, <1>4, <1>5, <1>6

LEMMA ClaimLineStep == ASSUME ServiceInv, NEW w \in DOMAIN pool, ClaimLine(w) PROVE ServiceInv'
<1> DEFINE N == 0 .. base.parallel
           at == IF next > Len(pending) THEN "left" ELSE "solve"
<1>1. /\ pool[w] = "claim" /\ next' = next + 1 /\ mine' = [mine EXCEPT ![w] = next]
      /\ pool' = [pool EXCEPT ![w] = at]
      /\ UNCHANGED inputs /\ UNCHANGED sent /\ UNCHANGED mainVars /\ UNCHANGED uciVars
      /\ UNCHANGED pending /\ UNCHANGED buffers /\ UNCHANGED done /\ UNCHANGED emitted /\ UNCHANGED answers
  BY DEF ClaimLine, WorkerGoto
<1>2. /\ w \in N /\ pc \in {"work", "emit"} /\ mode = "epd"
      /\ pool \in [N -> PoolLabels] /\ mine \in [N -> Nat]
      /\ next \in Nat \ {0} /\ Len(pending) \in Nat
      /\ DOMAIN buffers = 1 .. Len(pending) /\ done \subseteq 1 .. Len(pending)
      /\ emitted \in 0 .. Len(pending) /\ (pc = "work" => emitted = 0)
      /\ \A i \in done : buffers[i] \in LineResults(pending[i])
      /\ \A v \in N : /\ pool[v] \in {"solve", "mark"} => mine[v] \in 1 .. Len(pending)
                      /\ pool[v] = "mark" => buffers[mine[v]] \in LineResults(pending[mine[v]])
  BY <1>1, WorkerKnown
<1>3. /\ InputTrue' /\ PlacesTrue' /\ SessionTrue' /\ FileTrue' /\ SaidTrue'
      /\ \A l : LineResults(l)' = LineResults(l)
  BY <1>1, <1>2, WorkerKeeps
<1>4. pool' \in [N -> PoolLabels] /\ mine' \in [N -> Nat] /\ next' \in Nat \ {0}
  BY <1>1, <1>2 DEF PoolLabels
<1>5. pool'[w] = at /\ mine'[w] = next /\ \A v \in N : v # w => pool'[v] = pool[v] /\ mine'[v] = mine[v]
  BY <1>1, <1>2
<1>6. ASSUME NEW v \in N
      PROVE  /\ pool'[v] \in {"solve", "mark"} => mine'[v] \in 1 .. Len(pending)
             /\ pool'[v] = "mark" => buffers[mine'[v]] \in LineResults(pending[mine'[v]])
  BY <1>2, <1>5
<1>7. pc' = pc /\ base' = base
  BY <1>1 DEF mainVars
<1>8. PoolTrue'
  BY <1>1, <1>2, <1>3, <1>4, <1>6, <1>7 DEF PoolTrue
<1> QED
  BY <1>3, <1>8 DEF ServiceInv

LEMMA SolveLineStep == ASSUME ServiceInv, NEW w \in DOMAIN pool, SolveLine(w) PROVE ServiceInv'
<1> DEFINE N == 0 .. base.parallel
           m == mine[w]
<1>1. /\ pool[w] = "solve" /\ pool' = [pool EXCEPT ![w] = "mark"]
      /\ UNCHANGED inputs /\ UNCHANGED sent /\ UNCHANGED mainVars /\ UNCHANGED uciVars
      /\ UNCHANGED pending /\ UNCHANGED next /\ UNCHANGED mine /\ UNCHANGED done
      /\ UNCHANGED emitted /\ UNCHANGED answers
  BY DEF SolveLine, WorkerGoto
<1>2. /\ w \in N /\ pc \in {"work", "emit"} /\ mode = "epd"
      /\ pool \in [N -> PoolLabels] /\ mine \in [N -> Nat]
      /\ next \in Nat \ {0} /\ Len(pending) \in Nat
      /\ DOMAIN buffers = 1 .. Len(pending) /\ done \subseteq 1 .. Len(pending)
      /\ emitted \in 0 .. Len(pending) /\ (pc = "work" => emitted = 0)
      /\ \A i \in done : buffers[i] \in LineResults(pending[i])
      /\ \A v \in N : /\ pool[v] \in {"solve", "mark"} => mine[v] \in 1 .. Len(pending)
                      /\ pool[v] = "mark" => buffers[mine[v]] \in LineResults(pending[mine[v]])
  BY <1>1, WorkerKnown
<1>3. /\ InputTrue' /\ PlacesTrue' /\ SessionTrue' /\ FileTrue' /\ SaidTrue'
      /\ \A l : LineResults(l)' = LineResults(l)
  BY <1>1, <1>2, WorkerKeeps
<1>4. PICK r \in LineResults(pending[m]) : buffers' = [buffers EXCEPT ![m] = r]
  BY DEF SolveLine
<1>5. m \in 1 .. Len(pending)
  BY <1>1, <1>2
<1>6. /\ DOMAIN buffers' = 1 .. Len(pending) /\ buffers'[m] = r
      /\ \A i \in 1 .. Len(pending) : i # m => buffers'[i] = buffers[i]
  BY <1>2, <1>4, <1>5
<1>7. \A i \in 1 .. Len(pending) :
        buffers[i] \in LineResults(pending[i]) => buffers'[i] \in LineResults(pending[i])
  BY <1>4, <1>6
<1>8. /\ pool' \in [N -> PoolLabels] /\ pool'[w] = "mark" /\ \A v \in N : v # w => pool'[v] = pool[v]
  BY <1>1, <1>2 DEF PoolLabels
<1>9. ASSUME NEW v \in N
      PROVE  /\ pool'[v] \in {"solve", "mark"} => mine[v] \in 1 .. Len(pending)
             /\ pool'[v] = "mark" => buffers'[mine[v]] \in LineResults(pending[mine[v]])
  <2>1. CASE v = w
    BY <1>4, <1>5, <1>6, <2>1
  <2>2. CASE v # w
    BY <1>2, <1>7, <1>8, <2>2
  <2> QED
    BY <2>1, <2>2
<1>10. \A i \in done : buffers'[i] \in LineResults(pending[i])
  BY <1>2, <1>7
<1>11. pc' = pc /\ base' = base
  BY <1>1 DEF mainVars
<1>12. PoolTrue'
  BY <1>1, <1>2, <1>3, <1>6, <1>8, <1>9, <1>10, <1>11 DEF PoolTrue
<1> QED
  BY <1>3, <1>12 DEF ServiceInv

LEMMA MarkDoneStep == ASSUME ServiceInv, NEW w \in DOMAIN pool, MarkDone(w) PROVE ServiceInv'
<1> DEFINE N == 0 .. base.parallel
<1>1. /\ pool[w] = "mark" /\ pool' = [pool EXCEPT ![w] = "claim"] /\ done' = done \cup {mine[w]}
      /\ UNCHANGED inputs /\ UNCHANGED sent /\ UNCHANGED mainVars /\ UNCHANGED uciVars
      /\ UNCHANGED pending /\ UNCHANGED next /\ UNCHANGED mine /\ UNCHANGED buffers
      /\ UNCHANGED emitted /\ UNCHANGED answers
  BY DEF MarkDone, WorkerGoto
<1>2. /\ w \in N /\ pc \in {"work", "emit"} /\ mode = "epd"
      /\ pool \in [N -> PoolLabels] /\ mine \in [N -> Nat]
      /\ next \in Nat \ {0} /\ Len(pending) \in Nat
      /\ DOMAIN buffers = 1 .. Len(pending) /\ done \subseteq 1 .. Len(pending)
      /\ emitted \in 0 .. Len(pending) /\ (pc = "work" => emitted = 0)
      /\ \A i \in done : buffers[i] \in LineResults(pending[i])
      /\ \A v \in N : /\ pool[v] \in {"solve", "mark"} => mine[v] \in 1 .. Len(pending)
                      /\ pool[v] = "mark" => buffers[mine[v]] \in LineResults(pending[mine[v]])
  BY <1>1, WorkerKnown
<1>3. /\ InputTrue' /\ PlacesTrue' /\ SessionTrue' /\ FileTrue' /\ SaidTrue'
      /\ \A l : LineResults(l)' = LineResults(l)
  BY <1>1, <1>2, WorkerKeeps
<1>4. done' \subseteq 1 .. Len(pending) /\ \A i \in done' : buffers[i] \in LineResults(pending[i])
  BY <1>1, <1>2
<1>5. /\ pool' \in [N -> PoolLabels] /\ pool'[w] = "claim" /\ \A v \in N : v # w => pool'[v] = pool[v]
  BY <1>1, <1>2 DEF PoolLabels
<1>6. ASSUME NEW v \in N
      PROVE  /\ pool'[v] \in {"solve", "mark"} => mine[v] \in 1 .. Len(pending)
             /\ pool'[v] = "mark" => buffers[mine[v]] \in LineResults(pending[mine[v]])
  BY <1>2, <1>5
<1>7. pc' = pc /\ base' = base
  BY <1>1 DEF mainVars
<1>8. PoolTrue'
  BY <1>1, <1>2, <1>3, <1>4, <1>5, <1>6, <1>7 DEF PoolTrue
<1> QED
  BY <1>3, <1>8 DEF ServiceInv

LEMMA WorkedAloneStep == ASSUME ServiceInv, WorkedAlone PROVE ServiceInv'
<1>1. /\ pc = "work" /\ pc' = "emit"
      /\ UNCHANGED inputs /\ UNCHANGED sent /\ UNCHANGED mode /\ UNCHANGED read
      /\ UNCHANGED sniffed /\ UNCHANGED command /\ UNCHANGED base /\ UNCHANGED uciVars
      /\ UNCHANGED chunk /\ UNCHANGED answers
  BY DEF WorkedAlone, Goto
<1>2. mode = "epd" /\ emitted = 0
  BY <1>1 DEF ServiceInv, PlacesTrue, PoolTrue
<1>3. Handled' = Handled /\ Emitted' = Emitted
  BY <1>1, <1>2 DEF Handled, Emitted, chunk
<1>4. InputTrue' /\ SaidTrue' /\ SessionTrue'
  BY <1>1, <1>2, InputKept, SaidKept, SessionIdle DEF ServiceInv, InputTrue
<1>5. FileTrue'
  BY <1>1, <1>2, <1>3, FileKept DEF ServiceInv, chunk
<1>6. PlacesTrue'
  BY <1>1, <1>2 DEF ServiceInv, PlacesTrue, inputs
<1>7. PoolTrue'
  <2>1. \A l : LineResults(l)' = LineResults(l)
    BY <1>1 DEF LineResults
  <2> QED
    BY <1>1, <1>2, <2>1 DEF ServiceInv, PoolTrue, chunk
<1> QED
  BY <1>4, <1>5, <1>6, <1>7 DEF ServiceInv

LEMMA EmitStep == ASSUME ServiceInv, Emit PROVE ServiceInv'
<1> DEFINE e == emitted
           q == Len(answers)
           h == Handled
<1>1. /\ pc = "emit" /\ e < Len(pending) /\ e + 1 \in done /\ emitted' = e + 1
      /\ answers' = Say(pending[e + 1], buffers[e + 1])
      /\ UNCHANGED inputs /\ UNCHANGED sent /\ UNCHANGED mainVars /\ UNCHANGED uciVars
      /\ UNCHANGED pending /\ UNCHANGED next /\ UNCHANGED mine /\ UNCHANGED pool
      /\ UNCHANGED buffers /\ UNCHANGED done
  BY DEF Emit
<1>2. /\ UNCHANGED mode /\ UNCHANGED read /\ UNCHANGED sniffed /\ UNCHANGED pc
      /\ UNCHANGED command /\ UNCHANGED base
  BY <1>1 DEF mainVars
<1>3. mode = "epd" /\ Emitted = e /\ Emitted' = e + 1 /\ Handled' = h
  BY <1>1, <1>2 DEF ServiceInv, PlacesTrue, Emitted, Handled
<1>4. /\ e \in 0 .. Len(pending) /\ buffers[e + 1] \in LineResults(pending[e + 1])
  BY <1>1 DEF ServiceInv, PoolTrue
<1>5. /\ pending \in Seq(FileLines) /\ \A j \in 1 .. Len(pending) : pending[j].op # "comment"
      /\ lines \in Seq(FileLines) /\ q \in 0 .. Len(Asking) /\ Len(pending) \in Nat /\ Len(Asking) \in Nat
      /\ h \in 0 .. Len(lines) /\ DOMAIN Asking = 1 .. Len(Asking)
  BY <1>3, FileKnown
<1>6. PICK w : Stands(w, pending, h, q, e)
  BY <1>3, FileKnown
<1> DEFINE i == w[e + 1]
<1>7. /\ i \in 1 .. Len(lines) /\ pending[e + 1] = lines[i]
      /\ ~IsQuestion(i) => Stands(w, pending, h, q, e + 1)
      /\ IsQuestion(i) => /\ q + 1 \in DOMAIN Asking /\ Asking[q + 1] = i
                          /\ Stands(w, pending, h, q + 1, e + 1)
  <2>1. e \in Nat
    BY <1>4, <1>5
  <2> QED
    BY <1>1, <1>5, <1>6, <2>1, StandsEmit DEF ServiceInv
<1> HIDE DEF i
<1>8. lines[i].op # "comment"
  <2>1. e + 1 \in 1 .. Len(pending)
    BY <1>1, <1>4, <1>5
  <2> QED
    BY <1>5, <1>7, <2>1
<1>9. /\ SaidTrue' /\ answers' \in Seq(AnswerRecords)
      /\ Len(answers') = IF IsQuestion(i) THEN q + 1 ELSE q
  BY <1>1, <1>2, <1>3, <1>4, <1>7, <1>8, SaysLine
<1>10. Stands(w, pending, h, Len(answers'), e + 1) /\ Len(answers') <= Len(Asking)
  BY <1>5, <1>7, <1>9
<1>11. FileTrue'
  BY <1>1, <1>2, <1>3, <1>5, <1>9, <1>10, FileTo DEF ServiceInv, FileTrue
<1>12. InputTrue' /\ SessionTrue'
  BY <1>1, <1>2, <1>3, InputKept, SessionIdle DEF ServiceInv, InputTrue
<1>13. PlacesTrue'
  BY <1>1, <1>2, <1>3 DEF ServiceInv, PlacesTrue, inputs
<1>14. PoolTrue'
  <2>1. \A l : LineResults(l)' = LineResults(l)
    BY <1>2 DEF LineResults
  <2>2. e + 1 \in 0 .. Len(pending)
    BY <1>1, <1>4, <1>5
  <2> QED
    BY <1>1, <1>2, <2>1, <2>2 DEF ServiceInv, PoolTrue
<1> QED
  BY <1>9, <1>11, <1>12, <1>13, <1>14 DEF ServiceInv

LEMMA JoinPoolStep == ASSUME ServiceInv, JoinPool PROVE ServiceInv'
<1> DEFINE q == Len(answers)
           h == Handled
<1>1. /\ pc = "emit" /\ emitted = Len(pending) /\ \A w \in DOMAIN pool : pool[w] \in {"off", "left"}
      /\ pending' = <<>> /\ pc' = "read"
      /\ UNCHANGED inputs /\ UNCHANGED sent /\ UNCHANGED mode /\ UNCHANGED read
      /\ UNCHANGED sniffed /\ UNCHANGED command /\ UNCHANGED base /\ UNCHANGED uciVars
      /\ UNCHANGED next /\ UNCHANGED mine /\ UNCHANGED pool /\ UNCHANGED answers
  BY DEF JoinPool, Goto
<1>2. mode = "epd" /\ Emitted = Len(pending) /\ Emitted' = 0 /\ Handled' = h
  BY <1>1 DEF ServiceInv, PlacesTrue, Emitted, Handled
<1>3. /\ pending \in Seq(FileLines) /\ q \in 0 .. Len(Asking) /\ h \in Nat /\ Len(Asking) \in Nat
      /\ answers \in Seq(AnswerRecords)
  BY <1>2, FileKnown
<1>4. PICK w : Stands(w, pending, h, q, Len(pending))
  BY <1>2, FileKnown
<1>5. Taken(h, q)
  BY <1>3, <1>4, StandsDone
<1>6. \E v : Stands(v, <<>>, h, q, 0)
  BY <1>3, <1>5, StandsNone
<1>7. FileTrue'
  BY <1>1, <1>2, <1>3, <1>6, FileTo
<1>8. InputTrue' /\ SaidTrue' /\ SessionTrue'
  BY <1>1, <1>2, InputKept, SaidKept, SessionIdle DEF ServiceInv, InputTrue
<1>9. PlacesTrue'
  BY <1>1, <1>2 DEF ServiceInv, PlacesTrue, inputs
<1>10. PoolTrue'
  BY <1>1 DEF ServiceInv, PoolTrue
<1> QED
  BY <1>7, <1>8, <1>9, <1>10 DEF ServiceInv

-----------------------------------------------------------------------------
\* The invariant is preserved by every step of the program and of its input.
LEMMA ServiceStep == ServiceInv /\ [ServiceNext \/ Exited]_serviceVars => ServiceInv'
<1> SUFFICES ASSUME ServiceInv, [ServiceNext \/ Exited]_serviceVars PROVE ServiceInv'
  OBVIOUS
<1>1. CASE Send
  BY <1>1, SendStep
<1>2. CASE MainStep
  BY <1>2, ForceUciStep, SniffStep, HandleAtOnceStep, HandleAfterJoinStep, HandleStopStep,
     SetPositionStep, GoStep, StoppedStep, CloseSessionStep, SkipStep, SolveNowStep, QueueStep,
     LastChunkStep, SpawnStep, WorkedAloneStep, EmitStep, JoinPoolStep DEF MainStep
<1>3. CASE SearchEnds
  BY <1>3, SearchEndsStep
<1>4. CASE Report
  BY <1>4, ReportStep
<1>5. ASSUME NEW w \in DOMAIN pool, WorkerStep(w) PROVE ServiceInv'
  BY <1>5, ClaimLineStep, SolveLineStep, MarkDoneStep DEF WorkerStep
<1>6. CASE UNCHANGED serviceVars
  <2>1. /\ UNCHANGED inputs /\ UNCHANGED uciVars /\ UNCHANGED chunk /\ UNCHANGED answers
        /\ UNCHANGED sent /\ UNCHANGED mode /\ UNCHANGED read /\ UNCHANGED sniffed /\ UNCHANGED pc
        /\ UNCHANGED command /\ UNCHANGED base
    BY <1>6 DEF serviceVars, mainVars
  <2>2. Handled' = Handled /\ Settled' = Settled /\ Emitted' = Emitted
    BY <2>1 DEF Handled, Settled, Emitted, chunk
  <2>3. InputTrue' /\ SaidTrue' /\ PoolTrue' /\ SessionTrue'
    BY <2>1, <2>2, InputKept, SaidKept, PoolKept, SessionKept DEF ServiceInv, InputTrue
  <2>4. FileTrue'
    BY <2>1, <2>2, FileKept DEF ServiceInv, chunk
  <2>5. PlacesTrue'
    BY <2>1 DEF ServiceInv, PlacesTrue, inputs
  <2> QED
    BY <2>3, <2>4, <2>5 DEF ServiceInv
<1> QED
  BY <1>1, <1>2, <1>3, <1>4, <1>5, <1>6 DEF ServiceNext, Exited

\* uci.h:74-398, mateprover.cpp:1400-1671.  In every state of the program around
\* the search the answers given are those of the first questions, the questions
\* not yet answered are the ones still queued, running or unread, and what has
\* been printed is true.
THEOREM ServiceInvariance == ServiceSpec => []ServiceInv
<1>1. ServiceInit => ServiceInv
  BY StartInv
<1>2. ServiceInv /\ [ServiceNext \/ Exited]_serviceVars => ServiceInv'
  BY ServiceStep
<1> QED
  BY <1>1, <1>2, PTL DEF ServiceSpec

\* uci.h:201-206, mateprover.cpp:1555-1565.  Whatever the threads do and whenever
\* the lines arrive, the n-th answer is about the position of the n-th question.
THEOREM AnswersAreInOrder == ServiceSpec => []AnswersInOrder
<1>1. ServiceInv => AnswersInOrder
  BY DEF ServiceInv, SaidTrue, FileTrue, AnswersInOrder
<1> QED
  BY <1>1, ServiceInvariance, PTL

\* uci.h:19-27, 318-366.  Every answer about a readable position is true of it.
THEOREM ClaimsHold == ServiceSpec => []ClaimsAreTrue
<1>1. ServiceInv => ClaimsAreTrue
  BY DEF ServiceInv, SaidTrue, ClaimsAreTrue
<1> QED
  BY <1>1, ServiceInvariance, PTL

-----------------------------------------------------------------------------
(* The portfolio answers as the program around it assumes. *)

\* Why the line reads as it does: only a limit makes a lane late, and only a
\* portfolio has a lane that the line names.
Explained ==
    /\ phase = "lanes" => \A l \in Lanes : lane[l].timedOut => "limits" \in faults
    /\ phase = "lanes" /\ ~UsesPortfolio => plan.entries = <<Unrestricted>>
    /\ line.timeout => "limits" \in faults
    /\ line.via # "none" => UsesPortfolio

\* No step of a lane makes one late without a limit, or changes the plan or the line.
LEMMA LaneExplained == ASSUME IInv, Explained, NEW l \in Lanes, LaneStep(l) PROVE Explained'
<1>1. /\ phase = "lanes" /\ phase' = phase /\ plan' = plan /\ line' = line
      /\ config' = config /\ faults' = faults
  BY DEF LaneStep, LaneFails, LaneRefutes, LaneProves, LaneTimesOut, LaneGivesUp, SplitGivesUp,
         Accept, TellLane, Searching, InSearch, job
<1>2. lane \in [Lanes -> LaneState] /\ MaxDepth \in Nat /\ lane[l] \in LaneState
  BY <1>1, LaneKnown
<1> DEFINE Timely == \A k \in Lanes : lane'[k].timedOut => lane[k].timedOut \/ "limits" \in faults
<1>3. ASSUME NEW state \in LaneState, state.timedOut = lane[l].timedOut \/ "limits" \in faults,
             lane' = [lane EXCEPT ![l] = state]
      PROVE  Timely
  BY <1>2, <1>3
<1>4. ASSUME NEW state \in LaneState, state.timedOut = lane[l].timedOut, state.depth = lane[l].depth,
             GoesOn(l, state)
      PROVE  Timely
  <2>1. PICK new \in LaneState : lane' = [lane EXCEPT ![l] = new] /\ new.timedOut = state.timedOut
    BY <1>2, <1>4, GoesOnTo
  <2> QED
    BY <1>2, <1>4, <2>1
<1>5. ASSUME LaneFails(l) PROVE Timely
  <2>1. PICK refuted \in BOOLEAN : GoesOn(l, [lane[l] EXCEPT !.refuted = refuted])
    BY <1>5 DEF LaneFails
  <2> DEFINE state == [lane[l] EXCEPT !.refuted = refuted]
  <2>2. state \in LaneState /\ state.timedOut = lane[l].timedOut /\ state.depth = lane[l].depth
    BY <1>2 DEF LaneState
  <2> QED
    BY <1>4, <2>1, <2>2
<1>6. ASSUME LaneGivesUp(l) \/ SplitGivesUp(l) PROVE Timely
  <2>1. GoesOn(l, [lane[l] EXCEPT !.gaveUp = TRUE])
    BY <1>6 DEF LaneGivesUp, SplitGivesUp
  <2> DEFINE state == [lane[l] EXCEPT !.gaveUp = TRUE]
  <2>2. state \in LaneState /\ state.timedOut = lane[l].timedOut /\ state.depth = lane[l].depth
    BY <1>2 DEF LaneState
  <2> QED
    BY <1>4, <2>1, <2>2
<1>7. ASSUME LaneRefutes(l) PROVE Timely
  <2>1. \A k \in Lanes : lane'[k].timedOut = lane[k].timedOut
    BY <1>2, <1>7 DEF LaneRefutes, LaneState
  <2> QED
    BY <2>1
<1>8. ASSUME LaneProves(l) PROVE Timely
  <2>1. \A k \in Lanes : lane'[k].timedOut = lane[k].timedOut
    BY <1>2, <1>8 DEF LaneProves, LaneState
  <2> QED
    BY <2>1
<1>9. ASSUME LaneTimesOut(l) PROVE Timely
  BY <1>9 DEF LaneTimesOut
<1>10. ASSUME Accept(l) PROVE Timely
  <2>1. \A k \in Lanes : lane'[k].timedOut = lane[k].timedOut
    BY <1>2, <1>10 DEF Accept, LaneState
  <2> QED
    BY <2>1
<1>11. ASSUME TellLane(l) PROVE Timely
  <2>1. \A k \in Lanes : lane'[k].timedOut = lane[k].timedOut
    BY <1>2, <1>11 DEF TellLane, LaneState
  <2> QED
    BY <2>1
<1>12. Timely
  BY <1>5, <1>6, <1>7, <1>8, <1>9, <1>10, <1>11 DEF LaneStep
<1> QED
  BY <1>1, <1>12 DEF Explained, Lanes, UsesPortfolio

LEMMA CallerExplained == ASSUME IInv, Explained, Caller PROVE Explained'
<1>1. config' = config /\ faults' = faults
  BY DEF Caller, Launch, Join, Enumerate, LimitAtTheHead, LimitInTheSearch, SearchRootMove, RootsDone, job
<1>2. UsesPortfolio' = UsesPortfolio
  BY <1>1 DEF UsesPortfolio
<1>3. NoLine.timeout = FALSE /\ NoLine.via = "none"
  BY DEF NoLine
<1>4. CASE Launch
  <2>1. line' = line /\ plan'.entries = Entries /\ Lanes' = 1 .. Len(Entries)
    BY <1>4 DEF Launch, Lanes
  <2>2. \A l \in Lanes' : lane'[l].timedOut = FALSE
    BY <1>4, <2>1 DEF Launch
  <2>3. ~UsesPortfolio => plan'.entries = <<Unrestricted>>
    BY <2>1 DEF Entries
  <2> QED
    BY <1>1, <1>2, <2>1, <2>2, <2>3 DEF Explained
<1>5. CASE Join
  <2>1. /\ phase = "lanes" /\ phase' = "done" /\ plan.entries[1] = Unrestricted
        /\ Lanes \subseteq Nat /\ 1 \in Lanes /\ plan.entries \in Seq(LaneEntry)
    BY <1>5 DEF Join, IInv, PhaseTrue, TypeOK, Lanes
  <2>2. CASE Pick = 0
    <3> DEFINE open == {l \in Lanes : plan.entries[l].name = "unrestricted"}
    <3>1. 1 \in open /\ open \in SUBSET Nat
      <4>1. Unrestricted.name = "unrestricted"
        BY DEF Unrestricted, PortfolioEntry
      <4>2. plan.entries[1].name = "unrestricted"
        BY <2>1, <4>1
      <4>3. 1 \in open /\ \A l \in open : l \in Nat
        BY <2>1, <4>2
      <4> HIDE DEF open
      <4> QED
        BY <4>3
    <3>2. Min(open) \in Lanes
      <4> HIDE DEF open
      <4>1. Min(open) \in open
        BY <3>1, MinIsLeast
      <4> QED
        BY <4>1 DEF open
    <3>3. line' = [NoLine EXCEPT !.refuted = lane[Min(open)].refuted, !.timeout = lane[Min(open)].timedOut]
      BY <1>5, <2>2 DEF Join, NoAnswerLine
    <3>4. line'.timeout = lane[Min(open)].timedOut /\ line'.via = "none"
      BY <3>3 DEF NoLine
    <3> HIDE DEF open
    <3> QED
      BY <1>1, <2>1, <3>2, <3>4 DEF Explained
  <2>3. CASE Pick # 0
    <3>1. line' = AnswerLine
      BY <1>5, <2>3 DEF Join
    <3>2. /\ line'.timeout = FALSE
          /\ line'.via = IF plan.entries[Pick].name = "unrestricted" THEN "none" ELSE plan.entries[Pick].name
      BY <3>1 DEF AnswerLine, NoLine
    <3>3. Pick \in Lanes
      <4>1. Provers \in SUBSET Nat /\ Provers # {} /\ Provers \subseteq Lanes
        BY <2>1, <2>3 DEF Provers, Pick
      <4> QED
        BY <4>1, MinIsLeast DEF Pick
    <3>4. ASSUME ~UsesPortfolio PROVE line'.via = "none"
      <4>1. plan.entries = <<Unrestricted>>
        BY <2>1, <3>4 DEF Explained
      <4>2. Pick = 1
        BY <3>3, <4>1 DEF Lanes
      <4> QED
        BY <2>1, <3>2, <4>2 DEF Unrestricted, PortfolioEntry
    <3> QED
      BY <1>2, <2>1, <3>2, <3>4 DEF Explained
  <2> QED
    BY <2>2, <2>3
<1>6. CASE Enumerate \/ SearchRootMove
  <2>1. line' = line /\ phase' = "roots"
    BY <1>6 DEF Enumerate, SearchRootMove
  <2> QED
    BY <1>1, <1>2, <2>1 DEF Explained
<1>7. CASE LimitAtTheHead \/ LimitInTheSearch
  <2>1. "limits" \in faults /\ phase' = "done" /\ line'.via = "none"
    BY <1>7 DEF LimitAtTheHead, LimitInTheSearch, PrintRoots, NoLine
  <2> QED
    BY <1>1, <2>1 DEF Explained
<1>8. CASE RootsDone
  <2>1. limited' = FALSE
    BY <1>8 DEF RootsDone, IInv, PhaseTrue
  <2>2. phase' = "done" /\ line'.via = "none" /\ line'.timeout = FALSE
    BY <1>8, <2>1 DEF RootsDone, PrintRoots, NoLine
  <2> QED
    BY <2>2 DEF Explained
<1> QED
  BY <1>4, <1>5, <1>6, <1>7, <1>8 DEF Caller

LEMMA AlwaysExplained == Spec => []Explained
<1>1. Init => Explained
  BY DEF Init, Explained, NoLine
<1>2. IInv /\ Explained /\ [Next \/ Done]_vars => Explained'
  <2> SUFFICES ASSUME IInv, Explained, [Next \/ Done]_vars PROVE Explained'
    OBVIOUS
  <2>1. CASE UNCHANGED vars
    BY <2>1 DEF vars, job, Explained, Lanes, UsesPortfolio
  <2>2. CASE Next
    BY <2>2, LaneExplained, CallerExplained DEF Next
  <2> QED
    BY <2>1, <2>2 DEF Done
<1> QED
  BY <1>1, <1>2, Invariance, PTL DEF Spec

\* The job is that of position p under the options c, and a limit met is that of c
\* or a stop.
JobOf(p, c, stopped) ==
    /\ MaxDepth = Depth /\ config.goal = "mate" /\ ~config.all
    /\ shortest = IF Mates(p) = {} THEN Never ELSE MateIn[p]
    /\ config.portfolio = c.portfolio /\ config.direct = c.direct /\ config.budget = c.budget
    /\ "limits" \in faults => c.budget \/ stopped

\* What parse_result_line and the reader of the line take from it.
Read ==
    IF line.accepted THEN Result("mate", line.depth, line.via # "none")
    ELSE IF line.timeout THEN Result("timeout", 0, FALSE) ELSE Result("none", 0, FALSE)

AnswersAsAssumed(p, c, stopped) ==
    phase = "done" /\ JobOf(p, c, stopped) => Read \in Results(p, c, stopped)

\* solve.h:318-321, 684-990 with uci.h:160-199.  Whatever its lanes do and however
\* they are cancelled, a portfolio prints one of the lines that the session and the
\* reader of files were shown to be right about: what Service leaves to solve_line
\* is no more than what solve_line does.
THEOREM PortfolioAnswersAsAssumed ==
    ASSUME NEW p \in Readable, NEW c \in Options, NEW stopped \in BOOLEAN
    PROVE  Spec => []AnswersAsAssumed(p, c, stopped)
<1>1. IInv /\ Explained => AnswersAsAssumed(p, c, stopped)
  <2> SUFFICES ASSUME IInv, Explained, phase = "done", JobOf(p, c, stopped)
               PROVE  Read \in Results(p, c, stopped)
    BY DEF AnswersAsAssumed
  <2>1. /\ MateIn[p] \in Nat /\ Depth \in Nat /\ Mates(p) \subseteq Nat
        /\ MaxDepth = Depth /\ shortest \in 1 .. Never
    BY ServiceAssumption, PortfolioAssumption DEF IInv, JobTrue, JobOf, Mates
  <2>2. Mates(p) # {} => Mates(p) = shortest .. MaxDepth
    BY <2>1 DEF JobOf, Mates
  <2>3. Mates(p) = {} => shortest .. MaxDepth = {}
    BY <2>1 DEF JobOf, Never
  <2>4. shortest = Never => Mates(p) = {}
    BY <2>1, <2>2 DEF JobOf, Never, Mates
  <2>5. CASE line.accepted
    <3>1. /\ line.depth \in Mates(p) /\ Mates(p) # {}
          /\ line.via = "none" /\ ~c.direct => line.depth = MateIn[p]
      BY <2>2, <2>3, <2>5 DEF IInv, AnswerIsTrue, JobOf
    <3>2. CASE line.via # "none"
      <4>1. c.budget /\ c.portfolio
        BY <3>2 DEF Explained, UsesPortfolio, JobOf
      <4>2. Read = Result("mate", line.depth, TRUE)
        BY <2>5, <3>2 DEF Read
      <4> QED
        BY <3>1, <4>1, <4>2 DEF Results
    <3>3. CASE line.via = "none"
      <4>1. Read = Result("mate", line.depth, FALSE)
        BY <2>5, <3>3 DEF Read
      <4>2. CASE c.direct
        BY <3>1, <4>1, <4>2 DEF Results
      <4>3. CASE ~c.direct
        BY <3>1, <3>3, <4>1, <4>3 DEF Results
      <4> QED
        BY <4>2, <4>3
    <3> QED
      BY <3>2, <3>3
  <2>6. CASE ~line.accepted /\ line.timeout
    <3>1. c.budget \/ stopped
      BY <2>6 DEF Explained, JobOf
    <3>2. Read = Result("timeout", 0, FALSE)
      BY <2>6 DEF Read
    <3> QED
      BY <3>1, <3>2 DEF Results
  <2>7. CASE ~line.accepted /\ ~line.timeout
    <3>1. Mates(p) = {}
      BY <2>4, <2>7 DEF IInv, SilenceIsNoMate
    <3>2. Read = Result("none", 0, FALSE)
      BY <2>7 DEF Read
    <3> QED
      BY <3>1, <3>2 DEF Results
  <2> QED
    BY <2>5, <2>6, <2>7
<1> QED
  BY <1>1, Invariance, AlwaysExplained, PTL

=============================================================================

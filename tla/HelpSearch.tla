----------------------------- MODULE HelpSearch ------------------------------
(***************************************************************************)
(* The cooperative search: prove_help, its iterative deepening              *)
(* (run_help_route), its root split two plies deep (run_help_root_split),   *)
(* and the enumeration of every line (collect_help_solutions).              *)
(*                                                                          *)
(* Both sides help, so a position at distance k is solved when SOME line of *)
(* exactly k plies ends in the goal.  A move is its index among the moves   *)
(* of its position in the order they are searched, a line is a sequence of  *)
(* such indices.  The board, the ordering, the statistics and the           *)
(* certificates are left out.                                               *)
(***************************************************************************)
EXTENDS Naturals, Sequences, SequencesExt

CONSTANTS
    Positions, Root,
    MaxDepth,       \* max_depth, in moves of each side
    Workers,        \* the threads of the split; one of them is the caller
    Caller,         \* worker 0, which runs on the calling thread
    Limit,          \* kHelpSolutionCap
    Cases,          \* [options, moves, goals, checks]: the settings and games
    Interrupts      \* subset of {"deadline", "cancel"}

Main == "main"                       \* the Search the caller passed in

ASSUME HelpAssumption ==
    /\ Root \in Positions /\ Caller \in Workers /\ Main \notin Workers
    /\ MaxDepth \in Nat \ {0} /\ Limit \in Nat \ {0}

\* Only a checking move mates: the last-ply test is set for that goal alone.
ASSUME CasesAssumption ==
    \A c \in Cases :
        /\ c.moves \in [Positions -> Seq(Positions)] /\ c.goals \subseteq Positions
        /\ "last_ply" \in c.options => c.goals \subseteq c.checks

VARIABLES
    options,        \* subset of {"threads", "shared_tt", "direct_depth", "help_bound",
                    \*            "last_ply", "sheds", "all"}
    moves,          \* the successors of each position, in order
    goals,          \* where the side to move is mated (or stalemated)
    checks,         \* where it is in check, the goals included
    lines,          \* lines[k][p]: those of exactly k plies from p to a goal
    table,          \* the tables: one per searcher, and one to share
    at,             \* what each searcher is doing
    stack,          \* its frames
    aborted,        \* Search::aborted
    timedOut,       \* Search::timed_out
    depth,          \* the iteration of the route
    phase,          \* of the route: "deepen" | "search" | "join" | "done"
    tasks,          \* the two-ply prefixes of this split
    nextIndex, best, results,      \* what its workers share
    slot,           \* WorkerSlot: the task served and the cancellation flag
    duty,           \* [task, look, hit]: the claimed task; the slots to look at, one to cancel
    sols,           \* the lines of the enumeration
    answer,         \* the line of the route, NoLine if it found none
    late, cancelled \* the clock has run out; the caller's lane was cancelled

game  == <<options, moves, goals, checks, lines>>
pool  == <<nextIndex, best, results, slot, duty>>
route == <<depth, phase, tasks, answer>>
env   == <<late, cancelled>>
vars  == <<game, table, at, stack, aborted, timedOut, pool, route, sols, env>>

Searchers == Workers \cup {Main}
Tables    == Searchers \cup {"shared"}
MaxPlies  == 2 * MaxDepth
NoLine    == <<0>>
Unknown   == <<0>>
Fail      == <<0, 0>>
Found(line) == [ok |-> TRUE, line |-> line]
Nothing   == [ok |-> FALSE, line |-> <<>>]

-----------------------------------------------------------------------------
(* The truth. *)

MovesOf(p) == 1 .. Len(moves[p])

Ending == [p \in Positions |-> IF p \in goals THEN {<<>>} ELSE {}]

\* The lines one ply longer than these.
Longer(shorter) ==
    [p \in Positions |->
        UNION {{<<m>> \o rest : rest \in shorter[moves[p][m]]} : m \in MovesOf(p)}]

Lines[k \in 0 .. MaxPlies] == IF k = 0 THEN Ending ELSE Longer(Lines[k - 1])

Solutions(plies) == lines[plies][Root]

-----------------------------------------------------------------------------
Idle == [pc |-> "idle", pos |-> Root, plies |-> 0, ret |-> Nothing]

Init ==
    /\ \E c \in Cases : options = c.options /\ moves = c.moves /\ goals = c.goals /\ checks = c.checks
    /\ lines = Lines
    /\ table = [t \in Tables |-> [p \in Positions |-> [k \in 1 .. MaxPlies |-> Unknown]]]
    /\ at = [x \in Searchers |-> Idle] /\ stack = [x \in Searchers |-> <<>>]
    /\ aborted = [x \in Searchers |-> FALSE] /\ timedOut = [x \in Searchers |-> FALSE]
    /\ depth = (IF "direct_depth" \in options THEN MaxDepth ELSE 1) /\ phase = "deepen"
    /\ tasks = <<>> /\ nextIndex = 0 /\ best = 0 /\ results = <<>>
    /\ slot = [w \in Workers |-> [current |-> 0, cancel |-> FALSE]]
    /\ duty = [w \in Workers |-> [task |-> 0, look |-> {}, hit |-> {}]]
    /\ sols = <<>> /\ answer = NoLine
    /\ late = FALSE /\ cancelled = FALSE

-----------------------------------------------------------------------------
(* prove_help, by any searcher. *)

Do(x, state) == at' = [at EXCEPT ![x] = state]
Return(x, proof) == Do(x, [at[x] EXCEPT !.pc = "return", !.ret = proof])
Enter(x, p, k) == Do(x, [pc |-> "enter", pos |-> p, plies |-> k, ret |-> Nothing])

TableOf(x) == IF x \in Workers /\ "shared_tt" \in options THEN "shared" ELSE x

SlotCancelled(x) == x \in Workers /\ slot[x].cancel

\* search_cancelled: the flags are polled, so one that stands may be missed.
Cancel(x) ==
    /\ at[x].pc = "enter"
    /\ late \/ cancelled \/ SlotCancelled(x)
    /\ \E expired \in {b \in BOOLEAN : b => late} :
         /\ ~expired => cancelled \/ SlotCancelled(x)
         /\ timedOut' = [timedOut EXCEPT ![x] = @ \/ expired]
    /\ aborted' = [aborted EXCEPT ![x] = TRUE]
    /\ Return(x, Nothing)
    /\ UNCHANGED <<game, table, stack, pool, route, sols, env>>

Says(x, proof) ==
    Return(x, proof) /\ UNCHANGED <<game, table, stack, aborted, timedOut, pool, route, sols, env>>

Proving(x) == at[x].pc = "enter" /\ (x = Main => "all" \notin options)

Leaf(x) ==
    /\ Proving(x) /\ at[x].plies = 0
    /\ Says(x, IF at[x].pos \in goals THEN Found(<<>>) ELSE Nothing)

\* mate_out_of_reach: no line this short brings the mating side close enough.
OutOfReach(p, k) ==
    "help_bound" \in options /\ \A j \in 0 .. k : lines[j][p] = {}

Prune(x) ==
    /\ Proving(x) /\ at[x].plies > 0 /\ OutOfReach(at[x].pos, at[x].plies)
    /\ Says(x, Nothing)

Entry(x) == table[TableOf(x)][at[x].pos][at[x].plies]

TableAnswers(x) ==
    /\ Proving(x) /\ at[x].plies > 0 /\ ~OutOfReach(at[x].pos, at[x].plies)
    /\ Entry(x) # Unknown
    /\ Says(x, IF Entry(x) = Fail THEN Nothing ELSE Found(Entry(x)))

\* A full table sheds entries, so one that was stored may be gone.
Open(x) ==
    /\ Proving(x) /\ at[x].plies > 0 /\ ~OutOfReach(at[x].pos, at[x].plies)
    /\ Entry(x) = Unknown \/ "sheds" \in options
    /\ stack' = [stack EXCEPT ![x] = Append(@, [pos |-> at[x].pos, plies |-> at[x].plies, move |-> 1])]
    /\ Do(x, [at[x] EXCEPT !.pc = "loop"])
    /\ UNCHANGED <<game, table, aborted, timedOut, pool, route, sols, env>>

Top(x) == Last(stack[x])
Advanced(x) == [stack EXCEPT ![x][Len(stack[x])].move = @ + 1]

\* Only a checking move can deliver the mate of the last ply.
Hopeless(x) ==
    "last_ply" \in options /\ Top(x).plies = 1 /\ moves[Top(x).pos][Top(x).move] \notin checks

HasMove(x) == at[x].pc = "loop" /\ Top(x).move \in MovesOf(Top(x).pos)

SkipMove(x) ==
    /\ HasMove(x) /\ Hopeless(x)
    /\ stack' = Advanced(x)
    /\ UNCHANGED <<game, table, at, aborted, timedOut, pool, route, sols, env>>

TryMove(x) ==
    /\ HasMove(x) /\ ~Hopeless(x)
    /\ Enter(x, moves[Top(x).pos][Top(x).move], Top(x).plies - 1)
    /\ UNCHANGED <<game, table, stack, aborted, timedOut, pool, route, sols, env>>

Store(x, entry) ==
    table' = [table EXCEPT ![TableOf(x)][Top(x).pos][Top(x).plies] = entry]

NoMoveSolves(x) ==
    /\ at[x].pc = "loop" /\ ~HasMove(x) /\ (x = Main => "all" \notin options)
    /\ Store(x, Fail)
    /\ stack' = [stack EXCEPT ![x] = Front(@)]
    /\ Return(x, Nothing)
    /\ UNCHANGED <<game, aborted, timedOut, pool, route, sols, env>>

Back(x) == at[x].pc = "return" /\ stack[x] # <<>> /\ (x = Main => "all" \notin options)

Unwind(x) ==
    /\ Back(x) /\ aborted[x]
    /\ stack' = [stack EXCEPT ![x] = Front(@)]
    /\ Return(x, Nothing)
    /\ UNCHANGED <<game, table, aborted, timedOut, pool, route, sols, env>>

MoveFails(x) ==
    /\ Back(x) /\ ~aborted[x] /\ ~at[x].ret.ok
    /\ stack' = Advanced(x)
    /\ Do(x, [at[x] EXCEPT !.pc = "loop"])
    /\ UNCHANGED <<game, table, aborted, timedOut, pool, route, sols, env>>

MoveSolves(x) ==
    LET line == <<Top(x).move>> \o at[x].ret.line IN
    /\ Back(x) /\ ~aborted[x] /\ at[x].ret.ok
    /\ Store(x, line)
    /\ stack' = [stack EXCEPT ![x] = Front(@)]
    /\ Return(x, Found(line))
    /\ UNCHANGED <<game, aborted, timedOut, pool, route, sols, env>>

Prove(x) ==
    \/ Cancel(x) \/ Leaf(x) \/ Prune(x) \/ TableAnswers(x) \/ Open(x)
    \/ SkipMove(x) \/ TryMove(x) \/ NoMoveSolves(x)
    \/ Unwind(x) \/ MoveFails(x) \/ MoveSolves(x)

-----------------------------------------------------------------------------
(* collect_help_solutions: the caller's thread, no table. *)

Collecting == "all" \in options /\ Len(sols) < Limit
Played == [i \in 1 .. Len(stack[Main]) |-> stack[Main][i].move]

CollectLeaf ==
    /\ Collecting /\ at[Main].pc = "enter" /\ at[Main].plies = 0
    /\ sols' = IF at[Main].pos \in goals THEN Append(sols, Played) ELSE sols
    /\ Return(Main, Nothing)
    /\ UNCHANGED <<game, table, stack, aborted, timedOut, pool, route, env>>

CollectOpen ==
    /\ Collecting /\ at[Main].pc = "enter" /\ at[Main].plies > 0
    /\ stack' = [stack EXCEPT ![Main] =
                    Append(@, [pos |-> at[Main].pos, plies |-> at[Main].plies, move |-> 1])]
    /\ Do(Main, [at[Main] EXCEPT !.pc = "loop"])
    /\ UNCHANGED <<game, table, aborted, timedOut, pool, route, sols, env>>

Exhausted == at[Main].pc = "loop" /\ ~HasMove(Main)
Reached   == at[Main].pc \in {"enter", "loop"} /\ Len(sols) >= Limit
GivenUp   == at[Main].pc = "return" /\ stack[Main] # <<>> /\ aborted[Main]

\* A call returns: its moves are exhausted, the cap is reached, or it was aborted.
CollectLeave ==
    /\ "all" \in options
    /\ Exhausted \/ Reached \/ GivenUp
    /\ stack' = [stack EXCEPT ![Main] = IF at[Main].pc = "enter" THEN @ ELSE Front(@)]
    /\ Return(Main, Nothing)
    /\ UNCHANGED <<game, table, aborted, timedOut, pool, route, sols, env>>

Mut_StopsAtTheFirst ==
    /\ "all" \in options /\ at[Main].pc = "return" /\ stack[Main] # <<>> /\ ~aborted[Main]
    /\ stack' = IF sols = <<>> THEN Advanced(Main) ELSE [stack EXCEPT ![Main] = Front(@)]
    /\ Do(Main, [at[Main] EXCEPT !.pc = IF sols = <<>> THEN "loop" ELSE "return"])
    /\ UNCHANGED <<game, table, aborted, timedOut, pool, route, sols, env>>

CollectNext ==
    /\ "all" \in options /\ at[Main].pc = "return" /\ stack[Main] # <<>> /\ ~aborted[Main]
    /\ stack' = Advanced(Main)
    /\ Do(Main, [at[Main] EXCEPT !.pc = "loop"])
    /\ UNCHANGED <<game, table, aborted, timedOut, pool, route, sols, env>>

Collect == CollectLeaf \/ CollectOpen \/ CollectLeave \/ CollectNext

-----------------------------------------------------------------------------
(* The route: one iteration after the other. *)

Enumerate ==
    /\ phase = "deepen" /\ "all" \in options
    /\ phase' = "search"
    /\ Enter(Main, Root, MaxPlies)
    /\ UNCHANGED <<game, table, stack, aborted, timedOut, pool, sols, env, depth, tasks, answer>>

Enumerated ==
    /\ phase = "search" /\ "all" \in options /\ at[Main].pc = "return" /\ stack[Main] = <<>>
    /\ phase' = "done"
    /\ answer' = IF sols = <<>> THEN answer ELSE Head(sols)
    /\ Do(Main, Idle)
    /\ UNCHANGED <<game, table, stack, aborted, timedOut, pool, sols, env, depth, tasks>>

Deepening == phase = "deepen" /\ "all" \notin options /\ depth <= MaxDepth

\* The route looks at the clock before it starts an iteration.
OutOfTime ==
    /\ Deepening /\ late
    /\ timedOut' = [timedOut EXCEPT ![Main] = TRUE]
    /\ phase' = "done"
    /\ UNCHANGED <<game, table, at, stack, aborted, pool, sols, env, depth, tasks, answer>>

Splits == "threads" \in options /\ depth > 1

SearchAlone ==
    /\ Deepening /\ ~late /\ ~Splits
    /\ phase' = "search"
    /\ Enter(Main, Root, 2 * depth)
    /\ UNCHANGED <<game, table, stack, aborted, timedOut, pool, sols, env, depth, tasks, answer>>

Settle(proof) ==
    \/ /\ proof.ok
       /\ answer' = proof.line /\ phase' = "done" /\ UNCHANGED depth
    \/ /\ ~proof.ok /\ (aborted[Main] \/ timedOut'[Main])
       /\ phase' = "done" /\ UNCHANGED <<depth, answer>>
    \/ /\ ~proof.ok /\ ~aborted[Main] /\ ~timedOut'[Main]
       /\ phase' = (IF depth < MaxDepth THEN "deepen" ELSE "done")
       /\ depth' = (IF depth < MaxDepth THEN depth + 1 ELSE depth)
       /\ UNCHANGED answer

SearchedAlone ==
    /\ phase = "search" /\ "all" \notin options /\ at[Main].pc = "return" /\ stack[Main] = <<>>
    /\ UNCHANGED timedOut
    /\ Settle(IF aborted[Main] THEN Nothing ELSE at[Main].ret)
    /\ Do(Main, Idle)
    /\ UNCHANGED <<game, table, stack, aborted, pool, sols, env, tasks>>

-----------------------------------------------------------------------------
(* The split: one task per pair of a root move and a reply, in order. *)

TasksOf(m) == [r \in MovesOf(moves[Root][m]) |-> <<m, r>>]

\* Those of the first m root moves.
TasksTo[m \in 0 .. Len(moves[Root])] == IF m = 0 THEN <<>> ELSE TasksTo[m - 1] \o TasksOf(m)

TaskList == TasksTo[Len(moves[Root])]
NumTasks == Len(tasks)
After(task) == moves[moves[Root][task[1]]][task[2]]

\* Without a task the split is not run at all.
StartSplit ==
    /\ Deepening /\ ~late /\ Splits
    /\ tasks' = TaskList
    /\ IF TaskList = <<>>
       THEN /\ UNCHANGED <<at, pool>>
            /\ UNCHANGED timedOut
            /\ Settle(Nothing)
       ELSE /\ nextIndex' = 0 /\ best' = Len(TaskList)
            /\ results' = [i \in 1 .. Len(TaskList) |-> Nothing]
            /\ slot' = [w \in Workers |-> [current |-> Len(TaskList), cancel |-> FALSE]]
            /\ \E started \in {S \in SUBSET Workers : Caller \in S} :
                 at' = [x \in Searchers |-> IF x \in started THEN [Idle EXCEPT !.pc = "claim"] ELSE at[x]]
            /\ phase' = "join"
            /\ UNCHANGED <<duty, depth, answer, timedOut>>
    /\ UNCHANGED <<game, table, stack, aborted, sols, env>>

Now(w, pc) == Do(w, [at[w] EXCEPT !.pc = pc])

\* Tasks are numbered from 0, as the shared counter hands them out.
Claim(w) ==
    /\ at[w].pc = "claim"
    /\ nextIndex' = nextIndex + 1
    /\ duty' = [duty EXCEPT ![w].task = nextIndex]
    /\ Now(w, IF nextIndex >= NumTasks \/ nextIndex > best \/ cancelled THEN "leave" ELSE "announce")
    /\ UNCHANGED <<game, table, stack, aborted, timedOut, best, results, slot, route, sols, env>>

Announce(w) ==
    /\ at[w].pc = "announce"
    /\ slot' = [slot EXCEPT ![w].current = duty[w].task]
    /\ Now(w, "clear")
    /\ UNCHANGED <<game, table, stack, aborted, timedOut, nextIndex, best, results, duty, route, sols, env>>

Clear(w) ==
    /\ at[w].pc = "clear"
    /\ slot' = [slot EXCEPT ![w].cancel = FALSE]
    /\ aborted' = [aborted EXCEPT ![w] = FALSE]
    /\ Now(w, "recheck")
    /\ UNCHANGED <<game, table, stack, timedOut, nextIndex, best, results, duty, route, sols, env>>

Task(w) == tasks[duty[w].task + 1]

Recheck(w) ==
    /\ at[w].pc = "recheck"
    /\ IF duty[w].task > best THEN Now(w, "claim")
       ELSE Enter(w, After(Task(w)), 2 * depth - 2)
    /\ UNCHANGED <<game, table, stack, aborted, timedOut, pool, route, sols, env>>

\* A branch that was abandoned leaves no verdict.
Judge(w) ==
    /\ at[w].pc = "return" /\ stack[w] = <<>>
    /\ Now(w, CASE timedOut[w] -> "leave"
                [] ~timedOut[w] /\ (aborted[w] \/ ~at[w].ret.ok) -> "claim"
                [] OTHER -> "record")
    /\ UNCHANGED <<game, table, stack, aborted, timedOut, pool, route, sols, env>>

Locked == \E w \in Workers : at[w].pc = "notify"

Mut_PrefixIsLost(w) ==
    /\ at[w].pc = "record" /\ ~Locked
    /\ results' = [results EXCEPT ![duty[w].task + 1] = at[w].ret]
    /\ best' = IF duty[w].task < best THEN duty[w].task ELSE best
    /\ duty' = [duty EXCEPT ![w].look = Workers]
    /\ Now(w, "notify")
    /\ UNCHANGED <<game, table, stack, aborted, timedOut, nextIndex, slot, route, sols, env>>

\* Under result_mutex, down to the last notification.
Record(w) ==
    /\ at[w].pc = "record" /\ ~Locked
    /\ results' = [results EXCEPT ![duty[w].task + 1] = Found(Task(w) \o at[w].ret.line)]
    /\ best' = IF duty[w].task < best THEN duty[w].task ELSE best
    /\ duty' = [duty EXCEPT ![w].look = Workers]
    /\ Now(w, "notify")
    /\ UNCHANGED <<game, table, stack, aborted, timedOut, nextIndex, slot, route, sols, env>>

\* Each slot is read, and only then cancelled.
Look(w) ==
    /\ at[w].pc = "notify" /\ duty[w].hit = {} /\ duty[w].look # {}
    /\ \E o \in duty[w].look :
         duty' = [duty EXCEPT ![w].look = @ \ {o},
                              ![w].hit = IF slot[o].current > best THEN {o} ELSE {}]
    /\ UNCHANGED <<game, table, at, stack, aborted, timedOut, nextIndex, best, results, slot, route, sols, env>>

CancelSlot(w) ==
    /\ at[w].pc = "notify" /\ duty[w].hit # {}
    /\ slot' = [o \in Workers |-> IF o \in duty[w].hit THEN [slot[o] EXCEPT !.cancel = TRUE] ELSE slot[o]]
    /\ duty' = [duty EXCEPT ![w].hit = {}]
    /\ UNCHANGED <<game, table, at, stack, aborted, timedOut, nextIndex, best, results, route, sols, env>>

Unlock(w) ==
    /\ at[w].pc = "notify" /\ duty[w].hit = {} /\ duty[w].look = {}
    /\ Now(w, "claim")
    /\ UNCHANGED <<game, table, stack, aborted, timedOut, pool, route, sols, env>>

Leave(w) ==
    /\ at[w].pc = "leave"
    /\ slot' = [slot EXCEPT ![w].current = NumTasks]
    /\ Do(w, Idle)
    /\ UNCHANGED <<game, table, stack, aborted, timedOut, nextIndex, best, results, duty, route, sols, env>>

Mut_TimeoutIsDropped ==
    /\ phase = "join" /\ \A w \in Workers : at[w].pc = "idle"
    /\ timedOut' = timedOut
    /\ aborted' = [x \in Searchers |-> x = Main /\ aborted[x]]
    /\ Settle(IF best < NumTasks THEN results[best + 1] ELSE Nothing)
    /\ UNCHANGED <<game, table, at, stack, pool, sols, env, tasks>>

\* The workers are joined; a limit one of them met is the route's.
Join ==
    /\ phase = "join" /\ \A w \in Workers : at[w].pc = "idle"
    /\ timedOut' = [timedOut EXCEPT ![Main] = @ \/ \E w \in Workers : timedOut[w]]
    /\ aborted' = [x \in Searchers |-> x = Main /\ aborted[x]]
    /\ Settle(IF best < NumTasks THEN results[best + 1] ELSE Nothing)
    /\ UNCHANGED <<game, table, at, stack, pool, sols, env, tasks>>

-----------------------------------------------------------------------------
Expire ==
    /\ "deadline" \in Interrupts /\ ~late /\ phase # "done"
    /\ late' = TRUE
    /\ UNCHANGED <<game, table, at, stack, aborted, timedOut, pool, route, sols, cancelled>>

\* solve_line cancels a lane when another one has an answer; an enumeration has no lane.
CancelLane ==
    /\ "cancel" \in Interrupts /\ "all" \notin options /\ ~cancelled /\ phase # "done"
    /\ cancelled' = TRUE
    /\ UNCHANGED <<game, table, at, stack, aborted, timedOut, pool, route, sols, late>>

Work(w) ==
    \/ Claim(w) \/ Announce(w) \/ Clear(w) \/ Recheck(w) \/ Judge(w)
    \/ Record(w) \/ Look(w) \/ CancelSlot(w) \/ Unlock(w) \/ Leave(w)

Route == Enumerate \/ Enumerated \/ OutOfTime \/ SearchAlone \/ SearchedAlone \/ StartSplit \/ Join

Next ==
    \/ \E x \in Searchers : Prove(x)
    \/ Collect
    \/ \E w \in Workers : Work(w)
    \/ Route
    \/ Expire \/ CancelLane

Done == phase = "done" /\ UNCHANGED vars

Spec == Init /\ [][Next \/ Done]_vars

-----------------------------------------------------------------------------
(* Properties. *)

\* routes.h:782-804.  The line the route reports is legal, ends in the goal and,
\* unless the caller asked for one length only, no shorter length has any.
AnswerIsShortest ==
    phase = "done" /\ answer # NoLine =>
        /\ answer \in Solutions(2 * (IF "all" \in options THEN MaxDepth ELSE depth))
        /\ options \cap {"direct_depth", "all"} = {} =>
               \A d \in 1 .. depth - 1 : Solutions(2 * d) = {}

\* A route that returns without a line, without a limit met and in a lane nobody
\* cancelled, says that no length up to the bound has one (solve.h:979-987: only
\* a limit is printed as such).
SilenceIsNoSolution ==
    /\ phase = "done" /\ answer = NoLine /\ ~timedOut[Main] /\ ~cancelled
    => \A d \in (IF options \cap {"direct_depth", "all"} # {} THEN {MaxDepth} ELSE 1 .. MaxDepth) :
           Solutions(2 * d) = {}

\* prove.h:1303-1334.  No line is listed twice, none is wrong, and a list below
\* the cap of a search that met no limit is complete.
EnumerationIsExact ==
    "all" \in options =>
        /\ \A i, j \in 1 .. Len(sols) : sols[i] = sols[j] => i = j
        /\ \A i \in 1 .. Len(sols) : sols[i] \in Solutions(MaxPlies)
        /\ phase = "done" /\ ~timedOut[Main] /\ Len(sols) < Limit
               => \A line \in Solutions(MaxPlies) : \E i \in 1 .. Len(sols) : sols[i] = line

=============================================================================

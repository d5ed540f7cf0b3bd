# mateprover in TLA+

A TLA+ model of *mateprover*, the C++ program that proves (or refutes) forced
mates. What the program promises is unusual: a failure is a theorem too ("no
mate within N", or "no mate at any depth"), and both kinds of answer have to
survive root-split threads, a portfolio of cooperating lanes, tables that
forget, deadlines and cancellation. The models are about exactly that.

Chess itself is not modelled. A game is an arbitrary finite graph of positions,
and the models check every such graph up to a size; the move generator is a
function of a position that no interleaving disturbs.

## The system

| part | source | state | operations | correct when |
|---|---|---|---|---|
| root split | `rootsplit.h` 243-373, 563-905 | claim counter, best index, results under a mutex, per-worker slot (current root, cancel flag) | prelude, claim, publish, re-check, search, record, cancel scan, collect | a failed depth is a disproof; the answer is the lowest recorded proof; an overtaken search is stopped |
| sub-root splitting | `prove.h` 1358-1541, 1994-2476, `rootsplit.h` 39-218 | open splits, child states, idle count, live roots, condition variable | break out, publish, claim, run, withdraw, help, compose | no child lost or run twice, no deadlock, no verdict from an abandoned child |
| exact proof table | `types.h` (`TTEntry`), `table.h`, `prooftable.h` | private, shared and cross-lane tables, line store, generations | probe, store, merge, evict, import, clear, new generation | whatever is held is true of the problem it is held for; nothing is weakened; a line is as long as its mate |
| directmate prover | `prove.h` 1560-2343 | the recursion, `aborted`, `timed_out`, the table | enter, probe, try, compose, store, unwind | a verdict is true at its depth; `refuted` is true at every depth |
| selfmate prover | `prove.h` 321-1080, `routes.h` 819-933 | as the directmate prover, and failure depths | as above, and level skipping | no level is skipped that was not disproved |
| help prover | `prove.h` 1122-1334, `routes.h` 690-816, `rootsplit.h` 406-561 | depth-keyed entries, the split's tasks, list of solutions | prove, deepen, split two plies deep, enumerate | the shortest line is found; silence is a disproof; a list is complete |
| df-pn preconditioner | `dfpn.h` | proof and disproof numbers, node budget | most-proving descent, publish disproofs, hint | zero is a verdict; a published disproof is true; it ends |
| deepening routes | `routes.h` | iteration depth, result, published bound | start a depth, publish, report | the shortest mate is reported; a published bound is a theorem |
| portfolio, `solve_line` | `solve.h` | lanes, cancel flags, winner | plan, run lanes, accept, cancel, pick, print | only an unrestricted lane disproves; one winner; the line says what was proved |
| UCI session, batch driver | `uci.h`, `mateprover.cpp` 1470-1630 | search thread, stop flag; pending results | sniff, go, stop, position, quit; ordered flush | `stop` is answered; an answer is about its question and says what was found |
| certificates | `absproof.h`, `refute.h` | node arena | build, validate | the certificate proves the verdict |
| chess rules, ordering, filters, reporting | `board.h`, `movegen.h`, `kingescape.h`, `ordering.h`, `predicate.h`, `retro.h`, `report.h` | none shared | pure functions | outside the models |

They interact through shared memory only. `main` reads lines and hands each to
`solve_line`, on the search thread of a UCI session or on a pool. `solve_line`
plans lanes; each lane is a route; a route drives a prover one depth at a time;
with threads it hands each depth to the root split, whose workers run the prover
on their own `Search`, share one proof table, and share out the nodes below a
root move when some of them are idle. Between them are a stop flag, one cancel
flag per lane and per worker, and the cross-lane table. The hard behaviour is
there: cancellation handshakes between atomics, abandoned subtrees whose empty
result looks like a failure, facts true for one lane and not for another, facts
true at one depth and not at another. `PROJECT.json` lists the hazards with
their lines.

## Modules

    ProofEntry --+-- ProofTable ------- MCProofTable
                 |       \-- ProofTableProofs
                 +-- Prover ----------- MCProver, ProverProofs
                 +-- SelfmateProver --- MCSelfmate, SelfmateProofs

    DepthSearch <- - RootSplit -------- MCRootSplit, RootSplitProofs
          ^
          + - - - -  SplitSearch ------ MCSplitSearch, SplitSearchProofs

    HelpSearch - MCHelp, HelpProofs
    Dfpn - MCDfpn, DfpnProofs
    Portfolio -+------- MCPortfolio
               \-- ServiceProofs
    Service ---+------- MCService

A line is EXTENDS, a dashed arrow a refinement.

* **DepthSearch**: what one depth promises its route. It may be interrupted; it
  answers with a key that proves; if it was not interrupted and names no key,
  none proves. Both the root split and the search with helpers implement it.
* **RootSplit**: `run_root_split_depth` and the flat split of the selfmate
  route, which differ in `SeqFirst` and `StopOnTimeout`. Each atomic access is a
  step; the slot's release stores go through a per-worker store buffer, and
  `StoreBuffering` says whether a later load may overtake them, as the code's
  release and acquire accesses allow. The history variable `overtook` records
  that a re-check was in fact executed ahead of the stores before it. The search
  below a root move is a step that answers truthfully or gives up.
* **SplitSearch**: what that step hides when nodes are shared out. A game tree is
  given, whose nodes stand for lines of play, so that each is reached one way
  (`LinesAssumption`); a worker is a stack of frames: a sequential loop (`loop`), a split it
  owns (`own`), a child it runs for another (`run`), its root move (`root`). A
  critical section of the registry's mutex is one action and each access to a
  demand counter another. `OpenNode`, `NextKid`, `BackInLoop` are the sequential
  loop, `SeeDemand` and `Share` the break-out, `OwnerClaims`, `Withdraw`,
  `LooksForWork`, `OwnerHelpsOther`, `FindsNoWork` the owner, `HelperClaims`,
  `HelperAnnounces`, `HelperLeaves` the parked worker, `ChildReturns` the end of
  `run_child`, `ComposeMoves` and `ComposeReplies` the verdict of a split. The
  root protocol is coarser than in `RootSplit`.
* **ProofEntry**: `TTEntry`, `absorb`, and the answer of a probe.
* **ProofTable**: the tables of one lane, private, shared and cross-lane, in both
  layouts. `full` and `dist` are the truth in the whole game and under the
  lane's move restriction. A table is one shard: every operation holds the
  shard's mutex and is one step. `DfpnPublish` is the preconditioner, which goes
  on writing the route's own table between split depths.
* **Prover**: `run_dfpn_route` over `prove_attacker` and `prove_defender` on one
  thread, the recursion made explicit: `arg`, `ret` and `pc` are the call in
  flight, `frame` the loops below it. `dist` is the truth, tied to the game by
  the equations `Truth`. A move that wins at once is not an edge: the position is
  in `mates`. Which untried move is next is left open, since ordering and hints
  decide it. `standsDown` is the move budget at which the bare-king axiom of a
  position stops firing: `Never` for a bare king, 0 for any other attacker, in
  between only under a capture quota.
* **SelfmateProver**: the same for `prove_selfmate_attacker`,
  `prove_selfmate_defender` and `run_selfmate_route`. A failure carries the
  depth it was proved to (`fail`), a node the least of its moves' and a defence
  one more than its answer; `DepthFails` skips what it covers. As in `Prover`,
  `dist` is tied to the game by equations. `quiet`, `bare` and
  `reach` stand for the static tests (a quiet king move, a lone king, the king
  distance bound), any that are sound for the game; `PerpetualCheck` is the
  closure `selfmate_perpetual_check` computes.
* **HelpSearch**: `prove_help`, `run_help_route`, `run_help_root_split` and
  `collect_help_solutions`. A line is the indices of its moves; the split's tasks
  are the two-ply prefixes, claimed, announced, re-checked, judged and recorded
  as in the root split, one access a step. `lines` is the truth: those of each
  length, made of the ones a ply shorter (`Longer`).
* **Dfpn**: `dfpn_attacker`, `dfpn_defender` and their selfmate twins. A key is
  position and depth; a call is entered (`GiveUp`, `AttackerWins`, ...), looks at
  its children again and again (`Conclude`, `Descend`, `Back`) and returns when
  its numbers reach its thresholds. `Put` forgets the table when it is full.
  `Wins` is the truth: who wins within each depth, from who wins within one less.
  `NextDepth` is the route's next call, with the numbers of the last one or none.
* **Portfolio**: `solve_line` for one position. `Entries`, `Threads` and `Memory`
  are the plan; a lane is seen through its route's promise (`LaneFails`,
  `LaneProves`, `LaneRefutes`, `LaneTimesOut`, `LaneGivesUp`, `SplitGivesUp`);
  `Accept`, `TellLane`, `Pick` and `NoAnswerLine` are the end of the race.
  `SearchRootMove` and its neighbours are `run_all_root_solutions`.
* **Service**: `main` and `UciSession`. The command thread is `pc`, the search
  thread `search`, the batch pool `pool`; `Send` is whoever writes to stdin. One
  `solve_line` is a step; that `Portfolio` says nothing but what `Results` allows
  is proved in `ServiceProofs`.

Each `MC` module gives the instances their sizes; `MCRootSplit` and `MCProver`
check several settings of their module in one run, the others through an
`INSTANCE` with other constants. Definitions keep the names of the functions
and fields they come from; `map` in `PROJECT.json` gives the lines of each.
Operators named `Mut_...` are deliberately wrong variants of the definition they
stand before. No specification uses them: substituted for it, each makes one
named property fail, which shows that the property depends on that code.

## Runs

| run | instance | question and answer |
|---|---|---|
| `root_split` | two threads: 3 moves, 1 of them tried first, limits, lane cancellation, and the flat split of 3 moves, both with release/acquire order; three threads: 3 moves, nothing to interrupt them, program order | No false disproof, the answer is the best recorded, no cancellation is lost and no overtaken search goes on, but where a re-check overtook its own publication; it implements `DepthSearch`. Holds. |
| `table` | 3 positions, two in one slot, depths 1-2 with 3 stores, or 1-3 with 2, both layouts | Tables, probes and lines are true, nothing is weakened and refuted entries are shed last, with imports, other lanes, the preconditioner, aborts and cleared tables. Holds. |
| `prover_games` | all games on 3 attacker and 2 defender positions without stalemates, depths 1-3, any-depth refutations, cancellation; all on 2 and 2 with a deadline, an eviction, coverage exit and a table cleared between depths | Verdicts, table, published bounds, reported depth and `refuted` are true, every step leaves less to do, and none is missing. Holds. |
| `prover_quota` | 3 and 2 positions, depths 1-3, a capture quota | Is a reported `refuted` true at any depth? Violated: the bare-king axiom then depends on the move budget. |
| `split` | 2 root moves, 3 workers, a split below a split below a reply split, four truths of the leaves, a limit | Verdicts and child states are true, no child is run twice or after its split was composed, the depth implements `DepthSearch`, everyone comes home. Holds. |
| `selfmate` | all games on 3 attacker and 2 defender positions with two moves at the root, larger ones with a stalemate, depths 1-2, three option sets, a cancellation | Verdicts, failure depths and the answer are true; no solution is skipped, in the games and options of `Exact`. Holds. |
| `selfmate_reject` | the same games, the default options | Does silence mean that there is no selfmate? Violated: a rejected move beside one that fails for good. |
| `help` | 37 games of five positions, lines of 2 and 4 plies, six settings alone and two with 2 workers | The shortest line is found, silence is a disproof, an enumeration is complete. Holds. |
| `portfolio` | 3 lanes with every truth and fault to depth 2; 1 to 9 lanes with thread and memory budgets; 3 root moves | Answer, silence, `refuted`, bounds and keys are true; lanes are cancelled only for an answer. Holds. |
| `portfolio_bounds` | the same | Is every published bound true? Violated: a lane cancelled in mid-split publishes the depth it gave up. |
| `dfpn` | 3 and 3 transposing positions, one to three depths from any first to 3, infinity 4, room for 5 keys or all, both goals, four option sets | A zero is a verdict, a published disproof is one, a search with room ends. Holds. |
| `service` | sessions of up to six commands, files of up to four lines, 1-3 threads | Answers come in order and say what was found; a GUI that waits for its answers is never left waiting. Holds. |

### What the models show

Three runs are violated; `findings` quotes the code and the comment. All were
reproduced on the built program.

* `prover_quota`: `--any-depth-refutations --captures 2:9 -z 4 --single-thread
  --no-portfolio` on `8/8/6p1/6p1/8/7K/1k6/8 w - -` prints `refuted`; without the
  first flag it finds `dm 3`. In the trace the axiom fires at depth 2 below the
  root, the refutation is composed and stored, and at depth 3 the root's entry
  answers.
* `selfmate_reject`: a selfmate move that `attacker_reject` fails without a search
  gives no failure depth (`prove.h:531`). Beside a move whose reply stalemates,
  which fails for good, the node is then disproved to every depth although the
  first move leads to a selfmate later: `--selfmate -z 3` on
  `4k3/4p1p1/Q3P1P1/8/7q/5b2/6rb/7K w - -` finds nothing, with
  `--no-attacker-reject` it finds `sfm 2`.
* `portfolio_bounds`: `--progress --time-limit 15 --threads 16` on
  `tests/mates.epd` prints `proven no solution within N` for mates in N.

Where a property had to be narrowed, or a behaviour is worth a reader's
attention, the modules showed the following. A line in brackets names the
constant or property that leaves it out.

* The lowest root move that proves is not always the one returned, though
  `rootsplit.h:240` calls the answer deterministic: a scan that has read a slot's
  old root cancels its new and lower one (`rootsplit.h:824`).
* Release stores followed by an acquire load do not close the window that
  `rootsplit.h:767` says is closed: the load may be executed first, and a
  finisher that scans in between lets the search go on to its end. `NoLostCancel`
  and `OvertakenSearchStops` show that nothing else does (`overtook`).
* In the flat layout a proof may lose its line (`table.h:236`), and the reported
  depth is read off the line: `--no-tt-lines -z 5` on
  `4K3/8/8/2R4R/k7/8/8/8 w - -` prints `dm 2` where the mate takes 3
  (`MapDepthIsTrue` is about the other layout).
* `import_from` stores where it might merge (`table.h:494`), and `run_dfpn_route`
  imports at every split depth, so entries of the shared table are weakened
  against `types.h:808` (`NothingDowngraded` leaves the import out). No verdict
  changes.
* A helper does not re-check after publishing its root move (`prove.h:2463`), so
  a cancellation can pass it by; a split below a split takes the worker's one
  place in `open_splits` (`prove.h:2227`), so helpers lose sight of the outer one;
  a reply split keeps sequence 0 (`rootsplit.h:102`), which the gate of
  `claim_any_child` lets nobody past, so no helper ever joins it. All three cost time only: `VerdictsAreTrue`,
  `ImplementsDepth` and `Termination` hold with them.
* `--selfmate-bound`, off by default, fails nodes without a failure depth too
  (`Exact`).
* A limit that strikes at the head of the loop of `run_all_root_solutions`
  (`routes.h:610`) prints the keys found so far as all of them, against the
  comment at `routes.h:632`: `--all-solutions -z 3 --node-limit N` on
  `8/2k5/8/4K1R1/8/8/6Q1/8` prints `keys 1; sound` for some N, the truth being
  three keys (`limited` in `KeysAreExact`). `collect_help_solutions` returns what
  it has in the same way (`EnumerationIsExact` is about searches that met no
  limit).
* The UCI session renders an unreadable position as `PROVED: no solution exists`
  (`uci.h:364`; `ClaimsAreTrue` is about positions that can be read), and a
  second `go` or `position` joins the running search on the command thread, so
  that a `stop` sent meanwhile is read only after it (`polite` in
  `NobodyWaitsForEver`).

### Bounds, and why they are enough

* A finisher and the worker it cancels are two actors, and two threads already
  have every interleaving of a publication, a re-check and a scan, with store
  buffers; a third thread adds a second finisher, which is checked without what
  interrupts the pool. The proofs remove the bound.
* Three positions of which two share a slot, with a capacity of one or two: the
  smallest instance in which a slot is overwritten, an eviction has a choice and
  an import meets a fact it does not know. `Layouts` bounds the verdicts in one
  behaviour, three being a disproof, a proof and a refutation of one key, and two
  with a third depth, so that an import comes after a split and what the
  preconditioner wrote since.
* Three attackers and two defenders give mates in 1, 2 and 3, transpositions,
  cycles and hopeless branches beside winning ones. `MaxDepth` bounds depths and
  mates alike: a longer mate counts as none (`Never`), which the program cannot
  tell apart within its bound. `MaxEvictions` bounds the entries forgotten.
  `MaxPly` only sizes the stack and is proved never to be exceeded.
* `split`: three workers are an owner, a helper below it that owns a split of its
  own, and a third that may join either or take the other root move; a
  split nested in a split is what the sequence gate orders.
  The four truths of the leaves let the root move fail, be refuted, be proved
  late, and be overtaken by the other.
* `selfmate`: depth 2 is the first at which a level can be skipped wrongly.
* `help`: two workers and up to four tasks; two lengths, so that a shorter one
  must be exhausted before a longer is searched. `Limit` = 3 lines is a cap that
  some games reach.
* `dfpn`: infinity is 4, so that the sum of three numbers saturates. Room for 5
  of the 24 keys makes the table forget in the middle of a search. It may then
  search for ever, as a table of 2^21 entries does not in practice: room is the
  premise of `Termination`.
* `portfolio`: three lanes are the reported one, the first to win and one that
  loses; the plans are checked on the full lists of lanes. Doubles are
  thousandths.
* `service`: six commands hold a search, what is sent while it runs, and the one
  after. `ChunkFactor` is 1 instead of 4, so that a file fills several chunks.

### Fairness

Threads run. In `MCRootSplit!MCSpec` and `SplitSearch!FairSpec` that is weak
fairness of each worker (and of its store buffer): every step is a bounded piece
of code, mutexes are held for one step, and a parked worker wakes every two
milliseconds by its own timeout. A running search polls its flags at every node
(`search_cancelled` is the first thing every node does), so a search told to stop
takes a step; how long another takes is not assumed, and the interruptions are not
fair. `Dfpn!FairSpec`: the one searching thread runs; nothing is assumed of
deadlines and cancellation. `Service!FairService`: the main
thread and the pool run, whoever writes to stdin goes on writing, and a search
ends once it is told to stop; one that is not need never end. `HelpSearch`,
`SelfmateProver` and `Portfolio` are checked for safety only. `Prover` needs no
fairness to be seen to end: `EveryStepCounts` says that each step of the search
descends in a well-founded order, and the check for deadlock that it always has
one until it is done.

## Proofs

The theorems hold for every value of the constants.

* **RootSplitProofs**. `IInv` adds to the types what each worker knows at each
  label: which moves have been handed out, searched and failed, that a recorded
  move proves, that `best_index` is the least recorded index once no worker is
  between recording and lowering, and that a `false` answer leaves no move
  unsearched or saw an interruption. From it `FalseIsDisproof`,
  `KeyIsBestRecorded` and `Refinement` (the split implements `DepthSearch`, step
  by step), with any memory order. `CancelReaches` is about any memory order as well: a
  search whose flag is missed has overtaken its own publication;
  `NothingOvertakes` adds that none does where atomics are sequentially
  consistent.
* **SplitSearchProofs**. Four layers, each inductive given those before it.
  `Fits`: the loops of a worker nest as the code nests them, and each label has
  the loop it needs. `Alone`: a node is in one worker's hands, a split is watched
  by its owner while a child of it runs, and `active` counts the children that
  run. `True`: what a loop, a split and a result say agrees with the tree, for
  searches that were not abandoned. `Served`: without an interruption every root
  move taken is answered for. `ChildrenRunOnce` needs the second, since a child
  would be run twice only if two workers held it; `VerdictsHold` the third; and
  `SplittingKeepsThePromise`, step by step, all four. The tree is any one whose
  nodes are reached one way.
* **ProofTableProofs**. Absorbing a true verdict into a true entry leaves a true
  entry, and a true entry answers truly (`AbsorbSound`, `AnswerSound`, which
  `ProverProofs` also needs and repeats). `TablesSound` is inductive once the
  types and the relation `full <= dist` are added. `NothingFalseIsHeld` and
  `ProbesTellTheTruth` cover every operation in both layouts.
  `DepthsReadOffLines` needs that over the map no proof is without its line
  (`LinesKept`). `EntriesOnlyStrengthen` and `RefutedGoesLast` are action
  properties; the second is a fact about the ranking by which `Put` sheds.
* **ProverProofs**. `Shape`: the stack is a line of play, one ply per frame, so
  it never outgrows `MaxPly`. `SearchIsTrue`: what each loop knows of the choices
  it is done with is true (tried moves fail at its depth, tried replies lose, its
  best line is long enough), and the table with its lines and the verdict in
  flight are true. `RouteIsTrue`: earlier depths failed, or the search was
  interrupted. None of the five properties is inductive alone: a verdict is true
  because the frames are, the frames because the verdicts were. Assumption:
  `AnyDepth => ~QuotaPlay`, which `prover_quota` shows to be needed.
* **SelfmateProofs**. The same argument with two depths in every failure: the one
  asked and `fail`. A loop keeps, of the moves it is done with, that they fail to
  both; a level is skipped only below a `fail` that reaches it. Failures are
  claimed, in the properties and the theorems alike, under the premise `Exact`:
  `selfmate_bound` is off, and `attacker_reject`, the default, is off or meets a
  game in which no rejected move stands beside one with a dead-end reply. The
  run `selfmate_reject` shows that the premise is needed. Claims and refutations
  need none.
* **DfpnProofs**. The truth of a key is that of its children (`Truth`, from the
  recursion of `Wins`), a minimum is zero if one child's number is, a saturating
  sum only if all are (`TotalIsZero`), and so the numbers of a node have a true
  zero when its children's have (`HereIsTrue`). The invariant adds that a node in
  its loop has moves and none that decides it (`Looping`): a minimum over nothing
  would be no verdict. The table may forget anything. It also follows that the
  thresholds handed down never underflow (`LimitsAreNumbers`).
* **ServiceProofs**. The portfolio first. `LaneTrue` follows each lane: one that still searches in
  earnest has failed every depth below its own; one that gave up was cancelled,
  so another has won; lane 0, which always runs, is done without an answer only
  if it was late, gave up, or there is no mate. The plan adds that
  lane 0 is the first unrestricted one, whatever cap orders the rest. The five invariants of
  the run follow, `KeysAreExact` from the loop's own (`RootsTrue`).
  Then the program around it. Every line dealt with has had its effect except
  the command that waits for the search (`Handled`, `Settled`); so a session has
  answered every question taken, but the last while its search runs
  (`Serves`), the running search is about the position named before its
  question, and the stop flag is up only if a stop follows it. A file may have
  many questions in hand: the pending lines stand in the order of the input
  (`Stands`), the pool keeps a result for each line marked done, and the
  questions read and not answered are the pending lines not yet printed.
  `AnswersInOrder` and `ClaimsAreTrue` need all of it (`ServiceInv`), since an
  answer is printed long after its question was read.
  Last, the two modules are tied: `Service` takes a `solve_line` to say one of
  `Results`, and `PortfolioAnswersAsAssumed` proves that a portfolio with the same
  job does (`Explained` adds to its invariant where a time-out or the name of a
  restricted lane on the line come from).
* **HelpProofs**. Five layers. `Fits`: the frames of a searcher are a path of the
  game below the position it was asked about, its task's or the root, and in each
  phase only those run who should. `SearchesTrue`: an entry of any table and a
  returned verdict are true, and the moves a frame has passed lead to no line.
  `PoolTrue`: every task handed out is in a worker's hands, has no line, or is
  excused, by an earlier task that solved, a cancelled lane or a clock that ran
  out; the caller is one of the workers, so the pool does not empty before the
  tasks are handed out. `RouteTrue`: the
  iterations that are over had no line. `EnumTrue`: while the enumeration runs,
  the lines it has listed are exactly the solutions that come before its frames
  in the order of the search. Exactness at a leaf needs that a line which follows
  the frames goes on below them (`Through`) and that a complete one is a solution
  when it ends in the goal (`PlayedSolves`).

The recursive functions are reasoned about through their equations, which a least
counterexample gives (`Recursion` in `DfpnProofs`, `HelpProofs` and `ServiceProofs`).

Constants are assumed to be what the modules' named assumptions say (positive
sizes, disjoint sets of positions, games whose moves lead to positions) and TLC
evaluates each. The inductive invariants were also checked by TLC, on the
instances of the runs (that of `SplitSearch` with two workers, of `HelpSearch`
entire).

Every invariant and every action property of a passing run is a theorem, but for
`EveryStepCounts`. What else remains with TLC is liveness, since fairness and
`ENABLED` are beyond the proof system: `OvertakenSearchStops`, `Termination` and
`NobodyWaitsForEver`. Two ties
between modules are not theorems either: that a lane of `Portfolio` does what its
route proves, and that a search of `RootSplit` or `SplitSearch` answers as
`Prover` proves, are read off the statements.

## Not modelled

* Chess rules, move ordering, candidate predicates, retrograde filters and
  reporting: pure functions with no state between calls. The games stand for the
  rules; any order is a behaviour.
* Certificates (`absproof.h`, `refute.h`): bookkeeping over verdicts.
* Variants that end a game by a quota or an escape count, and the beam: they
  change which positions are terminal, and a beam's answer is marked as a claim.
* The cost gate of the depth-first route (`routes.h` 133-156) and the
  shallow-mate route. The gate clears `s.aborted` after its probe whatever raised
  it, which is listed as a hazard.
* The sequential portfolio (`solve.h` 817-846), which no option reaches. It gives
  restricted lanes the authority to publish bounds, which would matter if it were
  revived.
* `--lane0-weight`, successor jobs, the perft, legality and certificate modes,
  and the text of options and lines.
* Lazily published reply splits and the split observers.
* Input without the argument `-`, all of which is one position (`mateprover.cpp`
  1630-1668). A first line of white space, which the sniff keeps and `Service`
  drops with the empty ones; no output depends on it.

------------------------------ MODULE RootSplit ------------------------------
(***************************************************************************)
(* One depth of the root split: run_root_split_depth (directmate,           *)
(* stalemate), run_selfmate_root_split and run_help_root_split in           *)
(* rootsplit.h.  The three share one protocol and differ in two ways the    *)
(* constants name: the directmate routine first tries SeqFirst moves alone  *)
(* ("young brothers wait at the root"), and the other two leave the pool on *)
(* a timeout instead of claiming the next move (StopOnTimeout).             *)
(*                                                                          *)
(* A root move is an index 0 .. N-1.  Whether it proves at this depth is    *)
(* the set `good', picked in Init: the recursive search below the root is a *)
(* step that answers truthfully or gives up.  Its own soundness is the      *)
(* subject of other modules, and helping at sub-root splits is              *)
(* SplitSearch's.                                                           *)
(*                                                                          *)
(* Every shared atomic is read and written in a step of its own.  A         *)
(* worker's release stores to its slot go through a store buffer: with      *)
(* StoreBuffering FALSE the buffer empties before the worker's next load,   *)
(* which is the order the source is written in; with TRUE the load may      *)
(* overtake the stores, which release/acquire permits and x86 does.         *)
(***************************************************************************)
EXTENDS Integers, FiniteSets

CONSTANTS
    N,               \* number of root moves (tasks, for the help goals)
    NumWorkers,      \* size of the worker pool
    SeqFirst,        \* root_sequential_first, already clamped to N
    StopOnTimeout,   \* the worker loop breaks on timed_out (selfmate, help)
    Limits,          \* a deadline, node limit or stop flag exists
    InLane,          \* an external_cancel flag exists (portfolio lane)
    StoreBuffering   \* slot stores may be overtaken by the next load

ASSUME NAssumption == N \in Nat \ {0}
ASSUME NumWorkersAssumption == NumWorkers \in Nat \ {0}
ASSUME SeqFirstAssumption == SeqFirst \in 0 .. N
ASSUME FlagsAssumption ==
    /\ {StopOnTimeout, Limits, InLane, StoreBuffering} \subseteq BOOLEAN
    /\ StopOnTimeout => SeqFirst = 0

Moves   == 0 .. N - 1
Workers == 0 .. NumWorkers - 1
Caller  == 0                      \* worker_body(0) runs on the calling thread
NoOne   == NumWorkers             \* result_mutex is free
NoMove  == N                      \* best_index and current_root at rest

VARIABLES
    good,           \* the root moves that prove at this depth
    phase,          \* "prelude", "split" or "returned"
    tried,          \* root moves the prelude has tried
    nextIndex,      \* next_index, the shared claim counter
    bestIndex,      \* best_index, the lowest root index proved so far
    results,        \* indices with a recorded proof
    resultMutex,    \* holder of result_mutex
    currentRoot,    \* WorkerSlot::current_root, as other threads see it
    cancel,         \* WorkerSlot::cancel, as other threads see it
    buffer,         \* stores each worker has issued that are not yet visible
    overtook,       \* history: the re-check's load went ahead of those stores
    pc,             \* where each worker is in worker_body
    claimed,        \* the local i of each worker
    scanNext,       \* position in the loop over the slots
    timedOut,       \* Search::timed_out of each worker
    externalCancel, \* *external_cancel
    verdict         \* what the call returned, and s.timed_out beside it

workerVars == <<pc, claimed, scanNext>>
slotVars   == <<currentRoot, cancel, buffer, overtook>>
sharedVars == <<nextIndex, bestIndex, results, resultMutex>>
callVars   == <<phase, tried, verdict>>
vars == <<good, callVars, sharedVars, slotVars, workerVars, timedOut,
          externalCancel>>

Pending == [found |-> FALSE, move |-> NoMove, timedOut |-> FALSE]

Init ==
    /\ good \in SUBSET Moves
    /\ phase = "prelude" /\ tried = 0
    /\ nextIndex = SeqFirst /\ bestIndex = NoMove
    /\ results = {} /\ resultMutex = NoOne
    /\ currentRoot = [w \in Workers |-> NoMove]
    /\ cancel = [w \in Workers |-> FALSE]
    /\ buffer = [w \in Workers |-> {}]
    /\ overtook = [w \in Workers |-> FALSE]
    /\ pc = [w \in Workers |-> "unstarted"]
    /\ claimed = [w \in Workers |-> NoMove]
    /\ scanNext = [w \in Workers |-> 0]
    /\ timedOut = [w \in Workers |-> FALSE]
    /\ externalCancel = FALSE
    /\ verdict = Pending

-----------------------------------------------------------------------------
(* The sequential prelude, on workers[0]. *)

TryingFirst == phase = "prelude" /\ tried < SeqFirst

PreludeProves ==
    /\ TryingFirst /\ tried \in good
    /\ phase' = "returned"
    /\ verdict' = [found |-> TRUE, move |-> tried, timedOut |-> FALSE]
    /\ UNCHANGED <<good, tried, sharedVars, slotVars, workerVars, timedOut,
                   externalCancel>>

PreludeFails ==
    /\ TryingFirst /\ tried \notin good
    /\ tried' = tried + 1
    /\ UNCHANGED <<good, phase, verdict, sharedVars, slotVars, workerVars,
                   timedOut, externalCancel>>

\* An abandoned prelude move is not tried again: the counter starts past it.
PreludeAbandons ==
    /\ TryingFirst
    /\ tried' = tried + 1
    /\ \/ externalCancel /\ UNCHANGED timedOut
       \/ Limits /\ timedOut' = [timedOut EXCEPT ![Caller] = TRUE]
    /\ UNCHANGED <<good, phase, verdict, sharedVars, slotVars, workerVars,
                   externalCancel>>

\* The OS may refuse a thread; none is asked for after a refusal.
StartPool ==
    /\ phase = "prelude" /\ tried = SeqFirst
    /\ \E last \in Workers :
         pc' = [w \in Workers |-> IF w <= last THEN "claim" ELSE "refused"]
    /\ phase' = "split"
    /\ UNCHANGED <<good, tried, verdict, sharedVars, slotVars, claimed, scanNext,
                   timedOut, externalCancel>>

-----------------------------------------------------------------------------
(* worker_body. *)

Goto(w, label) == pc' = [pc EXCEPT ![w] = label]
Drained(w)     == buffer[w] = {}

\* next_index.fetch_add, a locked operation: the buffer is empty by then.
Claim(w) ==
    /\ pc[w] = "claim" /\ Drained(w)
    /\ claimed' = [claimed EXCEPT ![w] = nextIndex]
    /\ nextIndex' = nextIndex + 1
    /\ Goto(w, IF nextIndex < N THEN "check" ELSE "leave")
    /\ overtook' = [overtook EXCEPT ![w] = FALSE]
    /\ UNCHANGED <<good, callVars, bestIndex, results, resultMutex, currentRoot,
                   cancel, buffer, scanNext, timedOut, externalCancel>>

CheckBest(w) ==
    /\ pc[w] = "check"
    /\ Goto(w, IF claimed[w] > bestIndex THEN "leave" ELSE "external")
    /\ UNCHANGED <<good, callVars, sharedVars, slotVars, claimed, scanNext,
                   timedOut, externalCancel>>

CheckExternal(w) ==
    /\ pc[w] = "external"
    /\ Goto(w, IF externalCancel THEN "leave" ELSE "publish")
    /\ UNCHANGED <<good, callVars, sharedVars, slotVars, claimed, scanNext,
                   timedOut, externalCancel>>

\* current_root.store(i) and then cancel.store(false), both release.
Publish(w) ==
    /\ pc[w] = "publish"
    /\ buffer' = [buffer EXCEPT ![w] = {"root", "clear"}]
    /\ Goto(w, "recheck")
    /\ UNCHANGED <<good, callVars, sharedVars, currentRoot, cancel, overtook,
                   claimed, scanNext, timedOut, externalCancel>>

\* Buffered stores reach memory in program order.
DrainRoot(w) ==
    /\ "root" \in buffer[w]
    /\ currentRoot' = [currentRoot EXCEPT ![w] = claimed[w]]
    /\ buffer' = [buffer EXCEPT ![w] = @ \ {"root"}]
    /\ UNCHANGED <<good, callVars, sharedVars, cancel, overtook, workerVars,
                   timedOut, externalCancel>>

DrainClear(w) ==
    /\ buffer[w] = {"clear"}
    /\ cancel' = [cancel EXCEPT ![w] = FALSE]
    /\ buffer' = [buffer EXCEPT ![w] = {}]
    /\ UNCHANGED <<good, callVars, sharedVars, currentRoot, overtook, workerVars,
                   timedOut, externalCancel>>

Mut_RecheckDropped(w) ==
    /\ pc[w] = "recheck"
    /\ StoreBuffering \/ Drained(w)
    /\ Goto(w, "search")
    /\ overtook' = [overtook EXCEPT ![w] = ~Drained(w)]
    /\ UNCHANGED <<good, callVars, sharedVars, currentRoot, cancel, buffer,
                   claimed, scanNext, timedOut, externalCancel>>

Recheck(w) ==
    /\ pc[w] = "recheck"
    /\ StoreBuffering \/ Drained(w)
    /\ Goto(w, IF claimed[w] > bestIndex THEN "claim" ELSE "search")
    /\ overtook' = [overtook EXCEPT ![w] = ~Drained(w)]
    /\ UNCHANGED <<good, callVars, sharedVars, currentRoot, cancel, buffer,
                   claimed, scanNext, timedOut, externalCancel>>

SearchProves(w) ==
    /\ pc[w] = "search" /\ claimed[w] \in good
    /\ Goto(w, "record")
    /\ UNCHANGED <<good, callVars, sharedVars, slotVars, claimed, scanNext,
                   timedOut, externalCancel>>

SearchFails(w) ==
    /\ pc[w] = "search" /\ claimed[w] \notin good
    /\ Goto(w, "claim")
    /\ UNCHANGED <<good, callVars, sharedVars, slotVars, claimed, scanNext,
                   timedOut, externalCancel>>

\* A worker sees its own buffered cancel.store(false) before it is visible.
SeesCancel(w) == cancel[w] /\ "clear" \notin buffer[w]

\* search_cancelled on the slot's flag or the lane's: aborted, not timed_out.
SearchAbandons(w) ==
    /\ pc[w] = "search"
    /\ SeesCancel(w) \/ externalCancel
    /\ Goto(w, "claim")
    /\ UNCHANGED <<good, callVars, sharedVars, slotVars, claimed, scanNext,
                   timedOut, externalCancel>>

Mut_TimeoutOnlyAborts(w) ==
    /\ pc[w] = "search" /\ Limits
    /\ Goto(w, IF StopOnTimeout THEN "leave" ELSE "claim")
    /\ UNCHANGED <<good, callVars, sharedVars, slotVars, claimed, scanNext,
                   timedOut, externalCancel>>

SearchTimesOut(w) ==
    /\ pc[w] = "search" /\ Limits
    /\ timedOut' = [timedOut EXCEPT ![w] = TRUE]
    /\ Goto(w, IF StopOnTimeout THEN "leave" ELSE "claim")
    /\ UNCHANGED <<good, callVars, sharedVars, slotVars, claimed, scanNext,
                   externalCancel>>

Mut_RecordsTheCounter(w) ==
    /\ pc[w] = "record" /\ resultMutex = NoOne /\ Drained(w)
    /\ resultMutex' = w
    /\ results' = results \cup {nextIndex}
    /\ Goto(w, "lower")
    /\ UNCHANGED <<good, callVars, nextIndex, bestIndex, slotVars, claimed,
                   scanNext, timedOut, externalCancel>>

\* lock(result_mutex); results[i] = found.
Record(w) ==
    /\ pc[w] = "record" /\ resultMutex = NoOne /\ Drained(w)
    /\ resultMutex' = w
    /\ results' = results \cup {claimed[w]}
    /\ Goto(w, "lower")
    /\ UNCHANGED <<good, callVars, nextIndex, bestIndex, slotVars, claimed,
                   scanNext, timedOut, externalCancel>>

Mut_LastWriterWins(w) ==
    /\ pc[w] = "lower"
    /\ bestIndex' = claimed[w]
    /\ scanNext' = [scanNext EXCEPT ![w] = 0]
    /\ Goto(w, "scan")
    /\ UNCHANGED <<good, callVars, nextIndex, results, resultMutex, slotVars,
                   claimed, timedOut, externalCancel>>

\* The compare-exchange loop; every writer of best_index holds the mutex.
LowerBest(w) ==
    /\ pc[w] = "lower"
    /\ bestIndex' = IF claimed[w] < bestIndex THEN claimed[w] ELSE bestIndex
    /\ scanNext' = [scanNext EXCEPT ![w] = 0]
    /\ Goto(w, "scan")
    /\ UNCHANGED <<good, callVars, nextIndex, results, resultMutex, slotVars,
                   claimed, timedOut, externalCancel>>

Mut_ScanStops(w) ==
    /\ pc[w] = "scan" /\ scanNext[w] < NumWorkers
    /\ IF currentRoot[scanNext[w]] > bestIndex
       THEN Goto(w, "cancel")
       ELSE UNCHANGED pc
    /\ UNCHANGED <<good, callVars, sharedVars, slotVars, claimed, scanNext,
                   timedOut, externalCancel>>

\* Load one slot's current_root ...
ScanSlot(w) ==
    /\ pc[w] = "scan" /\ scanNext[w] < NumWorkers
    /\ IF currentRoot[scanNext[w]] > bestIndex
       THEN Goto(w, "cancel") /\ UNCHANGED scanNext
       ELSE scanNext' = [scanNext EXCEPT ![w] = @ + 1] /\ UNCHANGED pc
    /\ UNCHANGED <<good, callVars, sharedVars, slotVars, claimed, timedOut,
                   externalCancel>>

\* ... and then store its cancel flag: two atomics, two steps.
CancelSlot(w) ==
    /\ pc[w] = "cancel"
    /\ cancel' = [cancel EXCEPT ![scanNext[w]] = TRUE]
    /\ scanNext' = [scanNext EXCEPT ![w] = @ + 1]
    /\ Goto(w, "scan")
    /\ UNCHANGED <<good, callVars, sharedVars, currentRoot, buffer, overtook,
                   claimed, timedOut, externalCancel>>

EndScan(w) ==
    /\ pc[w] = "scan" /\ scanNext[w] = NumWorkers
    /\ resultMutex' = NoOne
    /\ Goto(w, "claim")
    /\ UNCHANGED <<good, callVars, nextIndex, bestIndex, results, slotVars,
                   claimed, scanNext, timedOut, externalCancel>>

Leave(w) ==
    /\ pc[w] = "leave" /\ Drained(w)
    /\ currentRoot' = [currentRoot EXCEPT ![w] = NoMove]
    /\ Goto(w, "done")
    /\ UNCHANGED <<good, callVars, sharedVars, cancel, buffer, overtook, claimed,
                   scanNext, timedOut, externalCancel>>

-----------------------------------------------------------------------------
Mut_CollectForgetsTimeout ==
    /\ phase = "split"
    /\ \A w \in Workers : pc[w] \in {"done", "refused"}
    /\ phase' = "returned"
    /\ verdict' = [found    |-> bestIndex < N /\ bestIndex \in results,
                   move     |-> bestIndex,
                   timedOut |-> FALSE]
    /\ UNCHANGED <<good, tried, sharedVars, slotVars, workerVars, timedOut,
                   externalCancel>>

\* Join the pool, fold the workers' timed_out into s, and answer.
Collect ==
    /\ phase = "split"
    /\ \A w \in Workers : pc[w] \in {"done", "refused"}
    /\ phase' = "returned"
    /\ verdict' = [found    |-> bestIndex < N /\ bestIndex \in results,
                   move     |-> bestIndex,
                   timedOut |-> \E w \in Workers : timedOut[w]]
    /\ UNCHANGED <<good, tried, sharedVars, slotVars, workerVars, timedOut,
                   externalCancel>>

\* Another lane of the portfolio has answered.
LaneCancelled ==
    /\ InLane /\ ~externalCancel /\ phase # "returned"
    /\ externalCancel' = TRUE
    /\ UNCHANGED <<good, callVars, sharedVars, slotVars, workerVars, timedOut>>

SearchEnds(w) == SearchProves(w) \/ SearchFails(w) \/ SearchTimesOut(w)

\* A worker's own step, the end of its search excepted.
WorkerStep(w) ==
    \/ Claim(w) \/ CheckBest(w) \/ CheckExternal(w) \/ Publish(w) \/ Recheck(w)
    \/ SearchAbandons(w) \/ Record(w) \/ LowerBest(w) \/ ScanSlot(w)
    \/ CancelSlot(w) \/ EndScan(w) \/ Leave(w)

Drain(w) == DrainRoot(w) \/ DrainClear(w)

Prelude == PreludeProves \/ PreludeFails \/ PreludeAbandons \/ StartPool

\* The call is over; without this step the checker would report a deadlock.
AtRest == phase = "returned" /\ UNCHANGED vars

Next ==
    \/ Prelude
    \/ \E w \in Workers : WorkerStep(w) \/ Drain(w) \/ SearchEnds(w)
    \/ Collect
    \/ LaneCancelled
    \/ AtRest

Spec == Init /\ [][Next]_vars

\* Threads are scheduled, stores become visible, a running search polls its
\* flags at every node.  How long a search takes on its own is left open.
Scheduling ==
    /\ WF_vars(Prelude) /\ WF_vars(Collect)
    /\ \A w \in Workers : WF_vars(WorkerStep(w)) /\ WF_vars(Drain(w))

FairSpec == Spec /\ Scheduling

-----------------------------------------------------------------------------
WorkerLabels ==
    {"unstarted", "refused", "claim", "check", "external", "publish", "recheck",
     "search", "record", "lower", "scan", "cancel", "leave", "done"}

TypeOK ==
    /\ good \subseteq Moves
    /\ phase \in {"prelude", "split", "returned"}
    /\ tried \in 0 .. SeqFirst
    /\ nextIndex \in Nat /\ bestIndex \in 0 .. N
    /\ results \subseteq Moves /\ resultMutex \in 0 .. NumWorkers
    /\ currentRoot \in [Workers -> Nat]
    /\ cancel \in [Workers -> BOOLEAN]
    /\ buffer \in [Workers -> SUBSET {"root", "clear"}]
    /\ overtook \in [Workers -> BOOLEAN]
    /\ pc \in [Workers -> WorkerLabels]
    /\ claimed \in [Workers -> Nat]
    /\ scanNext \in [Workers -> 0 .. NumWorkers]
    /\ timedOut \in [Workers -> BOOLEAN]
    /\ externalCancel \in BOOLEAN
    /\ verdict \in [found : BOOLEAN, move : 0 .. N, timedOut : BOOLEAN]

Returned == phase = "returned"

\* A `false' that carries no timed_out is read as "no mate at this depth" and is
\* printed as a theorem.  It must then be one, whatever threads were refused,
\* and however claims, cancellations and scans interleaved -- unless an outer
\* portfolio cancelled the lane, which this routine reports to nobody.
NoFalseDisproof ==
    Returned /\ ~verdict.found /\ ~verdict.timedOut /\ ~externalCancel
        => good = {}

\* The move returned is one that proves, and no lower move has a proof on record.
AnswerIsBestRecorded ==
    Returned /\ verdict.found
        => /\ verdict.move \in good
           /\ \A i \in results : verdict.move <= i

\* "This closes the window where a finishing worker scanned the slots before we
\* announced this move" (run_root_split_depth): a worker still searching a move
\* that can no longer win has its flag up, or a scan that will reach it, unless
\* its re-check really was executed ahead of its own announcement, the one hole
\* release stores before an acquire load leave.
NoLostCancel ==
    \A w \in Workers :
        pc[w] = "search" /\ claimed[w] > bestIndex
            => \/ cancel[w]
               \/ \E h \in Workers : pc[h] \in {"scan", "cancel"} /\ scanNext[h] <= w
               \/ overtook[w]

\* A worker whose index can no longer win stops, even if its search never ends,
\* unless its re-check overtook its announcement: then it may run to the end.
OvertakenSearchStops ==
    \A w \in Workers :
        pc[w] = "search" /\ claimed[w] > bestIndex /\ ~overtook[w]
            ~> pc[w] # "search"

Depth == INSTANCE DepthSearch
         WITH answered    <- Returned,
              key         <- IF Returned /\ verdict.found THEN verdict.move ELSE N,
              interrupted <- externalCancel \/ \E w \in Workers : timedOut[w]

\* The split promises exactly what the abstract depth promises: the key it
\* names proves, and with no interruption a missing key is a disproof.
ImplementsDepth == Depth!Spec
=============================================================================

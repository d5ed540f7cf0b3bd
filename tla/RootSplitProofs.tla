--------------------------- MODULE RootSplitProofs ---------------------------
(***************************************************************************)
(* RootSplit, for every pool, every number of root moves and both memory    *)
(* orders: a `false' without timed_out or an outer cancellation is a        *)
(* disproof, the key returned proves, and the split implements DepthSearch. *)
(*                                                                          *)
(* The argument is that a good move which has been handed out is either     *)
(* still in some worker's hands or was let go of for a reason the caller    *)
(* can see: a proof on record, a timed-out worker, a cancelled lane.        *)
(***************************************************************************)
EXTENDS RootSplit, TLAPS

Interrupted == externalCancel \/ \E w \in Workers : timedOut[w]
Excused     == bestIndex < N \/ Interrupted

InHand == {"check", "external", "publish", "recheck", "search", "record", "lower"}

\* Moves handed out so far: by the prelude, and then by the claim counter.
HandedOut == IF phase = "prelude" THEN tried ELSE nextIndex

\* Before the pool starts nothing is shared yet.
PreludeQuiet ==
    phase = "prelude" => /\ \A w \in Workers : pc[w] = "unstarted" /\ buffer[w] = {}
                         /\ nextIndex = SeqFirst /\ bestIndex = N
                         /\ verdict = Pending

Holds(w, i) == claimed[w] = i /\ pc[w] \in InHand

\* A good move handed out is in hand, or there is an excuse.
GoodInHand ==
    verdict.found \/ Excused \/ \A i \in good :
        i < HandedOut => \E w \in Workers : Holds(w, i)

WorkerFact(w) ==
    /\ pc[w] = "cancel" => scanNext[w] < NumWorkers
    /\ pc[w] \in {"scan", "cancel"} => bestIndex < N
    /\ pc[w] \in InHand => claimed[w] \in Moves
    /\ pc[w] \in {"record", "lower"} => claimed[w] \in good
    /\ pc[w] \in {"leave", "done"} => Excused \/ nextIndex >= N
    /\ cancel[w] => bestIndex < N

WorkerFacts == \A w \in Workers : WorkerFact(w)

CallerRuns ==
    phase = "split" => /\ pc[Caller] \notin {"unstarted", "refused"}
                       /\ verdict = Pending

Lowering(w, i) == pc[w] = "lower" /\ claimed[w] = i

\* best_index is a recorded index, and no recorded index is below it but the
\* one a worker is about to compare with it.
RecordedFacts ==
    /\ results \subseteq good
    /\ bestIndex < N => bestIndex \in results
    /\ \A w \in Workers : pc[w] = "lower" => claimed[w] \in results
    /\ \A i \in results : bestIndex <= i \/ \E w \in Workers : Lowering(w, i)

AnswerFacts ==
    Returned =>
        /\ \A w \in Workers : pc[w] \in {"unstarted", "refused", "done"}
        /\ verdict.found => /\ verdict.move \in good
                            /\ \A i \in results : verdict.move <= i
        /\ ~verdict.found => good = {} \/ Interrupted
        /\ ~verdict.found /\ ~verdict.timedOut /\ ~externalCancel => good = {}

IInv ==
    /\ TypeOK
    /\ PreludeQuiet /\ GoodInHand /\ WorkerFacts /\ CallerRuns
    /\ RecordedFacts /\ AnswerFacts

-----------------------------------------------------------------------------
\* Every initial state satisfies the inductive invariant.
THEOREM InitInv == Init => IInv
<1> SUFFICES ASSUME Init PROVE IInv
  OBVIOUS
<1> USE NAssumption, NumWorkersAssumption, SeqFirstAssumption
<1>1. TypeOK
  <2> USE DEF Init, Moves, Workers, NoMove, NoOne
  <2>1. good \subseteq Moves /\ results \subseteq Moves
    OBVIOUS
  <2>2. pc \in [Workers -> WorkerLabels]
    BY DEF WorkerLabels
  <2>3. verdict \in [found : BOOLEAN, move : 0 .. N, timedOut : BOOLEAN]
    BY DEF Pending
  <2>4. buffer \in [Workers -> SUBSET {"root", "clear"}]
    OBVIOUS
  <2>5. /\ tried \in 0 .. SeqFirst /\ nextIndex \in Nat /\ bestIndex \in 0 .. N
        /\ resultMutex \in 0 .. NumWorkers
    OBVIOUS
  <2>6. phase \in {"prelude", "split", "returned"} /\ externalCancel \in BOOLEAN
    OBVIOUS
  <2>7. /\ currentRoot \in [Workers -> Nat] /\ cancel \in [Workers -> BOOLEAN]
        /\ claimed \in [Workers -> Nat] /\ scanNext \in [Workers -> 0 .. NumWorkers]
        /\ timedOut \in [Workers -> BOOLEAN] /\ overtook \in [Workers -> BOOLEAN]
    OBVIOUS
  <2> QED
    BY <2>1, <2>2, <2>3, <2>4, <2>5, <2>6, <2>7 DEF TypeOK
<1>2. PreludeQuiet /\ CallerRuns /\ RecordedFacts /\ AnswerFacts
  BY DEF Init, PreludeQuiet, CallerRuns, RecordedFacts, AnswerFacts, Returned, NoMove,
      Workers
<1>3. GoodInHand /\ WorkerFacts
  BY DEF Init, GoodInHand, HandedOut, WorkerFacts, WorkerFact, InHand, Moves
<1> QED
  BY <1>1, <1>2, <1>3 DEF IInv

\* Types.  Only Record and CancelSlot need more than the types before the step.
LEMMA TypeStep ==
  ASSUME TypeOK, WorkerFacts, [Next]_vars
  PROVE  TypeOK'
<1> USE NAssumption, NumWorkersAssumption, SeqFirstAssumption
    DEF TypeOK, Goto, callVars, sharedVars, slotVars, workerVars
<1>1. CASE PreludeProves
  BY <1>1, SMTT(30) DEF PreludeProves, TryingFirst, Moves, WorkerLabels, Workers
<1>2. CASE PreludeFails
  BY <1>2, SMTT(90) DEF PreludeFails, TryingFirst, Moves, WorkerLabels, Workers
<1>3. CASE StartPool
  <2>1. pc' \in [Workers -> WorkerLabels] /\ phase' = "split"
    BY <1>3 DEF StartPool, WorkerLabels
  <2> QED
    BY <1>3, <2>1 DEF StartPool
<1>4. CASE Collect
  <2>1. verdict' \in [found : BOOLEAN, move : 0 .. N, timedOut : BOOLEAN]
    BY <1>4 DEF Collect
  <2> QED
    BY <1>4, <2>1 DEF Collect
<1>5. CASE LaneCancelled
  BY <1>5, SMTT(30) DEF LaneCancelled, TryingFirst, Moves, WorkerLabels, Workers
<1>6. CASE PreludeAbandons
  <2>1. Caller \in Workers
    BY DEF Caller, Workers
  <2>2. timedOut' \in [Workers -> BOOLEAN]
    BY <1>6, <2>1 DEF PreludeAbandons
  <2> QED
    BY <1>6, <2>2, SMTT(30) DEF PreludeAbandons, TryingFirst
<1>7. ASSUME NEW w \in Workers, Claim(w) PROVE TypeOK'
  BY <1>7, SMTT(30) DEF Claim, WorkerLabels, NoOne, NoMove
<1>8. ASSUME NEW w \in Workers, CheckBest(w) PROVE TypeOK'
  BY <1>8, SMTT(30) DEF CheckBest, WorkerLabels, NoOne, NoMove
<1>9. ASSUME NEW w \in Workers, CheckExternal(w) PROVE TypeOK'
  BY <1>9, SMTT(30) DEF CheckExternal, WorkerLabels, NoOne, NoMove
<1>10. ASSUME NEW w \in Workers, Publish(w) PROVE TypeOK'
  BY <1>10, SMTT(30) DEF Publish, WorkerLabels, NoOne, NoMove
<1>11. ASSUME NEW w \in Workers, Recheck(w) PROVE TypeOK'
  BY <1>11, SMTT(30) DEF Recheck, WorkerLabels, NoOne, NoMove
<1>12. ASSUME NEW w \in Workers, SearchAbandons(w) PROVE TypeOK'
  BY <1>12, SMTT(30) DEF SearchAbandons, WorkerLabels, NoOne, NoMove
<1>13. ASSUME NEW w \in Workers, LowerBest(w) PROVE TypeOK'
  BY <1>13, SMTT(30) DEF LowerBest, WorkerLabels, NoOne, NoMove
<1>14. ASSUME NEW w \in Workers, ScanSlot(w) PROVE TypeOK'
  BY <1>14, SMTT(30) DEF ScanSlot, WorkerLabels, NoOne, NoMove
<1>15. ASSUME NEW w \in Workers, EndScan(w) PROVE TypeOK'
  BY <1>15, SMTT(30) DEF EndScan, WorkerLabels, NoOne, NoMove
<1>16. ASSUME NEW w \in Workers, Leave(w) PROVE TypeOK'
  BY <1>16, SMTT(30) DEF Leave, WorkerLabels, NoOne, NoMove
<1>17. ASSUME NEW w \in Workers, DrainRoot(w) PROVE TypeOK'
  BY <1>17, SMTT(30) DEF DrainRoot, WorkerLabels, NoOne, NoMove
<1>18. ASSUME NEW w \in Workers, DrainClear(w) PROVE TypeOK'
  BY <1>18, SMTT(30) DEF DrainClear, WorkerLabels, NoOne, NoMove
<1>19. ASSUME NEW w \in Workers, SearchProves(w) PROVE TypeOK'
  BY <1>19, SMTT(30) DEF SearchProves, WorkerLabels, NoOne, NoMove
<1>20. ASSUME NEW w \in Workers, SearchFails(w) PROVE TypeOK'
  BY <1>20, SMTT(30) DEF SearchFails, WorkerLabels, NoOne, NoMove
<1>21. ASSUME NEW w \in Workers, SearchTimesOut(w) PROVE TypeOK'
  BY <1>21, SMTT(30) DEF SearchTimesOut, WorkerLabels, NoOne, NoMove
<1>22. ASSUME NEW w \in Workers, Record(w) PROVE TypeOK'
  <2>1. claimed[w] \in Moves
    BY <1>22 DEF WorkerFacts, WorkerFact, InHand, Record
  <2> QED
    BY <1>22, <2>1, SMTT(30) DEF Record, WorkerLabels, Workers, NoOne
<1>23. ASSUME NEW w \in Workers, CancelSlot(w) PROVE TypeOK'
  <2>1. scanNext[w] \in Workers
    BY <1>23 DEF WorkerFacts, WorkerFact, CancelSlot, Workers
  <2> QED
    BY <1>23, <2>1, SMTT(90) DEF CancelSlot, WorkerLabels, Workers
<1>24. CASE UNCHANGED vars
  BY <1>24 DEF vars
<1> QED
  BY <1>1, <1>2, <1>3, <1>4, <1>5, <1>6, <1>7, <1>8, <1>9, <1>10, <1>11,
     <1>12, <1>13, <1>14, <1>15, <1>16, <1>17, <1>18, <1>19, <1>20, <1>21,
     <1>22, <1>23, <1>24
  DEF Next, Prelude, WorkerStep, Drain, SearchEnds, AtRest

\* Nothing a disproof is excused by is ever taken back.
LEMMA Monotone ==
  ASSUME TypeOK, [Next]_vars
  PROVE  /\ good' = good
         /\ bestIndex' \in 0 .. N /\ bestIndex' <= bestIndex
         /\ nextIndex \in Nat /\ nextIndex' \in Nat /\ nextIndex <= nextIndex'
         /\ results \subseteq results'
         /\ externalCancel => externalCancel'
         /\ \A w \in Workers : timedOut[w] => timedOut'[w]
  BY NAssumption, NumWorkersAssumption, SeqFirstAssumption, SMTT(60)
  DEF TypeOK, Moves, Next, Prelude, TryingFirst, PreludeProves, PreludeFails,
      PreludeAbandons, StartPool, Collect, LaneCancelled, AtRest, WorkerStep, Drain,
      SearchEnds, Claim, CheckBest, CheckExternal, Publish, Recheck, SearchAbandons,
      Record, LowerBest, ScanSlot, CancelSlot, EndScan, Leave, DrainRoot,
      DrainClear, SearchProves, SearchFails, SearchTimesOut, Goto, Drained, vars,
      callVars, sharedVars, slotVars, workerVars

\* So an excuse, once there, stays.
LEMMA ExcuseStays ==
  ASSUME TypeOK, [Next]_vars
  PROVE  (Interrupted => Interrupted') /\ (Excused => Excused')
  BY Monotone, NAssumption DEF Excused, Interrupted, TypeOK

\* A step of one worker moves no other worker.
LEMMA OthersKeep ==
  ASSUME TypeOK, NEW w \in Workers, WorkerStep(w) \/ Drain(w) \/ SearchEnds(w),
         NEW v \in Workers, v # w
  PROVE  pc'[v] = pc[v] /\ claimed'[v] = claimed[v] /\ scanNext'[v] = scanNext[v]
  BY SMTT(60)
  DEF TypeOK, WorkerStep, Drain, SearchEnds, Claim, CheckBest, CheckExternal,
      Publish, Recheck, SearchAbandons, Record, LowerBest, ScanSlot, CancelSlot,
      EndScan, Leave, DrainRoot, DrainClear, SearchProves, SearchFails,
      SearchTimesOut, Goto, vars, callVars, sharedVars, slotVars, workerVars

\* Workers run only once the prelude is over, and leave the caller's state alone.
LEMMA WorkerRuns ==
  ASSUME TypeOK, PreludeQuiet, NEW w \in Workers, WorkerStep(w) \/ Drain(w) \/ SearchEnds(w)
  PROVE  /\ phase # "prelude" /\ UNCHANGED <<phase, tried, verdict>>
         /\ pc'[w] \notin {"unstarted", "refused"} \/ pc'[w] = pc[w]
<1>1. UNCHANGED <<phase, tried, verdict>>
  BY SMTT(30)
  DEF TypeOK, WorkerStep, Drain, SearchEnds, Claim, CheckBest, CheckExternal,
      Publish, Recheck, SearchAbandons, Record, LowerBest, ScanSlot, CancelSlot,
      EndScan, Leave, DrainRoot, DrainClear, SearchProves, SearchFails,
      SearchTimesOut, Goto, vars, callVars, sharedVars, slotVars, workerVars
<1>2. pc[w] # "unstarted" \/ buffer[w] # {}
  BY SMTT(30)
  DEF TypeOK, WorkerStep, Drain, SearchEnds, Claim, CheckBest, CheckExternal,
      Publish, Recheck, SearchAbandons, Record, LowerBest, ScanSlot, CancelSlot,
      EndScan, Leave, DrainRoot, DrainClear, SearchProves, SearchFails,
      SearchTimesOut, Goto, vars, callVars, sharedVars, slotVars, workerVars
<1>3. pc'[w] \notin {"unstarted", "refused"} \/ pc'[w] = pc[w]
  BY SMTT(60)
  DEF TypeOK, WorkerStep, Drain, SearchEnds, Claim, CheckBest, CheckExternal,
      Publish, Recheck, SearchAbandons, Record, LowerBest, ScanSlot, CancelSlot,
      EndScan, Leave, DrainRoot, DrainClear, SearchProves, SearchFails,
      SearchTimesOut, Goto, vars, callVars, sharedVars, slotVars, workerVars
<1> QED
  BY <1>1, <1>2, <1>3 DEF PreludeQuiet

\* The prelude ends before the pool starts, and the caller always runs.
LEMMA QuietStep ==
  ASSUME TypeOK, PreludeQuiet, CallerRuns, [Next]_vars
  PROVE  PreludeQuiet' /\ CallerRuns'
<1> USE NAssumption, NumWorkersAssumption, SeqFirstAssumption
<1>1. CASE Prelude
  BY <1>1, SMTT(90)
  DEF TypeOK, PreludeQuiet, CallerRuns, Workers, Caller, Prelude, TryingFirst,
      PreludeProves, PreludeFails, PreludeAbandons, StartPool, sharedVars, slotVars,
      workerVars
<1>2. ASSUME NEW w \in Workers, WorkerStep(w) \/ Drain(w) \/ SearchEnds(w)
      PROVE  PreludeQuiet' /\ CallerRuns'
  <2>1. Caller \in Workers
    BY DEF Caller, Workers
  <2> QED
    BY <1>2, <2>1, WorkerRuns, OthersKeep DEF PreludeQuiet, CallerRuns
<1>3. CASE Collect \/ LaneCancelled \/ UNCHANGED vars
  BY <1>3
  DEF PreludeQuiet, CallerRuns, Collect, LaneCancelled, vars, callVars, sharedVars,
      slotVars, workerVars
<1> QED
  BY <1>1, <1>2, <1>3 DEF Next, AtRest

\* A flag is only raised while a proof is on record.
LEMMA CancelStep ==
  ASSUME IInv, [Next]_vars, NEW v \in Workers, cancel'[v]
  PROVE  bestIndex' < N
<1>1. cancel[v] => bestIndex < N
  BY DEF IInv, WorkerFacts, WorkerFact
<1>2. cancel[v] \/ \E w \in Workers : CancelSlot(w)
  BY SMTT(60)
  DEF IInv, TypeOK, Next, Prelude, TryingFirst, PreludeProves, PreludeFails,
      PreludeAbandons, StartPool, Collect, LaneCancelled, AtRest, WorkerStep, Drain,
      SearchEnds, Claim, CheckBest, CheckExternal, Publish, Recheck, SearchAbandons,
      Record, LowerBest, ScanSlot, CancelSlot, EndScan, Leave, DrainRoot,
      DrainClear, SearchProves, SearchFails, SearchTimesOut, Goto, Drained, vars,
      callVars, sharedVars, slotVars, workerVars
<1>3. ASSUME NEW w \in Workers, CancelSlot(w) PROVE bestIndex < N
  BY <1>3 DEF IInv, WorkerFacts, WorkerFact, CancelSlot
<1> QED
  BY <1>1, <1>2, <1>3, Monotone, NAssumption DEF IInv, TypeOK

\* Each worker's own facts: what it holds, and why it left.
LEMMA WorkerFactStep ==
  ASSUME IInv, [Next]_vars, NEW v \in Workers
  PROVE  WorkerFact(v)'
<1> USE NAssumption, NumWorkersAssumption, SeqFirstAssumption
<1>1. TypeOK /\ WorkerFact(v)
  BY DEF IInv, WorkerFacts
<1>2. ASSUME NEW w \in Workers, WorkerStep(w) \/ Drain(w) \/ SearchEnds(w)
      PROVE  WorkerFact(v)'
  <2>1. CASE v # w
    BY <1>1, <1>2, <2>1, OthersKeep, Monotone, ExcuseStays, CancelStep
    DEF WorkerFact, InHand, TypeOK
  <2>2. CASE v = w
    <3>1. (pc[v] = "cancel" => scanNext[v] < NumWorkers)'
      BY <1>1, <1>2, <2>2, SMTT(60)
      DEF TypeOK, WorkerFact, WorkerStep, Drain, SearchEnds, Claim, CheckBest,
          CheckExternal, Publish, Recheck, SearchAbandons, Record, LowerBest,
          ScanSlot, CancelSlot, EndScan, Leave, DrainRoot, DrainClear, SearchProves,
          SearchFails, SearchTimesOut, Goto, vars, callVars, sharedVars, slotVars,
          workerVars
    <3>2. (pc[v] \in {"scan", "cancel"} => bestIndex < N)'
      BY <1>1, <1>2, <2>2, SMTT(60)
      DEF TypeOK, WorkerFact, InHand, Moves, WorkerStep, Drain, SearchEnds, Claim,
          CheckBest, CheckExternal, Publish, Recheck, SearchAbandons, Record,
          LowerBest, ScanSlot, CancelSlot, EndScan, Leave, DrainRoot, DrainClear,
          SearchProves, SearchFails, SearchTimesOut, Goto, vars, callVars,
          sharedVars, slotVars, workerVars
    <3>3. (pc[v] \in InHand => claimed[v] \in Moves)'
      BY <1>1, <1>2, <2>2, SMTT(60)
      DEF TypeOK, WorkerFact, InHand, Moves, WorkerStep, Drain, SearchEnds, Claim,
          CheckBest, CheckExternal, Publish, Recheck, SearchAbandons, Record,
          LowerBest, ScanSlot, CancelSlot, EndScan, Leave, DrainRoot, DrainClear,
          SearchProves, SearchFails, SearchTimesOut, Goto, vars, callVars,
          sharedVars, slotVars, workerVars
    <3>4. (pc[v] \in {"record", "lower"} => claimed[v] \in good)'
      BY <1>1, <1>2, <2>2, SMTT(60)
      DEF TypeOK, WorkerFact, WorkerStep, Drain, SearchEnds, Claim, CheckBest,
          CheckExternal, Publish, Recheck, SearchAbandons, Record, LowerBest,
          ScanSlot, CancelSlot, EndScan, Leave, DrainRoot, DrainClear, SearchProves,
          SearchFails, SearchTimesOut, Goto, vars, callVars, sharedVars, slotVars,
          workerVars
    <3>5. (pc[v] \in {"leave", "done"} => Excused \/ nextIndex >= N)'
      BY <1>1, <1>2, <2>2, SMTT(60)
      DEF TypeOK, WorkerFact, Excused, Interrupted, InHand, SeesCancel, Moves,
          WorkerStep, Drain, SearchEnds, Claim, CheckBest, CheckExternal, Publish,
          Recheck, SearchAbandons, Record, LowerBest, ScanSlot, CancelSlot, EndScan,
          Leave, DrainRoot, DrainClear, SearchProves, SearchFails, SearchTimesOut,
          Goto, vars, callVars, sharedVars, slotVars, workerVars
    <3> QED
      BY <3>1, <3>2, <3>3, <3>4, <3>5, CancelStep DEF WorkerFact
  <2> QED
    BY <2>1, <2>2
<1>3. CASE Prelude
  BY <1>1, <1>3, CancelStep, SMTT(30)
  DEF IInv, PreludeQuiet, WorkerFact, InHand, Prelude, TryingFirst, PreludeProves,
      PreludeFails, PreludeAbandons, StartPool, sharedVars, slotVars, workerVars
<1>4. CASE Collect \/ LaneCancelled \/ UNCHANGED vars
  BY <1>1, <1>4, ExcuseStays, CancelStep
  DEF WorkerFact, InHand, Collect, LaneCancelled, vars, callVars, sharedVars,
      slotVars, workerVars
<1> QED
  BY <1>2, <1>3, <1>4 DEF Next, AtRest

\* The heart of the argument: a worker lets a good move go only with an excuse.
LEMMA HolderStep ==
  ASSUME IInv, [Next]_vars, NEW v \in Workers, NEW i \in good, Holds(v, i)
  PROVE  Holds(v, i)' \/ Excused'
<1> USE NAssumption, NumWorkersAssumption
<1>1. TypeOK /\ WorkerFact(v)
  BY DEF IInv, WorkerFacts
<1>2. ASSUME NEW w \in Workers, WorkerStep(w) \/ Drain(w) \/ SearchEnds(w)
      PROVE  Holds(v, i)' \/ Excused'
  <2>1. CASE v # w
    BY <1>1, <1>2, <2>1, OthersKeep DEF Holds, InHand
  <2>2. CASE v = w
    BY <1>1, <1>2, <2>2, SMTT(60)
    DEF TypeOK, WorkerFact, Holds, Excused, Interrupted, InHand, SeesCancel, Moves,
        WorkerStep, Drain, SearchEnds, Claim, CheckBest, CheckExternal, Publish,
        Recheck, SearchAbandons, Record, LowerBest, ScanSlot, CancelSlot, EndScan,
        Leave, DrainRoot, DrainClear, SearchProves, SearchFails, SearchTimesOut,
        Goto, vars, callVars, sharedVars, slotVars, workerVars
  <2> QED
    BY <2>1, <2>2
<1>3. CASE Prelude
  BY <1>3
  DEF IInv, PreludeQuiet, Holds, InHand, Prelude, TryingFirst, PreludeProves,
      PreludeFails, PreludeAbandons, StartPool
<1>4. CASE Collect \/ LaneCancelled \/ UNCHANGED vars
  BY <1>4
  DEF Holds, Collect, LaneCancelled, vars, callVars, sharedVars, slotVars,
      workerVars
<1> QED
  BY <1>2, <1>3, <1>4 DEF Next, AtRest

\* A move not handed out before is in the claiming worker's hands.
LEMMA GoodInHandStep ==
  ASSUME IInv, [Next]_vars
  PROVE  GoodInHand'
<1> USE NAssumption, NumWorkersAssumption, SeqFirstAssumption
<1>1. SUFFICES ASSUME ~verdict'.found, ~Excused', NEW i \in good, i < HandedOut'
               PROVE  \E w \in Workers : Holds(w, i)'
  BY Monotone DEF GoodInHand, IInv
<1>2. ~Excused
  BY <1>1, ExcuseStays DEF IInv
<1>3. ~verdict.found
  BY <1>1, SMTT(30)
  DEF IInv, TypeOK, PreludeQuiet, CallerRuns, AnswerFacts, Pending, Returned, Next,
      Prelude, TryingFirst, PreludeProves, PreludeFails, PreludeAbandons, StartPool,
      Collect, LaneCancelled, AtRest, WorkerStep, Drain, SearchEnds, Claim,
      CheckBest, CheckExternal, Publish, Recheck, SearchAbandons, Record, LowerBest,
      ScanSlot, CancelSlot, EndScan, Leave, DrainRoot, DrainClear, SearchProves,
      SearchFails, SearchTimesOut, Goto, Drained, vars, callVars, sharedVars,
      slotVars, workerVars
<1>4. CASE i < HandedOut
  <2>1. PICK w \in Workers : Holds(w, i)
    BY <1>2, <1>3, <1>4 DEF IInv, GoodInHand
  <2> QED
    BY <1>1, <2>1, HolderStep
<1>5. CASE ~(i < HandedOut)
  <2>1. ~Prelude
    BY <1>1, <1>5, Monotone, SMTT(120)
    DEF IInv, TypeOK, PreludeQuiet, HandedOut, Excused, Interrupted, Moves, Caller,
        Workers, Prelude, TryingFirst, PreludeProves, PreludeFails, PreludeAbandons,
        StartPool, Pending, sharedVars
  <2>2. ASSUME NEW w \in Workers, WorkerStep(w) \/ Drain(w) \/ SearchEnds(w)
        PROVE  \E v \in Workers : Holds(v, i)'
    <3>1. HandedOut = nextIndex
      BY <2>2, WorkerRuns DEF HandedOut, IInv
    <3>2. HandedOut' = nextIndex'
      BY <2>2, WorkerRuns DEF HandedOut, IInv
    <3>3. Claim(w) /\ i = nextIndex
      BY <1>1, <1>5, <2>2, <3>1, <3>2, SMTT(30)
      DEF IInv, TypeOK, Moves, WorkerStep, Drain, SearchEnds, Claim, CheckBest,
          CheckExternal, Publish, Recheck, SearchAbandons, Record, LowerBest,
          ScanSlot, CancelSlot, EndScan, Leave, DrainRoot, DrainClear, SearchProves,
          SearchFails, SearchTimesOut, Goto, vars, callVars, sharedVars, slotVars,
          workerVars
    <3> QED
      BY <3>3 DEF Claim, Holds, InHand, Goto, IInv, TypeOK, Moves
  <2>3. CASE Collect \/ LaneCancelled \/ UNCHANGED vars
    BY <1>1, <1>5, <2>3
    DEF HandedOut, Collect, LaneCancelled, IInv, PreludeQuiet, vars, callVars,
        sharedVars, slotVars, workerVars
  <2> QED
    BY <2>1, <2>2, <2>3 DEF Next, AtRest
<1> QED
  BY <1>4, <1>5

\* best_index stays the lowest recorded index, but for the one being compared.
LEMMA RecordedStep ==
  ASSUME IInv, [Next]_vars
  PROVE  RecordedFacts'
<1> USE NAssumption, NumWorkersAssumption, SeqFirstAssumption
<1>1. TypeOK /\ RecordedFacts
  BY DEF IInv
<1>2. ASSUME NEW w \in Workers, Record(w) PROVE RecordedFacts'
  <2>1. claimed[w] \in good /\ Lowering(w, claimed[w])'
    BY <1>1, <1>2
    DEF IInv, WorkerFacts, WorkerFact, Record, Lowering, Goto, TypeOK
  <2>2. \A v \in Workers, i \in results : Lowering(v, i) => Lowering(v, i)'
    BY <1>1, <1>2 DEF Record, Lowering, Goto, TypeOK
  <2> QED
    BY <1>1, <1>2, <2>1, <2>2 DEF RecordedFacts, Record, Goto, TypeOK
<1>3. ASSUME NEW w \in Workers, LowerBest(w) PROVE RecordedFacts'
  <2>1. claimed[w] \in results /\ claimed[w] \in Nat
    BY <1>1, <1>3 DEF RecordedFacts, LowerBest, TypeOK
  <2>2. \A v \in Workers, i \in results :
           Lowering(v, i) => Lowering(v, i)' \/ i = claimed[w]
    BY <1>1, <1>3 DEF LowerBest, Lowering, Goto, TypeOK
  <2>3. bestIndex' <= claimed[w] /\ bestIndex' <= bestIndex
    BY <1>1, <1>3, <2>1 DEF LowerBest, TypeOK
  <2>4. \A i \in results : bestIndex' <= i \/ \E v \in Workers : Lowering(v, i)'
    <3> SUFFICES ASSUME NEW i \in results, ~(bestIndex' <= i)
                 PROVE  \E v \in Workers : Lowering(v, i)'
      OBVIOUS
    <3>1. i \in Nat /\ ~(bestIndex <= i) /\ i # claimed[w]
      BY <1>1, <1>3, <2>3, Monotone DEF TypeOK, Moves
    <3>2. PICK v \in Workers : Lowering(v, i)
      BY <1>1, <3>1 DEF RecordedFacts
    <3> QED
      BY <2>2, <3>1, <3>2
  <2> QED
    BY <1>1, <1>3, <2>1, <2>4 DEF RecordedFacts, LowerBest, Goto, TypeOK
<1>4. ASSUME NEW w \in Workers,
             \/ Claim(w) \/ CheckBest(w) \/ CheckExternal(w) \/ Publish(w) \/ Recheck(w)
             \/ SearchAbandons(w) \/ ScanSlot(w) \/ CancelSlot(w) \/ EndScan(w)
             \/ Leave(w) \/ DrainRoot(w) \/ DrainClear(w)
             \/ SearchProves(w) \/ SearchFails(w) \/ SearchTimesOut(w)
      PROVE  RecordedFacts'
  <2>1. /\ good' = good /\ results' = results /\ bestIndex' = bestIndex
        /\ pc[w] = "lower" <=> pc'[w] = "lower"
    BY <1>1, <1>4, SMTT(30)
    DEF TypeOK, Claim, CheckBest, CheckExternal, Publish, Recheck, SearchAbandons,
        ScanSlot, CancelSlot, EndScan, Leave, DrainRoot, DrainClear, SearchProves,
        SearchFails, SearchTimesOut, Goto, sharedVars, slotVars, workerVars
  <2>2. \A v \in Workers, i \in results : Lowering(v, i) => Lowering(v, i)'
    BY <1>1, <1>4, <2>1, SMTT(30)
    DEF Lowering, TypeOK, Claim, CheckBest, CheckExternal, Publish, Recheck,
        SearchAbandons, ScanSlot, CancelSlot, EndScan, Leave, DrainRoot, DrainClear,
        SearchProves, SearchFails, SearchTimesOut, Goto, sharedVars, slotVars,
        workerVars
  <2>3. \A v \in Workers : pc'[v] = "lower" => pc[v] = "lower" /\ claimed'[v] = claimed[v]
    BY <1>1, <1>4, <2>1, SMTT(30)
    DEF Lowering, TypeOK, Claim, CheckBest, CheckExternal, Publish, Recheck,
        SearchAbandons, ScanSlot, CancelSlot, EndScan, Leave, DrainRoot, DrainClear,
        SearchProves, SearchFails, SearchTimesOut, Goto, sharedVars, slotVars,
        workerVars
  <2>4. (\A v \in Workers : pc[v] = "lower" => claimed[v] \in results)'
    BY <1>1, <2>1, <2>3 DEF RecordedFacts
  <2>5. (\A i \in results :
           bestIndex <= i \/ \E v \in Workers : Lowering(v, i))'
    BY <1>1, <2>1, <2>2 DEF RecordedFacts
  <2> QED
    BY <1>1, <2>1, <2>4, <2>5 DEF RecordedFacts
<1>5. CASE Prelude \/ Collect \/ LaneCancelled \/ UNCHANGED vars
  BY <1>1, <1>5, SMTT(30)
  DEF RecordedFacts, Lowering, IInv, PreludeQuiet, Prelude, TryingFirst,
      PreludeProves, PreludeFails, PreludeAbandons, StartPool, Collect,
      LaneCancelled, vars, callVars, sharedVars, slotVars, workerVars
<1> QED
  BY <1>2, <1>3, <1>4, <1>5 DEF Next, AtRest, WorkerStep, Drain, SearchEnds

\* The answer Collect gives, and the prelude's; afterwards nothing moves.
LEMMA AnswerStep ==
  ASSUME IInv, [Next]_vars
  PROVE  AnswerFacts'
<1> USE NAssumption, NumWorkersAssumption, SeqFirstAssumption
<1>1. TypeOK
  BY DEF IInv
<1>2. CASE Collect
  <2>1. \A w \in Workers : pc[w] \in {"done", "refused"}
    BY <1>2 DEF Collect
  <2>2. \A i \in results : bestIndex <= i
    BY <2>1 DEF IInv, RecordedFacts, Lowering
  <2>3. pc[Caller] = "done" /\ Caller \in Workers
    BY <1>2, <2>1 DEF IInv, CallerRuns, Collect, Caller, Workers
  <2>4. Excused \/ nextIndex >= N
    BY <2>3 DEF IInv, WorkerFacts, WorkerFact
  <2>5. ~Excused => good = {}
    <3>1. ~Excused => \A i \in good : \E w \in Workers : Holds(w, i)
      BY <1>1, <1>2, <2>4
      DEF IInv, GoodInHand, HandedOut, CallerRuns, Collect, Pending, TypeOK, Moves
    <3> QED
      BY <2>1, <3>1 DEF Holds, InHand
  <2>6. verdict' = [found    |-> bestIndex < N /\ bestIndex \in results,
                    move     |-> bestIndex,
                    timedOut |-> \E w \in Workers : timedOut[w]]
    BY <1>2 DEF Collect
  <2>7. verdict'.found <=> bestIndex < N
    BY <2>6 DEF IInv, RecordedFacts
  <2>8. verdict'.found => verdict'.move \in good
    BY <2>6 DEF IInv, RecordedFacts
  <2>9. ~verdict'.found => good = {} \/ Interrupted
    BY <2>5, <2>7 DEF Excused
  <2>10. ~verdict'.found /\ ~verdict'.timedOut /\ ~externalCancel => good = {}
    BY <2>6, <2>9 DEF Interrupted
  <2>11. UNCHANGED <<good, results, pc, timedOut, externalCancel>>
    BY <1>2 DEF Collect, sharedVars, workerVars
  <2> QED
    BY <2>1, <2>2, <2>6, <2>8, <2>9, <2>10, <2>11 DEF AnswerFacts, Interrupted
<1>3. CASE PreludeProves
  BY <1>1, <1>3
  DEF IInv, PreludeQuiet, PreludeProves, TryingFirst, AnswerFacts, Moves,
      RecordedFacts, Lowering, TypeOK, sharedVars, workerVars
<1>4. CASE Returned /\ UNCHANGED <<phase, verdict>>
  <2>1. \A w \in Workers : pc[w] \in {"unstarted", "refused", "done"}
    BY <1>4 DEF IInv, AnswerFacts
  <2>2. UNCHANGED <<good, results, pc, timedOut, externalCancel>>
    BY <1>1, <1>4, <2>1, SMTT(60)
    DEF Returned, TypeOK, Next, Prelude, TryingFirst, PreludeProves, PreludeFails,
        PreludeAbandons, StartPool, Collect, LaneCancelled, AtRest, WorkerStep,
        Drain, SearchEnds, Claim, CheckBest, CheckExternal, Publish, Recheck,
        SearchAbandons, Record, LowerBest, ScanSlot, CancelSlot, EndScan, Leave,
        DrainRoot, DrainClear, SearchProves, SearchFails, SearchTimesOut, Goto,
        vars, callVars, sharedVars, slotVars, workerVars
  <2> QED
    BY <1>4, <2>2 DEF IInv, AnswerFacts, Returned, Interrupted
<1>5. Collect \/ PreludeProves \/ phase' # "returned"
          \/ (Returned /\ UNCHANGED <<phase, verdict>>)
  BY <1>1, SMTT(60)
  DEF Returned, TypeOK, Next, Prelude, TryingFirst, PreludeProves, PreludeFails,
      PreludeAbandons, StartPool, Collect, LaneCancelled, AtRest, WorkerStep, Drain,
      SearchEnds, Claim, CheckBest, CheckExternal, Publish, Recheck, SearchAbandons,
      Record, LowerBest, ScanSlot, CancelSlot, EndScan, Leave, DrainRoot,
      DrainClear, SearchProves, SearchFails, SearchTimesOut, Goto, vars, callVars,
      sharedVars, slotVars, workerVars
<1> QED
  BY <1>2, <1>3, <1>4, <1>5 DEF AnswerFacts, Returned

\* Every step preserves the inductive invariant.
LEMMA StepInv == IInv /\ [Next]_vars => IInv'
  BY TypeStep, QuietStep, GoodInHandStep, WorkerFactStep, RecordedStep, AnswerStep,
     Monotone
  DEF IInv, WorkerFacts

\* The inductive invariant holds throughout.
THEOREM Invariance == Spec => []IInv
  BY InitInv, StepInv, PTL DEF Spec

-----------------------------------------------------------------------------
\* The state keeps its types, for every pool and every number of moves.
THEOREM TypeCorrect == Spec => []TypeOK
  BY Invariance, PTL DEF IInv

\* "No mate within this depth" is only ever said of a position that has none,
\* unless the caller can see why not: timed_out, or an outer cancellation.
THEOREM FalseIsDisproof == Spec => []NoFalseDisproof
<1>1. IInv => NoFalseDisproof
  BY DEF IInv, AnswerFacts, NoFalseDisproof
<1> QED
  BY <1>1, Invariance, PTL

\* The key returned proves, and nothing lower was on record.
THEOREM KeyIsBestRecorded == Spec => []AnswerIsBestRecorded
<1>1. IInv => AnswerIsBestRecorded
  BY DEF IInv, AnswerFacts, AnswerIsBestRecorded
<1> QED
  BY <1>1, Invariance, PTL

-----------------------------------------------------------------------------
\* The split implements the abstract depth of DepthSearch.
THEOREM Refinement == Spec => ImplementsDepth
<1>1. Init => Depth!Init
  BY NumWorkersAssumption DEF Init, Depth!Init, Returned, Workers, Moves
<1>2. IInv /\ IInv' /\ [Next]_vars => [Depth!Next]_(Depth!depthVars)
  <2> SUFFICES ASSUME IInv, IInv', [Next]_vars
               PROVE  [Depth!Next]_(Depth!depthVars)
    OBVIOUS
  <2>1. good' = good /\ (Interrupted => Interrupted')
    BY Monotone, ExcuseStays DEF IInv
  <2>2. CASE Returned
    <3>1. Returned' /\ verdict' = verdict /\ (Interrupted' => Interrupted)
      <4>1. \A w \in Workers : pc[w] \in {"unstarted", "refused", "done"}
        BY <2>2 DEF IInv, AnswerFacts
      <4> QED
        BY <2>2, <4>1, SMTT(60)
        DEF Interrupted, Returned, IInv, TypeOK, Next, Prelude, TryingFirst,
            PreludeProves, PreludeFails, PreludeAbandons, StartPool, Collect,
            LaneCancelled, AtRest, WorkerStep, Drain, SearchEnds, Claim, CheckBest,
            CheckExternal, Publish, Recheck, SearchAbandons, Record, LowerBest,
            ScanSlot, CancelSlot, EndScan, Leave, DrainRoot, DrainClear,
            SearchProves, SearchFails, SearchTimesOut, Goto, Drained, vars,
            callVars, sharedVars, slotVars, workerVars
    <3> QED
      BY <2>1, <2>2, <3>1 DEF Depth!depthVars, Interrupted, Returned
  <2>3. CASE ~Returned /\ ~Returned'
    <3>1. CASE Interrupted' <=> Interrupted
      BY <2>1, <2>3, <3>1 DEF Depth!depthVars, Interrupted, Returned
    <3>2. CASE Interrupted' /\ ~Interrupted
      <4>1. (externalCancel \/ \E w \in Workers : timedOut[w])' = TRUE
        BY <3>2 DEF Interrupted
      <4> QED
        BY <2>1, <2>3, <4>1 DEF Depth!Next, Depth!Interrupt, Returned
    <3> QED
      BY <2>1, <3>1, <3>2
  <2>4. CASE ~Returned /\ Returned'
    <3>1. Interrupted' <=> Interrupted
      BY <2>4, SMTT(60)
      DEF Interrupted, Returned, IInv, TypeOK, PreludeQuiet, Next, Prelude,
          TryingFirst, PreludeProves, PreludeFails, PreludeAbandons, StartPool,
          Collect, LaneCancelled, AtRest, WorkerStep, Drain, SearchEnds, Claim,
          CheckBest, CheckExternal, Publish, Recheck, SearchAbandons, Record,
          LowerBest, ScanSlot, CancelSlot, EndScan, Leave, DrainRoot, DrainClear,
          SearchProves, SearchFails, SearchTimesOut, Goto, Drained, vars, callVars,
          sharedVars, slotVars, workerVars
    <3>2. CASE verdict'.found
      <4>1. verdict'.move \in good'
        BY <2>4, <3>2 DEF IInv, AnswerFacts
      <4> QED
        BY <2>1, <2>4, <3>1, <3>2, <4>1 DEF Depth!Next, Depth!Prove, Interrupted
    <3>3. CASE ~verdict'.found
      <4>1. good' = {} \/ Interrupted'
        BY <2>4, <3>3 DEF IInv, AnswerFacts
      <4> QED
        BY <2>1, <2>4, <3>1, <3>3, <4>1 DEF Depth!Next, Depth!Fail, Interrupted
    <3> QED
      BY <3>2, <3>3
  <2> QED
    BY <2>2, <2>3, <2>4
<1> QED
  BY <1>1, <1>2, Invariance, PTL DEF Spec, ImplementsDepth, Depth!Spec

-----------------------------------------------------------------------------
(* No lost cancellation, whichever order stores reach memory in.            *)

\* What the slot of a worker shows once its stores are out.
SlotFact(w) ==
    /\ pc[w] = "recheck" /\ "root" \notin buffer[w] => currentRoot[w] = claimed[w]
    /\ pc[w] = "search" /\ ~overtook[w]
          => buffer[w] = {} /\ currentRoot[w] = claimed[w]

SlotFacts == \A w \in Workers : SlotFact(w)

\* A searching worker's slot shows the move it searches, unless its re-check
\* went ahead of its stores.
LEMMA SlotStep ==
  ASSUME IInv, SlotFacts, [Next]_vars
  PROVE  SlotFacts'
<1> USE NAssumption, NumWorkersAssumption
<1> SUFFICES ASSUME NEW v \in Workers
             PROVE  SlotFact(v)'
  BY DEF SlotFacts
<1>1. TypeOK /\ PreludeQuiet
  BY DEF IInv
<1>2. SlotFact(v)
  BY DEF SlotFacts
<1>3. ASSUME NEW w \in Workers, WorkerStep(w) \/ Drain(w) \/ SearchEnds(w), v # w
      PROVE  /\ buffer'[v] = buffer[v] /\ currentRoot'[v] = currentRoot[v]
             /\ overtook'[v] = overtook[v]
  BY <1>1, <1>3, SMTT(60)
  DEF TypeOK, WorkerStep, Drain, SearchEnds, Claim, CheckBest, CheckExternal,
      Publish, Recheck, SearchAbandons, Record, LowerBest, ScanSlot, CancelSlot,
      EndScan, Leave, DrainRoot, DrainClear, SearchProves, SearchFails,
      SearchTimesOut, Goto, Drained, vars, callVars, sharedVars, slotVars,
      workerVars
<1>4. CASE WorkerStep(v) \/ Drain(v) \/ SearchEnds(v)
  <2>1. CASE Recheck(v)
    <3>1. pc'[v] = "search" /\ ~overtook'[v] => buffer[v] = {} /\ pc[v] = "recheck"
      BY <1>1, <2>1 DEF Recheck, Goto, Drained, TypeOK
    <3>2. UNCHANGED <<buffer, currentRoot, claimed>> /\ pc'[v] # "recheck"
      BY <1>1, <2>1 DEF Recheck, Goto, TypeOK
    <3> QED
      BY <1>2, <3>1, <3>2 DEF SlotFact
  <2>2. CASE Publish(v)
    <3>1. pc'[v] = "recheck" /\ "root" \in buffer'[v]
      BY <1>1, <2>2 DEF Publish, Goto, TypeOK
    <3> QED
      BY <3>1 DEF SlotFact
  <2>3. CASE DrainRoot(v)
    <3>1. UNCHANGED <<pc, claimed, overtook>> /\ currentRoot'[v] = claimed[v]
      BY <1>1, <2>3 DEF DrainRoot, workerVars, TypeOK
    <3>2. ~(pc[v] = "search" /\ ~overtook[v])
      BY <1>2, <2>3 DEF SlotFact, DrainRoot
    <3> QED
      BY <3>1, <3>2 DEF SlotFact
  <2>4. CASE DrainClear(v)
    <3>1. UNCHANGED <<pc, claimed, overtook, currentRoot>>
          /\ buffer[v] = {"clear"} /\ buffer'[v] = {}
      BY <1>1, <2>4 DEF DrainClear, workerVars, TypeOK
    <3> QED
      BY <1>2, <3>1 DEF SlotFact
  <2>5. CASE CancelSlot(v) \/ ScanSlot(v)
    BY <1>1, <1>2, <2>5
    DEF CancelSlot, ScanSlot, Goto, slotVars, TypeOK, SlotFact
  <2>6. pc'[v] \notin {"recheck", "search"} \/ Recheck(v) \/ Publish(v)
           \/ DrainRoot(v) \/ DrainClear(v) \/ CancelSlot(v) \/ ScanSlot(v)
    BY <1>1, <1>4, SMTT(60)
    DEF TypeOK, WorkerStep, Drain, SearchEnds, Claim, CheckBest, CheckExternal,
        SearchAbandons, Record, LowerBest, EndScan, Leave, SearchProves,
        SearchFails, SearchTimesOut, Goto
  <2>7. CASE pc'[v] \notin {"recheck", "search"}
    BY <2>7 DEF SlotFact
  <2> QED
    BY <2>1, <2>2, <2>3, <2>4, <2>5, <2>6, <2>7
<1>5. CASE Prelude
  BY <1>1, <1>5
  DEF SlotFact, PreludeQuiet, Prelude, TryingFirst, PreludeProves, PreludeFails,
      PreludeAbandons, StartPool, slotVars, workerVars
<1>6. CASE Collect \/ LaneCancelled \/ UNCHANGED vars
  BY <1>2, <1>6
  DEF SlotFact, Collect, LaneCancelled, vars, callVars, sharedVars, slotVars,
      workerVars
<1>7. ASSUME NEW w \in Workers, WorkerStep(w) \/ Drain(w) \/ SearchEnds(w), v # w
      PROVE  SlotFact(v)'
  BY <1>1, <1>2, <1>3, <1>7, OthersKeep DEF SlotFact
<1> QED
  BY <1>4, <1>5, <1>6, <1>7 DEF Next, AtRest

\* The scan that will reach v, and what becomes of it.
Approaches(h, v) == pc[h] \in {"scan", "cancel"} /\ scanNext[h] <= v

\* A scan that approaches a slot either reaches it or has raised its flag.
LEMMA NoLostCancelStep ==
  ASSUME IInv, SlotFacts, NoLostCancel, [Next]_vars
  PROVE  NoLostCancel'
<1> USE NAssumption, NumWorkersAssumption
<1> SUFFICES ASSUME NEW v \in Workers, pc'[v] = "search", claimed'[v] > bestIndex',
                    ~overtook'[v]
             PROVE  cancel'[v] \/ \E h \in Workers : Approaches(h, v)'
  BY DEF NoLostCancel, Approaches
<1>1. TypeOK /\ bestIndex' <= bestIndex /\ bestIndex \in Nat /\ bestIndex' \in Nat
  BY Monotone DEF IInv, TypeOK
<1>2. pc[v] = "search" /\ claimed'[v] = claimed[v] /\ ~overtook[v]
        /\ buffer[v] = {} /\ currentRoot[v] = claimed[v] /\ claimed[v] \in Nat
  <2>1. pc[v] = "search" /\ claimed'[v] = claimed[v] /\ ~overtook[v]
    BY <1>1, SMTT(60)
    DEF TypeOK, Next, Prelude, TryingFirst, PreludeProves, PreludeFails,
        PreludeAbandons, StartPool, Collect, LaneCancelled, AtRest, WorkerStep,
        Drain, SearchEnds, Claim, CheckBest, CheckExternal, Publish, Recheck,
        SearchAbandons, Record, LowerBest, ScanSlot, CancelSlot, EndScan, Leave,
        DrainRoot, DrainClear, SearchProves, SearchFails, SearchTimesOut, Goto,
        Drained, vars, callVars, sharedVars, slotVars, workerVars
  <2> QED
    BY <1>1, <2>1 DEF SlotFacts, SlotFact, TypeOK
<1>3. cancel[v] => cancel'[v]
  BY <1>1, <1>2, SMTT(60)
  DEF TypeOK, Next, Prelude, TryingFirst, PreludeProves, PreludeFails,
      PreludeAbandons, StartPool, Collect, LaneCancelled, AtRest, WorkerStep, Drain,
      SearchEnds, Claim, CheckBest, CheckExternal, Publish, Recheck, SearchAbandons,
      Record, LowerBest, ScanSlot, CancelSlot, EndScan, Leave, DrainRoot,
      DrainClear, SearchProves, SearchFails, SearchTimesOut, Goto, Drained, vars,
      callVars, sharedVars, slotVars, workerVars
<1>4. CASE \E h \in Workers : LowerBest(h)
  <2>1. PICK h \in Workers : LowerBest(h)
    BY <1>4
  <2>2. pc'[h] = "scan" /\ scanNext'[h] = 0
    BY <1>1, <2>1 DEF LowerBest, Goto, TypeOK
  <2>3. 0 <= v
    BY DEF Workers
  <2> QED
    BY <2>2, <2>3 DEF Approaches
<1>5. CASE ~\E h \in Workers : LowerBest(h)
  <2>1. bestIndex' = bestIndex
    BY <1>1, <1>5, SMTT(60)
    DEF TypeOK, Next, Prelude, TryingFirst, PreludeProves, PreludeFails,
        PreludeAbandons, StartPool, Collect, LaneCancelled, AtRest, WorkerStep,
        Drain, SearchEnds, Claim, CheckBest, CheckExternal, Publish, Recheck,
        SearchAbandons, Record, LowerBest, ScanSlot, CancelSlot, EndScan, Leave,
        DrainRoot, DrainClear, SearchProves, SearchFails, SearchTimesOut, Goto,
        Drained, vars, callVars, sharedVars, slotVars, workerVars
  <2>2. cancel[v] \/ \E h \in Workers : Approaches(h, v)
    BY <1>2, <2>1 DEF NoLostCancel, Approaches
  <2>3. ASSUME NEW h \in Workers, Approaches(h, v)
        PROVE  Approaches(h, v)' \/ cancel'[v]
    <3> /\ scanNext[h] \in 0 .. NumWorkers /\ v \in 0 .. NumWorkers - 1
        /\ scanNext[h] <= v
      BY <1>1, <2>3 DEF Approaches, TypeOK, Workers
    <3>1. CASE ScanSlot(h)
      <4>1. CASE scanNext[h] = v
        <5>1. currentRoot[scanNext[h]] > bestIndex
          BY <1>2, <2>1, <4>1
        <5> QED
          BY <1>1, <3>1, <4>1, <5>1 DEF ScanSlot, Approaches, Goto, TypeOK
      <4>2. CASE scanNext[h] # v
        BY <1>1, <3>1, <4>2 DEF ScanSlot, Approaches, Goto, TypeOK
      <4> QED
        BY <4>1, <4>2
    <3>2. CASE CancelSlot(h)
      <4>1. CASE scanNext[h] = v
        BY <1>1, <3>2, <4>1 DEF CancelSlot, TypeOK
      <4>2. CASE scanNext[h] # v
        <5>1. pc'[h] = "scan" /\ scanNext'[h] = scanNext[h] + 1
          BY <1>1, <3>2 DEF CancelSlot, Goto, TypeOK
        <5> QED
          BY <4>2, <5>1 DEF Approaches
      <4> QED
        BY <4>1, <4>2
    <3>3. ~EndScan(h)
      BY <2>3 DEF EndScan, Approaches, Workers
    <3>4. CASE ~ScanSlot(h) /\ ~CancelSlot(h) /\ ~EndScan(h)
      <4>1. CASE WorkerStep(h) \/ Drain(h) \/ SearchEnds(h)
        BY <1>1, <2>3, <3>4, <4>1, SMTT(60)
        DEF TypeOK, Approaches, WorkerStep, Drain, SearchEnds, Claim, CheckBest,
            CheckExternal, Publish, Recheck, SearchAbandons, Record, LowerBest,
            ScanSlot, CancelSlot, EndScan, Leave, DrainRoot, DrainClear,
            SearchProves, SearchFails, SearchTimesOut, Goto, vars, callVars,
            sharedVars, slotVars, workerVars
      <4>2. ASSUME NEW w \in Workers, WorkerStep(w) \/ Drain(w) \/ SearchEnds(w), h # w
            PROVE  Approaches(h, v)'
        BY <1>1, <2>3, <4>2, OthersKeep DEF Approaches
      <4>3. CASE Prelude
        BY <2>3, <4>3
        DEF IInv, PreludeQuiet, Approaches, Prelude, TryingFirst, PreludeProves,
            PreludeFails, PreludeAbandons, StartPool
      <4>4. CASE Collect \/ LaneCancelled \/ UNCHANGED vars
        BY <2>3, <4>4 DEF Approaches, Collect, LaneCancelled, vars, workerVars
      <4> QED
        BY <4>1, <4>2, <4>3, <4>4 DEF Next, AtRest
    <3> QED
      BY <3>1, <3>2, <3>3, <3>4
  <2> QED
    BY <1>3, <2>2, <2>3
<1> QED
  BY <1>4, <1>5

\* Whatever the memory order, a search that can no longer win has its flag raised
\* or about to be, unless its own re-check was executed ahead of its announcement:
\* the re-read after publishing has no other hole.
THEOREM CancelReaches == Spec => []NoLostCancel
<1>1. Init => SlotFacts /\ NoLostCancel
  BY DEF Init, SlotFacts, SlotFact, NoLostCancel
<1>2. IInv /\ SlotFacts /\ NoLostCancel /\ [Next]_vars => SlotFacts' /\ NoLostCancel'
  BY SlotStep, NoLostCancelStep
<1> QED
  BY <1>1, <1>2, Invariance, PTL DEF Spec

\* In the order the source is written in, nothing overtakes.
Overtaking == \E w \in Workers : overtook[w]

\* So where stores reach memory before the next load, as on a machine whose
\* atomics are sequentially consistent, no cancellation is lost at all.
THEOREM NothingOvertakes ==
  ASSUME ~StoreBuffering
  PROVE  Spec => []~Overtaking
<1>1. Init => ~Overtaking
  BY DEF Init, Overtaking
<1>2. TypeOK /\ ~Overtaking /\ [Next]_vars => ~Overtaking'
  BY SMTT(60)
  DEF Overtaking, TypeOK, Next, Prelude, TryingFirst, PreludeProves, PreludeFails,
      PreludeAbandons, StartPool, Collect, LaneCancelled, AtRest, WorkerStep, Drain,
      SearchEnds, Claim, CheckBest, CheckExternal, Publish, Recheck, SearchAbandons,
      Record, LowerBest, ScanSlot, CancelSlot, EndScan, Leave, DrainRoot,
      DrainClear, SearchProves, SearchFails, SearchTimesOut, Drained, vars, callVars,
      sharedVars, slotVars, workerVars
<1> QED
  BY <1>1, <1>2, TypeCorrect, PTL DEF Spec

=============================================================================

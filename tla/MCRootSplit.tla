----------------------------- MODULE MCRootSplit -----------------------------
(* Three kinds of split in one instance.  That of the directmate routes, whose *)
(* workers carry on after a timeout, and the flat one of the selfmate and help *)
(* routes, which tries no move first and whose workers leave, are each run by  *)
(* Pair threads, the others being refused, and with the memory order the .cfg  *)
(* gives.  The race has the whole pool, stores in program order and nothing to *)
(* interrupt it: two keys come in while the last move is searched for nothing. *)
EXTENDS RootSplit

CONSTANTS FlatMoves, RaceMoves, Pair

VARIABLE kind       \* of the split of this behaviour

Flat == INSTANCE RootSplit WITH StopOnTimeout <- TRUE, SeqFirst <- 0,
                                N <- FlatMoves, InLane <- FALSE
Race == INSTANCE RootSplit WITH SeqFirst <- 0, N <- RaceMoves,
                                Limits <- FALSE, InLane <- FALSE,
                                StoreBuffering <- FALSE

MCInit ==
    /\ kind \in {"young brothers", "flat", "race"}
    /\ CASE kind = "young brothers" -> Init
         [] kind = "flat"           -> Flat!Init
         [] kind = "race"           -> Race!Init /\ good = 0 .. RaceMoves - 2

\* How many threads the OS grants is up to it: all of them, or at most a pair.
PoolGranted ==
    IF kind = "race" THEN \A w \in Workers : pc'[w] # "refused"
    ELSE \A w \in Pair .. NumWorkers - 1 : pc'[w] # "claim"

Step(ours, flats, races) ==
    /\ UNCHANGED kind
    /\ CASE kind = "young brothers" -> ours
         [] kind = "flat"           -> flats
         [] kind = "race"           -> races
    /\ PoolGranted

MCNext == Step(Next, Flat!Next, Race!Next)

MCCaller == Step(Prelude \/ Collect, Flat!Prelude \/ Flat!Collect,
                 Race!Prelude \/ Race!Collect)

MCWorkerStep(w) == Step(WorkerStep(w), Flat!WorkerStep(w), Race!WorkerStep(w))

MCSpec ==
    /\ MCInit /\ [][MCNext]_<<vars, kind>>
    /\ WF_vars(MCCaller)
    /\ \A w \in Workers : WF_vars(MCWorkerStep(w)) /\ WF_vars(Drain(w))
=============================================================================

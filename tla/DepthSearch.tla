----------------------------- MODULE DepthSearch -----------------------------
(***************************************************************************)
(* What searching one depth promises its caller, however it is done.        *)
(*                                                                          *)
(* The caller (routes.h) reads `true' as a key move that proves, and        *)
(* `false' as "no mate within this depth" unless it also finds the search   *)
(* interrupted.  RootSplit and SplitSearch implement this specification.    *)
(***************************************************************************)
EXTENDS Integers

CONSTANT N           \* number of root moves

VARIABLES
    good,            \* the root moves that prove at this depth
    answered,        \* the depth has come back
    key,             \* the move it names, N when there is none
    interrupted      \* a limit passed or the lane was cancelled on the way

depthVars == <<good, answered, key, interrupted>>

Init ==
    /\ good \in SUBSET (0 .. N - 1)
    /\ answered = FALSE /\ key = N /\ interrupted = FALSE

Interrupt ==
    /\ ~answered
    /\ interrupted' = TRUE
    /\ UNCHANGED <<good, answered, key>>

Prove ==
    /\ ~answered
    /\ key' \in good
    /\ answered' = TRUE
    /\ UNCHANGED <<good, interrupted>>

Fail ==
    /\ ~answered
    /\ good = {} \/ interrupted
    /\ answered' = TRUE
    /\ UNCHANGED <<good, key, interrupted>>

Next == Interrupt \/ Prove \/ Fail

Spec == Init /\ [][Next]_depthVars
=============================================================================

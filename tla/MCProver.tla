------------------------------ MODULE MCProver -------------------------------
(* Every game on a few positions.  The truth is computed, not searched for: *)
(* the attackers' distances are guessed, the defenders' are the worst reply *)
(* and Truth keeps the one guess that is right.                             *)
EXTENDS Prover, TLC

CONSTANTS a, b, c, x, y,
          Stalemates,  \* a defender may have no reply
          Plainly      \* whether the search has refutations, and a table it keeps

VARIABLE plainly

\* The same search without them, under a deadline; the table forgets as it goes.
Plain == INSTANCE Prover WITH KeepTable <- FALSE, AnyDepth <- FALSE, Limits <- TRUE,
                              MaxEvictions <- 1

Worst(s, d) ==
    IF replies[d] = {} THEN Never
    ELSE CHOOSE n \in Depths \cup {Never} :
           /\ \E r \in replies[d] : s[r] = n
           /\ \A r \in replies[d] : s[r] <= n

Apart(node) ==
    /\ moves[node] = {} /\ node \notin mates
    /\ \A d \in Defenders : node \notin replies[d]

\* A root with a mate in one is left out: its first depth ends the search.  The
\* plain search is given one attacker less.
MCInit ==
    /\ plainly \in Plainly
    /\ moves \in [Attackers -> SUBSET Defenders]
    /\ replies \in [Defenders -> SUBSET Attackers]
    /\ Stalemates \/ plainly \/ \A d \in Defenders : replies[d] # {}
    /\ mates \in SUBSET (Attackers \ {Root})
    /\ moves[Root] # {}
    /\ plainly => \E node \in Attackers : Apart(node)
    /\ \E s \in [Attackers -> Depths \cup {Never}] :
         dist = [k \in Nodes |-> IF k \in Attackers THEN s[k] ELSE Worst(s, k)]
    /\ Truth
    /\ standsDown \in [Attackers -> IF QuotaPlay THEN 0 .. Never ELSE {0, Never}]
    /\ plainly \/ ~AnyDepth => standsDown = [k \in Attackers |-> 0]
    /\ AxiomHolds
    /\ Play

MCNext == (IF plainly THEN Plain!Next ELSE Next) /\ UNCHANGED plainly

MCSpec == MCInit /\ [][MCNext]_<<vars, plainly>>

Symmetry == Permutations(Attackers \ {Root}) \cup Permutations(Defenders)
=============================================================================

---------------------------- MODULE MCProofTable -----------------------------
(* Three positions, two of which share a slot of the flat table, in both     *)
(* layouts: the direct-mapped one under the dfpn route, which imports at     *)
(* every depth, and the map-backed one under the depth-first route, which    *)
(* imports once and ages its tables.                                         *)
EXTENDS ProofTable

CONSTANTS p, q, r

MCSlot == [k \in Keys |-> IF k = r THEN 1 ELSE 0]

MCLayouts ==
    {[flat |-> TRUE, reimports |-> TRUE, capacity |-> 1, last |-> 2, stores |-> 3],
     [flat |-> TRUE, reimports |-> TRUE, capacity |-> 1, last |-> 3, stores |-> 2],
     [flat |-> FALSE, reimports |-> FALSE, capacity |-> 2, last |-> 2, stores |-> 3]}
=============================================================================

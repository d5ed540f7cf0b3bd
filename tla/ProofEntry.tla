----------------------------- MODULE ProofEntry ------------------------------
(***************************************************************************)
(* What a proof table remembers of one position (TTEntry), how one more     *)
(* verdict is folded into it (TTEntry::absorb), and what it answers to      *)
(* "is there a mate within d moves?" (probe_exact_proof_table).             *)
(*                                                                          *)
(* `line' is the length of the remembered line, 0 when there is none, in    *)
(* the unit of the module that stores it.  `gen' is the generation an entry *)
(* was last useful in; 0 marks an entry the table does not hold.            *)
(***************************************************************************)
EXTENDS Integers

CONSTANT MaxDepth    \* depths 1 .. MaxDepth; a longer mate counts as none

ASSUME DepthAssumption == MaxDepth \in Nat \ {0}

Depths  == 1 .. MaxDepth
Never   == MaxDepth + 1
NoProof == MaxDepth + 1           \* TTEntry::NO_PROOF, above every depth
NoDisproof == -1

Entry == [disproved : Depths \cup {NoDisproof}, proved : Depths \cup {NoProof},
          refuted : BOOLEAN, gen : Nat, line : Nat]

Absent == [disproved |-> NoDisproof, proved |-> NoProof, refuted |-> FALSE,
           gen |-> 0, line |-> 0]

\* What a search hands to a table: a proof within bound, or a failure to bound.
Verdict ==
    {v \in [ok : BOOLEAN, bound : Depths \cup {NoDisproof}, refuted : BOOLEAN,
            line : Nat] : v.ok => v.bound \in Depths}

\* The strongest bound wins on either side, and refuted is absorbing.
Absorb(entry, v) ==
    LET better == v.ok /\ v.bound < entry.proved IN
    [disproved |-> IF ~v.ok /\ v.bound > entry.disproved
                   THEN v.bound ELSE entry.disproved,
     proved    |-> IF better THEN v.bound ELSE entry.proved,
     refuted   |-> entry.refuted \/ v.refuted,
     gen       |-> entry.gen,
     line      |-> IF better THEN v.line ELSE entry.line]

Mut_OffByOne(entry, d) ==
    [settled |-> entry.refuted \/ d >= entry.proved \/ d <= entry.disproved + 1,
     ok      |-> ~entry.refuted /\ d >= entry.proved,
     refuted |-> entry.refuted,
     fail    |-> IF entry.refuted THEN 0 ELSE entry.disproved,
     line    |-> entry.line]

\* Refuted is asked first, then the proof, then the disproof, which comes back
\* at its full strength and not at the depth that was asked.
Answer(entry, d) ==
    [settled |-> entry.refuted \/ d >= entry.proved \/ d <= entry.disproved,
     ok      |-> ~entry.refuted /\ d >= entry.proved,
     refuted |-> entry.refuted,
     fail    |-> IF entry.refuted THEN 0 ELSE entry.disproved,
     line    |-> entry.line]

(* What makes an entry, or a verdict, true of a position whose shortest mate *)
(* is f in the game proofs are about and s in the game failures are about.   *)

SoundEntry(entry, f, s) ==
    /\ entry.proved # NoProof => f <= entry.proved
    /\ entry.disproved < s
    /\ entry.refuted => s = Never

SoundVerdict(v, f, s) ==
    /\ v.ok => f <= v.bound
    /\ ~v.ok => v.bound < s
    /\ v.refuted => s = Never
=============================================================================

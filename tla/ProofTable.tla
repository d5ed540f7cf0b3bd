----------------------------- MODULE ProofTable ------------------------------
(***************************************************************************)
(* The proof tables of one lane: the private table `tt' of its enclosing    *)
(* search, the `shared' table its root-split workers use instead, and the   *)
(* `cross' table the enclosing searches of all lanes write (table.h,        *)
(* prooftable.h; the entries are those of ProofEntry).  Every table is      *)
(* bounded, so it forgets; the shared one may be direct-mapped (`flat').    *)
(*                                                                          *)
(* A key stands for a position.  full[k] is the depth of its shortest mate, *)
(* Never if it has none; dist[k] is the same with the attacker held to the  *)
(* lane's move restriction, so dist[k] >= full[k], with equality in the     *)
(* lane that may disprove (cross_authoritative).  The search itself is      *)
(* outside: it hands in any verdict these allow, and none once aborted.     *)
(* Every operation holds its shard's mutex throughout and is one step.      *)
(***************************************************************************)
EXTENDS ProofEntry, FiniteSets

CONSTANTS
    Keys,
    Shortest,        \* the mate depths of the positions, MaxDepth + 1 for none
    ShedDivisor,     \* tt_shed_divisor
    Slot,            \* the flat slot each key hashes to
    LineCap,         \* line_cap, proofs whose line the flat table remembers
    Layouts          \* the layouts of the tables, with the bounds of the model

ASSUME ShortestAssumption == Shortest \subseteq 1 .. MaxDepth + 1
ASSUME LayoutAssumption ==
    Layouts \subseteq [flat : BOOLEAN, reimports : BOOLEAN, capacity : Nat,
                      last : Depths, stores : Nat]
ASSUME ShedAssumption == ShedDivisor \in Nat \ {0}
ASSUME LineCapAssumption == LineCap \in Nat \ {0}

VARIABLES
    layout,          \* how this lane's tables are laid out
    full, dist,      \* the truth, in the whole game and in the lane's
    authoritative,   \* cross_authoritative: the lane is unrestricted
    depth,           \* iteration_depth
    aborted,         \* s.aborted
    tt, shared, cross,   \* key to entry; generation 0 marks an absent entry
    lines,           \* BoundedTable::lines_ of the flat table, 0 for none
    generation,      \* generation of tt
    sharedGen,       \* generation of shared, 0 before ensure_workers
    toImport,        \* keys import_from has still to visit
    lineLost,        \* a probe has handed the search a proof without its line
    stores

truth  == <<layout, full, dist, authoritative>>
tables == <<tt, shared, cross, lines>>
gens   == <<generation, sharedGen>>
vars == <<truth, depth, aborted, tables, gens, toImport, lineLost, stores>>

Flat == layout.flat         \* flat_tt: the shared table is direct-mapped
Reimports == layout.reimports    \* the dfpn route imports at every depth, not once
Capacity == layout.capacity     \* entries a map-backed table holds, 0 for no bound
Last == layout.last              \* max_depth of the search
MaxStores == layout.stores       \* bound of the model: verdicts stored in one behaviour

Empty == [k \in Keys |-> Absent]

Init ==
    /\ layout \in Layouts
    /\ full \in [Keys -> Shortest]
    /\ dist \in [Keys -> Shortest]
    /\ authoritative \in BOOLEAN
    /\ \A k \in Keys : full[k] <= dist[k] /\ (authoritative => dist[k] = full[k])
    /\ depth = 1 /\ aborted = FALSE
    /\ tt = Empty /\ shared = Empty /\ cross = Empty
    /\ lines = [k \in Keys |-> 0]
    /\ generation = (IF Reimports THEN 1 ELSE 2)     \* ++s.tt.generation, if at all
    /\ sharedGen = 0
    /\ toImport = {} /\ lineLost = FALSE /\ stores = 0

-----------------------------------------------------------------------------
(* One table. *)

Held(table) == {k \in Keys : table[k].gen # 0}

Mut_RankByDepthAlone(entry) ==
    IF entry.proved # NoProof /\ entry.proved > entry.disproved THEN entry.proved
    ELSE IF entry.disproved > 0 THEN entry.disproved ELSE 0

\* entry_rank: what the entry would cost to find again.
Rank(entry) ==
    IF entry.refuted THEN MaxDepth + 1
    ELSE IF entry.proved # NoProof /\ entry.proved > entry.disproved
         THEN entry.proved
         ELSE IF entry.disproved > 0 THEN entry.disproved ELSE 0

LowWater == Capacity - (Capacity \div ShedDivisor)

\* The sets of keys evict may leave: the current generation, shed from the
\* cheapest up to the low-water mark.  Ties go in hash order, that is either way.
Survivors(table, gen) ==
    LET current == {k \in Keys : table[k].gen = gen} IN
    IF Cardinality(current) <= LowWater THEN {current}
    ELSE {kept \in SUBSET current :
            /\ Cardinality(kept) = LowWater
            /\ \A k \in kept, gone \in current \ kept :
                 Rank(table[gone]) <= Rank(table[k])}

\* The tables that map[key] = entry followed by evict may produce.
Put(table, gen, k, entry) ==
    LET grown == [table EXCEPT ![k] = [entry EXCEPT !.gen = gen]] IN
    IF Capacity = 0 \/ Cardinality(Held(grown)) <= Capacity THEN {grown}
    ELSE {[j \in Keys |-> IF j \in kept THEN grown[j] ELSE Absent] :
            kept \in Survivors(grown, gen)}

Merge(table, gen, k, v) == Put(table, gen, k, Absorb(table[k], v))

Mut_SlotRewritten(k, v) ==
    /\ shared' = [j \in Keys |->
                    CASE j = k -> [Absorb(Absent, v) EXCEPT !.gen = sharedGen]
                      [] j # k /\ Slot[j] = Slot[k] -> Absent
                      [] OTHER -> shared[j]]
    /\ UNCHANGED lines

\* The flat merge: a different key in the slot is overwritten, and the line of
\* a better proof goes to a side map that is emptied when it is full.
FlatMerge(k, v) ==
    /\ shared' = [j \in Keys |->
                    CASE j = k -> [Absorb(shared[k], v) EXCEPT !.gen = sharedGen,
                                                              !.line = 0]
                      [] j # k /\ Slot[j] = Slot[k] -> Absent
                      [] OTHER -> shared[j]]
    /\ lines' = IF v.ok /\ v.bound < shared[k].proved /\ v.line # 0
                THEN LET full_up == Cardinality({j \in Keys : lines[j] # 0}) >= LineCap
                     IN  [j \in Keys |-> IF j = k THEN v.line
                                         ELSE IF full_up THEN 0 ELSE lines[j]]
                ELSE lines

-----------------------------------------------------------------------------
(* probe_exact_proof_table and store_exact_proof_table. *)

Splitting == sharedGen # 0

Own(k) ==
    IF ~Splitting THEN tt[k]
    ELSE IF Flat THEN [shared[k] EXCEPT !.line = lines[k]] ELSE shared[k]

\* The cross table is asked only about a key the lane itself knows nothing of, and
\* never by a worker: ensure_workers copies the settings, not cross_proofs.
Known(k) == IF Splitting \/ Own(k).gen # 0 THEN Own(k) ELSE cross[k]

\* What the table answers about k to depth d.
Lookup(k, d) == Answer(Known(k), d)

\* A hit, an unsettling one too, renews the entry's generation.
Probe(k, d) ==
    /\ toImport = {} /\ ~aborted
    /\ tt' = IF ~Splitting /\ tt[k].gen # 0
             THEN [tt EXCEPT ![k].gen = generation] ELSE tt
    /\ shared' = IF Splitting /\ shared[k].gen # 0
                 THEN [shared EXCEPT ![k].gen = sharedGen] ELSE shared
    /\ lineLost' = (lineLost \/ (Lookup(k, d).ok /\ Lookup(k, d).line = 0))
    /\ UNCHANGED <<truth, depth, aborted, cross, lines, gens, toImport, stores>>

\* The verdicts a search of k to depth d can end with.  A composed line is as
\* long as the mate, unless a part of it came from a proof that lost its own.
Proofs(k, d) ==
    {[ok |-> TRUE, bound |-> d, refuted |-> FALSE, line |-> n] :
        n \in {n \in 1 .. d : full[k] <= d /\ (full[k] <= n \/ lineLost)}}

\* The bound of a disproof is max(depth, fail_depth).
Disproofs(d, shortest) ==
    {[ok |-> FALSE, bound |-> b, refuted |-> r, line |-> 0] :
        b \in {b \in d .. Last : b < shortest},
        r \in {r \in BOOLEAN : r => shortest = Never}}

StoreOwn(k, v) ==
    IF ~Splitting
    THEN tt' \in Merge(tt, generation, k, v) /\ UNCHANGED <<shared, lines>>
    ELSE /\ UNCHANGED tt
         /\ IF Flat THEN FlatMerge(k, v)
            ELSE shared' \in Merge(shared, sharedGen, k, v) /\ UNCHANGED lines

Mut_PublishEverything(k, v, unrestricted) == cross' \in Merge(cross, 1, k, v)

Mut_PublishWithoutLine(k, v, unrestricted) ==
    IF v.ok \/ unrestricted
    THEN cross' \in Merge(cross, 1, k, [v EXCEPT !.line = 0])
    ELSE UNCHANGED cross

\* A lane publishes its proofs; its failures only if they hold for every lane.
Publish(k, v, unrestricted) ==
    IF v.ok \/ unrestricted
    THEN cross' \in Merge(cross, 1, k, v)
    ELSE UNCHANGED cross

\* A worker has no cross table to publish in.
StoreCross(k, v) ==
    IF Splitting THEN UNCHANGED cross ELSE Publish(k, v, authoritative)

Store(k) ==
    /\ toImport = {} /\ stores < MaxStores /\ ~aborted
    /\ \E d \in 1 .. depth :
         \E v \in Proofs(k, d) \cup Disproofs(d, dist[k]) :
           StoreOwn(k, v) /\ StoreCross(k, v)
    /\ stores' = stores + 1
    /\ UNCHANGED <<truth, depth, aborted, gens, toImport, lineLost>>

\* The same function in another lane: a restricted one beside the authoritative
\* lane, any other beside a restricted one.
OtherLaneStores(k) ==
    /\ stores < MaxStores
    /\ \E d \in 1 .. Last :
         \/ \E v \in Proofs(k, d) : Publish(k, v, FALSE)
         \/ ~authoritative /\ \E v \in Disproofs(d, full[k]) : Publish(k, v, TRUE)
    /\ stores' = stores + 1
    /\ UNCHANGED <<truth, depth, aborted, tt, shared, lines, gens, toImport,
                   lineLost>>

\* dfpn_publish, on the way to the next depth to be split: the route's own table,
\* which the workers do not read, goes on growing and is imported with the rest.
DfpnPublish(k) ==
    /\ Reimports /\ Splitting /\ toImport = {} /\ depth < Last
    /\ stores < MaxStores
    /\ \E d \in 1 .. depth + 1 :
         /\ d < dist[k]
         /\ LET v == [ok |-> FALSE, bound |-> d, refuted |-> FALSE, line |-> 0] IN
            tt' \in Merge(tt, generation, k, v) /\ Publish(k, v, authoritative)
    /\ stores' = stores + 1
    /\ UNCHANGED <<truth, depth, aborted, shared, lines, gens, toImport, lineLost>>

-----------------------------------------------------------------------------
(* The route around the tables. *)

\* A flag, a limit or a node budget unwinds the search.
Abort ==
    /\ toImport = {} /\ ~aborted
    /\ aborted' = TRUE
    /\ UNCHANGED <<truth, depth, tables, gens, toImport, lineLost, stores>>

\* A worker clears the flag as it takes the next root move.
NextRootMove ==
    /\ Splitting /\ aborted
    /\ aborted' = FALSE
    /\ UNCHANGED <<truth, depth, tables, gens, toImport, lineLost, stores>>

Mut_OneDepthTooMany ==
    /\ toImport = {} /\ depth <= Last
    /\ depth' = depth + 1
    /\ UNCHANGED <<truth, aborted, tables, gens, toImport, lineLost, stores>>

\* Only the depth-first route ages the tables; only the dfpn route imports anew.
\* With --clear-iter-tt a depth starts without its own table, which to the
\* depth-first route includes the shared one.
NextDepth ==
    /\ toImport = {} /\ depth < Last
    /\ depth' = depth + 1
    /\ IF Reimports
       THEN /\ aborted' = FALSE
            /\ tt' \in {tt, Empty}
            /\ toImport' = IF Splitting THEN Held(tt') ELSE {}
            /\ UNCHANGED <<gens, shared, lines>>
       ELSE /\ generation' = generation + 1
            /\ sharedGen' = IF Splitting THEN sharedGen + 1 ELSE 0
            /\ \/ UNCHANGED <<tt, shared, lines>>
               \/ tt' = Empty /\ shared' = Empty /\ lines' = [k \in Keys |-> 0]
            /\ UNCHANGED <<aborted, toImport>>
    /\ UNCHANGED <<truth, cross, lineLost, stores>>

\* ensure_workers and the start of import_from; the cost gate's abort is cleared.
StartSplit ==
    /\ ~Splitting /\ depth > 1
    /\ sharedGen' = 1
    /\ toImport' = Held(tt)
    /\ aborted' = FALSE
    /\ UNCHANGED <<truth, depth, tables, generation, lineLost, stores>>

\* One entry of import_from: store() replaces in a map and merges in a flat table,
\* where an entry with a proof brings only its proof.
Import(k) ==
    /\ k \in toImport
    /\ toImport' = toImport \ {k}
    /\ IF Flat
       THEN LET proved == tt[k].proved # NoProof IN
            FlatMerge(k, [ok      |-> proved,
                          bound   |-> IF proved THEN tt[k].proved ELSE tt[k].disproved,
                          refuted |-> tt[k].refuted,
                          line    |-> tt[k].line])
       ELSE shared' \in Put(shared, sharedGen, k, tt[k]) /\ UNCHANGED lines
    /\ UNCHANGED <<truth, depth, aborted, tt, cross, gens, lineLost, stores>>

\* The deepest depth is the last.
AtRest == depth = Last /\ toImport = {} /\ UNCHANGED vars

Next ==
    \/ \E k \in Keys :
         \/ \E d \in 1 .. Last : Probe(k, d)
         \/ Store(k) \/ OtherLaneStores(k) \/ DfpnPublish(k) \/ Import(k)
    \/ Abort \/ NextRootMove \/ NextDepth \/ StartSplit \/ AtRest

Spec == Init /\ [][Next]_vars

-----------------------------------------------------------------------------
TypeOK ==
    /\ layout \in Layouts
    /\ full \in [Keys -> 1 .. Never] /\ dist \in [Keys -> 1 .. Never]
    /\ authoritative \in BOOLEAN /\ aborted \in BOOLEAN /\ lineLost \in BOOLEAN
    /\ depth \in Depths
    /\ tt \in [Keys -> Entry] /\ shared \in [Keys -> Entry] /\ cross \in [Keys -> Entry]
    /\ lines \in [Keys -> Nat]
    /\ generation \in Nat /\ sharedGen \in Nat /\ stores \in Nat
    /\ toImport \subseteq Keys

\* proofs hold in the whole game, failures in the game whose shortest mates are given
SoundTable(table, shortest) ==
    \A k \in Keys : SoundEntry(table[k], full[k], shortest[k])

\* "A missing or overwritten entry costs time and can never change an answer": what
\* the tables do hold is true, through merges, evictions, imports, aborts and the
\* traffic of lanes that are solving different problems.
TablesSound ==
    /\ SoundTable(tt, dist)
    /\ SoundTable(shared, dist)
    /\ SoundTable(cross, full)

\* A settled probe settles the question: with a proof for any lane, or with a
\* failure in this lane's game, at the strength the probe hands back.
AnswersSound ==
    \A k \in Keys, d \in Depths :
        LET a == Lookup(k, d) IN
        a.settled => IF a.ok THEN full[k] <= d ELSE d < dist[k] /\ a.fail < dist[k]

\* "Absorbing, so a deeper search may never downgrade it": an entry still held
\* about a key says at least what it said before.  The shared table while it
\* imports is left out: run_dfpn_route imports before every split depth, and
\* import_from stores over what the workers of the last depth had found.
Weaker(new, old) ==
    \/ old.refuted /\ ~new.refuted
    \/ new.proved > old.proved
    \/ new.disproved < old.disproved

NothingDowngraded ==
    [][\A k \in Keys :
         /\ tt'[k].gen # 0 => ~Weaker(tt'[k], tt[k])
         /\ toImport' = toImport /\ shared'[k].gen # 0 => ~Weaker(shared'[k], shared[k])
         /\ cross'[k].gen # 0 => ~Weaker(cross'[k], cross[k])]_vars

\* "A refuted entry ranks top and is shed last": one of the current generation
\* leaves a table only if nothing but refuted entries stays.
ShedLast(new, old, gen) ==
    \A k \in Keys :
        old[k].refuted /\ old[k].gen = gen /\ new[k].gen = 0
            => \A j \in Keys : new[j].gen # 0 => new[j].refuted

RefutedShedLast ==
    [][ShedLast(tt', tt, generation) /\ ShedLast(cross', cross, 1)]_vars

\* Lost lines "can only SHORTEN a reported line -- never change a verdict": the
\* depth a route reports is read off the line, so a line must be no shorter than
\* the shortest mate.
ReportedDepthIsTrue ==
    \A k \in Keys, d \in Depths :
        LET a == Lookup(k, d) IN
        a.ok /\ a.line # 0 => full[k] <= a.line

\* The flat table may have lost the line of a proof it still holds; the map-backed
\* one keeps it in the entry.
MapDepthIsTrue == ~Flat => ReportedDepthIsTrue
=============================================================================

-------------------------- MODULE ProofTableProofs ---------------------------
(***************************************************************************)
(* The tables of ProofTable never hold a false statement, for any number of *)
(* positions, any depth, capacity, slot function, and either table format.  *)
(*                                                                          *)
(* The argument: whatever a table operation does -- absorb, replace, shed,  *)
(* overwrite a slot, import -- every entry it leaves is an old one, nothing *)
(* at all, or the old one with one true verdict folded in (PutFrom,         *)
(* AbsorbSound).  The other half is who may write what where: a proof found *)
(* by any lane is a proof in the whole game, a failure holds in the game of *)
(* the lane that failed, and that is the whole game only for the            *)
(* unrestricted lane (Games).                                               *)
(*                                                                          *)
(* Three more facts follow the entries through their life: the map-backed   *)
(* tables never lose the line of a proof (LinesKept), an entry that stays   *)
(* only grows stronger (Kept), and an eviction, which ranks what it sheds,  *)
(* gives up the refuted entries last (PutShedsLast).                        *)
(***************************************************************************)
EXTENDS ProofTable, TLAPS

\* The lane's game is the whole one with attacker moves taken away.
Games ==
    \A k \in Keys : full[k] <= dist[k] /\ (authoritative => dist[k] = full[k])

IInv == TypeOK /\ Games /\ TablesSound

-----------------------------------------------------------------------------
(* Entries and verdicts: folding a true verdict into a true entry leaves a   *)
(* true entry, and a true entry answers truly.                               *)

\* An absent entry has the type of an entry and claims nothing.
LEMMA AbsentSound ==
    /\ Absent \in Entry
    /\ \A f \in 1 .. Never, s \in 1 .. Never : SoundEntry(Absent, f, s)
<1>1. Absent \in Entry
  <2>1. FALSE \in BOOLEAN /\ 0 \in Nat /\ 0 \in Nat
    BY DepthAssumption
  <2> QED
    BY <2>1, Zenon DEF Absent, Entry
<1>2. \A f \in 1 .. Never, s \in 1 .. Never : SoundEntry(Absent, f, s)
  BY DepthAssumption DEF SoundEntry, Absent, NoDisproof, NoProof, Never
<1> QED
  BY <1>1, <1>2

\* TTEntry::absorb keeps an entry an entry, and a true one true.
LEMMA AbsorbSound ==
    ASSUME NEW entry \in Entry, NEW v \in Verdict
    PROVE  /\ Absorb(entry, v) \in Entry
           /\ Absorb(entry, v).gen = entry.gen
           /\ \A f \in 1 .. Never, s \in 1 .. Never :
                SoundEntry(entry, f, s) /\ SoundVerdict(v, f, s)
                    => SoundEntry(Absorb(entry, v), f, s)
<1>1. Absorb(entry, v) \in Entry
  <2>1. /\ Absorb(entry, v).disproved \in Depths \cup {NoDisproof}
        /\ Absorb(entry, v).proved \in Depths \cup {NoProof}
        /\ Absorb(entry, v).gen \in Nat
        /\ Absorb(entry, v).line \in Nat
    BY DepthAssumption DEF Absorb, Entry, Verdict
  <2>2. (entry.refuted \/ v.refuted) \in BOOLEAN
    BY Zenon
  <2>3. [disproved |-> Absorb(entry, v).disproved,
         proved |-> Absorb(entry, v).proved,
         refuted |-> entry.refuted \/ v.refuted,
         gen |-> Absorb(entry, v).gen, line |-> Absorb(entry, v).line] \in Entry
    BY <2>1, <2>2, Zenon DEF Entry
  <2>4. Absorb(entry, v) =
          [disproved |-> Absorb(entry, v).disproved,
           proved |-> Absorb(entry, v).proved,
           refuted |-> entry.refuted \/ v.refuted,
           gen |-> Absorb(entry, v).gen, line |-> Absorb(entry, v).line]
    BY DEF Absorb
  <2> QED
    BY <2>3, <2>4, Zenon
<1>2. Absorb(entry, v).gen = entry.gen
  BY DEF Absorb, Entry
<1>3. ASSUME NEW f \in 1 .. Never, NEW s \in 1 .. Never,
             SoundEntry(entry, f, s), SoundVerdict(v, f, s)
      PROVE  SoundEntry(Absorb(entry, v), f, s)
  BY <1>3, DepthAssumption, SMTT(30)
  DEF Absorb, Entry, Verdict, Depths, NoDisproof, NoProof, SoundEntry,
      SoundVerdict, Never
<1> QED
  BY <1>1, <1>2, <1>3

\* Setting the generation, or the line, of an entry changes nothing it claims.
LEMMA RenewSound ==
    ASSUME NEW entry \in Entry, NEW g \in Nat
    PROVE  /\ [entry EXCEPT !.gen = g] \in Entry
           /\ [entry EXCEPT !.gen = g, !.line = 0] \in Entry
           /\ \A f \in 1 .. Never, s \in 1 .. Never :
                SoundEntry(entry, f, s)
                    => /\ SoundEntry([entry EXCEPT !.gen = g], f, s)
                       /\ SoundEntry([entry EXCEPT !.gen = g, !.line = 0], f, s)
<1>1. [entry EXCEPT !.gen = g] \in Entry
  BY DEF Entry
<1>2. [entry EXCEPT !.gen = g, !.line = 0] \in Entry
  <2>1. 0 \in Nat
    BY DepthAssumption
  <2> QED
    BY <2>1 DEF Entry
<1>3. /\ [entry EXCEPT !.gen = g].proved = entry.proved
      /\ [entry EXCEPT !.gen = g].disproved = entry.disproved
      /\ [entry EXCEPT !.gen = g].refuted = entry.refuted
      /\ [entry EXCEPT !.gen = g, !.line = 0].proved = entry.proved
      /\ [entry EXCEPT !.gen = g, !.line = 0].disproved = entry.disproved
      /\ [entry EXCEPT !.gen = g, !.line = 0].refuted = entry.refuted
  BY DEF Entry
<1> QED
  BY <1>1, <1>2, <1>3 DEF SoundEntry

\* What an entry settles it settles truly, at the strength it hands back.
LEMMA AnswerSound ==
    ASSUME NEW entry \in Entry, NEW f \in 1 .. Never, NEW s \in 1 .. Never,
           f <= s, SoundEntry(entry, f, s), NEW d \in Depths,
           Answer(entry, d).settled
    PROVE  /\ Answer(entry, d).ok => f <= d
           /\ ~Answer(entry, d).ok => d < s /\ Answer(entry, d).fail < s
           /\ Answer(entry, d).refuted => ~Answer(entry, d).ok /\ s = Never
<1>1. /\ entry.proved \in Nat /\ entry.disproved \in Int
      /\ d \in Nat /\ d < Never
  BY DepthAssumption DEF Entry, Depths, NoProof, NoDisproof, Never
<1>2. CASE Answer(entry, d).ok
  <2>1. d >= entry.proved /\ ~entry.refuted
    BY <1>2 DEF Answer
  <2> QED
    BY <1>1, <1>2, <2>1 DEF SoundEntry, Answer, NoProof, Never
<1>3. CASE ~Answer(entry, d).ok
  <2>1. entry.refuted \/ d <= entry.disproved
    BY <1>3, Zenon DEF Answer
  <2>2. Answer(entry, d).refuted = entry.refuted
    BY DEF Answer
  <2>3. \/ entry.refuted /\ Answer(entry, d).fail = 0
        \/ Answer(entry, d).fail = entry.disproved
    BY DEF Answer
  <2> QED
    BY <1>1, <1>3, <2>1, <2>2, <2>3 DEF SoundEntry
<1> QED
  BY <1>2, <1>3
-----------------------------------------------------------------------------
(* Operators. *)

\* Writing one entry and shedding others leaves that entry, old entries and gaps.
LEMMA PutFrom ==
    ASSUME NEW table \in [Keys -> Entry], NEW g \in Nat, NEW k \in Keys,
           NEW entry \in Entry, NEW new \in Put(table, g, k, entry)
    PROVE  /\ new \in [Keys -> Entry]
           /\ \A j \in Keys : \/ new[j] = Absent
                              \/ new[j] = table[j]
                              \/ j = k /\ new[j] = [entry EXCEPT !.gen = g]
<1> DEFINE grown == [table EXCEPT ![k] = [entry EXCEPT !.gen = g]]
<1>1. grown \in [Keys -> Entry]
  BY RenewSound
<1>2. \/ new = grown
      \/ \E kept \in Survivors(grown, g) :
            new = [j \in Keys |-> IF j \in kept THEN grown[j] ELSE Absent]
  BY DEF Put
<1>3. \A j \in Keys : \/ grown[j] = table[j]
                      \/ j = k /\ grown[j] = [entry EXCEPT !.gen = g]
  OBVIOUS
<1> HIDE DEF grown
<1>4. CASE new = grown
  BY <1>1, <1>3, <1>4
<1>5. CASE \E kept \in Survivors(grown, g) :
              new = [j \in Keys |-> IF j \in kept THEN grown[j] ELSE Absent]
  BY <1>1, <1>3, <1>5, AbsentSound
<1> QED
  BY <1>2, <1>4, <1>5

\* So a map-backed store of a true entry leaves a true table ...
LEMMA PutSound ==
    ASSUME NEW table \in [Keys -> Entry], NEW g \in Nat, NEW k \in Keys,
           NEW entry \in Entry, NEW new \in Put(table, g, k, entry),
           NEW short \in [Keys -> 1 .. Never], full \in [Keys -> 1 .. Never],
           SoundTable(table, short), SoundEntry(entry, full[k], short[k])
    PROVE  new \in [Keys -> Entry] /\ SoundTable(new, short)
<1>1. /\ new \in [Keys -> Entry]
      /\ \A j \in Keys : \/ new[j] = Absent
                         \/ new[j] = table[j]
                         \/ j = k /\ new[j] = [entry EXCEPT !.gen = g]
  BY PutFrom
<1>2. ASSUME NEW j \in Keys
      PROVE  SoundEntry(new[j], full[j], short[j])
  <2>1. full[j] \in 1 .. Never /\ short[j] \in 1 .. Never
    OBVIOUS
  <2>2. CASE new[j] = Absent
    BY <2>1, <2>2, AbsentSound
  <2>3. CASE new[j] = table[j]
    BY <2>3 DEF SoundTable, SoundEntry
  <2>4. CASE j = k /\ new[j] = [entry EXCEPT !.gen = g]
    <3>1. SoundEntry([entry EXCEPT !.gen = g], full[k], short[k])
      BY <2>1, <2>4, RenewSound
    <3> QED
      BY <2>4, <3>1
  <2> QED
    BY <1>1, <2>2, <2>3, <2>4
<1> QED
  BY <1>1, <1>2 DEF SoundTable, SoundEntry

\* ... and so does a map-backed merge of a true verdict.
LEMMA MergeSound ==
    ASSUME NEW table \in [Keys -> Entry], NEW g \in Nat, NEW k \in Keys,
           NEW v \in Verdict, NEW new \in Merge(table, g, k, v),
           NEW short \in [Keys -> 1 .. Never], full \in [Keys -> 1 .. Never],
           SoundTable(table, short), SoundVerdict(v, full[k], short[k])
    PROVE  new \in [Keys -> Entry] /\ SoundTable(new, short)
<1>1. SoundEntry(table[k], full[k], short[k])
  BY DEF SoundTable, SoundEntry
<1>2. /\ Absorb(table[k], v) \in Entry
      /\ SoundEntry(Absorb(table[k], v), full[k], short[k])
  BY <1>1, AbsorbSound
<1>3. new \in Put(table, g, k, Absorb(table[k], v))
  BY DEF Merge
<1> QED
  BY <1>2, <1>3, PutSound

\* The direct-mapped merge, which overwrites a slot, keeps the table true too.
LEMMA FlatSound ==
    ASSUME NEW k \in Keys, NEW v \in Verdict, FlatMerge(k, v), TypeOK,
           SoundTable(shared, dist), SoundVerdict(v, full[k], dist[k])
    PROVE  /\ shared' \in [Keys -> Entry] /\ lines' \in [Keys -> Nat]
           /\ SoundTable(shared', dist)
<1>1. /\ shared \in [Keys -> Entry] /\ sharedGen \in Nat
      /\ full \in [Keys -> 1 .. Never] /\ dist \in [Keys -> 1 .. Never]
  BY DEF TypeOK
<1> DEFINE folded == [Absorb(shared[k], v) EXCEPT !.gen = sharedGen, !.line = 0]
<1>2. SoundEntry(shared[k], full[k], dist[k])
  BY DEF SoundTable, SoundEntry
<1>3. folded \in Entry /\ SoundEntry(folded, full[k], dist[k])
  BY <1>1, <1>2, AbsorbSound, RenewSound
<1>4. shared' = [j \in Keys |->
                   CASE j = k -> folded
                     [] j # k /\ Slot[j] = Slot[k] -> Absent
                     [] OTHER -> shared[j]]
  BY DEF FlatMerge
<1> HIDE DEF folded
<1>5. \A j \in Keys : \/ shared'[j] = Absent
                      \/ shared'[j] = shared[j]
                      \/ j = k /\ shared'[j] = folded
  BY <1>4
<1>6. shared' \in [Keys -> Entry]
  BY <1>1, <1>3, <1>4, AbsentSound
<1>7. ASSUME NEW j \in Keys
      PROVE  SoundEntry(shared'[j], full[j], dist[j])
  <2>1. CASE shared'[j] = Absent
    BY <1>1, <2>1, AbsentSound
  <2>2. CASE shared'[j] = shared[j]
    BY <2>2 DEF SoundTable, SoundEntry
  <2>3. CASE j = k /\ shared'[j] = folded
    BY <1>3, <2>3
  <2> QED
    BY <1>5, <2>1, <2>2, <2>3
<1>8. SoundTable(shared', dist)
  BY <1>7 DEF SoundTable, SoundEntry
<1>9. lines' \in [Keys -> Nat]
  <2>1. lines \in [Keys -> Nat] /\ v.line \in Nat
    BY DEF TypeOK, Verdict
  <2>2. 0 \in Nat
    BY DepthAssumption
  <2> QED
    BY <2>1, <2>2 DEF FlatMerge
<1> QED
  BY <1>6, <1>8, <1>9

-----------------------------------------------------------------------------
(* The steps. *)

\* A search that goes no deeper than its last depth goes no deeper than MaxDepth.
LEMMA LastIsDepth == TypeOK => Last \in Depths /\ \A d \in 1 .. Last : d \in Depths
BY DepthAssumption, LayoutAssumption DEF TypeOK, Last, Depths

\* Whatever a search, complete or not, can hand to a table is a verdict.
LEMMA VerdictsSound ==
    ASSUME TypeOK, Games, NEW k \in Keys, NEW d \in Depths
    PROVE  /\ \A v \in Proofs(k, d) :
                /\ v \in Verdict /\ v.ok
                /\ SoundVerdict(v, full[k], dist[k])
                /\ SoundVerdict(v, full[k], full[k])
           /\ \A v \in Disproofs(d, dist[k]) :
                /\ v \in Verdict /\ ~v.ok
                /\ SoundVerdict(v, full[k], dist[k])
                /\ authoritative => SoundVerdict(v, full[k], full[k])
           /\ \A v \in Disproofs(d, full[k]) :
                v \in Verdict /\ SoundVerdict(v, full[k], full[k])
<1>1. ASSUME NEW v \in Proofs(k, d)
      PROVE  /\ v \in Verdict /\ v.ok
             /\ SoundVerdict(v, full[k], dist[k])
             /\ SoundVerdict(v, full[k], full[k])
  <2>1. PICK n \in 1 .. d : /\ full[k] <= d
                            /\ v = [ok |-> TRUE, bound |-> d,
                                    refuted |-> FALSE, line |-> n]
    BY DEF Proofs
  <2>2. n \in Nat
    BY DepthAssumption DEF Depths
  <2> QED
    BY <2>1, <2>2 DEF Verdict, SoundVerdict
<1>2. ASSUME NEW short \in 1 .. Never, NEW v \in Disproofs(d, short)
      PROVE  /\ v \in Verdict /\ ~v.ok
             /\ SoundVerdict(v, full[k], short)
  <2>1. PICK b \in d .. Last, r \in BOOLEAN :
          /\ b < short /\ (r => short = Never)
          /\ v = [ok |-> FALSE, bound |-> b, refuted |-> r, line |-> 0]
    BY DEF Disproofs
  <2>2. b \in Depths /\ 0 \in Nat
    BY LastIsDepth, DepthAssumption DEF Depths
  <2>3. v \in Verdict
    BY <2>1, <2>2 DEF Verdict
  <2> QED
    BY <2>1, <2>3 DEF SoundVerdict
<1>3. full[k] \in 1 .. Never /\ dist[k] \in 1 .. Never
  BY DEF TypeOK
<1> QED
  BY <1>1, <1>2, <1>3 DEF Games

\* What dfpn_publish writes is such a verdict, in the route's own table and in the
\* cross one.
LEMMA DfpnVerdict ==
    ASSUME TypeOK, Games, NEW k \in Keys, DfpnPublish(k)
    PROVE  /\ \E v \in Verdict :
                /\ ~v.ok /\ SoundVerdict(v, full[k], dist[k])
                /\ authoritative => SoundVerdict(v, full[k], full[k])
                /\ tt' \in Merge(tt, generation, k, v)
                /\ Publish(k, v, authoritative)
           /\ UNCHANGED <<truth, depth, aborted, shared, lines, gens, toImport, lineLost>>
           /\ stores' = stores + 1
<1>1. PICK d \in 1 .. depth + 1 :
        /\ d < dist[k]
        /\ LET v == [ok |-> FALSE, bound |-> d, refuted |-> FALSE, line |-> 0] IN
           tt' \in Merge(tt, generation, k, v) /\ Publish(k, v, authoritative)
  BY DEF DfpnPublish
<1> DEFINE v == [ok |-> FALSE, bound |-> d, refuted |-> FALSE, line |-> 0]
<1>2. depth < Last /\ depth \in Nat /\ Last \in Nat /\ d \in 1 .. Last
  BY LastIsDepth DEF DfpnPublish, TypeOK, Depths
<1>3. d \in Depths
  BY <1>2, LastIsDepth
<1>4. /\ v \in Verdict /\ ~v.ok /\ SoundVerdict(v, full[k], dist[k])
      /\ authoritative => SoundVerdict(v, full[k], full[k])
  <2>1. v \in Verdict
    BY <1>3, DepthAssumption DEF Verdict
  <2>2. SoundVerdict(v, full[k], dist[k]) /\ ~v.ok
    BY <1>1 DEF SoundVerdict
  <2> QED
    BY <2>1, <2>2 DEF Games
<1>5. tt' \in Merge(tt, generation, k, v) /\ Publish(k, v, authoritative)
  BY <1>1
<1> HIDE DEF v
<1> QED
  BY <1>4, <1>5 DEF DfpnPublish

\* StoreOwn and Publish of one verdict, the lane's table first.
LEMMA StoreSound ==
    ASSUME IInv, NEW k \in Keys, NEW v \in Verdict, StoreOwn(k, v),
           SoundVerdict(v, full[k], dist[k])
    PROVE  /\ tt' \in [Keys -> Entry] /\ shared' \in [Keys -> Entry]
           /\ lines' \in [Keys -> Nat]
           /\ SoundTable(tt', dist) /\ SoundTable(shared', dist)
<1>1. /\ tt \in [Keys -> Entry] /\ shared \in [Keys -> Entry]
      /\ lines \in [Keys -> Nat]
      /\ generation \in Nat /\ sharedGen \in Nat
      /\ full \in [Keys -> 1 .. Never] /\ dist \in [Keys -> 1 .. Never]
      /\ SoundTable(tt, dist) /\ SoundTable(shared, dist)
  BY DEF IInv, TypeOK, TablesSound
<1>2. CASE ~Splitting
  <2>1. tt' \in Merge(tt, generation, k, v) /\ shared' = shared /\ lines' = lines
    BY <1>2 DEF StoreOwn
  <2> QED
    BY <1>1, <2>1, MergeSound
<1>3. CASE Splitting /\ Flat
  <2>1. tt' = tt /\ FlatMerge(k, v)
    BY <1>3 DEF StoreOwn
  <2> QED
    BY <1>1, <2>1, FlatSound DEF IInv
<1>4. CASE Splitting /\ ~Flat
  <2>1. /\ tt' = tt /\ lines' = lines
        /\ shared' \in Merge(shared, sharedGen, k, v)
    BY <1>4 DEF StoreOwn
  <2> QED
    BY <1>1, <2>1, MergeSound
<1> QED
  BY <1>2, <1>3, <1>4

\* Publishing leaves the cross table true of the whole game.
LEMMA PublishSound ==
    ASSUME IInv, NEW k \in Keys, NEW v \in Verdict, NEW unrestricted \in BOOLEAN,
           Publish(k, v, unrestricted),
           v.ok \/ unrestricted => SoundVerdict(v, full[k], full[k])
    PROVE  cross' \in [Keys -> Entry] /\ SoundTable(cross', full)
<1>1. /\ cross \in [Keys -> Entry] /\ full \in [Keys -> 1 .. Never]
      /\ SoundTable(cross, full) /\ 1 \in Nat
  BY DEF IInv, TypeOK, TablesSound
<1>2. CASE v.ok \/ unrestricted
  <2>1. cross' \in Merge(cross, 1, k, v)
    BY <1>2 DEF Publish
  <2> QED
    BY <1>1, <1>2, <2>1, MergeSound
<1>3. CASE ~(v.ok \/ unrestricted)
  BY <1>1, <1>3 DEF Publish
<1> QED
  BY <1>2, <1>3

\* The tables start empty.
LEMMA InitInv == Init => IInv
<1> SUFFICES ASSUME Init PROVE IInv
  OBVIOUS
<1>1. /\ full \in [Keys -> 1 .. Never] /\ dist \in [Keys -> 1 .. Never]
      /\ Games
  BY ShortestAssumption DEF Init, Games, Never
<1>2. /\ tt \in [Keys -> Entry] /\ shared \in [Keys -> Entry]
      /\ cross \in [Keys -> Entry]
  BY AbsentSound DEF Init, Empty
<1>3. TablesSound
  <2>1. \A k \in Keys : /\ tt[k] = Absent /\ shared[k] = Absent
                        /\ cross[k] = Absent
    BY DEF Init, Empty
  <2> QED
    BY <1>1, <2>1, AbsentSound DEF TablesSound, SoundTable, SoundEntry
<1>4. TypeOK
  <2>1. /\ authoritative \in BOOLEAN /\ aborted \in BOOLEAN /\ lineLost \in BOOLEAN
    BY Zenon DEF Init
  <2>2. /\ layout \in Layouts /\ depth \in Depths /\ lines \in [Keys -> Nat]
        /\ generation \in Nat /\ sharedGen \in Nat /\ stores \in Nat
        /\ toImport \subseteq Keys
    BY DepthAssumption DEF Init, Depths
  <2> QED
    BY <1>1, <1>2, <2>1, <2>2 DEF TypeOK
<1> QED
  BY <1>1, <1>3, <1>4 DEF IInv

\* store_exact_proof_table of a completed search.
LEMMA StoreStep == ASSUME IInv, NEW k \in Keys, Store(k) PROVE IInv'
<1>0. PICK d \in 1 .. depth :
        \E v \in Proofs(k, d) \cup Disproofs(d, dist[k]) :
          StoreOwn(k, v) /\ StoreCross(k, v)
  BY DEF Store
<1>1. PICK v \in Proofs(k, d) \cup Disproofs(d, dist[k]) :
        StoreOwn(k, v) /\ StoreCross(k, v)
  BY <1>0
<1>2. d \in Depths
  BY DepthAssumption DEF IInv, TypeOK, Depths
<1>3. /\ v \in Verdict
      /\ SoundVerdict(v, full[k], dist[k])
      /\ v.ok \/ authoritative => SoundVerdict(v, full[k], full[k])
  BY <1>1, <1>2, VerdictsSound DEF IInv
<1>4. authoritative \in BOOLEAN
  BY DEF IInv, TypeOK
<1>5. /\ tt' \in [Keys -> Entry] /\ shared' \in [Keys -> Entry]
      /\ lines' \in [Keys -> Nat]
      /\ SoundTable(tt', dist) /\ SoundTable(shared', dist)
  BY <1>1, <1>3, StoreSound
<1>6. cross' \in [Keys -> Entry] /\ SoundTable(cross', full)
  <2>1. CASE Splitting
    BY <1>1, <2>1 DEF StoreCross, IInv, TypeOK, TablesSound, SoundTable, Store, truth
  <2>2. CASE ~Splitting
    BY <1>1, <1>3, <1>4, <2>2, PublishSound DEF StoreCross
  <2> QED
    BY <2>1, <2>2
<1> QED
  BY <1>5, <1>6 DEF IInv, TypeOK, Games, TablesSound, SoundTable, Store, truth, gens

\* dfpn_publish, between two depths that are split.
LEMMA DfpnStep == ASSUME IInv, NEW k \in Keys, DfpnPublish(k) PROVE IInv'
<1>1. /\ tt \in [Keys -> Entry] /\ generation \in Nat /\ authoritative \in BOOLEAN
      /\ full \in [Keys -> 1 .. Never] /\ dist \in [Keys -> 1 .. Never]
      /\ SoundTable(tt, dist)
  BY DEF IInv, TypeOK, TablesSound
<1>2. PICK v \in Verdict :
        /\ ~v.ok /\ SoundVerdict(v, full[k], dist[k])
        /\ authoritative => SoundVerdict(v, full[k], full[k])
        /\ tt' \in Merge(tt, generation, k, v) /\ Publish(k, v, authoritative)
  BY DfpnVerdict DEF IInv
<1>3. tt' \in [Keys -> Entry] /\ SoundTable(tt', dist)
  BY <1>1, <1>2, MergeSound
<1>4. cross' \in [Keys -> Entry] /\ SoundTable(cross', full)
  BY <1>1, <1>2, PublishSound
<1>5. UNCHANGED <<truth, depth, aborted, shared, lines, gens, toImport, lineLost>>
  BY DfpnVerdict DEF IInv
<1>6. stores' \in Nat
  BY DfpnVerdict DEF IInv, TypeOK
<1> QED
  BY <1>3, <1>4, <1>5, <1>6 DEF IInv, TypeOK, Games, TablesSound, SoundTable, truth, gens

\* What the other lanes write holds in the whole game.
LEMMA OtherLaneStep == ASSUME IInv, NEW k \in Keys, OtherLaneStores(k) PROVE IInv'
<1>0. /\ cross \in [Keys -> Entry] /\ full \in [Keys -> 1 .. Never]
      /\ SoundTable(cross, full) /\ 1 \in Nat
  BY DEF IInv, TypeOK, TablesSound
<1>1. PICK d \in 1 .. Last :
        \/ \E v \in Proofs(k, d) : Publish(k, v, FALSE)
        \/ ~authoritative /\ \E v \in Disproofs(d, full[k]) : Publish(k, v, TRUE)
  BY DEF OtherLaneStores
<1>2. d \in Depths
  BY LastIsDepth DEF IInv
<1>3. ASSUME \E v \in Proofs(k, d) : Publish(k, v, FALSE)
      PROVE  cross' \in [Keys -> Entry] /\ SoundTable(cross', full)
  <2>1. PICK v \in Proofs(k, d) : Publish(k, v, FALSE)
    BY <1>3
  <2>2. v \in Verdict /\ SoundVerdict(v, full[k], full[k])
    BY <1>2, <2>1, VerdictsSound DEF IInv
  <2>3. cross' \in Merge(cross, 1, k, v)
    BY <1>2, <2>1, VerdictsSound DEF IInv, Publish
  <2> QED
    BY <1>0, <2>2, <2>3, MergeSound
<1>4. ASSUME \E v \in Disproofs(d, full[k]) : Publish(k, v, TRUE)
      PROVE  cross' \in [Keys -> Entry] /\ SoundTable(cross', full)
  <2>1. PICK v \in Disproofs(d, full[k]) : Publish(k, v, TRUE)
    BY <1>4
  <2>2. v \in Verdict /\ SoundVerdict(v, full[k], full[k])
    BY <1>2, <2>1, VerdictsSound DEF IInv
  <2>3. cross' \in Merge(cross, 1, k, v)
    BY <1>2, <2>1, VerdictsSound DEF IInv, Publish
  <2> QED
    BY <1>0, <2>2, <2>3, MergeSound
<1>5. cross' \in [Keys -> Entry] /\ SoundTable(cross', full)
  BY <1>1, <1>3, <1>4
<1> QED
  BY <1>5 DEF IInv, TypeOK, Games, TablesSound, SoundTable, OtherLaneStores,
              truth, gens

\* A probe only renews generations.
LEMMA ProbeStep ==
    ASSUME IInv, NEW k \in Keys, NEW d \in Depths, Probe(k, d) PROVE IInv'
<1>1. /\ tt \in [Keys -> Entry] /\ shared \in [Keys -> Entry]
      /\ generation \in Nat /\ sharedGen \in Nat
      /\ full \in [Keys -> 1 .. Never] /\ dist \in [Keys -> 1 .. Never]
      /\ SoundTable(tt, dist) /\ SoundTable(shared, dist)
  BY DEF IInv, TypeOK, TablesSound
<1>2. /\ tt' = tt \/ tt' = [tt EXCEPT ![k] = [tt[k] EXCEPT !.gen = generation]]
      /\ \/ shared' = shared
         \/ shared' = [shared EXCEPT ![k] = [shared[k] EXCEPT !.gen = sharedGen]]
  BY DEF Probe
<1>3. ASSUME NEW table \in [Keys -> Entry], NEW g \in Nat, NEW new,
             SoundTable(table, dist),
             new = table \/ new = [table EXCEPT ![k] = [table[k] EXCEPT !.gen = g]]
      PROVE  new \in [Keys -> Entry] /\ SoundTable(new, dist)
  <2>1. /\ [table[k] EXCEPT !.gen = g] \in Entry
        /\ [table[k] EXCEPT !.gen = g].proved = table[k].proved
        /\ [table[k] EXCEPT !.gen = g].disproved = table[k].disproved
        /\ [table[k] EXCEPT !.gen = g].refuted = table[k].refuted
    BY RenewSound, ZenonT(60) DEF Entry
  <2> QED
    BY <1>3, <2>1 DEF SoundTable, SoundEntry
<1>4. /\ tt' \in [Keys -> Entry] /\ SoundTable(tt', dist)
      /\ shared' \in [Keys -> Entry] /\ SoundTable(shared', dist)
  BY <1>1, <1>2, <1>3
<1>5. lineLost' \in BOOLEAN
  BY DEF Probe
<1> QED
  BY <1>4, <1>5 DEF IInv, TypeOK, Games, TablesSound, SoundTable, Probe, truth, gens

\* import_from, as a replacing store or as a flat merge.
LEMMA ImportStep == ASSUME IInv, NEW k \in Keys, Import(k) PROVE IInv'
<1>1. /\ tt \in [Keys -> Entry] /\ shared \in [Keys -> Entry]
      /\ lines \in [Keys -> Nat] /\ sharedGen \in Nat
      /\ full \in [Keys -> 1 .. Never] /\ dist \in [Keys -> 1 .. Never]
      /\ SoundTable(tt, dist) /\ SoundTable(shared, dist)
      /\ SoundEntry(tt[k], full[k], dist[k])
  BY DEF IInv, TypeOK, TablesSound, SoundTable, SoundEntry
<1>2. CASE Flat
  <2> DEFINE proved == tt[k].proved # NoProof
             v == [ok      |-> proved,
                   bound   |-> IF proved THEN tt[k].proved ELSE tt[k].disproved,
                   refuted |-> tt[k].refuted,
                   line    |-> tt[k].line]
  <2>1. FlatMerge(k, v)
    BY <1>2 DEF Import
  <2>2. v \in Verdict
    <3>1. /\ tt[k].refuted \in BOOLEAN /\ tt[k].line \in Nat
          /\ tt[k].proved \in Depths \cup {NoProof}
          /\ tt[k].disproved \in Depths \cup {NoDisproof}
      BY <1>1 DEF Entry
    <3>2. proved \in BOOLEAN
      BY Zenon
    <3>3. v.bound \in Depths \cup {NoDisproof} /\ (proved => v.bound \in Depths)
      BY <3>1
    <3> QED
      BY <3>1, <3>2, <3>3, Zenon DEF Verdict
  <2>3. SoundVerdict(v, full[k], dist[k])
    BY <1>1 DEF SoundVerdict, SoundEntry
  <2> QED
    BY <1>1, <2>1, <2>2, <2>3, FlatSound
    DEF IInv, TypeOK, Games, TablesSound, SoundTable, Import, truth, gens
<1>3. CASE ~Flat
  <2>1. shared' \in Put(shared, sharedGen, k, tt[k]) /\ lines' = lines
    BY <1>3 DEF Import
  <2>2. shared' \in [Keys -> Entry] /\ SoundTable(shared', dist)
    BY <1>1, <2>1, PutSound
  <2> QED
    BY <1>1, <2>1, <2>2
    DEF IInv, TypeOK, Games, TablesSound, SoundTable, Import, truth, gens
<1> QED
  BY <1>2, <1>3

\* The route's own steps leave every entry where it is, or none.
LEMMA NextDepthTables ==
    ASSUME TypeOK, NextDepth
    PROVE  /\ tt' = tt \/ tt' = Empty
           /\ shared' = shared \/ shared' = Empty
           /\ cross' = cross /\ (lines' = lines \/ lines' = [k \in Keys |-> 0])
           /\ layout' = layout /\ full' = full /\ dist' = dist
           /\ authoritative' = authoritative /\ lineLost' = lineLost
           /\ generation' = generation \/ generation' = generation + 1
BY DEF NextDepth, truth, gens

LEMMA EmptySound ==
    /\ Empty \in [Keys -> Entry]
    /\ \A short \in [Keys -> 1 .. Never] :
         full \in [Keys -> 1 .. Never] => SoundTable(Empty, short)
BY AbsentSound DEF Empty, SoundTable, SoundEntry

LEMMA NextDepthStep == ASSUME IInv, NextDepth PROVE IInv'
<1>1. /\ tt \in [Keys -> Entry] /\ shared \in [Keys -> Entry] /\ lines \in [Keys -> Nat]
      /\ full \in [Keys -> 1 .. Never] /\ dist \in [Keys -> 1 .. Never]
      /\ SoundTable(tt, dist) /\ SoundTable(shared, dist)
  BY DEF IInv, TypeOK, TablesSound
<1>2. /\ tt' \in [Keys -> Entry] /\ SoundTable(tt', dist)
      /\ shared' \in [Keys -> Entry] /\ SoundTable(shared', dist)
  BY <1>1, NextDepthTables, EmptySound DEF IInv
<1>3. lines' \in [Keys -> Nat]
  BY <1>1, NextDepthTables DEF IInv
<1>4. depth' \in Depths
  BY LastIsDepth, DepthAssumption DEF NextDepth, IInv, TypeOK, Depths
<1>5. /\ generation' \in Nat /\ sharedGen' \in Nat /\ stores' = stores
      /\ toImport' \subseteq Keys
  BY DEF NextDepth, IInv, TypeOK, Held, gens
<1>6. aborted' \in BOOLEAN
  BY Zenon DEF NextDepth, IInv, TypeOK
<1>7. /\ layout' = layout /\ full' = full /\ dist' = dist /\ cross' = cross
      /\ authoritative' = authoritative /\ lineLost' = lineLost
  BY NextDepthTables DEF IInv
<1> QED
  BY <1>2, <1>3, <1>4, <1>5, <1>6, <1>7 DEF IInv, TypeOK, Games, TablesSound, SoundTable

LEMMA RouteStep ==
    ASSUME IInv, Abort \/ NextRootMove \/ StartSplit \/ AtRest \/ UNCHANGED vars
    PROVE  IInv'
<1>1. /\ layout' = layout
      /\ full' = full /\ dist' = dist /\ authoritative' = authoritative
      /\ tt' = tt /\ shared' = shared /\ cross' = cross /\ lines' = lines
      /\ lineLost' = lineLost /\ stores' = stores
  BY DEF Abort, NextRootMove, StartSplit, AtRest, vars, truth, tables
<1>2. /\ generation' \in Nat /\ sharedGen' \in Nat /\ depth' \in Depths
      /\ toImport' \subseteq Keys
  BY DepthAssumption
  DEF IInv, TypeOK, Depths, Held, Abort, NextRootMove, StartSplit, AtRest, vars, gens
<1>3. aborted' \in BOOLEAN
  BY Zenon DEF IInv, TypeOK, Abort, NextRootMove, StartSplit, AtRest, vars
<1> QED
  BY <1>1, <1>2, <1>3 DEF IInv, TypeOK, Games, TablesSound, SoundTable

\* Every step keeps the invariant.
LEMMA StepInv == IInv /\ [Next]_vars => IInv'
<1> SUFFICES ASSUME IInv, [Next]_vars PROVE IInv'
  OBVIOUS
<1>1. ASSUME NEW k \in Keys, NEW d \in 1 .. Last, Probe(k, d) PROVE IInv'
  BY <1>1, LastIsDepth, ProbeStep DEF IInv
<1> QED
  BY <1>1, StoreStep, OtherLaneStep, DfpnStep, ImportStep, NextDepthStep, RouteStep
  DEF Next

-----------------------------------------------------------------------------
\* The entries stay entries, and everything any table holds stays true.
THEOREM Invariance == Spec => []IInv
BY InitInv, StepInv, PTL DEF Spec

\* Every variable keeps its type.
THEOREM TypeCorrect == Spec => []TypeOK
BY Invariance, PTL DEF IInv

\* "A missing or overwritten entry costs time and can never change an answer"
\* (table.h): no table ever holds a false statement.
THEOREM NothingFalseIsHeld == Spec => []TablesSound
BY Invariance, PTL DEF IInv

\* What an answer rests on: the lane's own entry, or the cross table's.
LEMMA KnownSound ==
    ASSUME IInv, NEW k \in Keys
    PROVE  Known(k) \in Entry /\ SoundEntry(Known(k), full[k], dist[k])
<1>1. /\ tt[k] \in Entry /\ shared[k] \in Entry /\ cross[k] \in Entry
      /\ lines[k] \in Nat
      /\ full[k] \in 1 .. Never /\ dist[k] \in 1 .. Never
      /\ full[k] <= dist[k]
      /\ SoundEntry(tt[k], full[k], dist[k])
      /\ SoundEntry(shared[k], full[k], dist[k])
      /\ SoundEntry(cross[k], full[k], full[k])
  BY DEF IInv, TypeOK, Games, TablesSound, SoundTable, SoundEntry
<1>2. SoundEntry(cross[k], full[k], dist[k])
  BY <1>1, DepthAssumption
  DEF SoundEntry, Never, Entry, Depths, NoDisproof
<1>3. Own(k) \in Entry /\ SoundEntry(Own(k), full[k], dist[k])
  BY <1>1 DEF Own, Entry, SoundEntry
<1> QED
  BY <1>1, <1>2, <1>3 DEF Known

\* True tables give true answers: Lookup is Answer of what is known.
LEMMA AnswerFollows == IInv => AnswersSound
<1> SUFFICES ASSUME IInv, NEW k \in Keys, NEW d \in Depths, Lookup(k, d).settled
             PROVE  IF Lookup(k, d).ok THEN full[k] <= d
                    ELSE d < dist[k] /\ Lookup(k, d).fail < dist[k]
  BY DEF AnswersSound
<1>1. /\ Known(k) \in Entry /\ SoundEntry(Known(k), full[k], dist[k])
      /\ full[k] \in 1 .. Never /\ dist[k] \in 1 .. Never /\ full[k] <= dist[k]
  BY KnownSound DEF IInv, TypeOK, Games
<1>2. Answer(Known(k), d).settled
  BY DEF Lookup
<1> QED
  BY <1>1, <1>2, AnswerSound DEF Lookup

\* A probe that settles a question settles it truly (probe_exact_proof_table),
\* although the cross table's entries come from lanes with other problems.
THEOREM ProbesTellTheTruth == Spec => []AnswersSound
BY Invariance, AnswerFollows, PTL

-----------------------------------------------------------------------------
(* Lines.  The map-backed table keeps the line of a proof in its entry, so   *)
(* there a proof is never without one and no search composes a short line.   *)

Lined(entry, f) == entry.proved # NoProof => entry.line # 0 /\ f <= entry.line

LinedTable(table) == \A k \in Keys : Lined(table[k], full[k])

LinesKept ==
    ~Flat => ~lineLost /\ LinedTable(tt) /\ LinedTable(shared) /\ LinedTable(cross)

\* A stored entry, its neighbours and the gaps a store leaves all have their lines.
LEMMA PutLined ==
    ASSUME NEW table \in [Keys -> Entry], NEW g \in Nat, NEW k \in Keys,
           NEW entry \in Entry, NEW new \in Put(table, g, k, entry),
           LinedTable(table), Lined(entry, full[k])
    PROVE  LinedTable(new)
<1>1. /\ new \in [Keys -> Entry]
      /\ \A j \in Keys : \/ new[j] = Absent
                         \/ new[j] = table[j]
                         \/ j = k /\ new[j] = [entry EXCEPT !.gen = g]
  BY PutFrom
<1>2. Lined(Absent, 0) /\ \A f : Lined(Absent, f)
  BY DEF Lined, Absent
<1>3. Lined([entry EXCEPT !.gen = g], full[k])
  BY DEF Lined, Entry
<1> QED
  BY <1>1, <1>2, <1>3 DEF LinedTable, Lined

\* So does a merge, when a proof it brings has its line.
LEMMA MergeLined ==
    ASSUME NEW table \in [Keys -> Entry], NEW g \in Nat, NEW k \in Keys,
           NEW v \in Verdict, NEW new \in Merge(table, g, k, v),
           LinedTable(table), v.ok => v.line # 0 /\ full[k] <= v.line
    PROVE  LinedTable(new)
<1>1. Absorb(table[k], v) \in Entry
  BY AbsorbSound
<1>2. Lined(Absorb(table[k], v), full[k])
  BY DEF Absorb, Lined, LinedTable
<1> QED
  BY <1>1, <1>2, PutLined DEF Merge

\* While no line is lost, the line of a proof is as long as the mate.
LEMMA VerdictsLined ==
    ASSUME TypeOK, ~lineLost, NEW k \in Keys, NEW d \in Depths
    PROVE  /\ \A v \in Proofs(k, d) : v.line # 0 /\ full[k] <= v.line
           /\ \A short \in 1 .. Never : \A v \in Disproofs(d, short) : ~v.ok
<1>1. ASSUME NEW v \in Proofs(k, d)
      PROVE  v.line # 0 /\ full[k] <= v.line
  <2>1. PICK n \in 1 .. d : /\ full[k] <= n
                            /\ v = [ok |-> TRUE, bound |-> d,
                                    refuted |-> FALSE, line |-> n]
    BY DEF Proofs
  <2> QED
    BY <2>1, DepthAssumption DEF Depths
<1>2. ASSUME NEW short \in 1 .. Never, NEW v \in Disproofs(d, short)
      PROVE  ~v.ok
  BY DEF Disproofs
<1> QED
  BY <1>1, <1>2

\* A store of the lane's own verdict, in the map-backed tables.
LEMMA StoreLined ==
    ASSUME IInv, LinesKept, ~Flat, NEW k \in Keys, Store(k) PROVE LinesKept'
<1>1. /\ tt \in [Keys -> Entry] /\ shared \in [Keys -> Entry] /\ cross \in [Keys -> Entry]
      /\ generation \in Nat /\ sharedGen \in Nat /\ 1 \in Nat
      /\ LinedTable(tt) /\ LinedTable(shared) /\ LinedTable(cross) /\ ~lineLost
  BY DEF IInv, TypeOK, LinesKept
<1>2. PICK d \in 1 .. depth : \E v \in Proofs(k, d) \cup Disproofs(d, dist[k]) :
                                 StoreOwn(k, v) /\ StoreCross(k, v)
  BY DEF Store
<1>3. PICK v \in Proofs(k, d) \cup Disproofs(d, dist[k]) :
        StoreOwn(k, v) /\ StoreCross(k, v)
  BY <1>2
<1>4. d \in Depths /\ dist[k] \in 1 .. Never
  BY DepthAssumption DEF IInv, TypeOK, Depths
<1>5. v \in Verdict /\ (v.ok => v.line # 0 /\ full[k] <= v.line)
  BY <1>1, <1>3, <1>4, VerdictsLined, VerdictsSound DEF IInv
<1>6. full' = full /\ lineLost' = lineLost /\ layout' = layout
  BY DEF Store, truth
<1>7. LinedTable(tt') /\ LinedTable(shared')
  <2>1. CASE ~Splitting
    BY <1>1, <1>3, <1>5, <2>1, MergeLined DEF StoreOwn
  <2>2. CASE Splitting
    BY <1>1, <1>3, <1>5, <2>2, MergeLined DEF StoreOwn
  <2> QED
    BY <2>1, <2>2
<1>8. LinedTable(cross')
  <2>1. cross' = cross \/ cross' \in Merge(cross, 1, k, v)
    BY <1>3 DEF StoreCross, Publish
  <2> QED
    BY <1>1, <1>5, <2>1, MergeLined
<1> QED
  BY <1>1, <1>6, <1>7, <1>8 DEF LinesKept, LinedTable, Flat

\* A failure has no line to lose.
LEMMA DfpnLined ==
    ASSUME IInv, LinesKept, ~Flat, NEW k \in Keys, DfpnPublish(k) PROVE LinesKept'
<1>1. /\ tt \in [Keys -> Entry] /\ cross \in [Keys -> Entry] /\ generation \in Nat
      /\ 1 \in Nat
      /\ LinedTable(tt) /\ LinedTable(shared) /\ LinedTable(cross) /\ ~lineLost
  BY DEF IInv, TypeOK, LinesKept
<1>2. PICK v \in Verdict : /\ ~v.ok /\ tt' \in Merge(tt, generation, k, v)
                           /\ Publish(k, v, authoritative)
  BY DfpnVerdict DEF IInv
<1>3. cross' = cross \/ cross' \in Merge(cross, 1, k, v)
  BY <1>2 DEF Publish
<1>4. LinedTable(tt') /\ LinedTable(cross')
  BY <1>1, <1>2, <1>3, MergeLined
<1>5. full' = full /\ lineLost' = lineLost /\ layout' = layout /\ shared' = shared
  BY DfpnVerdict DEF IInv, truth
<1> QED
  BY <1>1, <1>4, <1>5 DEF LinesKept, LinedTable, Flat

\* The other lanes' verdicts come with their lines too.
LEMMA OtherLaneLined ==
    ASSUME IInv, LinesKept, ~Flat, NEW k \in Keys, OtherLaneStores(k) PROVE LinesKept'
<1>1. /\ cross \in [Keys -> Entry] /\ full[k] \in 1 .. Never /\ 1 \in Nat
      /\ LinedTable(tt) /\ LinedTable(shared) /\ LinedTable(cross) /\ ~lineLost
  BY DEF IInv, TypeOK, LinesKept
<1>2. PICK d \in 1 .. Last : \E v \in Proofs(k, d) \cup Disproofs(d, full[k]) :
                                Publish(k, v, FALSE) \/ Publish(k, v, TRUE)
  BY DEF OtherLaneStores
<1>3. d \in Depths
  BY LastIsDepth DEF IInv
<1>4. PICK v \in Proofs(k, d) \cup Disproofs(d, full[k]) :
        Publish(k, v, FALSE) \/ Publish(k, v, TRUE)
  BY <1>2
<1>5. v \in Verdict /\ (v.ok => v.line # 0 /\ full[k] <= v.line)
  BY <1>1, <1>4, <1>3, VerdictsLined, VerdictsSound DEF IInv
<1>6. cross' = cross \/ cross' \in Merge(cross, 1, k, v)
  BY <1>4 DEF Publish
<1>7. LinedTable(cross')
  BY <1>1, <1>5, <1>6, MergeLined
<1>8. /\ full' = full /\ lineLost' = lineLost /\ layout' = layout
      /\ tt' = tt /\ shared' = shared
  BY DEF OtherLaneStores, truth
<1> QED
  BY <1>1, <1>7, <1>8 DEF LinesKept, LinedTable, Flat

\* A hit with a proof comes from an entry with one.
LEMMA FoundIsProof ==
    ASSUME NEW k \in Keys, NEW d \in Depths, Lookup(k, d).ok
    PROVE  Known(k).proved # NoProof
<1>1. d >= Known(k).proved
  BY DEF Lookup, Answer
<1>2. d \in Nat /\ MaxDepth \in Nat /\ d <= MaxDepth
  BY DepthAssumption DEF Depths
<1> QED
  BY <1>1, <1>2 DEF NoProof

\* A map-backed probe hands a proof out with its line.
LEMMA ProbeLined ==
    ASSUME IInv, LinesKept, ~Flat, NEW k \in Keys, NEW d \in Depths, Probe(k, d)
    PROVE  LinesKept'
<1>1. /\ tt \in [Keys -> Entry] /\ shared \in [Keys -> Entry] /\ cross \in [Keys -> Entry]
      /\ generation \in Nat /\ sharedGen \in Nat
      /\ LinedTable(tt) /\ LinedTable(shared) /\ LinedTable(cross) /\ ~lineLost
  BY DEF IInv, TypeOK, LinesKept
<1>2. Known(k) \in Entry /\ Lined(Known(k), full[k])
  BY <1>1 DEF Known, Own, LinedTable
<1>3. Lookup(k, d).ok => Known(k).proved # NoProof
  BY FoundIsProof
<1>4. ~lineLost'
  BY <1>1, <1>2, <1>3 DEF Probe, Lookup, Answer, Lined
<1>5. ASSUME NEW table \in [Keys -> Entry], NEW g \in Nat, LinedTable(table)
      PROVE  LinedTable([table EXCEPT ![k].gen = g])
  BY <1>5 DEF LinedTable, Lined, Entry
<1>6. LinedTable(tt') /\ LinedTable(shared')
  BY <1>1, <1>5 DEF Probe
<1>7. full' = full /\ cross' = cross /\ layout' = layout
  BY DEF Probe, truth
<1> QED
  BY <1>1, <1>4, <1>6, <1>7 DEF LinesKept, LinedTable, Flat

\* An import takes the entry over with its line.
LEMMA ImportLined ==
    ASSUME IInv, LinesKept, ~Flat, NEW k \in Keys, Import(k) PROVE LinesKept'
<1>1. /\ tt \in [Keys -> Entry] /\ shared \in [Keys -> Entry] /\ sharedGen \in Nat
      /\ LinedTable(tt) /\ LinedTable(shared) /\ LinedTable(cross) /\ ~lineLost
  BY DEF IInv, TypeOK, LinesKept
<1>2. shared' \in Put(shared, sharedGen, k, tt[k])
  BY DEF Import
<1>3. LinedTable(shared')
  BY <1>1, <1>2, PutLined DEF LinedTable
<1>4. /\ full' = full /\ cross' = cross /\ tt' = tt /\ lineLost' = lineLost
      /\ layout' = layout
  BY DEF Import, truth
<1> QED
  BY <1>1, <1>3, <1>4 DEF LinesKept, LinedTable, Flat

LEMMA StepLined == IInv /\ LinesKept /\ [Next]_vars => LinesKept'
<1> SUFFICES ASSUME IInv, LinesKept, [Next]_vars PROVE LinesKept'
  OBVIOUS
<1>1. CASE Flat
  <2>1. layout' = layout
    BY DEF Next, Probe, Store, OtherLaneStores, DfpnPublish, Import, Abort,
           NextRootMove, NextDepth, StartSplit, AtRest, vars, truth
  <2> QED
    BY <1>1, <2>1 DEF LinesKept, Flat
<1>2. CASE ~Flat /\ (Abort \/ NextRootMove \/ StartSplit \/ AtRest \/ UNCHANGED vars)
  <2>1. /\ full' = full /\ layout' = layout /\ tt' = tt /\ shared' = shared
        /\ cross' = cross /\ lineLost' = lineLost
    BY <1>2 DEF Abort, NextRootMove, StartSplit, AtRest, vars, truth, tables
  <2> QED
    BY <2>1 DEF LinesKept, LinedTable, Lined, Flat
<1>3. CASE ~Flat /\ NextDepth
  <2>1. LinedTable(Empty)
    BY DEF LinedTable, Lined, Empty, Absent
  <2>2. LinedTable(tt) /\ LinedTable(shared) /\ LinedTable(cross) /\ ~lineLost
    BY <1>3 DEF LinesKept
  <2>3. LinedTable(tt') /\ LinedTable(shared') /\ LinedTable(cross') /\ ~lineLost'
    BY <1>3, <2>1, <2>2, NextDepthTables DEF IInv
  <2>4. full' = full
    BY <1>3, NextDepthTables DEF IInv
  <2> QED
    BY <2>3, <2>4 DEF LinesKept, LinedTable
<1>4. ASSUME NEW k \in Keys, NEW d \in 1 .. Last, ~Flat, Probe(k, d) PROVE LinesKept'
  BY <1>4, LastIsDepth, ProbeLined DEF IInv
<1> QED
  BY <1>1, <1>2, <1>3, <1>4, StoreLined, OtherLaneLined, DfpnLined, ImportLined DEF Next

LEMMA InitLined == Init => LinesKept
BY DEF Init, Empty, Absent, LinesKept, LinedTable, Lined

LEMMA LinesTellDepth == IInv /\ LinesKept => MapDepthIsTrue
<1> SUFFICES ASSUME IInv, LinesKept, ~Flat, NEW k \in Keys, NEW d \in Depths,
                    Lookup(k, d).ok
             PROVE  full[k] <= Lookup(k, d).line
  BY DEF MapDepthIsTrue, ReportedDepthIsTrue
<1>1. Known(k) \in Entry /\ Lined(Known(k), full[k])
  BY DEF Known, Own, LinedTable, LinesKept, IInv, TypeOK
<1>2. Known(k).proved # NoProof
  BY FoundIsProof
<1> QED
  BY <1>1, <1>2 DEF Lookup, Answer, Lined

\* "Can only SHORTEN a reported line" (table.h) is said of the flat table's side map
\* of lines.  Over the map-backed table no line is ever lost, and no depth read off a
\* line is shorter than the shortest mate.
THEOREM DepthsReadOffLines == Spec => []MapDepthIsTrue
BY Invariance, InitLined, StepLined, LinesTellDepth, PTL DEF Spec

-----------------------------------------------------------------------------
(* What a step may not do to an entry that stays. *)

Kept(old, new) == \A k \in Keys : new[k].gen # 0 => ~Weaker(new[k], old[k])

\* Folding in a verdict takes nothing away.
LEMMA AbsorbKeeps ==
    ASSUME NEW entry \in Entry, NEW v \in Verdict
    PROVE  ~Weaker(Absorb(entry, v), entry)
<1>1. /\ entry.disproved \in Int /\ entry.proved \in Int
      /\ v.bound \in Int
  BY DepthAssumption DEF Entry, Verdict, Depths, NoProof, NoDisproof
<1>2. ~(Absorb(entry, v).proved > entry.proved)
  BY <1>1 DEF Absorb
<1>3. ~(Absorb(entry, v).disproved < entry.disproved)
  BY <1>1 DEF Absorb
<1>4. ~(entry.refuted /\ ~Absorb(entry, v).refuted)
  BY Zenon DEF Absorb
<1> QED
  BY <1>2, <1>3, <1>4, Zenon DEF Weaker

LEMMA SameKept ==
    ASSUME NEW entry \in Entry, NEW other \in Entry, other.proved = entry.proved,
           other.disproved = entry.disproved, other.refuted = entry.refuted
    PROVE  ~Weaker(other, entry)
BY DepthAssumption DEF Weaker, Entry, Depths, NoProof, NoDisproof

\* A merge keeps what it does not shed, in both layouts.
LEMMA MergeKeeps ==
    ASSUME NEW table \in [Keys -> Entry], NEW g \in Nat, NEW k \in Keys,
           NEW v \in Verdict, NEW new \in Merge(table, g, k, v)
    PROVE  Kept(table, new)
<1>1. Absorb(table[k], v) \in Entry
  BY AbsorbSound
<1>2. /\ new \in [Keys -> Entry]
      /\ \A j \in Keys : \/ new[j] = Absent
                         \/ new[j] = table[j]
                         \/ j = k /\ new[j] = [Absorb(table[k], v) EXCEPT !.gen = g]
  BY <1>1, PutFrom DEF Merge
<1>3. ~Weaker([Absorb(table[k], v) EXCEPT !.gen = g], table[k])
  BY <1>1, AbsorbKeeps DEF Weaker, Entry
<1>4. \A j \in Keys : ~Weaker(table[j], table[j])
  BY SameKept
<1>5. Absent.gen = 0
  BY DEF Absent
<1> QED
  BY <1>2, <1>3, <1>4, <1>5 DEF Kept

LEMMA FlatKeeps ==
    ASSUME TypeOK, NEW k \in Keys, NEW v \in Verdict, FlatMerge(k, v)
    PROVE  Kept(shared, shared')
<1>1. shared \in [Keys -> Entry] /\ Absorb(shared[k], v) \in Entry
  BY AbsorbSound DEF TypeOK
<1> DEFINE folded == [Absorb(shared[k], v) EXCEPT !.gen = sharedGen, !.line = 0]
<1>2. ~Weaker(folded, shared[k])
  BY <1>1, AbsorbKeeps DEF Weaker, Entry
<1>3. shared' = [j \in Keys |->
                   CASE j = k -> folded
                     [] j # k /\ Slot[j] = Slot[k] -> Absent
                     [] OTHER -> shared[j]]
  BY DEF FlatMerge
<1> HIDE DEF folded
<1>4. \A j \in Keys : \/ shared'[j] = Absent
                      \/ shared'[j] = shared[j]
                      \/ j = k /\ shared'[j] = folded
  BY <1>3
<1>5. \A j \in Keys : ~Weaker(shared[j], shared[j])
  BY <1>1, SameKept
<1>6. Absent.gen = 0
  BY DEF Absent
<1> QED
  BY <1>2, <1>4, <1>5, <1>6 DEF Kept

\* The private and the cross table, and the shared one outside an import.
LEMMA NothingWeaker ==
    ASSUME IInv, [Next]_vars
    PROVE  /\ Kept(tt, tt') /\ Kept(cross, cross')
           /\ toImport' = toImport => Kept(shared, shared')
<1>1. /\ tt \in [Keys -> Entry] /\ shared \in [Keys -> Entry] /\ cross \in [Keys -> Entry]
      /\ generation \in Nat /\ sharedGen \in Nat /\ 1 \in Nat
  BY DEF IInv, TypeOK
<1>2. Kept(tt, tt) /\ Kept(shared, shared) /\ Kept(cross, cross)
  BY <1>1, SameKept DEF Kept
<1>3. ASSUME NEW k \in Keys, NEW d \in 1 .. Last, Probe(k, d)
      PROVE  Kept(tt, tt') /\ Kept(cross, cross') /\ Kept(shared, shared')
  <2>1. ASSUME NEW table \in [Keys -> Entry], NEW g \in Nat
        PROVE  Kept(table, [table EXCEPT ![k].gen = g])
    <3> DEFINE new == [table EXCEPT ![k].gen = g]
    <3>1. \A j \in Keys : /\ new[j] \in Entry
                          /\ new[j].proved = table[j].proved
                          /\ new[j].disproved = table[j].disproved
                          /\ new[j].refuted = table[j].refuted
      BY RenewSound DEF Entry
    <3> HIDE DEF new
    <3>2. \A j \in Keys : ~Weaker(new[j], table[j])
      BY <3>1, SameKept
    <3> QED
      BY <3>2 DEF Kept, new
  <2> QED
    BY <1>1, <1>2, <1>3, <2>1 DEF Probe
<1>4. ASSUME NEW k \in Keys, Store(k)
      PROVE  Kept(tt, tt') /\ Kept(cross, cross') /\ Kept(shared, shared')
  <2>1. PICK d \in 1 .. depth : \E v \in Proofs(k, d) \cup Disproofs(d, dist[k]) :
                                   StoreOwn(k, v) /\ StoreCross(k, v)
    BY <1>4 DEF Store
  <2>2. PICK v \in Proofs(k, d) \cup Disproofs(d, dist[k]) :
          StoreOwn(k, v) /\ StoreCross(k, v)
    BY <2>1
  <2>3. v \in Verdict
    BY <2>2, VerdictsSound, DepthAssumption DEF IInv, TypeOK, Depths
  <2>4. \/ tt' \in Merge(tt, generation, k, v) /\ shared' = shared
        \/ tt' = tt /\ FlatMerge(k, v)
        \/ tt' = tt /\ shared' \in Merge(shared, sharedGen, k, v)
    BY <2>2 DEF StoreOwn
  <2>5. Kept(tt, tt') /\ Kept(shared, shared')
    BY <1>1, <1>2, <2>3, <2>4, MergeKeeps, FlatKeeps DEF IInv
  <2>6. cross' = cross \/ cross' \in Merge(cross, 1, k, v)
    BY <2>2 DEF StoreCross, Publish
  <2> QED
    BY <1>1, <1>2, <2>3, <2>5, <2>6, MergeKeeps
<1>5. ASSUME NEW k \in Keys, OtherLaneStores(k)
      PROVE  Kept(tt, tt') /\ Kept(cross, cross') /\ Kept(shared, shared')
  <2>1. PICK d \in 1 .. Last : \E v \in Proofs(k, d) \cup Disproofs(d, full[k]) :
                                  Publish(k, v, FALSE) \/ Publish(k, v, TRUE)
    BY <1>5 DEF OtherLaneStores
  <2>2. PICK v \in Proofs(k, d) \cup Disproofs(d, full[k]) :
          Publish(k, v, FALSE) \/ Publish(k, v, TRUE)
    BY <2>1
  <2>3. v \in Verdict
    BY <2>2, VerdictsSound, LastIsDepth DEF IInv
  <2>4. cross' = cross \/ cross' \in Merge(cross, 1, k, v)
    BY <2>2 DEF Publish
  <2>5. tt' = tt /\ shared' = shared
    BY <1>5 DEF OtherLaneStores
  <2> QED
    BY <1>1, <1>2, <2>3, <2>4, <2>5, MergeKeeps
<1>6. ASSUME NEW k \in Keys, Import(k)
      PROVE  tt' = tt /\ cross' = cross /\ toImport' # toImport
  BY <1>6 DEF Import
<1>7. CASE Abort \/ NextRootMove \/ StartSplit \/ AtRest \/ UNCHANGED vars
  <2>1. tt' = tt /\ shared' = shared /\ cross' = cross
    BY <1>7 DEF Abort, NextRootMove, StartSplit, AtRest, vars, tables
  <2> QED
    BY <1>2, <2>1
<1>8. CASE NextDepth
  <2>1. \A table : Kept(table, Empty)
    BY DEF Kept, Empty, Absent
  <2> QED
    BY <1>2, <1>8, <2>1, NextDepthTables DEF IInv
<1>9. ASSUME NEW k \in Keys, DfpnPublish(k)
      PROVE  Kept(tt, tt') /\ Kept(cross, cross') /\ Kept(shared, shared')
  <2>1. PICK v \in Verdict : /\ tt' \in Merge(tt, generation, k, v)
                             /\ Publish(k, v, authoritative)
    BY <1>9, DfpnVerdict DEF IInv
  <2>2. shared' = shared /\ (cross' = cross \/ cross' \in Merge(cross, 1, k, v))
    BY <1>9, <2>1, DfpnVerdict DEF Publish, IInv
  <2> QED
    BY <1>1, <1>2, <2>1, <2>2, MergeKeeps
<1> QED
  BY <1>2, <1>3, <1>4, <1>5, <1>6, <1>7, <1>8, <1>9 DEF Next

\* "Absorbing, so a deeper search may never downgrade it" (types.h): while it is
\* held an entry only grows stronger, through stores, evictions of others and slots
\* overwritten; the shared table's import is the one exception.
THEOREM EntriesOnlyStrengthen == Spec => NothingDowngraded
<1>1. IInv /\ [Next]_vars
      => [\A k \in Keys :
           /\ tt'[k].gen # 0 => ~Weaker(tt'[k], tt[k])
           /\ toImport' = toImport /\ shared'[k].gen # 0 => ~Weaker(shared'[k], shared[k])
           /\ cross'[k].gen # 0 => ~Weaker(cross'[k], cross[k])]_vars
  BY NothingWeaker DEF Kept
<1> QED
  BY <1>1, Invariance, PTL DEF Spec, NothingDowngraded

-----------------------------------------------------------------------------
(* What an eviction sheds first. *)

\* Refuted entries rank above every other.
LEMMA RankTells ==
    ASSUME NEW entry \in Entry
    PROVE  /\ Rank(entry) \in Int
           /\ entry.refuted => Rank(entry) = MaxDepth + 1
           /\ ~entry.refuted => Rank(entry) <= MaxDepth
BY DepthAssumption DEF Rank, Entry, Depths, NoProof, NoDisproof

LEMMA PutShedsLast ==
    ASSUME NEW table \in [Keys -> Entry], NEW g \in Nat \ {0}, NEW k \in Keys,
           NEW entry \in Entry, table[k].refuted => entry.refuted,
           NEW new \in Put(table, g, k, entry)
    PROVE  ShedLast(new, table, g)
<1> SUFFICES ASSUME NEW i \in Keys, table[i].refuted, table[i].gen = g, new[i].gen = 0,
                    NEW j \in Keys, new[j].gen # 0
             PROVE  new[j].refuted
  BY DEF ShedLast
<1> DEFINE grown == [table EXCEPT ![k] = [entry EXCEPT !.gen = g]]
<1>1. grown \in [Keys -> Entry]
  BY RenewSound
<1>2. grown[i].refuted /\ grown[i].gen = g
  BY DEF Entry
<1>3. \/ new = grown
      \/ \E kept \in Survivors(grown, g) :
            new = [m \in Keys |-> IF m \in kept THEN grown[m] ELSE Absent]
  BY DEF Put
<1> HIDE DEF grown
<1>4. new # grown
  BY <1>2
<1>5. PICK kept \in Survivors(grown, g) :
             new = [m \in Keys |-> IF m \in kept THEN grown[m] ELSE Absent]
  BY <1>3, <1>4
<1>6. i \notin kept /\ j \in kept /\ new[j] = grown[j]
  BY <1>2, <1>5 DEF Absent
<1> DEFINE current == {m \in Keys : grown[m].gen = g}
<1>7. i \in current
  BY <1>2
<1>8. \A m \in kept, gone \in current \ kept : Rank(grown[gone]) <= Rank(grown[m])
  <2>1. CASE kept = current
    BY <1>6, <1>7, <2>1
  <2>2. CASE kept # current
    BY <2>2 DEF Survivors
  <2> QED
    BY <2>1, <2>2
<1>9. Rank(grown[i]) <= Rank(grown[j])
  BY <1>6, <1>7, <1>8
<1> QED
  BY <1>1, <1>2, <1>6, <1>9, RankTells, DepthAssumption

LEMMA MergeShedsLast ==
    ASSUME NEW table \in [Keys -> Entry], NEW g \in Nat \ {0}, NEW k \in Keys,
           NEW v \in Verdict, NEW new \in Merge(table, g, k, v)
    PROVE  ShedLast(new, table, g)
<1>1. Absorb(table[k], v) \in Entry
  BY AbsorbSound
<1>2. table[k].refuted => Absorb(table[k], v).refuted
  BY Zenon DEF Absorb
<1> QED
  BY <1>1, <1>2, PutShedsLast DEF Merge

Generations == generation # 0

\* A step that forgets nothing forgets nothing refuted.
LEMMA NothingShed ==
    ASSUME NEW table \in [Keys -> Entry], NEW g \in Nat \ {0}
    PROVE  /\ ShedLast(table, table, g)
           /\ \A k \in Keys : ShedLast([table EXCEPT ![k].gen = g], table, g)
BY DEF ShedLast, Entry

LEMMA StepShedsLast ==
    ASSUME IInv, Generations, [Next]_vars
    PROVE  /\ ShedLast(tt', tt, generation) /\ ShedLast(cross', cross, 1)
           /\ Generations'
<1>1. /\ tt \in [Keys -> Entry] /\ cross \in [Keys -> Entry]
      /\ generation \in Nat \ {0} /\ 1 \in Nat \ {0}
  BY DEF IInv, TypeOK, Generations
<1>2. ShedLast(tt, tt, generation) /\ ShedLast(cross, cross, 1)
  BY <1>1, NothingShed
<1>3. ASSUME NEW k \in Keys, NEW d \in 1 .. Last, Probe(k, d)
      PROVE  /\ ShedLast(tt', tt, generation) /\ ShedLast(cross', cross, 1)
             /\ generation' = generation
  <2>1. tt' = tt \/ tt' = [tt EXCEPT ![k].gen = generation]
    BY <1>3 DEF Probe
  <2>2. ShedLast(tt', tt, generation)
    BY <1>1, <2>1, NothingShed
  <2>3. cross' = cross /\ generation' = generation
    BY <1>3 DEF Probe, gens
  <2> QED
    BY <1>2, <2>2, <2>3
<1>4. ASSUME NEW k \in Keys, Store(k)
      PROVE  /\ ShedLast(tt', tt, generation) /\ ShedLast(cross', cross, 1)
             /\ generation' = generation
  <2>1. PICK d \in 1 .. depth : \E v \in Proofs(k, d) \cup Disproofs(d, dist[k]) :
                                   StoreOwn(k, v) /\ StoreCross(k, v)
    BY <1>4 DEF Store
  <2>2. PICK v \in Proofs(k, d) \cup Disproofs(d, dist[k]) :
          StoreOwn(k, v) /\ StoreCross(k, v)
    BY <2>1
  <2>3. v \in Verdict
    BY <2>2, VerdictsSound, DepthAssumption DEF IInv, TypeOK, Depths
  <2>4. /\ tt' = tt \/ tt' \in Merge(tt, generation, k, v)
        /\ cross' = cross \/ cross' \in Merge(cross, 1, k, v)
    BY <2>2 DEF StoreOwn, StoreCross, Publish
  <2>5. generation' = generation
    BY <1>4 DEF Store, gens
  <2> QED
    BY <1>1, <1>2, <2>3, <2>4, <2>5, MergeShedsLast
<1>5. ASSUME NEW k \in Keys, OtherLaneStores(k)
      PROVE  /\ ShedLast(tt', tt, generation) /\ ShedLast(cross', cross, 1)
             /\ generation' = generation
  <2>1. PICK d \in 1 .. Last : \E v \in Proofs(k, d) \cup Disproofs(d, full[k]) :
                                  Publish(k, v, FALSE) \/ Publish(k, v, TRUE)
    BY <1>5 DEF OtherLaneStores
  <2>2. PICK v \in Proofs(k, d) \cup Disproofs(d, full[k]) :
          Publish(k, v, FALSE) \/ Publish(k, v, TRUE)
    BY <2>1
  <2>3. v \in Verdict
    BY <2>2, VerdictsSound, LastIsDepth DEF IInv
  <2>4. cross' = cross \/ cross' \in Merge(cross, 1, k, v)
    BY <2>2 DEF Publish
  <2>5. tt' = tt /\ generation' = generation
    BY <1>5 DEF OtherLaneStores, gens
  <2> QED
    BY <1>1, <1>2, <2>3, <2>4, <2>5, MergeShedsLast
<1>6. CASE \/ \E k \in Keys : Import(k)
           \/ Abort \/ NextRootMove \/ StartSplit \/ AtRest \/ UNCHANGED vars
  <2>1. tt' = tt /\ cross' = cross
    BY <1>6 DEF Import, Abort, NextRootMove, StartSplit, AtRest, vars, tables
  <2>2. generation' = generation
    BY <1>6 DEF Import, Abort, NextRootMove, StartSplit, AtRest, vars, gens
  <2> QED
    BY <1>1, <1>2, <2>1, <2>2 DEF Generations
<1>7. CASE NextDepth
  <2>1. ShedLast(Empty, tt, generation)
    BY DEF ShedLast, Empty, Absent
  <2>2. ShedLast(tt', tt, generation) /\ ShedLast(cross', cross, 1)
    BY <1>2, <1>7, <2>1, NextDepthTables DEF IInv
  <2>3. generation' # 0
    BY <1>1, <1>7, NextDepthTables DEF IInv
  <2> QED
    BY <2>2, <2>3 DEF Generations
<1>8. ASSUME NEW k \in Keys, DfpnPublish(k)
      PROVE  /\ ShedLast(tt', tt, generation) /\ ShedLast(cross', cross, 1)
             /\ generation' = generation
  <2>1. PICK v \in Verdict : /\ tt' \in Merge(tt, generation, k, v)
                             /\ Publish(k, v, authoritative)
    BY <1>8, DfpnVerdict DEF IInv
  <2>2. cross' = cross \/ cross' \in Merge(cross, 1, k, v)
    BY <2>1 DEF Publish
  <2>3. generation' = generation
    BY <1>8, DfpnVerdict DEF IInv, gens
  <2> QED
    BY <1>1, <1>2, <2>1, <2>2, <2>3, MergeShedsLast
<1> QED
  BY <1>1, <1>3, <1>4, <1>5, <1>6, <1>7, <1>8 DEF Next, Generations

LEMMA InitGenerations == Init => Generations
BY DEF Init, Generations

\* "A refuted entry ranks top and is shed last" (table.h), for any capacity, shed
\* divisor and order among equals.
THEOREM RefutedGoesLast == Spec => RefutedShedLast
<1>1. IInv /\ Generations /\ [Next]_vars => Generations'
  BY StepShedsLast
<1>2. Spec => []Generations
  BY <1>1, InitGenerations, Invariance, PTL DEF Spec
<1>3. IInv /\ Generations /\ [Next]_vars
      => [ShedLast(tt', tt, generation) /\ ShedLast(cross', cross, 1)]_vars
  BY StepShedsLast
<1> QED
  BY <1>2, <1>3, Invariance, PTL DEF Spec, RefutedShedLast

=============================================================================

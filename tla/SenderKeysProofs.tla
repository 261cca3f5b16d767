-------------------------- MODULE SenderKeysProofs --------------------------
(***************************************************************************)
(* The sender keys of SenderKeys for every number of keys, receivers and   *)
(* messages and every limit: the record, the skipped keys, and that the    *)
(* manager implements the group channel.                                   *)
(***************************************************************************)
EXTENDS SenderKeys, FiniteSetTheorems, InductionLemmas

Indexes == 0 .. ChainIndexLimit

(* The key states, the messages and the skipped keys that are in step with *)
(* the chain of their key.                                                 *)
States ==
  {s \in [id : Ids, generation : Nat, chainKey : [id : Ids, step : Nat], chainIndex : Indexes] :
     s.chainKey = ChainKey(s.id, s.chainIndex)}

Message(id, index) == [id |-> id, iteration |-> index, key |-> ChainKey(id, index)]

SkippedKey(id, index) == [id |-> id, index |-> index, key |-> ChainKey(id, index)]

SkippedKeys == {SkippedKey(id, index) : id \in Ids, index \in Indexes}

-----------------------------------------------------------------------------
(* The skipped keys of a receiver.                                         *)

(* A set of skipped keys that a store can hold.                            *)
Storable(keys) ==
  /\ keys \subseteq SkippedKeys
  /\ IsFiniteSet(keys)
  /\ Cardinality(keys) <= MaxSkippedKeys

(* What adding n keys, those of the set new, can make of a set of keys.    *)
Outcome(keys, new, n, kept) ==
  /\ Storable(kept)
  /\ kept \subseteq keys \union new
  /\ Cardinality(kept) <= Cardinality(keys) + n
  /\ keys \subseteq kept \/ Cardinality(keys) + n > MaxSkippedKeys

(* A skipped key is known by its key and its index.                        *)
LEMMA SkippedKeyIsUnique ==
  ASSUME NEW k \in SkippedKeys
  PROVE  /\ k.id \in Ids /\ k.index \in Indexes
         /\ k = SkippedKey(k.id, k.index)
BY DEF SkippedKeys, SkippedKey

(* The eviction leaves room for the new key, and takes none when there is  *)
(* room.                                                                   *)
LEMMA EvictionMakesRoom ==
  ASSUME NEW keys, Storable(keys),
         NEW gone \in IF Cardinality(keys) < MaxSkippedKeys THEN {{}}
                      ELSE Evictions(keys, Cardinality(keys) - (MaxSkippedKeys - 1))
  PROVE  /\ IsFiniteSet(keys \ gone)
         /\ Cardinality(keys \ gone) <= Cardinality(keys)
         /\ Cardinality(keys \ gone) < MaxSkippedKeys
         /\ gone = {} \/ Cardinality(keys) = MaxSkippedKeys
<1> USE SenderKeysAssumption
<1>1. IsFiniteSet(keys) /\ Cardinality(keys) \in Nat
  BY FS_CardinalityType DEF Storable
<1>2. CASE Cardinality(keys) < MaxSkippedKeys
  <2>1. gone = {} BY <1>2
  <2>2. keys \ gone = keys BY <2>1
  <2> QED BY <1>1, <1>2, <2>1, <2>2
<1>3. CASE ~(Cardinality(keys) < MaxSkippedKeys)
  <2>1. Cardinality(keys) = MaxSkippedKeys /\ MaxSkippedKeys \in Nat \ {0}
    BY <1>1, <1>3 DEF Storable
  <2>2. gone \in Evictions(keys, 1)
    BY <1>3, <2>1
  <2>3. gone \subseteq keys /\ Cardinality(gone) = 1
    BY <2>2 DEF Evictions, kSubset
  <2>4. IsFiniteSet(keys \ gone)
    BY <1>1, FS_Difference
  <2>5. Cardinality(keys \ gone) = Cardinality(keys) - Cardinality(keys \cap gone)
    BY <1>1, FS_Difference
  <2>6. keys \cap gone = gone
    BY <2>3
  <2>7. Cardinality(keys \ gone) = Cardinality(keys) - 1
    BY <2>3, <2>5, <2>6
  <2> QED BY <2>1, <2>4, <2>7
<1> QED BY <1>2, <1>3

\* Storing one skipped key adds it and evicts at most what the limit asks for.
LEMMA WithSkippedOutcome ==
  ASSUME NEW keys, Storable(keys), NEW new \in SkippedKeys,
         NEW kept \in WithSkipped(keys, new)
  PROVE  Outcome(keys, {new}, 1, kept)
<1> USE SenderKeysAssumption
<1>1. PICK gone \in IF Cardinality(keys) < MaxSkippedKeys THEN {{}}
                    ELSE Evictions(keys, Cardinality(keys) - (MaxSkippedKeys - 1)) :
        kept = {k \in keys \ gone : <<k.id, k.index>> # <<new.id, new.index>>} \union {new}
  BY DEF WithSkipped
<1> DEFINE rest == keys \ gone
           others == {k \in rest : <<k.id, k.index>> # <<new.id, new.index>>}
<1>2. /\ IsFiniteSet(rest)
      /\ Cardinality(rest) <= Cardinality(keys)
      /\ Cardinality(rest) < MaxSkippedKeys
      /\ gone = {} \/ Cardinality(keys) = MaxSkippedKeys
  BY <1>1, EvictionMakesRoom
<1>3. others \subseteq rest
  OBVIOUS
<1>4. IsFiniteSet(others) /\ Cardinality(others) <= Cardinality(rest)
  BY <1>2, <1>3, FS_Subset
<1>5. \A k \in keys : <<k.id, k.index>> = <<new.id, new.index>> => k = new
  BY SkippedKeyIsUnique DEF Storable
<1>6. new \notin others
  OBVIOUS
<1>7. IsFiniteSet(kept) /\ Cardinality(kept) = Cardinality(others) + 1
  BY <1>1, <1>4, <1>6, FS_AddElement
<1>8. /\ Cardinality(keys) \in Nat /\ Cardinality(rest) \in Nat /\ Cardinality(others) \in Nat
      /\ MaxSkippedKeys \in Nat
  BY <1>2, <1>4, FS_CardinalityType DEF Storable
<1>9. Storable(kept)
  BY <1>1, <1>2, <1>4, <1>7, <1>8 DEF Storable
<1>10. Cardinality(kept) <= Cardinality(keys) + 1
  BY <1>2, <1>4, <1>7, <1>8
<1>11. gone = {} => keys \subseteq kept
  BY <1>1, <1>5
<1>12. kept \subseteq keys \union {new}
  BY <1>1
<1>13. keys \subseteq kept \/ Cardinality(keys) + 1 > MaxSkippedKeys
  BY <1>2, <1>8, <1>11
<1> QED BY <1>9, <1>10, <1>12, <1>13 DEF Outcome

(* The sets of skipped keys after each key of a staged sequence.           *)
Outcomes(keys, staged, n, f) ==
  [i \in 0 .. n |-> IF i = 0 THEN {keys}
                    ELSE UNION {WithSkipped(k, staged[i]) : k \in f[i - 1]}]

StagedOf(staged, n) == \A i \in 1 .. n : staged[i] \in SkippedKeys

(* The recursion of WithAllSkipped defines a function.                     *)
LEMMA OutcomesExist ==
  ASSUME NEW keys, Storable(keys), NEW n \in Nat, NEW staged, StagedOf(staged, n)
  PROVE  \E f : f = Outcomes(keys, staged, n, f)
<1> DEFINE S == SUBSET {kept \in SUBSET SkippedKeys : Storable(kept)}
           Step(i, v) == UNION {WithSkipped(k, staged[i]) : k \in v}
           step == [p \in (1 .. n) \X S |-> Step(p[1], p[2])]
<1>1. {keys} \in S
  BY DEF Storable
<1>2. \A i \in 1 .. n : \A v \in S : step[<<i, v>>] = Step(i, v)
  OBVIOUS
<1>3. StepsWithin(step, n, S)
  <2>1. ASSUME NEW i \in 1 .. n, NEW v \in S PROVE Step(i, v) \in S
    <3>1. SUFFICES ASSUME NEW k \in v, NEW kept \in WithSkipped(k, staged[i])
                   PROVE  kept \in SUBSET SkippedKeys /\ Storable(kept)
      OBVIOUS
    <3>2. Storable(k) /\ staged[i] \in SkippedKeys
      BY DEF StagedOf
    <3>3. Outcome(k, {staged[i]}, 1, kept)
      BY <3>2, WithSkippedOutcome
    <3> QED BY <3>3 DEF Outcome, Storable
  <2> HIDE DEF S, step, Step
  <2> QED BY <1>2, <2>1 DEF StepsWithin
<1> HIDE DEF S, step
<1>4. PICK f : Recursion(f, n, S, {keys}, step)
  BY <1>1, <1>3, IntervalRecursion
<1>5. f \in [0 .. n -> S] /\ f[0] = {keys} /\ \A i \in 1 .. n : f[i - 1] \in S
  BY <1>4 DEF Recursion
<1>6. \A i \in 1 .. n : f[i] = Step(i, f[i - 1])
  BY <1>2, <1>4, <1>5 DEF Recursion
<1>7. f = Outcomes(keys, staged, n, f)
  <2>1. \A i \in 0 .. n : f[i] = IF i = 0 THEN {keys} ELSE Step(i, f[i - 1])
    <3>1. \A i \in 0 .. n : i = 0 \/ (i # 0 /\ i \in 1 .. n) OBVIOUS
    <3> QED BY <1>5, <1>6, <3>1, Zenon
  <2>2. f = [i \in 0 .. n |-> f[i]]
    BY <1>5
  <2> QED BY <2>1, <2>2, Zenon DEF Outcomes
<1> QED BY <1>7

(* Each set of the recursion is an outcome of the keys added so far.       *)
LEMMA OutcomesOfKeys ==
  ASSUME NEW keys, Storable(keys), NEW n \in Nat, NEW staged, StagedOf(staged, n),
         NEW f, f = Outcomes(keys, staged, n, f), NEW kept \in f[n]
  PROVE  Outcome(keys, {staged[i] : i \in 1 .. n}, n, kept)
<1> USE SenderKeysAssumption
<1> DEFINE New(i) == {staged[j] : j \in 1 .. i}
           P == {i \in 0 .. n : \A k \in f[i] : Outcome(keys, New(i), i, k)}
<1>1. \A i \in 0 .. n : f[i] = IF i = 0 THEN {keys}
                              ELSE UNION {WithSkipped(k, staged[i]) : k \in f[i - 1]}
  BY Zenon DEF Outcomes
<1>2. 0 \in P
  <2>0. 0 \in 0 .. n OBVIOUS
  <2>1. f[0] = {keys} BY <1>1, <2>0, Zenon
  <2>2. Cardinality(keys) \in Nat BY FS_CardinalityType DEF Storable
  <2>3. Outcome(keys, New(0), 0, keys) BY <2>2 DEF Outcome
  <2> HIDE DEF New
  <2> QED BY <2>1, <2>3
<1>3. ASSUME NEW i \in 1 .. n, i - 1 \in P PROVE i \in P
  <2>1. SUFFICES ASSUME NEW k \in f[i] PROVE Outcome(keys, New(i), i, k)
    OBVIOUS
  <2>2. PICK j \in f[i - 1] : k \in WithSkipped(j, staged[i])
    <3>1. i \in 0 .. n /\ i # 0 OBVIOUS
    <3>2. f[i] = UNION {WithSkipped(j, staged[i]) : j \in f[i - 1]}
      BY <1>1, <3>1, Zenon
    <3> QED BY <2>1, <3>2, Zenon
  <2>3. Outcome(keys, New(i - 1), i - 1, j)
    BY <1>3, <2>2
  <2>4. Outcome(j, {staged[i]}, 1, k)
    BY <2>2, <2>3, WithSkippedOutcome DEF Outcome, StagedOf
  <2>5. New(i - 1) \subseteq New(i) /\ staged[i] \in New(i)
    <3>1. i \in 1 .. i /\ \A l \in 1 .. (i - 1) : l \in 1 .. i OBVIOUS
    <3> QED BY <3>1
  <2>6. /\ Cardinality(keys) \in Nat /\ Cardinality(j) \in Nat /\ Cardinality(k) \in Nat
        /\ MaxSkippedKeys \in Nat
    BY <2>3, <2>4, FS_CardinalityType DEF Storable, Outcome
  <2> HIDE DEF New
  <2>7. k \subseteq keys \union New(i) /\ Storable(k)
    BY <2>3, <2>4, <2>5 DEF Outcome
  <2>8. Cardinality(k) <= Cardinality(keys) + i
    BY <2>3, <2>4, <2>6 DEF Outcome
  <2>9. keys \subseteq k \/ Cardinality(keys) + i > MaxSkippedKeys
    BY <2>3, <2>4, <2>6 DEF Outcome
  <2> QED BY <2>7, <2>8, <2>9 DEF Outcome
<1> HIDE DEF P
<1>4. 0 .. n \subseteq P
  BY <1>2, <1>3, IntervalInduction
<1>5. n \in P
  BY <1>4
<1> QED BY <1>5 DEF P

(* Adding the keys of a staged sequence keeps what fits.                   *)
LEMMA WithAllSkippedOutcome ==
  ASSUME NEW keys, Storable(keys), NEW staged \in Seq(SkippedKeys),
         NEW kept \in WithAllSkipped(keys, staged)
  PROVE  Outcome(keys, {staged[i] : i \in 1 .. Len(staged)}, Len(staged), kept)
<1> DEFINE n == Len(staged)
           f == CHOOSE g : g = Outcomes(keys, staged, n, g)
<1>1. n \in Nat /\ StagedOf(staged, n)
  BY DEF StagedOf
<1>2. WithAllSkipped(keys, staged) = f[n]
  BY Zenon DEF WithAllSkipped, Outcomes
<1> HIDE DEF n
<1>3. \E g : g = Outcomes(keys, staged, n, g)
  BY <1>1, OutcomesExist
<1>4. f = Outcomes(keys, staged, n, f)
  BY <1>3, Zenon
<1> HIDE DEF f
<1>5. Outcome(keys, {staged[i] : i \in 1 .. n}, n, kept)
  BY <1>1, <1>2, <1>4, OutcomesOfKeys
<1> QED BY <1>5 DEF n

-----------------------------------------------------------------------------
(* The invariant.                                                          *)

(* The sender's key is the last one it created, and it has encrypted only  *)
(* below its chain index.                                                  *)
SenderInv ==
  /\ created \in 0 .. MaxKeys
  /\ own # NoKey => own \in States /\ own.id = created
  /\ \A m \in groupMessages :
       /\ m = Message(m.id, m.iteration)
       /\ m.id \in 1 .. created
       /\ m.iteration \in Indexes /\ m.iteration + 1 \in Indexes
       /\ own # NoKey /\ m.id = own.id => m.iteration < own.chainIndex

(* A key has one generation, whatever copies of it were sent.              *)
Offers(offers) ==
  \A d \in offers :
    /\ d \in States
    /\ d.id <= created
    /\ own # NoKey /\ own.id = d.id => own.generation = d.generation
    /\ \A e \in offers : e.id = d.id => e.generation = d.generation

(* A record holds each key once, and only keys that were sent.             *)
Recorded(rec, offers) ==
  /\ rec \in Seq(States)
  /\ Len(rec) <= MaxStates
  /\ \A i, j \in DOMAIN rec : rec[i].id = rec[j].id => i = j
  /\ \A i \in DOMAIN rec :
       \E d \in offers : d.id = rec[i].id /\ d.generation = rec[i].generation

Functions ==
  /\ distributions = [r \in Receivers |-> distributions[r]]
  /\ record = [r \in Receivers |-> record[r]]
  /\ skipped = [r \in Receivers |-> skipped[r]]

(* The invariant.  That a record holds each key once needs that a key has  *)
(* one generation, or a copy of the current key would be installed beside  *)
(* it; what a receiver opens needs that its chains and its skipped keys    *)
(* are in step with the sender's.                                          *)
IInv ==
  /\ SenderInv
  /\ Functions
  /\ \A r \in Receivers :
       /\ Offers(distributions[r])
       /\ Recorded(record[r], distributions[r])
       /\ Storable(skipped[r])

-----------------------------------------------------------------------------
(* The record of a receiver.                                               *)

\* The smaller of two numbers.
LEMMA MinOfTwo ==
  ASSUME NEW a \in Nat, NEW b \in Nat
  PROVE  Min({a, b}) = IF a <= b THEN a ELSE b
<1>1. \E x \in {a, b} : \A y \in {a, b} : x <= y
  OBVIOUS
<1>2. Min({a, b}) \in {a, b} /\ \A y \in {a, b} : Min({a, b}) <= y
  BY <1>1, Zenon DEF Min
<1> QED BY <1>2

(* The record new has d in front of what it keeps of rec.                  *)
Installed(rec, new, d) ==
  /\ new \in Seq(States)
  /\ Len(new) >= 1 /\ Len(rec) <= Len(new) /\ Len(new) <= Len(rec) + 1
  /\ Len(new) <= MaxStates
  /\ new[1] = d
  /\ \A i \in 2 .. Len(new) : new[i] = rec[i - 1]

(* The state of a distribution goes in front, and at most the last one     *)
(* leaves.                                                                 *)
LEMMA ArchiveShifts ==
  ASSUME NEW rec \in Seq(States), Len(rec) <= MaxStates,
         NEW d \in States, ~Holds(rec, d.id)
  PROVE  Installed(rec, <<d>> \o Archive(rec, d), d)
<1> USE SenderKeysAssumption
<1>0. MaxStates \in Nat \ {0} /\ Len(rec) \in Nat
  OBVIOUS
<1>1. CASE rec = <<>>
  <2>1. Archive(rec, d) = <<>> BY <1>1 DEF Archive
  <2>2. <<d>> \o <<>> = <<d>> /\ <<d>> \in Seq(States) /\ Len(<<d>>) = 1 /\ Len(rec) = 0
    BY <1>1
  <2> QED BY <1>0, <2>1, <2>2 DEF Installed
<1>2. CASE rec # <<>>
  <2>1. Len(rec) >= 1 /\ Head(rec) = rec[1] /\ Head(rec).id # d.id
    BY <1>2 DEF Holds
  <2>2. Previous(rec) = SubSeq(rec, 2, Len(rec))
    BY <1>0, MinOfTwo DEF Previous
  <2> DEFINE states == <<Head(rec)>> \o Previous(rec)
  <2>3. states = rec
    BY <2>1, <2>2
  <2> DEFINE n == Min({Len(rec), MaxStates - 1})
  <2>4. n = IF Len(rec) <= MaxStates - 1 THEN Len(rec) ELSE MaxStates - 1
    BY <1>0, MinOfTwo
  <2>5. Archive(rec, d) = SubSeq(rec, 1, n)
    BY <1>2, <2>1, <2>3 DEF Archive
  <2> HIDE DEF n
  <2>6. n \in Nat /\ n <= Len(rec) /\ n + 1 >= Len(rec) /\ n + 1 <= MaxStates
    BY <1>0, <2>4
  <2>7. <<d>> \o SubSeq(rec, 1, n) \in Seq(States)
    BY <2>6
  <2>8. Len(<<d>> \o SubSeq(rec, 1, n)) = n + 1
    BY <2>6
  <2>9. (<<d>> \o SubSeq(rec, 1, n))[1] = d
    BY <2>6
  <2>10. \A i \in 2 .. (n + 1) : (<<d>> \o SubSeq(rec, 1, n))[i] = rec[i - 1]
    BY <2>6
  <2> QED BY <1>0, <2>1, <2>5, <2>6, <2>7, <2>8, <2>9, <2>10 DEF Installed
<1> QED BY <1>1, <1>2

(* A distribution that is not stale is of a key that the record lacks.     *)
LEMMA FreshDistribution ==
  ASSUME NEW offers, Offers(offers), NEW rec, Recorded(rec, offers),
         NEW d \in offers, ~StaleDistribution(rec, d)
  PROVE  ~Holds(rec, d.id)
<1> USE SenderKeysAssumption
<1>0. /\ MaxStates \in Nat /\ Len(rec) \in Nat /\ Len(rec) <= MaxStates
      /\ rec \in Seq(States) /\ DOMAIN rec = 1 .. Len(rec)
  BY DEF Recorded
<1>1. CASE rec = <<>>
  BY <1>1 DEF Holds
<1>2. CASE rec # <<>>
  <2>1. Len(rec) >= 1 /\ Head(rec) = rec[1] /\ 1 \in DOMAIN rec
    BY <1>0, <1>2
  <2>2. Previous(rec) = SubSeq(rec, 2, Len(rec))
    BY <1>0, MinOfTwo DEF Previous
  <2>3. rec[1].generation \in Nat /\ d.generation \in Nat
    BY <1>0, <2>1 DEF Offers, States
  <2>4. rec[1].id = d.id => rec[1].generation = d.generation
    BY <2>1 DEF Recorded, Offers
  <2>5. rec[1].id # d.id /\ ~Holds(Previous(rec), d.id)
    BY <1>2, <2>1, <2>3, <2>4 DEF StaleDistribution
  <2>6. SUFFICES ASSUME NEW i \in 1 .. Len(rec), rec[i].id = d.id PROVE FALSE
    BY <1>0 DEF Holds
  <2>7. i \in 2 .. Len(rec)
    BY <2>5, <2>6
  <2>8. i - 1 \in DOMAIN SubSeq(rec, 2, Len(rec)) /\ SubSeq(rec, 2, Len(rec))[i - 1] = rec[i]
    BY <1>0, <2>7
  <2> QED BY <2>2, <2>5, <2>6, <2>8 DEF Holds
<1> QED BY <1>1, <1>2

(* The chain of a state moves and stays in step.                           *)
LEMMA RatchetInStep ==
  ASSUME NEW s \in States, NEW n \in Nat, s.chainIndex + n \in Indexes
  PROVE  /\ Ratchet(s, n) \in States
         /\ Ratchet(s, n).id = s.id
         /\ Ratchet(s, n).generation = s.generation
         /\ Ratchet(s, n).chainIndex = s.chainIndex + n
<1> USE SenderKeysAssumption
<1>1. s.chainKey = [id |-> s.id, step |-> s.chainIndex]
  BY DEF States, ChainKey
<1>2. Advance(s.chainKey, n) = [id |-> s.id, step |-> s.chainIndex + n]
  BY <1>1 DEF Advance
<1>3. Ratchet(s, n) = [id |-> s.id, generation |-> s.generation,
                       chainKey |-> [id |-> s.id, step |-> s.chainIndex + n],
                       chainIndex |-> s.chainIndex + n]
  <2> DEFINE a == Advance(s.chainKey, n)
  <2>1. a = [id |-> s.id, step |-> s.chainIndex + n] BY <1>2
  <2>2. s \in [id : Ids, generation : Nat, chainKey : [id : Ids, step : Nat], chainIndex : Indexes]
    BY DEF States
  <2>3. Ratchet(s, n) = [s EXCEPT !.chainKey = a, !.chainIndex = s.chainIndex + n]
    BY DEF Ratchet
  <2> HIDE DEF a
  <2>4. Ratchet(s, n) = [id |-> s.id, generation |-> s.generation, chainKey |-> a,
                         chainIndex |-> s.chainIndex + n]
    BY <2>2, <2>3
  <2> QED BY <2>1, <2>4
<1> QED BY <1>3 DEF States, ChainKey, Indexes

PassedKeys(s, n) == {SkippedKey(s.id, j) : j \in s.chainIndex .. (s.chainIndex + n - 1)}

StagedKeys(s, n) == {Staged(s, n)[i] : i \in 1 .. n}

(* The keys that a message skips are those of the indexes that the chain   *)
(* passes.                                                                 *)
LEMMA StagedInStep ==
  ASSUME NEW s \in States, NEW n \in Nat, s.chainIndex + n \in Indexes
  PROVE  /\ Staged(s, n) \in Seq(SkippedKeys)
         /\ Len(Staged(s, n)) = n
         /\ StagedKeys(s, n) = PassedKeys(s, n)
<1> USE SenderKeysAssumption
<1>1. s.chainKey = [id |-> s.id, step |-> s.chainIndex] /\ s.id \in Ids /\ s.chainIndex \in Indexes
  BY DEF States, ChainKey
<1>2. \A i \in 1 .. n : Staged(s, n)[i] = SkippedKey(s.id, s.chainIndex + i - 1)
  BY <1>1 DEF Staged, SkippedKey, Advance, ChainKey, Indexes
<1>3. \A i \in 1 .. n : s.chainIndex + i - 1 \in Indexes
  BY <1>1 DEF Indexes
<1>4. Staged(s, n) = [i \in 1 .. n |-> Staged(s, n)[i]]
  BY DEF Staged
<1>5. \A i \in 1 .. n : Staged(s, n)[i] \in SkippedKeys
  BY <1>1, <1>2, <1>3 DEF SkippedKeys
<1>6. \A i \in 1 .. n : s.chainIndex + i - 1 \in s.chainIndex .. (s.chainIndex + n - 1)
  BY <1>1 DEF Indexes
<1>7. \A j \in s.chainIndex .. (s.chainIndex + n - 1) :
        j - s.chainIndex + 1 \in 1 .. n /\ s.chainIndex + (j - s.chainIndex + 1) - 1 = j
  BY <1>1 DEF Indexes
<1> DEFINE q == Staged(s, n)
<1>8. q \in Seq(SkippedKeys) /\ Len(q) = n
  <2> HIDE DEF q
  <2>1. q = [i \in 1 .. n |-> q[i]] /\ \A i \in 1 .. n : q[i] \in SkippedKeys BY <1>4, <1>5 DEF q
  <2> QED BY <2>1
<1>9. {q[i] : i \in 1 .. n} = {SkippedKey(s.id, j) : j \in s.chainIndex .. (s.chainIndex + n - 1)}
  <2> HIDE DEF q
  <2>1. \A i \in 1 .. n : q[i] = SkippedKey(s.id, s.chainIndex + i - 1) BY <1>2 DEF q
  <2>2. \A j \in s.chainIndex .. (s.chainIndex + n - 1) :
          j - s.chainIndex + 1 \in 1 .. n /\ q[j - s.chainIndex + 1] = SkippedKey(s.id, j)
    BY <1>7, <2>1
  <2> QED BY <1>6, <2>1, <2>2
<1> QED BY <1>8, <1>9 DEF StagedKeys, PassedKeys

(* What a message that is opened from the chain changes.                   *)
SkippedBy(s, m) == {SkippedKey(m.id, j) : j \in s.chainIndex .. (m.iteration - 1)}

ChainMoved(r, m, i) ==
  LET s == record[r][i] IN
  /\ i \in DOMAIN record[r] /\ s.id = m.id
  /\ s.chainIndex <= m.iteration
  /\ \E t \in States :
       /\ t.id = s.id /\ t.generation = s.generation
       /\ t.chainIndex = m.iteration + 1
       /\ record' = [record EXCEPT ![r] = [@ EXCEPT ![i] = t]]
  /\ \E kept :
       /\ Outcome(skipped[r], SkippedBy(s, m), m.iteration - s.chainIndex, kept)
       /\ skipped' = [skipped EXCEPT ![r] = kept]

\* A decryption from a chain is described by ChainMoved.
LEMMA DecryptMovesChain ==
  ASSUME IInv, NEW r \in Receivers, NEW m \in groupMessages,
         NEW i \in Positions(record[r], m), DecryptFromChain(r, m, i)
  PROVE  ChainMoved(r, m, i)
<1> USE SenderKeysAssumption
<1> DEFINE s == record[r][i]
           gap == m.iteration - s.chainIndex
<1>1. Recorded(record[r], distributions[r]) /\ Storable(skipped[r])
  BY DEF IInv
<1>2. i \in DOMAIN record[r] /\ s.id = m.id
  <2>1. Len(record[r]) \in Nat /\ DOMAIN record[r] = 1 .. Len(record[r]) /\ MaxStates \in Nat
    BY <1>1 DEF Recorded
  <2>2. Min({Len(record[r]), MaxStates}) = Len(record[r])
    BY <1>1, <2>1, MinOfTwo DEF Recorded
  <2> QED BY <2>1, <2>2 DEF Positions
<1>3. s \in States /\ s.chainIndex \in Nat
  BY <1>1, <1>2 DEF Recorded, States, Indexes
<1>4. m.iteration \in Nat /\ m.iteration + 1 \in Indexes /\ m.iteration \in Indexes
  BY DEF IInv, SenderInv, Indexes
<1>5. m.iteration >= s.chainIndex /\ gap \in Nat
  BY <1>3, <1>4 DEF DecryptFromChain, OpensFromChain
<1>6. s.chainIndex + gap = m.iteration /\ s.chainIndex + (gap + 1) = m.iteration + 1
      /\ s.chainIndex + gap - 1 = m.iteration - 1
  BY <1>3, <1>4
<1>7. PICK kept \in WithAllSkipped(skipped[r], Staged(s, gap)) :
        skipped' = [skipped EXCEPT ![r] = kept]
  BY DEF DecryptFromChain
<1>8. record' = [record EXCEPT ![r] = [@ EXCEPT ![i] = Ratchet(s, gap + 1)]]
  BY DEF DecryptFromChain
<1> HIDE DEF gap, s
<1>9. /\ Ratchet(s, gap + 1) \in States
      /\ Ratchet(s, gap + 1).id = s.id
      /\ Ratchet(s, gap + 1).generation = s.generation
      /\ Ratchet(s, gap + 1).chainIndex = m.iteration + 1
  BY <1>3, <1>4, <1>5, <1>6, RatchetInStep
<1>10. /\ Staged(s, gap) \in Seq(SkippedKeys) /\ Len(Staged(s, gap)) = gap
       /\ {Staged(s, gap)[j] : j \in 1 .. gap} = SkippedBy(s, m)
  <2>1. /\ Staged(s, gap) \in Seq(SkippedKeys) /\ Len(Staged(s, gap)) = gap
        /\ StagedKeys(s, gap) = PassedKeys(s, gap)
    BY <1>3, <1>4, <1>5, <1>6, StagedInStep
  <2>2. PassedKeys(s, gap) = SkippedBy(s, m)
    BY <1>2, <1>6, Zenon DEF PassedKeys, SkippedBy
  <2> QED BY <2>1, <2>2 DEF StagedKeys
<1>11. Outcome(skipped[r], SkippedBy(s, m), gap, kept)
  BY <1>1, <1>7, <1>10, WithAllSkippedOutcome
<1> QED BY <1>2, <1>5, <1>7, <1>8, <1>9, <1>11 DEF ChainMoved, s, gap

-----------------------------------------------------------------------------
(* The invariant is preserved.                                             *)

\* Nobody has a sender key.
LEMMA InitInv == Init => IInv
<1> USE SenderKeysAssumption
<1>1. SUFFICES ASSUME Init PROVE IInv
  OBVIOUS
<1>2. SenderInv
  BY <1>1 DEF Init, SenderInv
<1>3. Functions
  BY <1>1 DEF Init, Functions
<1>4. Storable({})
  BY FS_EmptySet DEF Storable
<1>5. \A offers : Recorded(<<>>, offers)
  BY DEF Recorded
<1>6. Offers({})
  BY DEF Offers
<1> QED BY <1>1, <1>2, <1>3, <1>4, <1>5, <1>6 DEF Init, IInv

(* The receivers when only the sender's own state changes.                 *)
LEMMA InstallOwnInv ==
  ASSUME IInv, NEW generation \in Nat, InstallOwn(generation)
  PROVE  IInv'
<1> USE SenderKeysAssumption DEF InstallOwn
<1>1. created \in 0 .. MaxKeys /\ created' = created + 1 /\ created' \in Ids
  BY DEF IInv, SenderInv, Ids
<1>2. own' = [id |-> created', generation |-> generation,
              chainKey |-> [id |-> created', step |-> 0], chainIndex |-> 0]
  BY DEF NewState, ChainKey
<1>3. own' \in States /\ own'.id = created'
  BY <1>1, <1>2 DEF States, ChainKey, Indexes
<1>4. SenderInv'
  <2>1. \A m \in groupMessages : m.id \in 1 .. created' /\ m.id # own'.id
    BY <1>1, <1>3 DEF IInv, SenderInv
  <2> QED BY <1>1, <1>3, <2>1 DEF IInv, SenderInv, Ids
<1>5. ASSUME NEW r \in Receivers PROVE Offers(distributions[r])'
  <2>1. \A d \in distributions[r] : d.id \in Nat /\ d.id <= created
    BY DEF IInv, Offers, States, Ids
  <2>2. \A d \in distributions[r] : d.id <= created' /\ own'.id # d.id
    BY <1>1, <1>3, <2>1
  <2> QED BY <2>2 DEF IInv, Offers
<1>6. Functions' /\ \A r \in Receivers : Recorded(record[r], distributions[r])' /\ Storable(skipped[r])'
  BY DEF IInv, Functions, Recorded, Storable
<1> QED BY <1>4, <1>5, <1>6 DEF IInv

\* deleteSenderKey() leaves the receivers alone.
LEMMA DeleteInv ==
  ASSUME IInv, DeleteSenderKey
  PROVE  IInv'
BY DEF IInv, DeleteSenderKey, SenderInv, Functions, Offers, Recorded, Storable

\* encryptGroupMessage() moves the sender's chain one step.
LEMMA EncryptInv ==
  ASSUME IInv, EncryptGroupMessage
  PROVE  IInv'
<1> USE SenderKeysAssumption DEF EncryptGroupMessage
<1>1. own \in States /\ own.id = created /\ created \in Nat /\ own.chainIndex \in Nat
  BY DEF IInv, SenderInv, States, Indexes
<1>2. own.chainIndex + 1 \in Indexes /\ own.chainIndex \in Indexes /\ own.id \in Ids
  BY <1>1 DEF States, Indexes
<1>3. /\ own' \in States /\ own'.id = own.id /\ own'.generation = own.generation
      /\ own'.chainIndex = own.chainIndex + 1
  BY <1>1, <1>2, RatchetInStep
<1> DEFINE m == Encrypted(own)
<1>4. m = Message(own.id, own.chainIndex)
  BY <1>1 DEF Encrypted, Message, States
<1>5. m.id = own.id /\ m.iteration = own.chainIndex
  BY <1>4 DEF Message
<1> HIDE DEF m
<1>6. groupMessages' = groupMessages \union {m}
  BY DEF m
<1>7. \A n \in groupMessages : n.id = own'.id => n.iteration < own'.chainIndex
  BY <1>1, <1>3 DEF IInv, SenderInv, Indexes
<1>8. SenderInv'
  BY <1>1, <1>2, <1>3, <1>4, <1>5, <1>6, <1>7 DEF IInv, SenderInv, Ids
<1>9. Functions' /\ \A r \in Receivers : Recorded(record[r], distributions[r])' /\ Storable(skipped[r])'
  BY DEF IInv, Functions, Recorded, Storable
<1>10. \A r \in Receivers : Offers(distributions[r])'
  BY <1>3 DEF IInv, Offers
<1> QED BY <1>8, <1>9, <1>10 DEF IInv

\* A distribution offers the sender's present chain to one receiver.
LEMMA DistributeInv ==
  ASSUME IInv, NEW r \in Receivers, DistributeSenderKey(r)
  PROVE  IInv'
<1> USE DEF DistributeSenderKey
<1>1. distributions' = [q \in Receivers |-> IF q = r THEN distributions[r] \union {own}
                                            ELSE distributions[q]]
  BY Zenon DEF IInv, Functions
<1>2. SenderInv' /\ Functions'
  BY <1>1 DEF IInv, SenderInv, Functions
<1>3. own \in States /\ own.id = created /\ created \in Nat
  BY DEF IInv, SenderInv
<1>4. \A q \in Receivers : Offers(distributions[q])'
  BY <1>1, <1>3 DEF IInv, Offers
<1>5. \A q \in Receivers : Recorded(record[q], distributions[q])' /\ Storable(skipped[q])'
  BY <1>1 DEF IInv, Recorded, Storable
<1> QED BY <1>2, <1>4, <1>5 DEF IInv

\* A record with a new state in front is still a record of what was offered.
LEMMA InstalledRecord ==
  ASSUME NEW rec, NEW offers, Recorded(rec, offers), NEW d \in offers, ~Holds(rec, d.id),
         NEW new, Installed(rec, new, d)
  PROVE  Recorded(new, offers)
<1>1. /\ Len(rec) \in Nat /\ DOMAIN rec = 1 .. Len(rec)
      /\ Len(new) \in Nat /\ DOMAIN new = 1 .. Len(new)
  BY DEF Recorded, Installed
<1>2. \A i \in 1 .. Len(new) : i = 1 \/ (i \in 2 .. Len(new) /\ i - 1 \in 1 .. Len(rec))
  <2>1. Len(new) <= Len(rec) + 1 BY <1>1 DEF Installed
  <2> QED BY <1>1, <2>1
<1>3. new[1] = d /\ \A i \in 2 .. Len(new) : new[i] = rec[i - 1]
  BY DEF Installed
<1>4. \A i \in 1 .. Len(rec) : rec[i].id # d.id
  BY <1>1 DEF Holds
<1>5. \A i, j \in 1 .. Len(new) : new[i].id = new[j].id => i = j
  <2>1. SUFFICES ASSUME NEW i \in 1 .. Len(new), NEW j \in 1 .. Len(new), new[i].id = new[j].id
                 PROVE  i = j
    OBVIOUS
  <2>2. CASE i = 1 \/ j = 1 BY <1>2, <1>3, <1>4, <2>1, <2>2
  <2>3. CASE i # 1 /\ j # 1
    <3>1. i - 1 \in DOMAIN rec /\ j - 1 \in DOMAIN rec /\ rec[i - 1].id = rec[j - 1].id
      BY <1>1, <1>2, <1>3, <2>1, <2>3
    <3>2. i - 1 = j - 1 BY <3>1 DEF Recorded
    <3> QED BY <3>2
  <2> QED BY <2>2, <2>3
<1>6. \A i \in 1 .. Len(new) :
        \E e \in offers : e.id = new[i].id /\ e.generation = new[i].generation
  <2>1. SUFFICES ASSUME NEW i \in 1 .. Len(new)
                 PROVE \E e \in offers : e.id = new[i].id /\ e.generation = new[i].generation
    OBVIOUS
  <2>2. CASE i = 1 BY <1>3, <2>2
  <2>3. CASE i # 1
    <3>1. i - 1 \in DOMAIN rec /\ new[i] = rec[i - 1] BY <1>1, <1>2, <1>3, <2>3
    <3> QED BY <3>1 DEF Recorded
  <2> QED BY <2>2, <2>3
<1> QED BY <1>1, <1>5, <1>6 DEF Recorded, Installed

(* What a distribution that is processed changes.                          *)
LEMMA ProcessInstalls ==
  ASSUME IInv, NEW r \in Receivers, NEW d \in distributions[r],
         ProcessSenderKeyDistribution(r, d)
  PROVE  /\ ~Holds(record[r], d.id)
         /\ Installed(record[r], record'[r], d)
         /\ record' = [record EXCEPT ![r] = record'[r]]
         /\ UNCHANGED <<senderVars, skipped>>
<1>1. Offers(distributions[r]) /\ Recorded(record[r], distributions[r])
  BY DEF IInv
<1>2. ~Holds(record[r], d.id)
  BY <1>1, FreshDistribution DEF ProcessSenderKeyDistribution
<1>3. record' = [record EXCEPT ![r] = <<d>> \o Archive(record[r], d)]
  BY DEF ProcessSenderKeyDistribution
<1>4. record = [q \in Receivers |-> record[q]]
  BY DEF IInv, Functions
<1>5. record'[r] = <<d>> \o Archive(record[r], d)
  BY <1>3, <1>4
<1>6. record[r] \in Seq(States) /\ Len(record[r]) <= MaxStates /\ d \in States
  BY <1>1 DEF Recorded, Offers
<1>7. Installed(record[r], <<d>> \o Archive(record[r], d), d)
  BY <1>2, <1>6, ArchiveShifts
<1> QED BY <1>2, <1>3, <1>5, <1>7 DEF ProcessSenderKeyDistribution

\* processSenderKeyDistribution() changes the record of one receiver.
LEMMA ProcessInv ==
  ASSUME IInv, NEW r \in Receivers, NEW d \in distributions[r],
         ProcessSenderKeyDistribution(r, d)
  PROVE  IInv'
<1>1. /\ ~Holds(record[r], d.id)
      /\ Installed(record[r], record'[r], d)
      /\ record' = [record EXCEPT ![r] = record'[r]]
      /\ UNCHANGED <<senderVars, skipped>>
  BY ProcessInstalls
<1>2. Recorded(record'[r], distributions[r])
  BY <1>1, InstalledRecord DEF IInv
<1>3. record' = [q \in Receivers |-> IF q = r THEN record'[r] ELSE record[q]]
  BY <1>1, Zenon DEF IInv, Functions
<1>4. \A q \in Receivers : Recorded(record'[q], distributions[q])
  BY <1>2, <1>3 DEF IInv
<1>5. SenderInv' /\ Functions' /\ \A q \in Receivers : Offers(distributions[q])' /\ Storable(skipped[q])'
  BY <1>1, <1>3 DEF IInv, SenderInv, Functions, Offers, Storable, senderVars
<1>6. \A q \in Receivers : Recorded(record[q], distributions[q])'
  BY <1>1, <1>4 DEF Recorded, senderVars
<1> QED BY <1>5, <1>6 DEF IInv

\* decryptGroupMessage() from a chain: the chain moves, skipped keys are stored.
LEMMA ChainMovedInv ==
  ASSUME IInv, NEW r \in Receivers, NEW m \in groupMessages, NEW i, ChainMoved(r, m, i),
         UNCHANGED senderVars
  PROVE  IInv'
<1> DEFINE rec == record[r]
<1>1. PICK t \in States :
        /\ t.id = rec[i].id /\ t.generation = rec[i].generation
        /\ record' = [record EXCEPT ![r] = [@ EXCEPT ![i] = t]]
  BY DEF ChainMoved
<1>2. PICK kept : Storable(kept) /\ skipped' = [skipped EXCEPT ![r] = kept]
  BY DEF ChainMoved, Outcome
<1>3. i \in DOMAIN rec
  BY DEF ChainMoved
<1>4. record' = [q \in Receivers |-> IF q = r THEN [rec EXCEPT ![i] = t] ELSE record[q]]
  BY <1>1, Zenon DEF IInv, Functions
<1>5. skipped' = [q \in Receivers |-> IF q = r THEN kept ELSE skipped[q]]
  BY <1>2, Zenon DEF IInv, Functions
<1>6. Recorded(rec, distributions[r])
  BY DEF IInv
<1> HIDE DEF rec
<1>7. Recorded([rec EXCEPT ![i] = t], distributions[r])
  <2>1. /\ Len([rec EXCEPT ![i] = t]) = Len(rec) /\ DOMAIN [rec EXCEPT ![i] = t] = DOMAIN rec
        /\ [rec EXCEPT ![i] = t] \in Seq(States)
    BY <1>3, <1>6 DEF Recorded
  <2>2. \A j \in DOMAIN rec : /\ [rec EXCEPT ![i] = t][j].id = rec[j].id
                             /\ [rec EXCEPT ![i] = t][j].generation = rec[j].generation
    BY <1>1, <1>3
  <2> QED BY <1>6, <2>1, <2>2 DEF Recorded
<1>8. \A q \in Receivers : Recorded(record'[q], distributions[q]) /\ Storable(skipped'[q])
  BY <1>2, <1>4, <1>5, <1>7 DEF IInv
<1>9. SenderInv' /\ Functions' /\ \A q \in Receivers : Offers(distributions[q])'
  BY <1>4, <1>5 DEF IInv, SenderInv, Functions, Offers, senderVars
<1>10. \A q \in Receivers : Recorded(record[q], distributions[q])' /\ Storable(skipped[q])'
  BY <1>8 DEF Recorded, Storable, senderVars
<1> QED BY <1>9, <1>10 DEF IInv

\* decryptGroupMessage() from a skipped key: the key is erased.
LEMMA DecryptFromSkippedInv ==
  ASSUME IInv, NEW r \in Receivers, NEW m, NEW i, DecryptFromSkipped(r, m, i),
         UNCHANGED senderVars
  PROVE  IInv'
<1> USE SenderKeysAssumption
<1> DEFINE kept == skipped[r] \ SkippedFor(r, m)
<1>1. record' = record /\ skipped' = [skipped EXCEPT ![r] = kept]
  BY DEF DecryptFromSkipped
<1>2. Storable(kept)
  <2>1. kept \subseteq skipped[r] /\ Storable(skipped[r])
    BY DEF IInv
  <2> HIDE DEF kept
  <2>2. IsFiniteSet(kept) /\ Cardinality(kept) <= Cardinality(skipped[r])
    BY <2>1, FS_Subset DEF Storable
  <2>3. Cardinality(kept) \in Nat /\ Cardinality(skipped[r]) \in Nat /\ MaxSkippedKeys \in Nat
    BY <2>1, <2>2, FS_CardinalityType DEF Storable
  <2> QED BY <2>1, <2>2, <2>3 DEF Storable
<1> HIDE DEF kept
<1>3. skipped' = [q \in Receivers |-> IF q = r THEN kept ELSE skipped[q]]
  BY <1>1, Zenon DEF IInv, Functions
<1>4. \A q \in Receivers : Storable(skipped'[q])
  BY <1>2, <1>3 DEF IInv
<1>5. SenderInv' /\ Functions' /\ \A q \in Receivers : Offers(distributions[q])'
  BY <1>1, <1>3 DEF IInv, SenderInv, Functions, Offers, senderVars
<1>6. \A q \in Receivers : Recorded(record[q], distributions[q])' /\ Storable(skipped[q])'
  BY <1>1, <1>4 DEF IInv, Recorded, Storable, senderVars
<1> QED BY <1>5, <1>6 DEF IInv

\* A step of nobody.
LEMMA StutterInv ==
  ASSUME IInv, UNCHANGED vars
  PROVE  IInv'
BY DEF IInv, vars, SenderInv, Functions, Offers, Recorded, Storable

\* One step of the sender or of a receiver.
LEMMA NextInv ==
  ASSUME IInv, [Next]_vars
  PROVE  IInv'
<1>1. CASE CreateSenderKey
  BY <1>1, InstallOwnInv DEF CreateSenderKey
<1>2. CASE RotateSenderKey
  <2>1. (IF own = NoKey THEN 1 ELSE own.generation + 1) \in Nat
    BY DEF IInv, SenderInv, States
  <2> QED BY <1>2, <2>1, InstallOwnInv DEF RotateSenderKey
<1>3. CASE DeleteSenderKey
  BY <1>3, DeleteInv
<1>4. CASE EncryptGroupMessage
  BY <1>4, EncryptInv
<1>5. ASSUME NEW r \in Receivers, DistributeSenderKey(r) PROVE IInv'
  BY <1>5, DistributeInv
<1>6. ASSUME NEW r \in Receivers, NEW d \in distributions[r], ProcessSenderKeyDistribution(r, d)
      PROVE IInv'
  BY <1>6, ProcessInv
<1>7. ASSUME NEW r \in Receivers, NEW m \in groupMessages, DecryptGroupMessage(r, m)
      PROVE IInv'
  <2>1. PICK i \in Positions(record[r], m) : DecryptFromChain(r, m, i) \/ DecryptFromSkipped(r, m, i)
    BY <1>7 DEF DecryptGroupMessage
  <2>2. UNCHANGED senderVars
    BY <1>7 DEF DecryptGroupMessage
  <2>3. CASE DecryptFromChain(r, m, i)
    <3>1. ChainMoved(r, m, i)
      BY <2>3, DecryptMovesChain
    <3> QED BY <2>2, <3>1, ChainMovedInv
  <2>4. CASE DecryptFromSkipped(r, m, i)
    BY <2>2, <2>4, DecryptFromSkippedInv
  <2> QED BY <2>1, <2>3, <2>4
<1>8. CASE UNCHANGED vars
  BY <1>8, StutterInv
<1> QED BY <1>1, <1>2, <1>3, <1>4, <1>5, <1>6, <1>7, <1>8 DEF Next

(* Whatever arrives, in whatever order, the record and the skipped keys of *)
(* a receiver stay in step with the keys that the sender created.          *)
THEOREM Invariant == Spec => []IInv
<1>1. Init => IInv
  BY InitInv
<1>2. IInv /\ [Next]_vars => IInv'
  BY NextInv
<1> QED BY <1>1, <1>2, PTL DEF Spec

(* A record never holds a key twice, nor more states than                  *)
(* MAX_SENDER_KEY_STATES.                                                  *)
THEOREM KeysAreHeldOnce == Spec => []RecordHoldsKeysOnce
<1>1. IInv => RecordHoldsKeysOnce
  BY DEF IInv, Recorded, RecordHoldsKeysOnce
<1> QED BY <1>1, Invariant, PTL

-----------------------------------------------------------------------------
(* What a receiver can still open.                                         *)

Ahead(rec, id, index) ==
  \E i \in DOMAIN rec : rec[i].id = id /\ rec[i].chainIndex <= index

Count(rec, keys, id, index) ==
  (IF Ahead(rec, id, index) THEN 1 ELSE 0)
  + (IF SkippedKey(id, index) \in keys THEN 1 ELSE 0)

(* Unread for a record and a set of skipped keys.                          *)
UnreadOf(rec, held, id, index) ==
  (IF \E i \in DOMAIN rec : rec[i].id = id /\ rec[i].chainIndex <= index THEN 1 ELSE 0)
  + Cardinality({k \in held : k.id = id /\ k.index = index})

(* A message is counted at most twice: by the chain and by a skipped key.  *)
LEMMA UnreadCounts ==
  ASSUME NEW rec, NEW held, Storable(held), NEW id, NEW index
  PROVE  UnreadOf(rec, held, id, index) = Count(rec, held, id, index)
<1> DEFINE keys == {k \in held : k.id = id /\ k.index = index}
<1>1. \A k \in held : k = SkippedKey(k.id, k.index)
  BY SkippedKeyIsUnique DEF Storable
<1>2. \A k \in keys : k = SkippedKey(id, index)
  BY <1>1
<1>3. SkippedKey(id, index).id = id /\ SkippedKey(id, index).index = index
  BY DEF SkippedKey
<1>4. CASE SkippedKey(id, index) \in held
  <2>1. keys = {SkippedKey(id, index)} BY <1>2, <1>3, <1>4
  <2>2. Cardinality(keys) = 1 BY <2>1, FS_Singleton
  <2> QED BY <1>4, <2>2 DEF UnreadOf, Count, Ahead
<1>5. CASE SkippedKey(id, index) \notin held
  <2>1. keys = {} BY <1>2, <1>5
  <2>2. Cardinality(keys) = 0 BY <2>1, FS_EmptySet
  <2> QED BY <1>5, <2>2 DEF UnreadOf, Count, Ahead
<1> QED BY <1>4, <1>5

\* What can be opened by no chain and no stored key has no unread key left.
LEMMA InvOpens == ASSUME IInv PROVE OpensWhatItHolds
<1> USE SenderKeysAssumption
<1>1. SUFFICES ASSUME NEW r \in Receivers, NEW m \in groupMessages,
                      NEW i \in Positions(record[r], m),
                      ~(m.iteration > record[r][i].chainIndex + MaxChainAdvance),
                      ~OpensFromChain(r, m, i), ~OpensFromSkipped(r, m, i)
               PROVE  Unread(r, m.id, m.iteration) = 0
  BY DEF OpensWhatItHolds
<1> DEFINE rec == record[r]
           s == rec[i]
<1>2. Recorded(rec, distributions[r]) /\ Storable(skipped[r])
  BY DEF IInv
<1>3. i \in DOMAIN rec /\ s.id = m.id
  <2>1. Len(rec) \in Nat /\ DOMAIN rec = 1 .. Len(rec) /\ MaxStates \in Nat
    BY <1>2 DEF Recorded
  <2>2. Min({Len(rec), MaxStates}) = Len(rec)
    BY <1>2, <2>1, MinOfTwo DEF Recorded
  <2> QED BY <2>1, <2>2 DEF Positions
<1>4. /\ s.chainIndex \in Nat /\ MaxChainAdvance \in Nat
      /\ s.chainKey = [id |-> s.id, step |-> s.chainIndex]
  BY <1>2, <1>3 DEF Recorded, States, Indexes, ChainKey
<1>5. m.iteration \in Nat /\ m.key = [id |-> m.id, step |-> m.iteration]
  <2>1. m = Message(m.id, m.iteration) /\ m.iteration \in Nat
    BY DEF IInv, SenderInv, Indexes
  <2>2. Message(m.id, m.iteration).key = ChainKey(m.id, m.iteration)
    BY DEF Message
  <2> QED BY <2>1, <2>2 DEF ChainKey
<1>6. m.iteration < s.chainIndex
  <2>1. SUFFICES ASSUME m.iteration >= s.chainIndex PROVE FALSE
    BY <1>4, <1>5
  <2>2. m.iteration - s.chainIndex <= MaxChainAdvance
    BY <1>1, <1>4, <1>5
  <2>3. Advance(s.chainKey, m.iteration - s.chainIndex) = m.key
    BY <1>3, <1>4, <1>5 DEF Advance
  <2> QED BY <1>1, <2>1, <2>2, <2>3 DEF OpensFromChain
<1>7. SkippedKey(m.id, m.iteration) \notin skipped[r]
  <2>1. /\ SkippedKey(m.id, m.iteration).id = m.id
        /\ SkippedKey(m.id, m.iteration).index = m.iteration
        /\ SkippedKey(m.id, m.iteration).key = m.key
    BY <1>5 DEF SkippedKey, ChainKey
  <2> QED BY <1>1, <1>6, <2>1 DEF OpensFromSkipped, SkippedFor
<1>8. ~Ahead(rec, m.id, m.iteration)
  BY <1>2, <1>3, <1>4, <1>5, <1>6 DEF Ahead, Recorded
<1>9. Unread(r, m.id, m.iteration) = Count(rec, skipped[r], m.id, m.iteration)
  BY <1>2, UnreadCounts DEF Unread, UnreadOf
<1> QED BY <1>7, <1>8, <1>9 DEF Count

(* A receiver opens every message that its chains and its skipped keys     *)
(* still cover, unless the gap is beyond maxChainAdvance.                  *)
THEOREM HeldMessagesOpen == Spec => []OpensWhatItHolds
<1>1. IInv => OpensWhatItHolds
  BY InvOpens
<1> QED BY <1>1, Invariant, PTL

-----------------------------------------------------------------------------
(* What a step forgets.                                                    *)

Forgets(r) ==
  /\ Cardinality(skipped'[r]) <= MaxSkippedKeys
  /\ record'[r] # record[r] /\ ~(skipped[r] \subseteq skipped'[r]) =>
       \E i \in DOMAIN record[r] :
         Cardinality(skipped[r]) + record'[r][i].chainIndex
           > MaxSkippedKeys + record[r][i].chainIndex + 1

\* A decryption evicts stored keys only if the keys it skips exceed the limit.
LEMMA ChainMovedForgets ==
  ASSUME IInv, NEW q \in Receivers, NEW m \in groupMessages, NEW i, ChainMoved(q, m, i),
         NEW r \in Receivers, record'[r] # record[r], ~(skipped[r] \subseteq skipped'[r])
  PROVE  /\ i \in DOMAIN record[r]
         /\ Cardinality(skipped[r]) + record'[r][i].chainIndex
               > MaxSkippedKeys + record[r][i].chainIndex + 1
<1> USE SenderKeysAssumption
<1>1. PICK t \in States :
        /\ t.chainIndex = m.iteration + 1
        /\ record' = [record EXCEPT ![q] = [@ EXCEPT ![i] = t]]
  BY DEF ChainMoved
<1>2. PICK kept :
        /\ Outcome(skipped[q], SkippedBy(record[q][i], m),
                   m.iteration - record[q][i].chainIndex, kept)
        /\ skipped' = [skipped EXCEPT ![q] = kept]
  BY DEF ChainMoved
<1>3. record' = [p \in Receivers |-> IF p = q THEN [record[q] EXCEPT ![i] = t] ELSE record[p]]
  BY <1>1, Zenon DEF IInv, Functions
<1>4. skipped' = [p \in Receivers |-> IF p = q THEN kept ELSE skipped[p]]
  BY <1>2, Zenon DEF IInv, Functions
<1>5. r = q
  BY <1>3
<1>6. i \in DOMAIN record[q] /\ record[q] \in Seq(States)
  BY DEF ChainMoved, IInv, Recorded
<1>7. record'[r][i] = t /\ skipped'[r] = kept
  BY <1>3, <1>4, <1>5, <1>6
<1>8. Cardinality(skipped[q]) + (m.iteration - record[q][i].chainIndex) > MaxSkippedKeys
  BY <1>2, <1>5, <1>7 DEF Outcome
<1>9. /\ Cardinality(skipped[q]) \in Nat /\ m.iteration \in Nat
      /\ record[q][i].chainIndex \in Nat /\ MaxSkippedKeys \in Nat
  <2>1. Cardinality(skipped[q]) \in Nat
    BY FS_CardinalityType DEF IInv, Storable
  <2>2. m.iteration \in Nat
    BY DEF IInv, SenderInv, Indexes
  <2>3. record[q][i] \in States
    BY <1>6
  <2> QED BY <2>1, <2>2, <2>3 DEF States, Indexes
<1> DEFINE held == Cardinality(skipped[q])
           from == record[q][i].chainIndex
<1>10. held + (m.iteration + 1) > MaxSkippedKeys + from + 1
  <2> HIDE DEF held, from
  <2>1. held + (m.iteration - from) > MaxSkippedKeys /\ held \in Nat /\ from \in Nat
    BY <1>8, <1>9 DEF held, from
  <2> QED BY <1>9, <2>1
<1> QED BY <1>1, <1>5, <1>6, <1>7, <1>10

\* The same, for any step.
LEMMA NextForgets ==
  ASSUME IInv, IInv', [Next]_vars, NEW r \in Receivers
  PROVE  Forgets(r)
<1>1. Cardinality(skipped'[r]) <= MaxSkippedKeys
  BY DEF IInv, Storable
<1>2. SUFFICES ASSUME record'[r] # record[r], ~(skipped[r] \subseteq skipped'[r])
               PROVE  \E i \in DOMAIN record[r] :
                        Cardinality(skipped[r]) + record'[r][i].chainIndex
                          > MaxSkippedKeys + record[r][i].chainIndex + 1
  BY <1>1 DEF Forgets
<1>3. record' # record /\ skipped' # skipped
  BY <1>2
<1>4. PICK q \in Receivers, m \in groupMessages : DecryptGroupMessage(q, m)
  BY <1>3 DEF Next, vars, CreateSenderKey, RotateSenderKey, InstallOwn, DeleteSenderKey,
     EncryptGroupMessage, DistributeSenderKey, ProcessSenderKeyDistribution
<1>5. PICK i \in Positions(record[q], m) : DecryptFromChain(q, m, i)
  BY <1>3, <1>4 DEF DecryptGroupMessage, DecryptFromSkipped
<1>6. ChainMoved(q, m, i)
  BY <1>5, DecryptMovesChain
<1> QED BY <1>2, <1>6, ChainMovedForgets

(* The skipped keys stay within maxSkippedKeys, and none is dropped unused *)
(* while there is room.                                                    *)
THEOREM NothingForgottenEarly == Spec => ForgetsOnlyWhenFull
<1>1. IInv /\ IInv' /\ [Next]_vars => \A r \in Receivers : Forgets(r)
  BY NextForgets
<1> QED BY <1>1, Invariant, PTL DEF Spec, ForgetsOnlyWhenFull, Forgets

-----------------------------------------------------------------------------
(* The rights of a receiver, as the group channel counts them.             *)

HeldIds(rec) == {rec[i].id : i \in DOMAIN rec}

(* An installation changes the keys that are held as Install allows.       *)
InstallHeld(rec, new, d) ==
  /\ d.id \notin HeldIds(rec)
  /\ d.id \in HeldIds(new)
  /\ HeldIds(new) \ {d.id} \subseteq HeldIds(rec)
  /\ \A k, l \in HeldIds(rec) \ HeldIds(new) : k = l

InstallCount(rec, new, keys, d, id, index) ==
  IF id = d.id
    THEN Count(new, keys, id, index)
           = Count(rec, keys, id, index) + (IF index >= d.chainIndex THEN 1 ELSE 0)
    ELSE /\ Count(new, keys, id, index) <= Count(rec, keys, id, index)
         /\ id \in HeldIds(new) => Count(new, keys, id, index) = Count(rec, keys, id, index)

\* What installing a state changes: the states held and the unread keys of each.
LEMMA InstalledChanges ==
  ASSUME NEW rec, NEW offers, Recorded(rec, offers), NEW d \in States, ~Holds(rec, d.id),
         NEW new, Installed(rec, new, d)
  PROVE  /\ InstallHeld(rec, new, d)
         /\ \A keys, id : \A index \in Indexes : InstallCount(rec, new, keys, d, id, index)
<1> USE SenderKeysAssumption
<1>1. /\ Len(rec) \in Nat /\ DOMAIN rec = 1 .. Len(rec)
      /\ Len(new) \in Nat /\ DOMAIN new = 1 .. Len(new)
      /\ Len(new) >= 1 /\ Len(rec) <= Len(new) /\ Len(new) <= Len(rec) + 1
      /\ new[1] = d /\ \A i \in 2 .. Len(new) : new[i] = rec[i - 1]
  BY DEF Recorded, Installed
<1> DEFINE n == Len(new) - 1
<1>2. n \in Nat /\ n <= Len(rec) /\ Len(rec) <= n + 1
  BY <1>1
<1>3. \A i \in 1 .. n : i \in 1 .. Len(rec) /\ i + 1 \in 1 .. Len(new) /\ new[i + 1] = rec[i]
  <2>1. SUFFICES ASSUME NEW i \in 1 .. n
                 PROVE i \in 1 .. Len(rec) /\ i + 1 \in 1 .. Len(new) /\ new[i + 1] = rec[i]
    OBVIOUS
  <2>2. i \in 1 .. Len(rec) /\ i + 1 \in 2 .. Len(new) /\ (i + 1) - 1 = i
    BY <1>1, <1>2
  <2>3. new[i + 1] = rec[(i + 1) - 1]
    BY <1>1, <2>2
  <2> QED BY <1>1, <2>2, <2>3
<1>4. \A i \in 1 .. Len(new) : i = 1 \/ (i - 1 \in 1 .. n /\ new[i] = rec[i - 1])
  BY <1>1
<1>5. 1 \in 1 .. Len(new) /\ \A i \in 1 .. Len(rec) : i \in 1 .. n \/ i = n + 1
  <2>1. 1 \in 1 .. Len(new) BY <1>1
  <2> HIDE DEF n
  <2>2. \A i \in 1 .. Len(rec) : i \in 1 .. n \/ i = n + 1 BY <1>1, <1>2
  <2> QED BY <2>1, <2>2
<1> HIDE DEF n
<1>6. \A i \in 1 .. Len(rec) : rec[i].id # d.id
  BY <1>1 DEF Holds
<1>7. \A i, j \in 1 .. Len(rec) : rec[i].id = rec[j].id => i = j
  BY <1>1 DEF Recorded
<1>8. HeldIds(rec) = {rec[i].id : i \in 1 .. Len(rec)}
  BY <1>1, Zenon DEF HeldIds
<1>9. HeldIds(new) = {d.id} \union {rec[i].id : i \in 1 .. n}
  <2>1. HeldIds(new) = {new[i].id : i \in 1 .. Len(new)}
    BY <1>1, Zenon DEF HeldIds
  <2>2. \A i \in 1 .. Len(new) : new[i].id \in {d.id} \union {rec[j].id : j \in 1 .. n}
    BY <1>1, <1>4
  <2>3. d.id \in HeldIds(new)
    BY <1>1, <1>5, <2>1
  <2>4. \A i \in 1 .. n : rec[i].id \in HeldIds(new)
    BY <1>3, <2>1
  <2> QED BY <2>1, <2>2, <2>3, <2>4
<1>10. InstallHeld(rec, new, d)
  BY <1>3, <1>5, <1>6, <1>7, <1>8, <1>9 DEF InstallHeld
<1>11. ASSUME NEW keys, NEW id, NEW index \in Indexes
       PROVE  InstallCount(rec, new, keys, d, id, index)
  <2>0. index \in Nat /\ d.chainIndex \in Nat
    BY DEF States, Indexes
  <2>1. Ahead(rec, id, index) <=> \E i \in 1 .. Len(rec) : rec[i].id = id /\ rec[i].chainIndex <= index
    BY <1>1, Zenon DEF Ahead
  <2>2. Ahead(new, id, index) <=>
          \/ id = d.id /\ d.chainIndex <= index
          \/ \E i \in 1 .. n : rec[i].id = id /\ rec[i].chainIndex <= index
    BY <1>1, <1>3, <1>4, <1>5, Zenon DEF Ahead
  <2>3. CASE id = d.id
    <3>1. ~Ahead(rec, id, index) BY <1>6, <2>1, <2>3
    <3>2. Ahead(new, id, index) <=> d.chainIndex <= index BY <1>3, <1>6, <2>2, <2>3
    <3> QED BY <2>0, <2>3, <3>1, <3>2 DEF InstallCount, Count
  <2>4. CASE id # d.id
    <3>1. Ahead(new, id, index) => Ahead(rec, id, index) BY <1>3, <2>1, <2>2, <2>4
    <3>2. id \in HeldIds(new) /\ Ahead(rec, id, index) => Ahead(new, id, index)
      BY <1>3, <1>7, <1>9, <2>1, <2>2, <2>4
    <3> QED BY <2>4, <3>1, <3>2 DEF InstallCount, Count
  <2> QED BY <2>3, <2>4
<1> QED BY <1>10, <1>11

(* Opening a message leaves no message more often to open, and this one    *)
(* less often.                                                             *)
OpenCount(rec, keys, new, kept, m, id, index) ==
  /\ Count(new, kept, id, index) <= Count(rec, keys, id, index)
  /\ id = m.id /\ index = m.iteration =>
       Count(new, kept, id, index) < Count(rec, keys, id, index)

\* A decryption from a chain uses up the message's key and adds none.
LEMMA MovedCounts ==
  ASSUME NEW rec, NEW offers, Recorded(rec, offers), NEW keys,
         NEW m, m.iteration \in Nat, NEW i \in DOMAIN rec, rec[i].id = m.id,
         rec[i].chainIndex <= m.iteration,
         NEW t \in States, t.id = rec[i].id, t.chainIndex = m.iteration + 1,
         NEW n, NEW kept, Outcome(keys, SkippedBy(rec[i], m), n, kept),
         NEW id, NEW index \in Indexes
  PROVE  OpenCount(rec, keys, [rec EXCEPT ![i] = t], kept, m, id, index)
<1> USE SenderKeysAssumption
<1> DEFINE new == [rec EXCEPT ![i] = t]
           from == rec[i].chainIndex
<1>1. index \in Nat /\ from \in Nat
  BY DEF Indexes, Recorded, States
<1>2. DOMAIN new = DOMAIN rec /\ \A j \in DOMAIN rec : new[j] = IF j = i THEN t ELSE rec[j]
  BY DEF Recorded
<1>3. \A j \in DOMAIN rec : rec[j].id = rec[i].id => j = i
  BY DEF Recorded
<1>4. SkippedKey(id, index) \in kept =>
        SkippedKey(id, index) \in keys \/ (id = m.id /\ from <= index /\ index <= m.iteration - 1)
  <2>1. SUFFICES ASSUME SkippedKey(id, index) \in SkippedBy(rec[i], m)
                 PROVE  id = m.id /\ from <= index /\ index <= m.iteration - 1
    BY DEF Outcome
  <2>2. PICK j \in from .. (m.iteration - 1) : SkippedKey(id, index) = SkippedKey(m.id, j)
    BY <2>1 DEF SkippedBy
  <2>3. id = m.id /\ index = j
    BY <2>2 DEF SkippedKey
  <2> QED BY <1>1, <2>3
<1> HIDE DEF new, from
<1>5. CASE id = m.id
  <2>1. Ahead(rec, id, index) <=> from <= index
    BY <1>3, <1>5 DEF Ahead, from
  <2>2. Ahead(new, id, index) <=> m.iteration + 1 <= index
    BY <1>2, <1>3, <1>5 DEF Ahead
  <2>3. from <= m.iteration
    BY DEF from
  <2> QED BY <1>1, <1>4, <1>5, <2>1, <2>2, <2>3 DEF OpenCount, Count, new
<1>6. CASE id # m.id
  <2>1. Ahead(rec, id, index) <=> Ahead(new, id, index)
    BY <1>2, <1>6 DEF Ahead
  <2>2. SkippedKey(id, index) \in kept => SkippedKey(id, index) \in keys
    BY <1>4, <1>6
  <2> QED BY <1>6, <2>1, <2>2 DEF OpenCount, Count, new
<1> QED BY <1>5, <1>6

\* A decryption from a stored key uses it up and leaves the others.
LEMMA SkippedCounts ==
  ASSUME NEW rec, NEW keys, Storable(keys), NEW m,
         NEW k \in keys, k.id = m.id, k.index = m.iteration,
         NEW id, NEW index
  PROVE  OpenCount(rec, keys, rec, {j \in keys : ~(j.id = m.id /\ j.index = m.iteration)},
                   m, id, index)
<1>1. k = SkippedKey(m.id, m.iteration)
  BY SkippedKeyIsUnique DEF Storable
<1>2. SkippedKey(m.id, m.iteration).id = m.id /\ SkippedKey(m.id, m.iteration).index = m.iteration
  BY DEF SkippedKey
<1> QED BY <1>1, <1>2 DEF OpenCount, Count

-----------------------------------------------------------------------------
(* The refinement.                                                         *)

(* The variables of the group channel.                                     *)
Published == {<<m.id, m.iteration>> : m \in groupMessages}
Offered == [r \in Receivers |-> {<<d.id, d.chainIndex>> : d \in distributions[r]}]
Held == [r \in Receivers |-> HeldIds(record[r])]
Rights == [r \in Receivers |->
            [m \in Ids \X (0 .. ChainIndexLimit) |-> Unread(r, m[1], m[2])]]
channelVars == <<Published, Offered, Held, Rights>>

Messages == Ids \X Indexes

(* The actions of the group channel over those variables.                  *)
PublishStep(m) ==
  /\ m \in Messages
  /\ m \notin Published
  /\ Published' = Published \union {m}
  /\ UNCHANGED <<Offered, Held, Rights>>

OfferStep(r, d) ==
  /\ d \in Messages
  /\ Offered' = [Offered EXCEPT ![r] = @ \union {d}]
  /\ UNCHANGED <<Published, Held, Rights>>

Only(r) == \A q \in Receivers \ {r} : Held'[q] = Held[q] /\ Rights'[q] = Rights[q]

InstallStep(r, d) ==
  /\ d \in Messages
  /\ d \in Offered[r]
  /\ d[1] \notin Held[r]
  /\ d[1] \in Held'[r]
  /\ Held'[r] \ {d[1]} \subseteq Held[r]
  /\ \A k, l \in Held[r] \ Held'[r] : k = l
  /\ \A m \in Messages :
       IF m[1] = d[1]
         THEN Rights'[r][m] = Rights[r][m] + (IF m[2] >= d[2] THEN 1 ELSE 0)
         ELSE /\ Rights'[r][m] <= Rights[r][m]
              /\ m[1] \in Held'[r] => Rights'[r][m] = Rights[r][m]
  /\ Only(r)
  /\ UNCHANGED <<Published, Offered>>

OpenStep(r, m) ==
  /\ m \in Messages
  /\ m \in Published
  /\ m[1] \in Held[r]
  /\ Rights'[r][m] < Rights[r][m]
  /\ \A n \in Messages : Rights'[r][n] <= Rights[r][n]
  /\ Held' = Held
  /\ Only(r)
  /\ UNCHANGED <<Published, Offered>>

\* What encryptGroupMessage() does is a Publish of the channel.
LEMMA PublishRefines == ASSUME NEW m, PublishStep(m) PROVE Channel!Next
<1>1. m \in Channel!Messages /\ Channel!Publish(m)
  BY Zenon DEF PublishStep, Channel!Publish, Channel!Messages, Messages, Indexes, Published,
     Offered, Held, HeldIds, Rights
<1> QED BY <1>1, Zenon DEF Channel!Next

\* What a distribution does is an Offer of the channel.
LEMMA OfferRefines == ASSUME NEW r \in Receivers, NEW d, OfferStep(r, d) PROVE Channel!Next
<1>1. d \in Channel!Messages /\ Channel!Offer(r, d)
  BY Zenon DEF OfferStep, Channel!Offer, Channel!Messages, Messages, Indexes, Published,
     Offered, Held, HeldIds, Rights
<1> QED BY <1>1, Zenon DEF Channel!Next

\* What processSenderKeyDistribution() does is an Install of the channel.
LEMMA InstallRefines == ASSUME NEW r \in Receivers, NEW d, InstallStep(r, d) PROVE Channel!Next
<1>1. d \in Channel!Messages /\ Channel!Install(r, d)
  BY Zenon DEF InstallStep, Only, Channel!Install, Channel!OnlyOf, Channel!Messages, Messages,
     Indexes, Published, Offered, Held, HeldIds, Rights
<1> QED BY <1>1, Zenon DEF Channel!Next

\* What decryptGroupMessage() does is an Open of the channel.
LEMMA OpenRefines == ASSUME NEW r \in Receivers, NEW m, OpenStep(r, m) PROVE Channel!Next
<1>1. m \in Channel!Messages /\ Channel!Open(r, m)
  BY Zenon DEF OpenStep, Only, Channel!Open, Channel!OnlyOf, Channel!Messages, Messages,
     Indexes, Published, Offered, Held, HeldIds, Rights
<1> QED BY <1>1, Zenon DEF Channel!Next

(* A step that leaves the receivers alone leaves their rights alone.       *)
LEMMA ReceiversUnchanged ==
  ASSUME UNCHANGED <<record, skipped>>
  PROVE  UNCHANGED <<Held, Rights>>
BY Zenon DEF Held, Rights, Unread

\* encryptGroupMessage() publishes one new message.
LEMMA EncryptPublishes ==
  ASSUME IInv, EncryptGroupMessage
  PROVE  PublishStep(<<own.id, own.chainIndex>>)
<1> USE SenderKeysAssumption DEF EncryptGroupMessage
<1>1. own \in States /\ own.id \in Ids /\ own.chainIndex \in Indexes
  BY DEF IInv, SenderInv, States
<1>2. UNCHANGED <<Held, Rights>>
  BY ReceiversUnchanged
<1>3. UNCHANGED Offered
  BY Zenon DEF Offered
<1>4. Encrypted(own).id = own.id /\ Encrypted(own).iteration = own.chainIndex
  BY DEF Encrypted
<1> HIDE DEF EncryptGroupMessage
<1>5. Published' = Published \union {<<own.id, own.chainIndex>>}
  <2>1. groupMessages' = groupMessages \union {Encrypted(own)}
    BY DEF EncryptGroupMessage
  <2> QED BY <1>4, <2>1, Zenon DEF Published
<1>6. <<own.id, own.chainIndex>> \notin Published
  <2>1. SUFFICES ASSUME NEW m \in groupMessages, m.id = own.id, m.iteration = own.chainIndex
                 PROVE  FALSE
    BY DEF Published
  <2>2. m.iteration < own.chainIndex /\ own.chainIndex \in Nat
    BY <1>1, <2>1 DEF IInv, SenderInv, EncryptGroupMessage, Indexes
  <2> QED BY <2>1, <2>2
<1> QED BY <1>1, <1>2, <1>3, <1>5, <1>6 DEF PublishStep, Messages

\* A distribution offers the sender's chain to one receiver.
LEMMA DistributeOffers ==
  ASSUME IInv, NEW r \in Receivers, DistributeSenderKey(r)
  PROVE  OfferStep(r, <<own.id, own.chainIndex>>)
<1> USE DEF DistributeSenderKey
<1>1. own \in States /\ own.id \in Ids /\ own.chainIndex \in Indexes
  BY DEF IInv, SenderInv, States
<1>2. UNCHANGED <<Held, Rights>>
  BY ReceiversUnchanged
<1>3. UNCHANGED Published
  BY Zenon DEF Published
<1>4. distributions' = [q \in Receivers |-> IF q = r THEN distributions[r] \union {own}
                                            ELSE distributions[q]]
  BY Zenon DEF IInv, Functions
<1> DEFINE Pairs(offers) == {<<d.id, d.chainIndex>> : d \in offers}
<1>5. \A offers : Pairs(offers \union {own}) = Pairs(offers) \union {<<own.id, own.chainIndex>>}
  BY Zenon
<1> HIDE DEF Pairs
<1>6. Offered = [q \in Receivers |-> Pairs(distributions[q])]
      /\ Offered' = [q \in Receivers |-> Pairs(distributions'[q])]
  BY Zenon DEF Offered, Pairs
<1>7. Offered' = [Offered EXCEPT ![r] = @ \union {<<own.id, own.chainIndex>>}]
  BY <1>4, <1>5, <1>6
<1> QED BY <1>1, <1>2, <1>3, <1>7 DEF OfferStep, Messages

(* The rights of a receiver before and after a step.                       *)
LEMMA RightsAreCounts ==
  ASSUME IInv, IInv', NEW r \in Receivers
  PROVE  /\ Held[r] = HeldIds(record[r]) /\ Held'[r] = HeldIds(record'[r])
         /\ \A m \in Messages :
              /\ Rights[r][m] = Count(record[r], skipped[r], m[1], m[2])
              /\ Rights'[r][m] = Count(record'[r], skipped'[r], m[1], m[2])
<1>1. Held[r] = HeldIds(record[r]) /\ Held'[r] = HeldIds(record'[r])
  BY DEF Held
<1>2. Storable(skipped[r]) /\ Storable(skipped'[r])
  BY DEF IInv
<1>3. ASSUME NEW m \in Messages
      PROVE  /\ Rights[r][m] = Count(record[r], skipped[r], m[1], m[2])
             /\ Rights'[r][m] = Count(record'[r], skipped'[r], m[1], m[2])
  <2>1. m \in Ids \X (0 .. ChainIndexLimit)
    BY DEF Messages, Indexes
  <2>2. Rights[r][m] = UnreadOf(record[r], skipped[r], m[1], m[2])
    BY <2>1, Zenon DEF Rights, Unread, UnreadOf
  <2>3. Rights'[r][m] = UnreadOf(record'[r], skipped'[r], m[1], m[2])
    BY <2>1, Zenon DEF Rights, Unread, UnreadOf
  <2> QED BY <1>2, <2>2, <2>3, UnreadCounts
<1> QED BY <1>1, <1>3

\* A receiver whose record and keys stay keeps its rights.
LEMMA OthersUnchanged ==
  ASSUME NEW r, \A q \in Receivers \ {r} : record'[q] = record[q] /\ skipped'[q] = skipped[q]
  PROVE  Only(r)
<1>1. SUFFICES ASSUME NEW q \in Receivers \ {r}
               PROVE  Held'[q] = Held[q] /\ Rights'[q] = Rights[q]
  BY DEF Only
<1>2. record'[q] = record[q] /\ skipped'[q] = skipped[q] /\ q \in Receivers
  OBVIOUS
<1>3. Held'[q] = Held[q]
  BY <1>2 DEF Held
<1>4. /\ Rights[q] = [m \in Ids \X (0 .. ChainIndexLimit) |-> UnreadOf(record[q], skipped[q], m[1], m[2])]
      /\ Rights'[q] = [m \in Ids \X (0 .. ChainIndexLimit) |-> UnreadOf(record'[q], skipped'[q], m[1], m[2])]
  BY <1>2, Zenon DEF Rights, Unread, UnreadOf
<1> QED BY <1>2, <1>3, <1>4, Zenon

\* processSenderKeyDistribution() installs a state the receiver did not hold.
LEMMA ProcessRefines ==
  ASSUME IInv, IInv', NEW r \in Receivers, NEW d \in distributions[r],
         ProcessSenderKeyDistribution(r, d)
  PROVE  InstallStep(r, <<d.id, d.chainIndex>>)
<1>1. /\ ~Holds(record[r], d.id)
      /\ Installed(record[r], record'[r], d)
      /\ record' = [record EXCEPT ![r] = record'[r]]
      /\ UNCHANGED <<senderVars, skipped>>
  BY ProcessInstalls
<1>2. Recorded(record[r], distributions[r]) /\ d \in States
  BY DEF IInv, Offers
<1>3. /\ InstallHeld(record[r], record'[r], d)
      /\ \A keys, id : \A index \in Indexes :
           InstallCount(record[r], record'[r], keys, d, id, index)
  BY <1>1, <1>2, InstalledChanges
<1>4. /\ Held[r] = HeldIds(record[r]) /\ Held'[r] = HeldIds(record'[r])
      /\ \A m \in Messages :
           /\ Rights[r][m] = Count(record[r], skipped[r], m[1], m[2])
           /\ Rights'[r][m] = Count(record'[r], skipped'[r], m[1], m[2])
  BY RightsAreCounts
<1>5. UNCHANGED <<Published, Offered>>
  BY <1>1, Zenon DEF Published, Offered, senderVars
<1>6. Only(r)
  <2>1. \A q \in Receivers \ {r} : record'[q] = record[q] /\ skipped'[q] = skipped[q]
    BY <1>1 DEF IInv, Functions
  <2> QED BY <2>1, OthersUnchanged
<1>7. <<d.id, d.chainIndex>> \in Messages /\ <<d.id, d.chainIndex>> \in Offered[r]
  BY <1>2 DEF Messages, States, Offered
<1>8. ASSUME NEW m \in Messages
      PROVE  IF m[1] = d.id
               THEN Rights'[r][m] = Rights[r][m] + (IF m[2] >= d.chainIndex THEN 1 ELSE 0)
               ELSE /\ Rights'[r][m] <= Rights[r][m]
                    /\ m[1] \in Held'[r] => Rights'[r][m] = Rights[r][m]
  <2>1. m[2] \in Indexes
    BY DEF Messages
  <2>2. InstallCount(record[r], record'[r], skipped[r], d, m[1], m[2])
    BY <1>3, <2>1
  <2>3. skipped'[r] = skipped[r]
    BY <1>1
  <2> QED BY <1>4, <2>2, <2>3 DEF InstallCount
<1>9. /\ d.id \notin Held[r] /\ d.id \in Held'[r]
      /\ Held'[r] \ {d.id} \subseteq Held[r]
      /\ \A k, l \in Held[r] \ Held'[r] : k = l
  BY <1>3, <1>4 DEF InstallHeld
<1>10. <<d.id, d.chainIndex>>[1] = d.id /\ <<d.id, d.chainIndex>>[2] = d.chainIndex
  OBVIOUS
<1> QED BY <1>5, <1>6, <1>7, <1>8, <1>9, <1>10, Zenon DEF InstallStep

(* What opens a message, from the chain or with a skipped key.             *)
Opened(r, m) ==
  /\ m.id \in HeldIds(record[r])
  /\ \A q \in Receivers : HeldIds(record'[q]) = HeldIds(record[q])
  /\ \A id : \A index \in Indexes :
       OpenCount(record[r], skipped[r], record'[r], skipped'[r], m, id, index)
  /\ \A q \in Receivers \ {r} : record'[q] = record[q] /\ skipped'[q] = skipped[q]

\* A decryption from a chain uses up a right of the receiver.
LEMMA ChainOpens ==
  ASSUME IInv, NEW r \in Receivers, NEW m \in groupMessages, NEW i, ChainMoved(r, m, i)
  PROVE  Opened(r, m)
<1> DEFINE rec == record[r]
<1>1. PICK t \in States :
        /\ t.id = rec[i].id /\ t.chainIndex = m.iteration + 1
        /\ record' = [record EXCEPT ![r] = [@ EXCEPT ![i] = t]]
  BY DEF ChainMoved
<1>2. PICK kept :
        /\ Outcome(skipped[r], SkippedBy(rec[i], m), m.iteration - rec[i].chainIndex, kept)
        /\ skipped' = [skipped EXCEPT ![r] = kept]
  BY DEF ChainMoved
<1>3. record' = [q \in Receivers |-> IF q = r THEN [rec EXCEPT ![i] = t] ELSE record[q]]
  BY <1>1, Zenon DEF IInv, Functions
<1>4. skipped' = [q \in Receivers |-> IF q = r THEN kept ELSE skipped[q]]
  BY <1>2, Zenon DEF IInv, Functions
<1>5. /\ i \in DOMAIN rec /\ rec[i].id = m.id /\ rec[i].chainIndex <= m.iteration
      /\ Recorded(rec, distributions[r]) /\ m.iteration \in Nat
  BY DEF ChainMoved, IInv, SenderInv, Indexes
<1>6. record'[r] = [rec EXCEPT ![i] = t] /\ skipped'[r] = kept
  BY <1>3, <1>4
<1>7. \A q \in Receivers \ {r} : record'[q] = record[q] /\ skipped'[q] = skipped[q]
  BY <1>3, <1>4
<1> HIDE DEF rec
<1>8. ASSUME NEW id, NEW index \in Indexes
      PROVE  OpenCount(rec, skipped[r], [rec EXCEPT ![i] = t], kept, m, id, index)
  BY <1>1, <1>2, <1>5, MovedCounts
<1>9. HeldIds([rec EXCEPT ![i] = t]) = HeldIds(rec)
  <2>1. /\ DOMAIN [rec EXCEPT ![i] = t] = DOMAIN rec
        /\ \A j \in DOMAIN rec : [rec EXCEPT ![i] = t][j].id = rec[j].id
    BY <1>1, <1>5
  <2> QED BY <2>1, Zenon DEF HeldIds
<1>10. \A q \in Receivers : HeldIds(record'[q]) = HeldIds(record[q])
  BY <1>6, <1>7, <1>9 DEF rec
<1>11. m.id \in HeldIds(rec)
  BY <1>5 DEF HeldIds
<1> QED BY <1>6, <1>7, <1>8, <1>10, <1>11, Zenon DEF Opened, rec

\* A decryption from a stored key uses up a right of the receiver.
LEMMA SkippedOpens ==
  ASSUME IInv, NEW r \in Receivers, NEW m \in groupMessages,
         NEW i \in Positions(record[r], m), DecryptFromSkipped(r, m, i)
  PROVE  Opened(r, m)
<1> USE SenderKeysAssumption
<1> DEFINE kept == {j \in skipped[r] : ~(j.id = m.id /\ j.index = m.iteration)}
<1>1. record' = record /\ skipped' = [skipped EXCEPT ![r] = kept]
  <2>1. skipped[r] \ SkippedFor(r, m) = kept
    BY DEF SkippedFor
  <2> QED BY <2>1 DEF DecryptFromSkipped
<1>2. PICK k \in skipped[r] : k.id = m.id /\ k.index = m.iteration
  BY DEF DecryptFromSkipped, OpensFromSkipped, SkippedFor
<1>3. Storable(skipped[r]) /\ Recorded(record[r], distributions[r])
  BY DEF IInv
<1>4. \A id : \A index \in Indexes :
        OpenCount(record[r], skipped[r], record[r], kept, m, id, index)
  BY <1>2, <1>3, SkippedCounts
<1> HIDE DEF kept
<1>5. skipped' = [q \in Receivers |-> IF q = r THEN kept ELSE skipped[q]]
  BY <1>1, Zenon DEF IInv, Functions
<1>6. m.id \in HeldIds(record[r])
  <2>1. Len(record[r]) \in Nat /\ DOMAIN record[r] = 1 .. Len(record[r]) /\ MaxStates \in Nat
    BY <1>3 DEF Recorded
  <2>2. Min({Len(record[r]), MaxStates}) = Len(record[r])
    BY <1>3, <2>1, MinOfTwo DEF Recorded
  <2>3. i \in DOMAIN record[r] /\ record[r][i].id = m.id
    BY <2>1, <2>2 DEF Positions
  <2> QED BY <2>3 DEF HeldIds
<1>7. skipped'[r] = kept /\ \A q \in Receivers \ {r} : skipped'[q] = skipped[q]
  BY <1>5
<1> QED BY <1>1, <1>4, <1>6, <1>7, Zenon DEF Opened

\* decryptGroupMessage() opens a published message.
LEMMA DecryptRefines ==
  ASSUME IInv, IInv', NEW r \in Receivers, NEW m \in groupMessages, DecryptGroupMessage(r, m)
  PROVE  OpenStep(r, <<m.id, m.iteration>>)
<1> DEFINE p == <<m.id, m.iteration>>
<1>1. Opened(r, m)
  BY ChainOpens, DecryptMovesChain, SkippedOpens DEF DecryptGroupMessage
<1>2. /\ Held[r] = HeldIds(record[r]) /\ Held'[r] = HeldIds(record'[r])
      /\ \A n \in Messages :
           /\ Rights[r][n] = Count(record[r], skipped[r], n[1], n[2])
           /\ Rights'[r][n] = Count(record'[r], skipped'[r], n[1], n[2])
  BY RightsAreCounts
<1>3. UNCHANGED <<Published, Offered>>
  BY Zenon DEF Published, Offered, senderVars, DecryptGroupMessage
<1>4. Only(r)
  BY <1>1, OthersUnchanged DEF Opened
<1>5. p \in Messages /\ p \in Published /\ p[1] = m.id /\ p[2] = m.iteration
  <2>1. m.id \in Ids /\ m.iteration \in Indexes
    BY SenderKeysAssumption DEF IInv, SenderInv, Ids
  <2> QED BY <2>1 DEF Messages, Published
<1> HIDE DEF p
<1>6. \A n \in Messages : n[2] \in Indexes
  BY DEF Messages
<1>7. \A n \in Messages :
        OpenCount(record[r], skipped[r], record'[r], skipped'[r], m, n[1], n[2])
  BY <1>1, <1>6 DEF Opened
<1>8. \A n \in Messages : Rights'[r][n] <= Rights[r][n]
  BY <1>2, <1>7 DEF OpenCount
<1>9. Rights'[r][p] < Rights[r][p]
  BY <1>2, <1>5, <1>7 DEF OpenCount
<1>10. Held' = Held
  BY <1>1, Zenon DEF Opened, Held
<1>11. p[1] \in Held[r]
  BY <1>1, <1>2, <1>5 DEF Opened
<1>12. OpenStep(r, p)
  BY <1>3, <1>4, <1>5, <1>8, <1>9, <1>10, <1>11 DEF OpenStep
<1> QED BY <1>12 DEF p

\* The channel starts empty.
LEMMA InitRefines == Init => Channel!Init
<1>1. SUFFICES ASSUME Init PROVE Channel!Init
  OBVIOUS
<1>2. Published = {} /\ Offered = [r \in Receivers |-> {}] /\ Held = [r \in Receivers |-> {}]
  BY <1>1 DEF Init, Published, Offered, Held, HeldIds
<1>3. Rights = [r \in Receivers |-> [m \in Ids \X (0 .. ChainIndexLimit) |-> 0]]
  <2>1. ASSUME NEW r \in Receivers, NEW id, NEW index PROVE Unread(r, id, index) = 0
    <3>1. record[r] = <<>> /\ skipped[r] = {}
      BY <1>1 DEF Init
    <3>2. {k \in skipped[r] : k.id = id /\ k.index = index} = {}
      BY <3>1
    <3> QED BY <3>1, <3>2, FS_EmptySet DEF Unread
  <2> QED BY <2>1, Zenon DEF Rights
<1> QED BY <1>2, <1>3, Zenon DEF Channel!Init, Channel!Messages, Published, Offered, Held, HeldIds,
    Rights

\* A step of the sender alone is not seen in the channel.
LEMMA StutterRefines ==
  ASSUME UNCHANGED <<groupMessages, distributions, record, skipped>>
  PROVE  UNCHANGED channelVars
BY Zenon DEF channelVars, Published, Offered, Held, HeldIds, Rights, Unread

\* Every step is a step of the channel, or is not seen in it.
LEMMA NextRefines ==
  ASSUME IInv, IInv', [Next]_vars
  PROVE  Channel!Next \/ UNCHANGED channelVars
<1>1. CASE CreateSenderKey
  BY <1>1, StutterRefines DEF CreateSenderKey, InstallOwn
<1>2. CASE RotateSenderKey
  BY <1>2, StutterRefines DEF RotateSenderKey, InstallOwn
<1>3. CASE DeleteSenderKey
  BY <1>3, StutterRefines DEF DeleteSenderKey
<1>4. CASE EncryptGroupMessage
  BY <1>4, EncryptPublishes, PublishRefines
<1>5. ASSUME NEW r \in Receivers, DistributeSenderKey(r) PROVE Channel!Next
  BY <1>5, DistributeOffers, OfferRefines
<1>6. ASSUME NEW r \in Receivers, NEW d \in distributions[r], ProcessSenderKeyDistribution(r, d)
      PROVE Channel!Next
  BY <1>6, ProcessRefines, InstallRefines
<1>7. ASSUME NEW r \in Receivers, NEW m \in groupMessages, DecryptGroupMessage(r, m)
      PROVE Channel!Next
  BY <1>7, DecryptRefines, OpenRefines
<1>8. CASE UNCHANGED vars
  BY <1>8, StutterRefines DEF vars
<1> QED BY <1>1, <1>2, <1>3, <1>4, <1>5, <1>6, <1>7, <1>8 DEF Next

(* The manager implements the group channel, for every order, loss and     *)
(* repetition of its distributions and messages.                           *)
THEOREM ChannelIsImplemented == Spec => ImplementsChannel
<1>1. Init => Channel!Init
  BY InitRefines
<1>2. IInv /\ IInv' /\ [Next]_vars => Channel!Next \/ UNCHANGED channelVars
  BY NextRefines
<1> QED BY <1>1, <1>2, Invariant, PTL DEF Spec, ImplementsChannel, Channel!Spec, channelVars,
    Published, Offered, Held, HeldIds, Rights
=============================================================================

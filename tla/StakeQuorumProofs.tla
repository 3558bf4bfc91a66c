------------------------- MODULE StakeQuorumProofs -------------------------
(***************************************************************************)
(* What the verdict of QueryIsBlockBabylonFinalizedFromBabylon guarantees, *)
(* for every set of finality providers and every distribution of stake.    *)
(***************************************************************************)
EXTENDS StakeQuorum, FiniteSetTheorems, TLAPS

\* The units of stake of any providers form a finite set.
LEMMA UnitsFinite ==
  ASSUME NEW power, NEW S
  PROVE  IsFiniteSet(Units(power, S)) /\ Stake(power, S) \in Nat
  <1>1. IsFiniteSet(1..MaxPower)
    BY StakeAssumption, FS_Interval
  <1>2. IsFiniteSet(Fps \X (1..MaxPower))
    BY <1>1, StakeAssumption, FS_Product
  <1>3. IsFiniteSet(Units(power, S))
    BY <1>2, FS_Subset DEF Units
  <1> QED
    BY <1>3, FS_CardinalityType DEF Stake

\* More voters never have less stake.
LEMMA StakeMonotone ==
  ASSUME NEW power, NEW A, NEW B, A \subseteq B
  PROVE  Stake(power, A) <= Stake(power, B)
  <1>1. Units(power, A) \subseteq Units(power, B)
    BY DEF Units
  <1> QED
    BY <1>1, UnitsFinite, FS_Subset DEF Stake

\* The stake behind two sets of voters, counted together and in common.
LEMMA StakeUnion ==
  ASSUME NEW power, NEW A, NEW B
  PROVE  Stake(power, A \cup B)
           = Stake(power, A) + Stake(power, B) - Stake(power, A \cap B)
  <1>1. Units(power, A \cup B) = Units(power, A) \cup Units(power, B)
    BY DEF Units
  <1>2. Units(power, A \cap B) = Units(power, A) \cap Units(power, B)
    BY DEF Units
  <1>3. IsFiniteSet(Units(power, A)) /\ IsFiniteSet(Units(power, B))
    BY UnitsFinite
  <1>4. Cardinality(Units(power, A) \cup Units(power, B))
          = Cardinality(Units(power, A)) + Cardinality(Units(power, B))
              - Cardinality(Units(power, A) \cap Units(power, B))
    BY <1>3, FS_Union
  <1> QED
    BY <1>1, <1>2, <1>4 DEF Stake

\* A provider that is not among S adds its own power to theirs: with
\* StakeOfNobody this makes the stake of a set the sum of the powers in it,
\* which is what the loops over the map of powers compute.
LEMMA StakeOfNobody ==
  ASSUME NEW power
  PROVE  Stake(power, {}) = 0
  <1>1. Units(power, {}) = {}
    BY DEF Units
  <1> QED
    BY <1>1, FS_EmptySet DEF Stake

\* The stake of one provider is its power.
LEMMA StakeOfOne ==
  ASSUME NEW power \in Powers, NEW f \in Fps
  PROVE  Stake(power, {f}) = power[f]
  <1>1. power[f] \in 0..MaxPower /\ MaxPower \in Nat /\ power[f] \in Nat
    BY StakeAssumption DEF Powers
  <1>2. Units(power, {f}) = {f} \X (1..power[f])
    <2>1. \A n : n \in 1..MaxPower /\ n <= power[f] <=> n \in 1..power[f]
      BY <1>1
    <2> QED
      BY <2>1 DEF Units
  <1>3. IsFiniteSet({f}) /\ Cardinality({f}) = 1
    BY FS_Singleton
  <1> DEFINE n == power[f]
  <1>4. n \in Nat /\ Units(power, {f}) = {f} \X (1..n)
    BY <1>1, <1>2
  <1> HIDE DEF n
  <1>5. IsFiniteSet(1..n) /\ Cardinality(1..n) = IF 1 > n THEN 0 ELSE n - 1 + 1
    BY <1>4, FS_Interval
  <1>6. Cardinality(1..n) = n
    BY <1>4, <1>5
  <1>7. Cardinality({f} \X (1..n)) = Cardinality({f}) * Cardinality(1..n)
    BY <1>3, <1>5, FS_Product
  <1>8. 1 * n = n
    BY <1>4
  <1>9. Stake(power, {f}) = n
    BY <1>3, <1>4, <1>6, <1>7, <1>8 DEF Stake
  <1> QED
    BY <1>9 DEF n

\* The loops that sum up powers: one provider more adds its power, once.
THEOREM StakeIsSumThm ==
  ASSUME NEW power \in Powers, NEW A, NEW f \in Fps \ A
  PROVE  /\ Stake(power, {}) = 0
         /\ Stake(power, A \cup {f}) = Stake(power, A) + power[f]
  <1>1. A \cap {f} = {}
    OBVIOUS
  <1>2. Stake(power, A \cup {f}) = Stake(power, A) + Stake(power, {f}) - Stake(power, A \cap {f})
    BY StakeUnion
  <1>3. Stake(power, A) \in Nat /\ power[f] \in Nat
    BY UnitsFinite DEF Powers
  <1> QED
    BY <1>1, <1>2, <1>3, StakeOfNobody, StakeOfOne

\* The stake behind A under the powers of the providers in S: the others add
\* nothing.
LEMMA StakeAmong ==
  ASSUME NEW power \in Powers, NEW S, NEW A
  PROVE  Stake(PowerOf(power, S), A) = Stake(power, A \cap S)
  <1>1. \A f \in Fps : PowerOf(power, S)[f] = IF f \in S THEN power[f] ELSE 0
    BY DEF PowerOf
  <1>2. \A n \in 1..MaxPower : ~ (n <= 0)
    BY StakeAssumption
  <1>3. Units(PowerOf(power, S), A) = Units(power, A \cap S)
    BY <1>1, <1>2 DEF Units
  <1> QED
    BY <1>3 DEF Stake

\* A block that the providers have finalized stays finalized when more of
\* them vote, so an answer computed from old votes is still right.
THEOREM QuorumMonotone ==
  ASSUME NEW power, NEW A, NEW B, A \subseteq B, QuorumReached(power, A)
  PROVE  QuorumReached(power, B)
  <1>1. Stake(power, A) <= Stake(power, B)
    BY StakeMonotone
  <1>2. Stake(power, A) \in Nat /\ Stake(power, B) \in Nat /\ Stake(power, Fps) \in Nat
    BY UnitsFinite
  <1> QED
    BY <1>1, <1>2 DEF QuorumReached, totalPower, votedPower

\* Two quorums under one distribution of stake share at least a third of it:
\* conflicting blocks of one height can both be finalized only when providers
\* with a third of the stake voted for both.
THEOREM QuorumIntersection ==
  ASSUME NEW power, NEW A \in SUBSET Fps, NEW B \in SUBSET Fps,
         QuorumReached(power, A), QuorumReached(power, B)
  PROVE  3 * Stake(power, A \cap B) >= totalPower(power)
  <1>1. Stake(power, A \cup B) <= Stake(power, Fps)
    BY StakeMonotone
  <1>2. Stake(power, A \cup B)
          = Stake(power, A) + Stake(power, B) - Stake(power, A \cap B)
    BY StakeUnion
  <1>3. /\ Stake(power, A) \in Nat /\ Stake(power, B) \in Nat
        /\ Stake(power, A \cap B) \in Nat /\ Stake(power, Fps) \in Nat
    BY UnitsFinite
  <1> QED
    BY <1>1, <1>2, <1>3 DEF QuorumReached, totalPower, votedPower

\* The providers keep at most the stake they have in either map.
LEMMA CommonStake ==
  ASSUME NEW p \in Powers, NEW q \in Powers, NEW A
  PROVE  Stake(Common(p, q), A) <= Stake(p, A) /\ Stake(Common(p, q), A) <= Stake(q, A)
  <1>1. \A f \in Fps : p[f] \in Nat /\ q[f] \in Nat
    BY StakeAssumption DEF Powers
  <1>2. \A f \in Fps, n \in 1..MaxPower : n <= Common(p, q)[f] => n <= p[f] /\ n <= q[f]
    BY <1>1, StakeAssumption DEF Common
  <1>3. /\ Units(Common(p, q), A) \subseteq Units(p, A)
        /\ Units(Common(p, q), A) \subseteq Units(q, A)
    BY <1>2 DEF Units
  <1> QED
    BY <1>3, UnitsFinite, FS_Subset DEF Stake

\* What a quorum leaves out is at most a third of the stake.
LEMMA LeftOut ==
  ASSUME NEW power \in Powers, NEW S \in SUBSET Fps, NEW A,
         QuorumReached(PowerOf(power, S), A)
  PROVE  3 * Stake(power, S \ A) <= Stake(power, S)
  <1> DEFINE a == Stake(power, A \cap S)
             s == Stake(power, S)
             o == Stake(power, S \ A)
  <1>1. a \in Nat /\ s \in Nat /\ o \in Nat
    BY UnitsFinite
  <1>2. Fps \cap S = S
    OBVIOUS
  <1>3. s = 0 \/ ~ (a * 3 < s * 2)
    BY <1>2, StakeAmong DEF QuorumReached, totalPower, votedPower
  <1>4. s = a + o
    <2>1. (A \cap S) \cup (S \ A) = S /\ (A \cap S) \cap (S \ A) = {}
      OBVIOUS
    <2>2. s = a + o - Stake(power, {})
      BY <2>1, StakeUnion
    <2> QED
      BY <1>1, <2>2, StakeOfNobody
  <1> HIDE DEF a, s, o
  <1>5. 3 * o <= s
    BY <1>1, <1>3, <1>4
  <1> QED
    BY <1>5 DEF o, s

\* Two verdicts may be reached under different powers and lists of providers,
\* when the blocks are in different BTC blocks or providers register between the
\* two.  Their quorums still share stake: what the providers of both lists keep
\* in both maps, less a third of what either list holds.
THEOREM QuorumsShare ==
  ASSUME NEW p \in Powers, NEW q \in Powers,
         NEW S \in SUBSET Fps, NEW T \in SUBSET Fps,
         NEW A \in SUBSET Fps, NEW B \in SUBSET Fps,
         QuorumReached(PowerOf(p, S), A), QuorumReached(PowerOf(q, T), B)
  PROVE  3 * Stake(Common(p, q), A \cap B) + Stake(p, S) + Stake(q, T)
           >= 3 * Stake(Common(p, q), S \cap T)
  <1> DEFINE m == Common(p, q)
             ab == Stake(m, A \cap B)
             st == Stake(m, S \cap T)
             noA == Stake(m, S \ A)
             noB == Stake(m, T \ B)
             no == Stake(m, (S \ A) \cup (T \ B))
             all == Stake(m, (A \cap B) \cup ((S \ A) \cup (T \ B)))
             x == Stake(m, (A \cap B) \cap ((S \ A) \cup (T \ B)))
             y == Stake(m, (S \ A) \cap (T \ B))
             s == Stake(p, S)
             t == Stake(q, T)
  <1>1. /\ ab \in Nat /\ st \in Nat /\ noA \in Nat /\ noB \in Nat /\ no \in Nat
        /\ all \in Nat /\ x \in Nat /\ y \in Nat /\ s \in Nat /\ t \in Nat
    BY UnitsFinite
  <1>2. all = ab + no - x /\ no = noA + noB - y
    BY StakeUnion
  <1>3. st <= all
    <2>1. S \cap T \subseteq (A \cap B) \cup ((S \ A) \cup (T \ B))
      OBVIOUS
    <2> QED
      BY <2>1, StakeMonotone
  <1>4. noA <= Stake(p, S \ A) /\ noB <= Stake(q, T \ B)
    BY CommonStake
  <1>5. 3 * Stake(p, S \ A) <= s /\ 3 * Stake(q, T \ B) <= t
    BY LeftOut
  <1>6. Stake(p, S \ A) \in Nat /\ Stake(q, T \ B) \in Nat
    BY UnitsFinite
  <1> HIDE DEF ab, st, noA, noB, no, all, x, y, s, t
  <1>7. 3 * ab + s + t >= 3 * st
    BY <1>1, <1>2, <1>3, <1>4, <1>5, <1>6
  <1> QED
    BY <1>7 DEF ab, s, t, st
=============================================================================

--------------------------- MODULE AdrLoop_proofs ---------------------------
(* What AdrComponent::AdrImplementation guarantees for every ratio, and what  *)
(* the device and the server do with it, for every number of gateways, every  *)
(* link, and every command that other controller components may add.          *)
EXTENDS AdrLoop, FunctionTheorems, FiniteSetTheorems, NaturalsInduction, WellFoundedInduction, TLAPS

(* A ratio is a sum of whole quarters of a dB over a number of packets.       *)
Ratios == [sum : Int, count : Nat \ {0}]
SpreadingFactors == minSpreadingFactor .. 12
EvenPowers == {power \in 0 .. 14 : power % 2 = 0}

\* Every spreading factor has a data rate and a threshold, 2.5 dB apart.
LEMMA Thresholds ==
    \A sf \in SpreadingFactors :
        /\ SfToDr(sf) = 12 - sf /\ SfToDr(sf) \in 0 .. 5
        /\ ThresholdOf(sf) = -80 + 10 * (12 - sf)
  BY DEF SpreadingFactors, SfToDr, ThresholdOf, Threshold, minSpreadingFactor

\* Division with a positive divisor rounds down.
LEMMA RoundedDown ==
    ASSUME NEW a \in Int, NEW b \in Nat \ {0}
    PROVE  a \div b \in Int /\ b * (a \div b) <= a
  OBVIOUS

\* As many steps as the margin holds, of 3 dB each.
LEMMA StepsFit ==
    ASSUME NEW snr \in Ratios, NEW sf \in SpreadingFactors
    PROVE  /\ Steps(snr, sf) \in Int
           /\ (StepSize * snr.count) * Steps(snr, sf) <= snr.sum - snr.count * ThresholdOf(sf)
  <1> DEFINE a == snr.sum - snr.count * ThresholdOf(sf)
             b == StepSize * snr.count
  <1>1. ThresholdOf(sf) \in Int
    BY Thresholds DEF SpreadingFactors, minSpreadingFactor
  <1>2. snr.sum \in Int /\ snr.count \in Nat \ {0}
    BY DEF Ratios
  <1>3. a \in Int
    BY <1>1, <1>2
  <1>4. b \in Nat \ {0}
    BY <1>2 DEF StepSize, Db
  <1> HIDE DEF a, b
  <1>5. a \div b \in Int /\ b * (a \div b) <= a
    BY <1>3, <1>4, RoundedDown
  <1>6. Steps(snr, sf) = a \div b
    BY DEF Steps, a, b
  <1> QED
    BY <1>5, <1>6 DEF a, b

\* How often the loops of AdrImplementation are run.
LEMMA Loops ==
    ASSUME NEW snr \in Ratios, NEW sf \in SpreadingFactors, NEW power \in EvenPowers
    PROVE  LET steps == Steps(snr, sf)
               k == SfDecrements(steps, sf)
               down == PowerDecrements(steps - k, power)
               up == PowerIncrements(steps, power)
           IN  /\ k \in Nat /\ down \in Nat /\ up \in Nat
               /\ k <= sf - minSpreadingFactor
               /\ power - 2 * down + 2 * up \in 0 .. 14
               /\ steps >= 0 => k + down <= steps /\ up = 0
               /\ steps < 0 => k = 0 /\ down = 0
  <1> DEFINE steps == Steps(snr, sf)
  <1>1. steps \in Int
    BY StepsFit
  <1> HIDE DEF steps
  <1>2. sf \in 7 .. 12 /\ power \in 0 .. 14 /\ power % 2 = 0
    BY DEF SpreadingFactors, EvenPowers, minSpreadingFactor
  <1>3. PICK half \in 0 .. 7 : power = 2 * half
    BY <1>2
  <1> DEFINE k == SfDecrements(steps, sf)
             down == PowerDecrements(steps - k, power)
             up == PowerIncrements(steps, power)
  <1>4. /\ k \in Nat /\ k <= sf - 7
        /\ steps >= 0 => k <= steps
        /\ steps < 0 => k = 0
    BY <1>1, <1>2 DEF SfDecrements, AtMost, minSpreadingFactor
  <1>5. RoundsOf2Db(power - 2) = IF half > 1 THEN half - 1 ELSE 0
    BY <1>3 DEF RoundsOf2Db
  <1>6. RoundsOf2Db(14 - power) = 7 - half
    BY <1>3 DEF RoundsOf2Db
  <1> HIDE DEF k
  <1>7. /\ down \in Nat /\ down <= half
        /\ steps >= 0 => k + down <= steps
        /\ steps < 0 => down = 0
    BY <1>1, <1>3, <1>4, <1>5 DEF PowerDecrements, AtMost, minTransmissionPower
  <1>8. /\ up \in Nat /\ up <= 7 - half
        /\ steps >= 0 => up = 0
    BY <1>1, <1>3, <1>6 DEF PowerIncrements, AtMost, maxTransmissionPower
  <1> HIDE DEF down, up
  <1>9. power - 2 * down + 2 * up \in 0 .. 14
    BY <1>1, <1>3, <1>7, <1>8
  <1> QED
    BY <1>4, <1>7, <1>8, <1>9 DEF steps, k, down, up, minSpreadingFactor

(* The assertions of GetTxPowerIndex hold for whatever AdrImplementation      *)
(* returns, the spreading factor has a data rate, and the index means the     *)
(* same power in the table by which the device reads it.                      *)
THEOREM ParametersStayInTheTables ==
    ASSUME NEW snr \in Ratios, NEW sf \in SpreadingFactors, NEW power \in EvenPowers
    PROVE  LET new == AdrImplementation(snr, sf, power)
           IN  /\ new.dataRate \in 0 .. 5
               /\ InTxPowerRange(new.txPower)
               /\ GetDbmForTxPower(GetTxPowerIndex(new.txPower)) = new.txPower
  <1> DEFINE p == NewTxPower(snr, sf, power)
             k == SfDecrements(Steps(snr, sf), sf)
             down == PowerDecrements(Steps(snr, sf) - k, power)
             up == PowerIncrements(Steps(snr, sf), power)
  <1>1. /\ k \in Nat /\ down \in Nat /\ up \in Nat
        /\ k <= sf - minSpreadingFactor
        /\ power - 2 * down + 2 * up \in 0 .. 14
    BY Loops
  <1>2. p = power - 2 * down + 2 * up /\ NewSf(snr, sf) = sf - k
    BY DEF NewTxPower, NewSf
  <1>3. AdrImplementation(snr, sf, power) = [dataRate |-> SfToDr(NewSf(snr, sf)), txPower |-> p]
    BY DEF AdrImplementation
  <1> HIDE DEF p, k, down, up
  <1>4. NewSf(snr, sf) \in SpreadingFactors
    BY <1>1, <1>2 DEF SpreadingFactors, minSpreadingFactor
  <1>5. p \in 0 .. 14 /\ p % 2 = 0
    BY <1>1, <1>2 DEF EvenPowers
  <1>6. PICK half \in 0 .. 7 : p = 2 * half
    BY <1>5
  <1>7. GetTxPowerIndex(p) = 7 - half
    BY <1>6 DEF GetTxPowerIndex
  <1>8. GetDbmForTxPower(7 - half) = 2 * half
    BY <1>6 DEF GetDbmForTxPower, Throws, At, TxDbmForTxPower
  <1> QED
    BY <1>3, <1>4, <1>5, <1>6, <1>7, <1>8, Thresholds DEF InTxPowerRange

(* A step of the algorithm from an estimate that is not above the ratio of    *)
(* the link takes no more than the margin the link has: afterwards the device *)
(* is above the threshold of its new data rate, or no worse than it was.      *)
THEOREM MarginIsNotOverspent ==
    ASSUME NEW snr \in Ratios, NEW sf \in SpreadingFactors, NEW power \in EvenPowers,
           NEW actual \in Int, snr.sum <= snr.count * actual
    PROVE  LET then == actual + Db * (NewTxPower(snr, sf, power) - power)
           IN  \/ Margin(then, NewSf(snr, sf)) >= 0
               \/ Margin(then, NewSf(snr, sf)) >= Margin(actual, sf)
  <1> DEFINE steps == Steps(snr, sf)
             k == SfDecrements(steps, sf)
             down == PowerDecrements(steps - k, power)
             up == PowerIncrements(steps, power)
             margin == Margin(actual, sf)
             after == Margin(actual + Db * (NewTxPower(snr, sf, power) - power), NewSf(snr, sf))
  <1>1. /\ k \in Nat /\ down \in Nat /\ up \in Nat
        /\ k <= sf - minSpreadingFactor
        /\ steps >= 0 => k + down <= steps /\ up = 0
        /\ steps < 0 => k = 0 /\ down = 0
    BY Loops
  <1>2. NewTxPower(snr, sf, power) = power - 2 * down + 2 * up /\ NewSf(snr, sf) = sf - k
    BY DEF NewTxPower, NewSf
  <1>3. steps \in Int /\ (12 * snr.count) * steps <= snr.sum - snr.count * ThresholdOf(sf)
    BY StepsFit DEF StepSize, Db
  <1> HIDE DEF k, down, up, steps
  <1>4. sf \in 7 .. 12 /\ power \in Int /\ snr.count \in Nat \ {0} /\ snr.sum \in Int
    BY DEF SpreadingFactors, EvenPowers, Ratios, minSpreadingFactor
  <1>5. sf - k \in SpreadingFactors
    BY <1>1, <1>4 DEF SpreadingFactors, minSpreadingFactor
  <1>6. /\ ThresholdOf(sf) = -80 + 10 * (12 - sf)
        /\ ThresholdOf(sf - k) = -80 + 10 * (12 - (sf - k))
    BY <1>5, Thresholds
  <1>7. margin \in Int /\ after = margin - 8 * down + 8 * up - 10 * k
    BY <1>1, <1>2, <1>4, <1>6 DEF Margin, Db
  <1>8. (12 * snr.count) * steps <= snr.count * margin
    <2>1. snr.sum - snr.count * ThresholdOf(sf) <= snr.count * actual - snr.count * ThresholdOf(sf)
      BY <1>4, <1>6
    <2>2. snr.count * actual - snr.count * ThresholdOf(sf) = snr.count * margin
      BY <1>4, <1>6 DEF Margin
    <2> QED
      BY <2>1, <2>2, <1>3, <1>4, <1>6, <1>7
  <1>9. 12 * steps <= margin
    BY <1>3, <1>4, <1>7, <1>8
  <1> HIDE DEF margin, after
  <1>10. after >= 0 \/ after >= margin
    <2>1. CASE steps >= 0
      BY <2>1, <1>1, <1>3, <1>7, <1>9
    <2>2. CASE steps < 0
      BY <2>2, <1>1, <1>3, <1>7
    <2> QED
      BY <2>1, <2>2, <1>3
  <1> QED
    BY <1>10 DEF margin, after

------------------------------------------------------------------------------
(* The largest and the smallest of finitely many numbers, and the sum.        *)

Family(F, S) == F \subseteq SUBSET S /\ F # {}
Least(T, F) == T \in F /\ \A U \in F : U \subseteq T => U = T

LEMMA SmallestOf == \A S, F : IsFiniteSet(S) /\ Family(F, S) => \E T : Least(T, F)
  <1> SUFFICES ASSUME NEW S, NEW F, IsFiniteSet(S), F \subseteq SUBSET S, F # {}
               PROVE  \E T \in F : \A U \in F : U \subseteq T => U = T
    BY DEF Family, Least
  <1>1. IsWellFoundedOn(StrictSubsetOrdering(S), SUBSET S)
    BY FS_StrictSubsetOrderingWellFounded, FS_FiniteSubsetsOfFinite
  <1>2. PICK T \in F : \A U \in F : ~(<<U, T>> \in StrictSubsetOrdering(S))
    BY <1>1, WFMin
  <1>3. ASSUME NEW U \in F, U \subseteq T, U # T PROVE FALSE
    <2>1. <<U, T>> \in StrictSubsetOrdering(S)
      BY <1>3 DEF StrictSubsetOrdering
    <2> QED
      BY <1>2, <2>1
  <1> QED
    BY <1>3

LEMMA Largest ==
    ASSUME NEW S \in SUBSET Int, IsFiniteSet(S), S # {}
    PROVE  Max(S) \in S /\ \A y \in S : y <= Max(S)
  <1> DEFINE From(x) == {y \in S : y >= x}
             F == {From(x) : x \in S}
  <1>1. F \subseteq SUBSET S
    OBVIOUS
  <1>2. F # {}
    OBVIOUS
  <1>3. \A x, y \in S : y \in From(x) <=> y >= x
    OBVIOUS
  <1>4. \A x \in S : From(x) \in F /\ From(x) \subseteq S
    OBVIOUS
  <1>5. \A T \in F : \E x \in S : T = From(x)
    OBVIOUS
  <1> HIDE DEF F, From
  <1>6. PICK T : T \in F /\ \A U \in F : U \subseteq T => U = T
    <2>1. Family(F, S)
      BY <1>1, <1>2 DEF Family
    <2>2. PICK T : Least(T, F)
      BY <2>1, SmallestOf, Zenon
    <2> QED
      BY <2>2 DEF Least
  <1>7. PICK x \in S : T = From(x)
    BY <1>5, <1>6
  <1>8. ASSUME NEW z \in S, ~(x >= z) PROVE FALSE
    <2>1. x \in From(x) /\ x \notin From(z)
      BY <1>3, <1>8
    <2>2. ASSUME NEW w \in From(z) PROVE w \in From(x)
      <3>1. w \in S /\ w >= z
        BY <1>3, <1>4, <2>2
      <3>2. w >= x
        BY <1>8, <3>1
      <3> QED
        BY <1>3, <3>1, <3>2
    <2> QED
      BY <1>4, <1>6, <1>7, <2>1, <2>2
  <1>9. \E m \in S : \A y \in S : m >= y
    BY <1>8
  <1>10. Max(S) \in S /\ \A y \in S : Max(S) >= y
    BY <1>9, Zenon DEF Max
  <1> QED
    BY <1>10

LEMMA Smallest ==
    ASSUME NEW S \in SUBSET Int, IsFiniteSet(S), S # {}
    PROVE  Min(S) \in S /\ \A y \in S : Min(S) <= y
  <1> DEFINE Upto(x) == {y \in S : y =< x}
             F == {Upto(x) : x \in S}
  <1>1. F \subseteq SUBSET S
    OBVIOUS
  <1>2. F # {}
    OBVIOUS
  <1>3. \A x, y \in S : y \in Upto(x) <=> y =< x
    OBVIOUS
  <1>4. \A x \in S : Upto(x) \in F /\ Upto(x) \subseteq S
    OBVIOUS
  <1>5. \A T \in F : \E x \in S : T = Upto(x)
    OBVIOUS
  <1> HIDE DEF F, Upto
  <1>6. PICK T : T \in F /\ \A U \in F : U \subseteq T => U = T
    <2>1. Family(F, S)
      BY <1>1, <1>2 DEF Family
    <2>2. PICK T : Least(T, F)
      BY <2>1, SmallestOf, Zenon
    <2> QED
      BY <2>2 DEF Least
  <1>7. PICK x \in S : T = Upto(x)
    BY <1>5, <1>6
  <1>8. ASSUME NEW z \in S, ~(x =< z) PROVE FALSE
    <2>1. x \in Upto(x) /\ x \notin Upto(z)
      BY <1>3, <1>8
    <2>2. ASSUME NEW w \in Upto(z) PROVE w \in Upto(x)
      <3>1. w \in S /\ w =< z
        BY <1>3, <1>4, <2>2
      <3>2. w =< x
        BY <1>8, <3>1
      <3> QED
        BY <1>3, <3>1, <3>2
    <2> QED
      BY <1>4, <1>6, <1>7, <2>1, <2>2
  <1>9. \E m \in S : \A y \in S : m =< y
    BY <1>8
  <1> QED
    BY <1>9, Zenon DEF Min

LEMMA OfTwo ==
    \A a, b \in Int : /\ Max({a, b}) = IF a >= b THEN a ELSE b
                      /\ Min({a, b}) = IF a <= b THEN a ELSE b
  <1> SUFFICES ASSUME NEW a \in Int, NEW b \in Int
               PROVE  /\ Max({a, b}) = IF a >= b THEN a ELSE b
                      /\ Min({a, b}) = IF a <= b THEN a ELSE b
    OBVIOUS
  <1>1. IsFiniteSet({a, b})
    <2>1. IsFiniteSet({a} \cup {b})
      BY FS_Singleton, FS_AddElement, Zenon
    <2>2. {a, b} = {a} \cup {b}
      OBVIOUS
    <2> QED
      BY <2>1, <2>2, Zenon
  <1>2. {a, b} \in SUBSET Int /\ {a, b} # {}
    OBVIOUS
  <1>3. Max({a, b}) \in {a, b} /\ \A y \in {a, b} : y <= Max({a, b})
    BY <1>1, <1>2, Largest
  <1>4. Min({a, b}) \in {a, b} /\ \A y \in {a, b} : Min({a, b}) <= y
    BY <1>1, <1>2, Smallest
  <1> QED
    BY <1>3, <1>4

\* A value for every element of a finite set.
Numbers(f) == /\ IsFiniteSet(DOMAIN f) /\ DOMAIN f # {}
              /\ \A x \in DOMAIN f : f[x] \in Int

LEMMA ValuesOfNumbers ==
    ASSUME NEW f, Numbers(f)
    PROVE  /\ Values(f) \in SUBSET Int /\ IsFiniteSet(Values(f)) /\ Values(f) # {}
           /\ Max(Values(f)) \in Values(f) /\ \A x \in DOMAIN f : f[x] <= Max(Values(f))
           /\ Min(Values(f)) \in Values(f) /\ \A x \in DOMAIN f : Min(Values(f)) <= f[x]
  <1>1. Values(f) \in SUBSET Int /\ Values(f) # {}
    BY DEF Numbers, Values
  <1>2. IsFiniteSet(Values(f))
    <2> DEFINE g == [x \in DOMAIN f |-> f[x]]
    <2>1. Values(f) = {g[x] : x \in DOMAIN f}
      BY DEF Values
    <2>2. g \in Surjection(DOMAIN f, Values(f))
      BY <2>1 DEF Surjection
    <2> HIDE DEF g
    <2> QED
      BY <2>2, FS_Surjection DEF Numbers
  <1>3. \A x \in DOMAIN f : f[x] \in Values(f)
    BY DEF Values
  <1> QED
    BY <1>1, <1>2, <1>3, Largest, Smallest

LEMMA Inducts ==
    ASSUME NEW S \in SUBSET Nat, 0 \in S, \A n \in S : n + 1 \in S
    PROVE  S = Nat
  <1> DEFINE T == Nat \ S
  <1> SUFFICES ASSUME T # {} PROVE FALSE
    OBVIOUS
  <1>1. PICK n \in T : \A m \in T : ~(<<m, n>> \in OpToRel(<, Nat))
    <2> HIDE DEF T
    <2>1. T \subseteq Nat
      BY DEF T
    <2> QED
      BY <2>1, NatLessThanWellFounded, WFMin
  <1>2. n \in Nat /\ n # 0 /\ n - 1 \in Nat
    OBVIOUS
  <1>3. <<n - 1, n>> \in OpToRel(<, Nat)
    BY <1>2 DEF OpToRel
  <1>4. n - 1 \in S
    BY <1>1, <1>2, <1>3
  <1> QED
    BY <1>2, <1>4

(* The partial sums of f, in the order in which a fold takes the elements.    *)
First(s) == CHOOSE x \in s : TRUE
SumAt(f, sum, s) == IF s = {} THEN 0 ELSE f[First(s)] + sum[s \ {First(s)}]
Sums(f, sum) == sum = [s \in SUBSET DOMAIN f |-> SumAt(f, sum, s)]

LEMMA FirstIn == \A s : s # {} => First(s) \in s
  BY DEF First

\* The sets of n elements or fewer, and what is known of each subset.
LEMMA Sized ==
    ASSUME NEW S, IsFiniteSet(S)
    PROVE  \A s \in SUBSET S : /\ IsFiniteSet(s) /\ Cardinality(s) \in Nat
                               /\ Cardinality(s) <= Cardinality(S)
                               /\ (Cardinality(s) = 0 <=> s = {})
                               /\ \A x \in s : Cardinality(s \ {x}) = Cardinality(s) - 1
  <1>1. \A s \in SUBSET S : /\ IsFiniteSet(s) /\ Cardinality(s) \in Nat
                            /\ Cardinality(s) <= Cardinality(S)
                            /\ (Cardinality(s) = 0 <=> s = {})
    BY FS_Subset, FS_CardinalityType, FS_EmptySet
  <1>2. ASSUME NEW s \in SUBSET S, NEW x \in s PROVE Cardinality(s \ {x}) = Cardinality(s) - 1
    BY <1>1, FS_RemoveElement
  <1> QED
    BY <1>1, <1>2

LEMMA SumsExist ==
    ASSUME NEW f, IsFiniteSet(DOMAIN f)
    PROVE  \E sum : Sums(f, sum)
  <1> DEFINE S == DOMAIN f
             Upto(n, sum) == \A s \in SUBSET S : Cardinality(s) <= n => sum[s] = SumAt(f, sum, s)
             N == {n \in Nat : \E sum : Upto(n, sum)}
  <1> HIDE DEF S
  <1>1. \A s \in SUBSET S : IsFiniteSet(s) /\ Cardinality(s) \in Nat
                            /\ Cardinality(s) <= Cardinality(S)
                            /\ (Cardinality(s) = 0 <=> s = {})
                            /\ \A x \in s : Cardinality(s \ {x}) = Cardinality(s) - 1
    BY Sized DEF S
  <1>2. 0 \in N
    <2> DEFINE sum == [s \in SUBSET S |-> 0]
    <2>1. Upto(0, sum)
      BY <1>1 DEF SumAt
    <2> QED
      BY <2>1
  <1>3. ASSUME NEW n \in N PROVE n + 1 \in N
    <2>1. PICK sum : Upto(n, sum)
      OBVIOUS
    <2> DEFINE more == [s \in SUBSET S |-> IF Cardinality(s) <= n THEN sum[s] ELSE SumAt(f, sum, s)]
    <2>2. \A s \in SUBSET S : more[s] = SumAt(f, sum, s)
      BY <2>1
    <2>3. ASSUME NEW s \in SUBSET S, Cardinality(s) <= n + 1, s # {}
          PROVE  /\ s \ {First(s)} \in SUBSET S
                 /\ Cardinality(s \ {First(s)}) <= n
      <3>1. First(s) \in s
        BY <2>3, FirstIn
      <3> HIDE DEF N
      <3>2. Cardinality(s \ {First(s)}) = Cardinality(s) - 1
        BY <1>1, <3>1
      <3>3. n \in Nat
        BY DEF N
      <3> QED
        BY <1>1, <2>3, <3>2, <3>3
    <2>4. Upto(n + 1, more)
      <3> SUFFICES ASSUME NEW s \in SUBSET S, Cardinality(s) <= n + 1
                   PROVE  more[s] = SumAt(f, more, s)
        OBVIOUS
      <3>1. CASE s = {}
        BY <2>2, <3>1 DEF SumAt
      <3>2. CASE s # {}
        <4>1. more[s \ {First(s)}] = sum[s \ {First(s)}]
          BY <2>3, <3>2
        <4> HIDE DEF more
        <4> QED
          BY <2>2, <3>2, <4>1 DEF SumAt
      <3> QED
        BY <3>1, <3>2
    <2> HIDE DEF Upto, more
    <2>5. n + 1 \in Nat
      OBVIOUS
    <2> QED
      BY <2>4, <2>5
  <1>4. Cardinality(S) \in N
    <2> HIDE DEF N
    <2>1. N = Nat
      <3>1. N \in SUBSET Nat
        BY DEF N
      <3> QED
        BY <1>2, <1>3, <3>1, Inducts
    <2> QED
      BY <1>1, <2>1
  <1>5. PICK sum : \A s \in SUBSET S : sum[s] = SumAt(f, sum, s)
    BY <1>1, <1>4
  <1> DEFINE total == [s \in SUBSET S |-> sum[s]]
  <1>6. \A s \in SUBSET S : total[s] = SumAt(f, total, s)
    BY <1>5, FirstIn DEF SumAt
  <1>7. total = [s \in SUBSET S |-> SumAt(f, total, s)]
    <2>1. total = [s \in SUBSET S |-> total[s]]
      OBVIOUS
    <2> HIDE DEF total
    <2> QED
      BY <1>6, <2>1
  <1> QED
    BY <1>7 DEF Sums, S

(* A sum is at most as many times the largest summand as there are summands.  *)
LEMMA SumAtMost ==
    ASSUME NEW f, Numbers(f), NEW top \in Int, \A x \in DOMAIN f : f[x] <= top
    PROVE  SumOf(f) \in Int /\ SumOf(f) <= top * Cardinality(DOMAIN f)
  <1> DEFINE S == DOMAIN f
  <1>1. IsFiniteSet(S) /\ \A x \in S : f[x] \in Int /\ f[x] <= top
    BY DEF Numbers
  <1> DEFINE sum == CHOOSE sum : sum = [s \in SUBSET S |-> SumAt(f, sum, s)]
  <1>2. Sums(f, sum)
    <2>1. PICK some : Sums(f, some)
      BY <1>1, SumsExist
    <2> QED
      BY <2>1 DEF Sums
  <1>3. SumOf(f) = sum[S]
    BY DEF SumOf, MapThenSumSet, MapThenFoldSet, SumAt, First
  <1> HIDE DEF sum
  <1>4. \A s \in SUBSET S : sum[s] = SumAt(f, sum, s)
    BY <1>2 DEF Sums
  <1> HIDE DEF S
  <1>5. \A s \in SUBSET S : IsFiniteSet(s) /\ Cardinality(s) \in Nat
                            /\ (Cardinality(s) = 0 <=> s = {})
                            /\ \A x \in s : Cardinality(s \ {x}) = Cardinality(s) - 1
    BY <1>1, Sized
  <1> DEFINE Fits(s) == sum[s] \in Int /\ sum[s] <= top * Cardinality(s)
             N == {n \in Nat : \A s \in SUBSET S : Cardinality(s) = n => Fits(s)}
  <1>6. 0 \in N
    <2>1. sum[{}] = 0
      BY <1>4 DEF SumAt
    <2>2. top * 0 = 0
      OBVIOUS
    <2>3. ASSUME NEW s \in SUBSET S, Cardinality(s) = 0 PROVE Fits(s)
      <3>1. s = {}
        BY <1>5, <2>3
      <3>2. sum[s] = 0 /\ top * Cardinality(s) = 0
        BY <2>1, <2>2, <2>3, <3>1
      <3> QED
        BY <3>2
    <2> QED
      BY <2>3
  <1>7. ASSUME NEW n \in N PROVE n + 1 \in N
    <2>1. ASSUME NEW s \in SUBSET S, Cardinality(s) = n + 1 PROVE Fits(s)
      <3>1. n \in Nat /\ \A r \in SUBSET S : Cardinality(r) = n => Fits(r)
        OBVIOUS
      <3> HIDE DEF N
      <3>2. s # {}
        BY <1>5, <2>1, <3>1
      <3> DEFINE x == First(s)
                 r == s \ {x}
      <3>3. x \in s
        BY <3>2, FirstIn
      <3>4. sum[s] = f[x] + sum[r]
        BY <1>4, <3>2 DEF SumAt
      <3> HIDE DEF x
      <3>5. r \in SUBSET S /\ Cardinality(r) = n
        BY <1>5, <2>1, <3>1, <3>3
      <3> HIDE DEF r
      <3>6. sum[r] \in Int /\ sum[r] <= top * n
        BY <3>1, <3>5
      <3>7. f[x] \in Int /\ f[x] <= top
        BY <1>1, <3>3
      <3>8. top * (n + 1) = top * n + top
        BY <3>1
      <3> QED
        BY <2>1, <3>1, <3>4, <3>6, <3>7, <3>8
    <2> QED
      BY <2>1
  <1>8. Cardinality(S) \in N
    <2> HIDE DEF N
    <2>1. N \in SUBSET Nat
      BY DEF N
    <2>2. N = Nat
      BY <1>6, <1>7, <2>1, Inducts
    <2> QED
      BY <1>5, <2>2
  <1> QED
    BY <1>3, <1>8 DEF S

------------------------------------------------------------------------------
(* What the server makes of the powers of the last packets.                   *)

LEMMA Quotient == \A a, q \in Int, n \in Nat \ {0} : a <= q * n => a \div n \in Int /\ a \div n <= q
  <1> SUFFICES ASSUME NEW a \in Int, NEW q \in Int, NEW n \in Nat \ {0}, a <= q * n
               PROVE  a \div n \in Int /\ a \div n <= q
    OBVIOUS
  <1> DEFINE d == a \div n
  <1>1. d \in Int /\ n * d <= a
    BY RoundedDown
  <1> HIDE DEF d
  <1>2. CASE d >= q + 1
    <2>1. n * d >= n * (q + 1)
      BY <1>1, <1>2
    <2>2. n * (q + 1) = q * n + n
      OBVIOUS
    <2> QED
      BY <1>1, <2>1, <2>2
  <1>3. CASE d <= q
    BY <1>1, <1>3 DEF d
  <1> QED
    BY <1>1, <1>2, <1>3

\* Whatever the method, a packet is not taken to be stronger than it was.
LEMMA ReceivedPower ==
    ASSUME NEW tp \in CombiningMethod, NEW rx, Numbers(rx)
    PROVE  GetReceivedPower(tp, rx) \in Int /\ GetReceivedPower(tp, rx) <= Max(Values(rx))
  <1> DEFINE top == Max(Values(rx))
             n == Cardinality(DOMAIN rx)
  <1>1. /\ Values(rx) \in SUBSET Int /\ IsFiniteSet(Values(rx)) /\ Values(rx) # {}
        /\ top \in Values(rx) /\ \A x \in DOMAIN rx : rx[x] <= top
        /\ Min(Values(rx)) \in Values(rx) /\ \A x \in DOMAIN rx : Min(Values(rx)) <= rx[x]
    BY ValuesOfNumbers
  <1> HIDE DEF top
  <1>2. top \in Int /\ Min(Values(rx)) \in Int
    BY <1>1
  <1>3. CASE tp = "AVERAGE"
    <2>1. SumOf(rx) \in Int /\ SumOf(rx) <= top * n
      BY <1>1, <1>2, SumAtMost
    <2>2. n \in Nat \ {0}
      BY FS_CardinalityType, FS_EmptySet DEF Numbers
    <2>3. GetReceivedPower(tp, rx) = SumOf(rx) \div n
      BY <1>3, Zenon DEF GetReceivedPower, GetAverageTxFromGateways
    <2> HIDE DEF n
    <2>4. SumOf(rx) \div n \in Int /\ SumOf(rx) \div n <= top
      BY <1>2, <2>1, <2>2, Quotient
    <2> QED
      BY <2>3, <2>4 DEF top
  <1>4. CASE tp = "MAXIMUM"
    <2>1. GetReceivedPower(tp, rx) = top
      BY <1>4 DEF GetReceivedPower, GetMaxTxFromGateways, top
    <2> QED
      BY <1>2, <2>1 DEF top
  <1>5. CASE tp = "MINIMUM"
    <2>1. GetReceivedPower(tp, rx) = Min(Values(rx))
      BY <1>5 DEF GetReceivedPower, GetMinTxFromGateways
    <2>2. PICK x \in DOMAIN rx : TRUE
      BY DEF Numbers
    <2>3. rx[x] \in Int /\ rx[x] <= top /\ Min(Values(rx)) <= rx[x]
      BY <1>1 DEF Numbers
    <2> QED
      BY <1>2, <2>1, <2>3 DEF top
  <1> QED
    BY <1>3, <1>4, <1>5 DEF CombiningMethod

(* Packets, each heard by some gateways.                                      *)
Packets(packets) == /\ DOMAIN packets = 1 .. Len(packets) /\ Len(packets) \in Nat \ {0}
                    /\ \A i \in 1 .. Len(packets) : Numbers(packets[i])

LEMMA Combined ==
    ASSUME NEW h \in CombiningMethod, NEW tp \in CombiningMethod, NEW packets, Packets(packets)
    PROVE  /\ CombinedSNR(h, tp, packets) \in Ratios
           /\ h = "MINIMUM" =>
                 /\ CombinedSNR(h, tp, packets).count = 1
                 /\ CombinedSNR(h, tp, packets).sum <= RxPowerToSNR(Max(Values(Last(packets))))
  <1> DEFINE n == Len(packets)
             snrs == SNRs(tp, packets)
  <1>1. n \in Nat \ {0} /\ DOMAIN packets = 1 .. n /\ \A i \in 1 .. n : Numbers(packets[i])
    BY DEF Packets
  <1> HIDE DEF n
  <1>2. ASSUME NEW i \in 1 .. n
        PROVE  /\ snrs[i] = RxPowerToSNR(GetReceivedPower(tp, packets[i]))
               /\ snrs[i] \in Int
               /\ snrs[i] <= RxPowerToSNR(Max(Values(packets[i])))
    <2>1. /\ GetReceivedPower(tp, packets[i]) \in Int
          /\ GetReceivedPower(tp, packets[i]) <= Max(Values(packets[i]))
      BY <1>1, ReceivedPower
    <2>2. Max(Values(packets[i])) \in Int
      BY <1>1, ValuesOfNumbers
    <2>3. snrs[i] = RxPowerToSNR(GetReceivedPower(tp, packets[i]))
      BY <1>1 DEF SNRs
    <2> QED
      BY <2>1, <2>2, <2>3 DEF RxPowerToSNR, NoiseFloor, Db
  <1>3. DOMAIN snrs = 1 .. n
    BY <1>1 DEF SNRs
  <1> HIDE DEF snrs
  <1>4. IsFiniteSet(1 .. n) /\ Cardinality(1 .. n) = n /\ n \in 1 .. n
    <2>1. IsFiniteSet(1 .. n) /\ Cardinality(1 .. n) = IF 1 > n THEN 0 ELSE n - 1 + 1
      BY <1>1, FS_Interval
    <2> QED
      BY <1>1, <2>1
  <1>5. Numbers(snrs)
    BY <1>1, <1>2, <1>3, <1>4 DEF Numbers
  <1>6. /\ Values(snrs) \in SUBSET Int
        /\ Max(Values(snrs)) \in Values(snrs)
        /\ Min(Values(snrs)) \in Values(snrs)
        /\ \A i \in 1 .. n : Min(Values(snrs)) <= snrs[i] /\ snrs[i] <= Max(Values(snrs))
    BY <1>3, <1>5, ValuesOfNumbers
  <1>7. Max(Values(snrs)) \in Int /\ Min(Values(snrs)) \in Int
    BY <1>6
  <1>8. CASE h = "AVERAGE"
    <2>1. SumOf(snrs) \in Int
      BY <1>3, <1>5, <1>6, <1>7, SumAtMost
    <2>2. CombinedSNR(h, tp, packets) = Ratio(SumOf(snrs), n)
      BY <1>1, <1>4, <1>8 DEF CombinedSNR, GetAverageSNR, snrs
    <2> QED
      BY <1>1, <1>8, <2>1, <2>2 DEF Ratio, Ratios
  <1>9. CASE h = "MAXIMUM"
    <2>1. CombinedSNR(h, tp, packets) = Ratio(Max(Values(snrs)), 1)
      BY <1>9 DEF CombinedSNR, GetMaxSNR, snrs
    <2> QED
      BY <1>7, <1>9, <2>1 DEF Ratio, Ratios
  <1>10. CASE h = "MINIMUM"
    <2>1. CombinedSNR(h, tp, packets) = Ratio(Min(Values(snrs)), 1)
      BY <1>10 DEF CombinedSNR, GetMinSNR, snrs
    <2>2. Min(Values(snrs)) <= snrs[n] /\ snrs[n] <= RxPowerToSNR(Max(Values(packets[n])))
      BY <1>2, <1>4, <1>6
    <2>3. Last(packets) = packets[n]
      BY DEF Last, n
    <2>4. Max(Values(packets[n])) \in Int
      BY <1>1, <1>4, ValuesOfNumbers
    <2>5. Min(Values(snrs)) <= RxPowerToSNR(Max(Values(packets[n])))
      <3>1. RxPowerToSNR(Max(Values(packets[n]))) \in Int /\ snrs[n] \in Int
        BY <1>2, <1>4, <2>4 DEF RxPowerToSNR, NoiseFloor, Db
      <3> QED
        BY <1>7, <2>2, <3>1
    <2> QED
      BY <1>7, <2>1, <2>3, <2>5 DEF Ratio, Ratios
  <1> QED
    BY <1>8, <1>9, <1>10 DEF CombiningMethod

------------------------------------------------------------------------------
(* The invariant of the types.                                                *)

Powers == {At(TxDbmForTxPower, i) : i \in 0 .. 7}
Target == [dataRate : 0 .. 5, txPower : Powers]
Receptions(loss) == UNION {[heard -> Int] : heard \in (SUBSET DOMAIN loss) \ {{}}}

(* The channels of a device: the default ones stay, enabled or not.           *)
Home == DOMAIN Channels(Region)
Channel == [frequency : Nat, minDr : Nat, maxDr : 0 .. 6, enabled : BOOLEAN]
Plan(channels) ==
    /\ Home \subseteq DOMAIN channels
    /\ \A i \in DOMAIN channels : channels[i] \in Channel
    /\ \A i \in Home : /\ channels[i].frequency = Channels(Region)[i].frequency
                       /\ channels[i].minDr = 0 /\ channels[i].maxDr = 5

DeviceFields ==
    {"dr", "power", "nbTrans", "adr", "region", "channels", "commands", "adrAckCnt", "adrAckReq",
     "rx1DrOffset", "rx2Dr", "rx2Frequency", "linkMargin", "gatewayCount", "lastSnr",
     "dutyCycleExponent", "fault"}
Faults == {"none", "vector::at", "out of band", "no channel"}
Device(d) ==
    /\ DOMAIN d = DeviceFields
    /\ d.dr \in 0 .. 6 /\ d.power \in Powers /\ d.nbTrans \in 1 .. 15 /\ d.rx1DrOffset \in 0 .. 5
    /\ d.adr \in BOOLEAN /\ d.region = Region /\ d.adrAckCnt \in Nat /\ d.fault \in Faults
    /\ Plan(d.channels)

CountLimit == ADR_ACK_LIMIT + ADR_ACK_DELAY

(* A frame in the air is answered by ADR only if the device had ADR on.       *)
SentFrame == /\ frame.sf \in 7 .. 12 /\ frame.power \in Powers /\ frame.adr \in BOOLEAN
             /\ frame.linkCheck \in BOOLEAN /\ (frame.adr => dev.adr)

LinkCheckAnswers == [type : {"LinkCheckAns"}, margin : Int, gwCnt : Nat]
Command == LinkCheckAnswers \cup LinkAdrReq \cup Request
Reply == /\ reply.window \in Nat
         /\ reply.window > 0 => phase \in {"open", "down"} /\ history # <<>>
         /\ reply.commands \in Seq(Command)
         /\ reply.target = <<>> \/ \E t \in Target : reply.target = <<t>>
         /\ reply.target # <<>> => phase = "down" /\ dev.adr

TInv == /\ Device(dev)
        /\ dev.adrAckCnt <= CountLimit + 1 /\ (postponed # {} => dev.adrAckCnt <= CountLimit)
        /\ pathLoss \in PathLosses /\ method \in Methods /\ storm \in BOOLEAN
        /\ phase \in {"idle", "up", "open", "down"} /\ (phase # "idle" => SentFrame)
        /\ listenDr \in 0 .. 6
        /\ history \in Seq(Receptions(pathLoss)) /\ Len(history) <= HistoryRange
        /\ Reply /\ requests \subseteq Requests
        /\ postponed \cup resting \subseteq DOMAIN Bands(Region)

LEMMA Powerful == Powers = EvenPowers
  <1>1. \A i \in 0 .. 7 : At(TxDbmForTxPower, i) = 14 - 2 * i
    BY DEF At, TxDbmForTxPower
  <1>2. Powers = {14 - 2 * i : i \in 0 .. 7}
    BY <1>1 DEF Powers
  <1>3. ASSUME NEW p \in EvenPowers PROVE p \in Powers
    <2>1. p \in 0 .. 14 /\ p % 2 = 0
      BY DEF EvenPowers
    <2>2. PICK half \in 0 .. 7 : p = 2 * half
      BY <2>1
    <2>3. 7 - half \in 0 .. 7 /\ p = 14 - 2 * (7 - half)
      BY <2>2
    <2> QED
      BY <1>2, <2>3
  <1>4. \A i \in 0 .. 7 : 14 - 2 * i \in 0 .. 14 /\ (14 - 2 * i) % 2 = 0
    OBVIOUS
  <1> QED
    BY <1>2, <1>3, <1>4 DEF EvenPowers

\* The index of a power means that power to the device.
LEMMA Indices ==
    \A p \in Powers : /\ GetTxPowerIndex(p) \in 0 .. 7
                      /\ GetDbmForTxPower(GetTxPowerIndex(p)) = p
                      /\ p \in 0 .. 14
  <1> SUFFICES ASSUME NEW p \in Powers
               PROVE  /\ GetTxPowerIndex(p) \in 0 .. 7
                      /\ GetDbmForTxPower(GetTxPowerIndex(p)) = p
                      /\ p \in 0 .. 14
    OBVIOUS
  <1>1. p \in 0 .. 14 /\ p % 2 = 0
    BY Powerful DEF EvenPowers
  <1>2. PICK half \in 0 .. 7 : p = 2 * half
    BY <1>1
  <1>3. GetTxPowerIndex(p) = 7 - half
    BY <1>2 DEF GetTxPowerIndex
  <1>4. GetDbmForTxPower(7 - half) = 2 * half
    BY <1>2 DEF GetDbmForTxPower, Throws, At, TxDbmForTxPower
  <1> QED
    BY <1>1, <1>2, <1>3, <1>4

LEMMA DataRates ==
    /\ \A dr \in 0 .. 6 : GetSfFromDataRate(dr) \in SpreadingFactors
    /\ \A sf \in SpreadingFactors : GetSfFromDataRate(SfToDr(sf)) = sf
    /\ \A dr \in Nat : GetSfFromDataRate(dr) # 0 => dr \in 0 .. 6
  <1>1. \A dr \in 0 .. 6 : GetSfFromDataRate(dr) \in SpreadingFactors
    BY DEF GetSfFromDataRate, Throws, At, SfForDataRate, SpreadingFactors, minSpreadingFactor
  <1>2. \A dr \in Nat : GetSfFromDataRate(dr) # 0 => dr \in 0 .. 6
    BY DEF GetSfFromDataRate, Throws, SfForDataRate
  <1>3. \A sf \in 7 .. 12 : GetSfFromDataRate(12 - sf) = sf
    BY DEF GetSfFromDataRate, Throws, At, SfForDataRate
  <1> QED
    BY <1>1, <1>2, <1>3, Thresholds DEF SpreadingFactors, minSpreadingFactor

LEMMA PacketsOf ==
    ASSUME NEW packets \in Seq(Receptions(pathLoss)), packets # <<>>, pathLoss \in PathLosses
    PROVE  Packets(packets) /\ Last(packets) \in Receptions(pathLoss)
  <1>1. IsFiniteSet(DOMAIN pathLoss)
    BY PathLossAssumption
  <1>2. Len(packets) \in Nat \ {0} /\ DOMAIN packets = 1 .. Len(packets)
    OBVIOUS
  <1>3. ASSUME NEW i \in 1 .. Len(packets) PROVE packets[i] \in Receptions(pathLoss)
    OBVIOUS
  <1>4. ASSUME NEW rx \in Receptions(pathLoss) PROVE Numbers(rx)
    <2>1. PICK heard \in (SUBSET DOMAIN pathLoss) \ {{}} : rx \in [heard -> Int]
      BY DEF Receptions
    <2>2. IsFiniteSet(heard)
      BY <1>1, FS_Subset
    <2> QED
      BY <2>1, <2>2 DEF Numbers
  <1>5. Len(packets) \in 1 .. Len(packets)
    BY <1>2
  <1> QED
    BY <1>2, <1>3, <1>4, <1>5 DEF Packets, Last

(* What the ADR component asks for is in the tables.                          *)
LEMMA TargetInTables ==
    ASSUME history \in Seq(Receptions(pathLoss)), history # <<>>, pathLoss \in PathLosses,
           method \in Methods, frame.sf \in 7 .. 12, dev.power \in Powers
    PROVE  /\ AdrTarget \in Target
           /\ CombinedSNR(method[1], method[2], history) \in Ratios
           /\ frame.sf \in SpreadingFactors /\ dev.power \in EvenPowers
  <1> DEFINE snr == CombinedSNR(method[1], method[2], history)
             new == AdrImplementation(snr, frame.sf, dev.power)
  <1>1. method[1] \in CombiningMethod /\ method[2] \in CombiningMethod
    BY MethodsAssumption
  <1>2. Packets(history)
    BY PacketsOf
  <1>3. snr \in Ratios
    BY <1>1, <1>2, Combined
  <1> HIDE DEF snr
  <1>4. frame.sf \in SpreadingFactors /\ dev.power \in EvenPowers
    BY Powerful DEF SpreadingFactors, minSpreadingFactor
  <1>5. new.dataRate \in 0 .. 5 /\ new.txPower \in EvenPowers
    <2> DEFINE p == NewTxPower(snr, frame.sf, dev.power)
    <2>1. /\ new.dataRate \in 0 .. 5
          /\ InTxPowerRange(new.txPower)
      BY <1>3, <1>4, ParametersStayInTheTables
    <2>2. new.txPower = p
      BY DEF AdrImplementation
    <2>3. p \in Int
      <3>1. /\ PowerDecrements(Steps(snr, frame.sf) - SfDecrements(Steps(snr, frame.sf), frame.sf), dev.power) \in Nat
            /\ PowerIncrements(Steps(snr, frame.sf), dev.power) \in Nat
        BY <1>3, <1>4, Loops
      <3>2. dev.power \in Int
        BY <1>4 DEF EvenPowers
      <3> QED
        BY <3>1, <3>2 DEF NewTxPower
    <2> HIDE DEF p, new
    <2> QED
      BY <2>1, <2>2, <2>3 DEF InTxPowerRange, EvenPowers
  <1>6. new = [dataRate |-> new.dataRate, txPower |-> new.txPower]
    BY DEF AdrImplementation
  <1> HIDE DEF new
  <1>7. AdrTarget = IF ChangeTransmissionPower THEN new ELSE [new EXCEPT !.txPower = dev.power]
    BY DEF AdrTarget, new, snr
  <1>8. [new EXCEPT !.txPower = dev.power] = [dataRate |-> new.dataRate, txPower |-> dev.power]
    BY <1>6
  <1> QED
    BY <1>3, <1>4, <1>5, <1>6, <1>7, <1>8, Powerful DEF Target, snr

------------------------------------------------------------------------------
(* The commands of a downlink, one after the other.                           *)

(* The devices that the first commands may lead to.                           *)
ParsedAt(d, cs, f, s) ==
    IF s = {} THEN {d} ELSE UNION {OnCommand(e, cs[Max(s)]) : e \in f[s \ {Max(s)}]}
Parsed(d, cs, f) == f = [s \in SUBSET DOMAIN cs |-> ParsedAt(d, cs, f, s)]

LEMMA ParsedExist ==
    ASSUME NEW d, NEW C, NEW cs \in Seq(C)
    PROVE  \E f : Parsed(d, cs, f)
  <1> DEFINE S == DOMAIN cs
             Upto(n, f) == \A s \in SUBSET S : Cardinality(s) <= n => f[s] = ParsedAt(d, cs, f, s)
             N == {n \in Nat : \E f : Upto(n, f)}
  <1>1. IsFiniteSet(S) /\ S \in SUBSET Int
    <2>1. S = 1 .. Len(cs) /\ Len(cs) \in Nat
      OBVIOUS
    <2>2. IsFiniteSet(1 .. Len(cs))
      BY <2>1, FS_Interval
    <2> QED
      BY <2>1, <2>2
  <1> HIDE DEF S
  <1>2. \A s \in SUBSET S : IsFiniteSet(s) /\ Cardinality(s) \in Nat
                            /\ Cardinality(s) <= Cardinality(S)
                            /\ (Cardinality(s) = 0 <=> s = {})
                            /\ \A x \in s : Cardinality(s \ {x}) = Cardinality(s) - 1
    BY <1>1, Sized
  <1>3. ASSUME NEW s \in SUBSET S, s # {} PROVE Max(s) \in s
    <2>1. s \in SUBSET Int /\ IsFiniteSet(s)
      BY <1>1, <1>2
    <2> QED
      BY <1>3, <2>1, Largest
  <1>4. 0 \in N
    <2> DEFINE f == [s \in SUBSET S |-> {d}]
    <2>1. Upto(0, f)
      BY <1>2 DEF ParsedAt
    <2> QED
      BY <2>1
  <1>5. ASSUME NEW n \in N PROVE n + 1 \in N
    <2>1. PICK f : Upto(n, f)
      OBVIOUS
    <2> DEFINE more == [s \in SUBSET S |-> IF Cardinality(s) <= n THEN f[s] ELSE ParsedAt(d, cs, f, s)]
    <2>2. \A s \in SUBSET S : more[s] = ParsedAt(d, cs, f, s)
      BY <2>1
    <2>3. ASSUME NEW s \in SUBSET S, Cardinality(s) <= n + 1, s # {}
          PROVE  /\ s \ {Max(s)} \in SUBSET S
                 /\ Cardinality(s \ {Max(s)}) <= n
      <3>1. Max(s) \in s
        BY <1>3, <2>3
      <3> HIDE DEF N
      <3>2. Cardinality(s \ {Max(s)}) = Cardinality(s) - 1
        BY <1>2, <3>1
      <3>3. n \in Nat
        BY DEF N
      <3> QED
        BY <1>2, <2>3, <3>2, <3>3
    <2>4. Upto(n + 1, more)
      <3> SUFFICES ASSUME NEW s \in SUBSET S, Cardinality(s) <= n + 1
                   PROVE  more[s] = ParsedAt(d, cs, more, s)
        OBVIOUS
      <3>1. CASE s = {}
        BY <2>2, <3>1 DEF ParsedAt
      <3>2. CASE s # {}
        <4>1. more[s \ {Max(s)}] = f[s \ {Max(s)}]
          BY <2>3, <3>2
        <4> HIDE DEF more
        <4>2. ParsedAt(d, cs, f, s) = ParsedAt(d, cs, more, s)
          BY <3>2, <4>1, Zenon DEF ParsedAt
        <4> QED
          BY <2>2, <4>2
      <3> QED
        BY <3>1, <3>2
    <2> HIDE DEF Upto, more
    <2>5. n + 1 \in Nat
      OBVIOUS
    <2> QED
      BY <2>4, <2>5
  <1>6. Cardinality(S) \in N
    <2> HIDE DEF N
    <2>1. N \in SUBSET Nat
      BY DEF N
    <2>2. N = Nat
      BY <1>4, <1>5, <2>1, Inducts
    <2> QED
      BY <1>2, <2>2
  <1>7. PICK f : \A s \in SUBSET S : f[s] = ParsedAt(d, cs, f, s)
    BY <1>2, <1>6
  <1> DEFINE total == [s \in SUBSET S |-> f[s]]
  <1>8. \A s \in SUBSET S : total[s] = ParsedAt(d, cs, total, s)
    <2> SUFFICES ASSUME NEW s \in SUBSET S PROVE total[s] = ParsedAt(d, cs, total, s)
      OBVIOUS
    <2>1. total[s] = ParsedAt(d, cs, f, s)
      BY <1>7
    <2>2. s # {} => total[s \ {Max(s)}] = f[s \ {Max(s)}]
      BY <1>3
    <2> HIDE DEF total
    <2> QED
      BY <2>1, <2>2, Zenon DEF ParsedAt
  <1>9. total = [s \in SUBSET S |-> ParsedAt(d, cs, total, s)]
    <2>1. total = [s \in SUBSET S |-> total[s]]
      OBVIOUS
    <2> HIDE DEF total
    <2> QED
      BY <1>8, <2>1
  <1> QED
    BY <1>9 DEF Parsed, S

(* g[k] holds the devices that the first k commands may lead to.              *)
Stages(d, cs, g) ==
    /\ g[0] = {d}
    /\ \A k \in 1 .. Len(cs) : \A after \in g[k] : \E e \in g[k - 1] : after \in OnCommand(e, cs[k])

LEMMA ParseInStages ==
    ASSUME NEW d, NEW C, NEW cs \in Seq(C)
    PROVE  \E g : Stages(d, cs, g) /\ ParseCommands(d, cs) = g[Len(cs)]
  <1> DEFINE f == CHOOSE f : f = [s \in SUBSET DOMAIN cs |-> ParsedAt(d, cs, f, s)]
             n == Len(cs)
             g == [k \in 0 .. n |-> f[1 .. k]]
  <1>1. Parsed(d, cs, f)
    <2>1. PICK some : Parsed(d, cs, some)
      BY ParsedExist
    <2> QED
      BY <2>1, Zenon DEF Parsed
  <1>2. ParseCommands(d, cs) = f[DOMAIN cs]
    BY DEF ParseCommands, FoldLeft, MapThenFoldSet, ParsedAt
  <1> HIDE DEF f
  <1>3. \A s \in SUBSET DOMAIN cs : f[s] = ParsedAt(d, cs, f, s)
    BY <1>1, Zenon DEF Parsed
  <1>4. n \in Nat /\ DOMAIN cs = 1 .. n
    OBVIOUS
  <1> HIDE DEF n
  <1>5. g[0] = {d}
    <2>1. 1 .. 0 = {} /\ g[0] = f[1 .. 0]
      BY <1>4
    <2>2. f[{}] = {d}
      BY <1>3 DEF ParsedAt
    <2> QED
      BY <2>1, <2>2
  <1>6. ASSUME NEW k \in 1 .. n
        PROVE  g[k] = UNION {OnCommand(e, cs[k]) : e \in g[k - 1]}
    <2>1. /\ 1 .. k \in SUBSET DOMAIN cs /\ 1 .. k # {} /\ k \in 1 .. k
          /\ (1 .. k) \ {k} = 1 .. (k - 1)
          /\ k - 1 \in 0 .. n /\ k \in 0 .. n
      <3>1. k \in 1 .. k /\ k - 1 \in 0 .. n /\ k \in 0 .. n
        BY <1>4
      <3>2. 1 .. k \in SUBSET DOMAIN cs
        BY <1>4
      <3>3. (1 .. k) \ {k} = 1 .. (k - 1)
        OBVIOUS
      <3> QED
        BY <3>1, <3>2, <3>3
    <2>2. Max(1 .. k) = k
      <3>1. IsFiniteSet(1 .. k)
        BY FS_Interval
      <3>2. 1 .. k \in SUBSET Int
        OBVIOUS
      <3>3. Max(1 .. k) \in 1 .. k /\ \A y \in 1 .. k : y <= Max(1 .. k)
        BY <2>1, <3>1, <3>2, Largest
      <3>4. k <= Max(1 .. k) /\ Max(1 .. k) <= k
        BY <2>1, <3>3
      <3> QED
        BY <3>3, <3>4
    <2>3. g[k] = ParsedAt(d, cs, f, 1 .. k) /\ g[k - 1] = f[1 .. (k - 1)]
      BY <1>3, <2>1
    <2> HIDE DEF g
    <2> QED
      BY <2>1, <2>2, <2>3, Zenon DEF ParsedAt
  <1>7. ParseCommands(d, cs) = g[n]
    BY <1>2, <1>4
  <1> HIDE DEF g
  <1>8. \A k \in 1 .. n : \A after \in g[k] : \E e \in g[k - 1] : after \in OnCommand(e, cs[k])
    BY <1>6
  <1> QED
    BY <1>5, <1>7, <1>8 DEF Stages, n

------------------------------------------------------------------------------
(* What a command does to a device.                                           *)

Same(d, e) ==
    /\ DOMAIN e = DOMAIN d /\ e.dr = d.dr /\ e.power = d.power /\ e.nbTrans = d.nbTrans
    /\ e.rx1DrOffset = d.rx1DrOffset /\ e.adr = d.adr /\ e.region = d.region
    /\ e.adrAckCnt = d.adrAckCnt /\ e.channels = d.channels /\ e.fault = d.fault

LEMMA SameDevice == \A d, e : Device(d) /\ Same(d, e) => Device(e)
  BY DEF Device, Same

LEMMA Answered == ASSUME NEW d, Device(d), NEW a PROVE Same(d, Answer(d, a))
  BY DEF Device, DeviceFields, Same, Answer

LEMMA LinkAdrFields ==
    ASSUME NEW c \in LinkAdrReq
    PROVE  c.type = "LinkAdrReq" /\ c.dataRate \in 0 .. 15 /\ c.txPower \in 0 .. 15 /\ c.nbTrans \in 0 .. 15
  BY DEF LinkAdrReq, Nibble

LEMMA RequestFields ==
    /\ \A c \in Command : c.type = "LinkAdrReq" => c \in LinkAdrReq
    /\ \A c \in Request : c.type = "LinkAdrReq" => c \in LinkAdrReq
    /\ \A c \in Command : c.type = "NewChannelReq" =>
          c \in Request /\ c.frequencyHz \in Nat /\ c.minDataRate \in 0 .. 15 /\ c.maxDataRate \in 0 .. 15
  BY DEF Command, LinkCheckAnswers, Request, LinkCheckReq, DutyCycleReq, DevStatusReq,
         RxTimingSetupReq, TxParamSetupReq, Nibble, Byte, LinkAdrReq

LEMMA MaskKeeps ==
    ASSUME NEW d, Device(d), NEW mask
    PROVE  LET plan == ApplyMask(d.channels, mask)
           IN  /\ Plan(plan) /\ DOMAIN plan = DOMAIN d.channels
               /\ \A i \in DOMAIN d.channels : /\ plan[i].enabled = (i \in mask)
                                               /\ plan[i].frequency = d.channels[i].frequency
  <1> DEFINE old == d.channels
             plan == ApplyMask(d.channels, mask)
  <1>1. Plan(old)
    BY DEF Device
  <1> HIDE DEF old
  <1>2. plan = [i \in DOMAIN old |-> [old[i] EXCEPT !.enabled = i \in mask]]
    BY DEF ApplyMask, old
  <1> HIDE DEF plan
  <1>3. ASSUME NEW i \in DOMAIN old
        PROVE  /\ plan[i].frequency = old[i].frequency /\ plan[i].minDr = old[i].minDr
               /\ plan[i].maxDr = old[i].maxDr /\ plan[i].enabled = (i \in mask)
               /\ plan[i] \in Channel
    <2> DEFINE ch == old[i]
               on == i \in mask
    <2>1. ch \in Channel /\ plan[i] = [ch EXCEPT !.enabled = on] /\ on \in BOOLEAN
      BY <1>1, <1>2 DEF Plan
    <2> HIDE DEF ch, on
    <2>2. /\ [ch EXCEPT !.enabled = on] \in Channel
          /\ [ch EXCEPT !.enabled = on].frequency = ch.frequency
          /\ [ch EXCEPT !.enabled = on].minDr = ch.minDr
          /\ [ch EXCEPT !.enabled = on].maxDr = ch.maxDr
          /\ [ch EXCEPT !.enabled = on].enabled = on
      BY <2>1 DEF Channel
    <2> QED
      BY <2>1, <2>2 DEF ch, on
  <1>4. DOMAIN plan = DOMAIN old
    BY <1>2
  <1>5. Plan(plan)
    BY <1>1, <1>3, <1>4 DEF Plan
  <1> QED
    BY <1>3, <1>4, <1>5 DEF plan, old

LEMMA HomeChannels ==
    /\ Region = "EU" => Home = 0 .. 2
    /\ Region # "EU" => Home = {0}
  <1>1. DOMAIN EuChannels = 0 .. 2
    BY SMT DEF EuChannels
  <1>2. DOMAIN AlohaChannels = {0}
    BY SMT DEF AlohaChannels
  <1>3. Region \in {"ALOHA", "EU", "SingleChannel"}
    BY RegionAssumption DEF Regions
  <1>4. CASE Region = "EU"
    BY <1>1, <1>4, SMT DEF Home, Channels
  <1>5. CASE Region = "ALOHA"
    BY <1>2, <1>5, SMT DEF Home, Channels
  <1>6. CASE Region = "SingleChannel"
    BY <1>2, <1>6, SMT DEF Home, Channels, SingleChannelChannels
  <1> QED
    BY <1>3, <1>4, <1>5, <1>6, SMT

LEMMA SetChannels ==
    ASSUME NEW d, Device(d), NEW plan, Plan(plan)
    PROVE  LET e == [d EXCEPT !.channels = plan]
           IN  /\ Device(e) /\ e.channels = plan /\ e.dr = d.dr /\ e.power = d.power
               /\ e.adr = d.adr /\ e.adrAckCnt = d.adrAckCnt /\ e.fault = d.fault
  BY DEF Device, DeviceFields

LEMMA StaticKeeps ==
    ASSUME NEW d, Device(d), NEW c
    PROVE  LET e == OnLinkAdrReqStatic(d, c)
           IN  /\ Device(e) /\ e.adr = d.adr /\ e.adrAckCnt = d.adrAckCnt /\ e.fault = d.fault
               /\ e.dr = d.dr /\ e.power = d.power
               /\ e.channels = d.channels \/ (ChannelMaskOk(d, c)
                                              /\ e.channels = ApplyMask(d.channels, MaskOf(d, c)))
  <1> DEFINE ok == /\ ChannelMaskOk(d, c)
                   /\ \E i \in MaskOf(d, c) \cap Slots(d.region) : Supports(d.channels[i], d.dr)
             plan == ApplyMask(d.channels, MaskOf(d, c))
             set == IF ok THEN [d EXCEPT !.channels = plan] ELSE d
             e == OnLinkAdrReqStatic(d, c)
  <1>1. Plan(plan)
    BY MaskKeeps
  <1>2. e = Answer(set, LinkAdrAnswer(FALSE, FALSE, ok))
    BY DEF OnLinkAdrReqStatic
  <1>3. ok => ChannelMaskOk(d, c)
    OBVIOUS
  <1> HIDE DEF e, plan, ok
  <1>4. /\ Device(set) /\ set.adr = d.adr /\ set.adrAckCnt = d.adrAckCnt /\ set.fault = d.fault
        /\ set.dr = d.dr /\ set.power = d.power
        /\ set.channels = d.channels \/ (ChannelMaskOk(d, c) /\ set.channels = plan)
    BY <1>1, <1>3, SetChannels
  <1> HIDE DEF set
  <1>5. Same(set, e)
    BY <1>2, <1>4, Answered
  <1>6. Device(e)
    BY <1>4, <1>5, SameDevice
  <1> QED
    BY <1>4, <1>5, <1>6 DEF Same, e, plan

\* A data rate that is accepted is one of the channels that are left.
LEMMA AcceptedRate ==
    ASSUME NEW d, Device(d), NEW c \in LinkAdrReq, ChannelMaskOk(d, c), DataRateOk(d, c),
           c.dataRate # 15
    PROVE  c.dataRate \in 0 .. 6
  <1>1. c.dataRate \in 0 .. 15
    BY LinkAdrFields
  <1>2. PICK i \in MaskOf(d, c) \cap Slots(d.region) :
            IF Exists(d.channels, i) THEN Supports(d.channels[i], c.dataRate)
                                     ELSE ValidDataRate(c.dataRate)
    BY DEF DataRateOk
  <1>3. i \in DOMAIN d.channels
    BY DEF ChannelMaskOk
  <1>4. Supports(d.channels[i], c.dataRate) /\ d.channels[i] \in Channel
    BY <1>2, <1>3 DEF Exists, Device, Plan
  <1> QED
    BY <1>1, <1>4 DEF Supports, Channel

LEMMA AcceptedPower ==
    ASSUME NEW c \in LinkAdrReq, PowerOk(c), c.txPower # 15
    PROVE  GetDbmForTxPower(c.txPower) \in Powers
  <1>1. c.txPower \in 0 .. 15
    BY LinkAdrFields
  <1>2. GetDbmForTxPower(c.txPower) >= 0
    BY DEF PowerOk
  <1>3. c.txPower \in 0 .. 7
    BY <1>1, <1>2 DEF GetDbmForTxPower, Throws, TxDbmForTxPower
  <1>4. GetDbmForTxPower(c.txPower) = At(TxDbmForTxPower, c.txPower)
    BY <1>3 DEF GetDbmForTxPower, Throws, TxDbmForTxPower
  <1> QED
    BY <1>3, <1>4 DEF Powers

Adapted(d, plan, p, n, r) == [d EXCEPT !.channels = plan, !.power = p, !.nbTrans = n, !.dr = r]

Becomes(d, e, plan, p, r) ==
    /\ Device(e) /\ e.channels = plan /\ e.dr = r /\ e.power = p
    /\ e.adr = d.adr /\ e.adrAckCnt = d.adrAckCnt /\ e.fault = d.fault

LEMMA AdaptiveSets ==
    \A d, plan, p, n, r :
        Device(d) /\ Plan(plan) /\ p \in Powers /\ n \in 1 .. 15 /\ r \in 0 .. 6 =>
            Becomes(d, Adapted(d, plan, p, n, r), plan, p, r)
  BY DEF Adapted, Becomes, Device, DeviceFields

LEMMA AdaptiveKeeps ==
    ASSUME NEW d, Device(d), NEW c \in LinkAdrReq
    PROVE  LET e == OnLinkAdrReqAdaptive(d, c)
               ok == ChannelMaskOk(d, c) /\ DataRateOk(d, c) /\ PowerOk(c)
           IN  /\ Device(e) /\ e.adr = d.adr /\ e.adrAckCnt = d.adrAckCnt /\ e.fault = d.fault
               /\ ok => /\ e.channels = ApplyMask(d.channels, MaskOf(d, c))
                        /\ e.dr = IF c.dataRate # 15 THEN c.dataRate ELSE d.dr
                        /\ e.power = IF c.txPower # 15 THEN GetDbmForTxPower(c.txPower) ELSE d.power
               /\ ~ok => e.channels = d.channels /\ e.dr = d.dr /\ e.power = d.power
  <1> DEFINE ok == ChannelMaskOk(d, c) /\ DataRateOk(d, c) /\ PowerOk(c)
             plan == ApplyMask(d.channels, MaskOf(d, c))
             p == IF c.txPower # 15 THEN GetDbmForTxPower(c.txPower) ELSE d.power
             n == Max({c.nbTrans, 1})
             r == IF c.dataRate # 15 THEN c.dataRate ELSE d.dr
             set == Adapted(d, plan, p, n, r)
             some == IF ok THEN set ELSE d
             a == LinkAdrAnswer(PowerOk(c), DataRateOk(d, c), ChannelMaskOk(d, c))
             e == OnLinkAdrReqAdaptive(d, c)
  <1>1. Plan(plan)
    BY MaskKeeps
  <1>2. e = Answer(some, a)
    <2>1. DOMAIN d = DeviceFields
      BY DEF Device
    <2> QED
      BY <2>1 DEF OnLinkAdrReqAdaptive, DeviceFields, Adapted
  <1>3. ok => p \in Powers /\ r \in 0 .. 6
    BY AcceptedRate, AcceptedPower DEF Device
  <1>4. n \in 1 .. 15
    <2>1. c.nbTrans \in 0 .. 15
      BY LinkAdrFields
    <2>2. n = IF c.nbTrans >= 1 THEN c.nbTrans ELSE 1
      BY <2>1, OfTwo
    <2> QED
      BY <2>1, <2>2
  <1>5. /\ Device(some) /\ some.adr = d.adr /\ some.adrAckCnt = d.adrAckCnt /\ some.fault = d.fault
        /\ ok => some.channels = plan /\ some.dr = r /\ some.power = p
        /\ ~ok => some.channels = d.channels /\ some.dr = d.dr /\ some.power = d.power
    <2>1. CASE ok
      <3>1. p \in Powers /\ r \in 0 .. 6
        BY <1>3, <2>1
      <3> HIDE DEF plan, p, n, r, ok, a, e
      <3>2. Becomes(d, set, plan, p, r)
        BY <1>1, <1>4, <3>1, AdaptiveSets, Zenon
      <3> HIDE DEF set
      <3> QED
        BY <2>1, <3>2 DEF Becomes
    <2>2. CASE ~ok
      <3> HIDE DEF plan, p, n, r, ok, set
      <3> QED
        BY <2>2
    <2> QED
      BY <2>1, <2>2
  <1> HIDE DEF e, some, a, ok, plan, p, r
  <1>6. Same(some, e)
    BY <1>2, <1>5, Answered
  <1>7. Device(e)
    BY <1>5, <1>6, SameDevice
  <1>8. /\ Device(e) /\ e.adr = d.adr /\ e.adrAckCnt = d.adrAckCnt /\ e.fault = d.fault
        /\ ok => e.channels = plan /\ e.dr = r /\ e.power = p
        /\ ~ok => e.channels = d.channels /\ e.dr = d.dr /\ e.power = d.power
    BY <1>5, <1>6, <1>7 DEF Same
  <1> QED
    BY <1>8, Zenon DEF e, ok, plan, p, r

LEMMA RxParamKeeps ==
    ASSUME NEW d, Device(d), NEW c
    PROVE  LET e == OnRxParamSetupReq(d, c)
           IN  /\ Device(e) /\ e.adr = d.adr /\ e.adrAckCnt = d.adrAckCnt /\ e.fault = d.fault
               /\ e.dr = d.dr /\ e.power = d.power /\ e.channels = d.channels
  <1> DEFINE offsetOk == c.rx1DrOffset \in DOMAIN ReplyDataRateMatrix[d.dr]
             rateOk == ValidDataRate(c.rx2DataRate)
             frequencyOk == IsFrequencyValid(Bands(d.region), c.frequencyHz)
             o == c.rx1DrOffset
             r == c.rx2DataRate
             f == c.frequencyHz
             set == [d EXCEPT !.rx1DrOffset = o, !.rx2Dr = r, !.rx2Frequency = f]
             some == IF offsetOk /\ rateOk /\ frequencyOk THEN set ELSE d
             a == [type |-> "RxParamSetupAns", rx1DrOffsetAck |-> offsetOk,
                   rx2DataRateAck |-> rateOk, channelAck |-> frequencyOk]
             e == OnRxParamSetupReq(d, c)
  <1>1. e = Answer(some, a)
    BY DEF OnRxParamSetupReq
  <1>2. offsetOk => o \in 0 .. 5
    <2>1. d.dr \in 0 .. 7
      BY DEF Device
    <2> QED
      BY <2>1 DEF ReplyDataRateMatrix
  <1> HIDE DEF offsetOk, rateOk, frequencyOk, o, r, f, a, e
  <1>3. o \in 0 .. 5 =>
           /\ Device(set) /\ set.adr = d.adr /\ set.adrAckCnt = d.adrAckCnt /\ set.fault = d.fault
           /\ set.dr = d.dr /\ set.power = d.power /\ set.channels = d.channels
    BY DEF Device, DeviceFields
  <1> HIDE DEF set
  <1>4. /\ Device(some) /\ some.adr = d.adr /\ some.adrAckCnt = d.adrAckCnt /\ some.fault = d.fault
        /\ some.dr = d.dr /\ some.power = d.power /\ some.channels = d.channels
    BY <1>2, <1>3
  <1> HIDE DEF some
  <1>5. Same(some, e)
    BY <1>1, <1>4, Answered
  <1>6. Device(e)
    BY <1>4, <1>5, SameDevice
  <1> QED
    BY <1>4, <1>5, <1>6 DEF Same, e

(* A new channel never takes the place of a default one.                      *)
NewPlan(d, c) ==
    SetChannel(d.channels, c.chIndex,
               [LogicalChannel(c.frequencyHz, c.minDataRate, c.maxDataRate)
                   EXCEPT !.enabled = c.frequencyHz # 0])

LEMMA NewPlanKeeps ==
    ASSUME NEW d, Device(d), NEW c \in Command, c.type = "NewChannelReq",
           c.chIndex \in Slots(d.region) \ 0 .. 2, ValidDataRate(c.maxDataRate)
    PROVE  LET plan == NewPlan(d, c)
           IN  /\ Plan(plan) /\ DOMAIN plan = DOMAIN d.channels \cup {c.chIndex}
               /\ \A i \in DOMAIN d.channels \ {c.chIndex} : plan[i] = d.channels[i]
               /\ plan[c.chIndex].frequency = c.frequencyHz
               /\ plan[c.chIndex].enabled = (c.frequencyHz # 0)
               /\ c.chIndex \notin Home
  <1> DEFINE i == c.chIndex
             f == c.frequencyHz
             lo == c.minDataRate
             hi == c.maxDataRate
             old == d.channels
             ch == [LogicalChannel(f, lo, hi) EXCEPT !.enabled = f # 0]
             plan == NewPlan(d, c)
  <1>1. f \in Nat /\ lo \in 0 .. 15 /\ hi \in 0 .. 15
    BY RequestFields
  <1>2. hi \in 0 .. 6
    <2>1. GetSfFromDataRate(hi) # 0
      BY DEF ValidDataRate
    <2> HIDE DEF hi
    <2> QED
      BY <1>1, <2>1, DataRates
  <1>3. Plan(old) /\ d.region = Region
    BY DEF Device
  <1>4. i \notin Home
    <2>1. i \notin 0 .. 2 /\ i \in Slots(Region)
      BY <1>3
    <2>2. Home \subseteq 0 .. 2
      BY HomeChannels
    <2> QED
      BY <2>1, <2>2
  <1>5. plan = [j \in DOMAIN old \cup {i} |-> IF j = i THEN ch ELSE old[j]]
    BY DEF NewPlan, SetChannel
  <1> HIDE DEF i, f, lo, hi, old, plan
  <1>6. ch \in Channel /\ ch.frequency = f /\ ch.enabled = (f # 0)
    <2> DEFINE base == LogicalChannel(f, lo, hi)
               on == f # 0
    <2>1. base \in Channel /\ base.frequency = f /\ on \in BOOLEAN
      BY <1>1, <1>2 DEF LogicalChannel, Channel
    <2> HIDE DEF base, on
    <2>2. /\ [base EXCEPT !.enabled = on] \in Channel
          /\ [base EXCEPT !.enabled = on].frequency = base.frequency
          /\ [base EXCEPT !.enabled = on].enabled = on
      BY <2>1 DEF Channel
    <2> QED
      BY <2>1, <2>2 DEF base, on
  <1> HIDE DEF ch
  <1>7. /\ DOMAIN plan = DOMAIN old \cup {i}
        /\ \A j \in DOMAIN old \ {i} : plan[j] = old[j]
        /\ plan[i] = ch
    BY <1>5
  <1>8. Plan(plan)
    BY <1>3, <1>4, <1>6, <1>7 DEF Plan
  <1> QED
    BY <1>4, <1>6, <1>7, <1>8 DEF i, f, old, plan

LEMMA NewChannelKeeps ==
    ASSUME NEW d, Device(d), NEW c \in Command, c.type = "NewChannelReq"
    PROVE  LET e == OnNewChannelReq(d, c)
           IN  /\ Device(e) /\ e.adr = d.adr /\ e.adrAckCnt = d.adrAckCnt /\ e.fault = d.fault
               /\ e.dr = d.dr /\ e.power = d.power
               /\ \/ e.channels = d.channels
                  \/ /\ e.channels = NewPlan(d, c)
                     /\ c.chIndex \in Slots(d.region) \ 0 .. 2 /\ ValidDataRate(c.maxDataRate)
                     /\ c.frequencyHz = 0 \/ IsFrequencyValid(Bands(d.region), c.frequencyHz)
  <1> DEFINE indexOk == c.chIndex \in Slots(d.region) \ 0 .. 2
             rangeOk == /\ indexOk
                        /\ ValidDataRate(c.minDataRate) /\ ValidDataRate(c.maxDataRate)
                        /\ c.minDataRate <= c.maxDataRate
             frequencyOk == /\ indexOk
                            /\ \/ c.frequencyHz = 0
                               \/ IsFrequencyValid(Bands(d.region), c.frequencyHz)
             plan == NewPlan(d, c)
             set == [d EXCEPT !.channels = plan]
             some == IF rangeOk /\ frequencyOk THEN set ELSE d
             a == [type |-> "NewChannelAns", dataRateRangeOk |-> rangeOk,
                   channelFrequencyOk |-> frequencyOk]
             e == OnNewChannelReq(d, c)
  <1>1. ASSUME NEW dr \in 0 .. 15 PROVE ~LookupThrows(dr)
    <2>1. GetSfFromDataRate(dr) # 0 => dr \in 0 .. 6
      BY DataRates
    <2> QED
      BY <2>1 DEF LookupThrows, BandwidthThrows, BandwidthForDataRate
  <1>2. ~LookupThrows(c.minDataRate) /\ ~LookupThrows(c.maxDataRate)
    BY <1>1, RequestFields
  <1>3. e = Answer(some, a)
    <2>1. DOMAIN d = DeviceFields
      BY DEF Device
    <2>2. set = [d EXCEPT !.channels = SetChannel(@, c.chIndex,
                    [LogicalChannel(c.frequencyHz, c.minDataRate, c.maxDataRate)
                        EXCEPT !.enabled = c.frequencyHz # 0])]
      BY <2>1 DEF NewPlan, DeviceFields
    <2> HIDE DEF plan, set
    <2> QED
      BY <1>2, <2>2, Zenon DEF OnNewChannelReq
  <1>4. rangeOk /\ frequencyOk => /\ c.chIndex \in Slots(d.region) \ 0 .. 2
                                  /\ ValidDataRate(c.maxDataRate) /\ Plan(plan)
                                  /\ c.frequencyHz = 0 \/ IsFrequencyValid(Bands(d.region), c.frequencyHz)
    <2>1. CASE rangeOk /\ frequencyOk
      <3>1. /\ c.chIndex \in Slots(d.region) \ 0 .. 2 /\ ValidDataRate(c.maxDataRate)
            /\ c.frequencyHz = 0 \/ IsFrequencyValid(Bands(d.region), c.frequencyHz)
        BY <2>1
      <3> HIDE DEF rangeOk, frequencyOk
      <3>2. Plan(plan)
        BY <3>1, NewPlanKeeps
      <3> QED
        BY <3>1, <3>2
    <2> QED
      BY <2>1
  <1> DEFINE ok == rangeOk /\ frequencyOk
  <1> HIDE DEF e, a, rangeOk, frequencyOk, plan
  <1>5. /\ Device(some) /\ some.adr = d.adr /\ some.adrAckCnt = d.adrAckCnt /\ some.fault = d.fault
        /\ some.dr = d.dr /\ some.power = d.power
        /\ some.channels = d.channels \/ (ok /\ some.channels = plan)
    <2>1. ok => /\ Device(set) /\ set.channels = plan /\ set.dr = d.dr /\ set.power = d.power
                /\ set.adr = d.adr /\ set.adrAckCnt = d.adrAckCnt /\ set.fault = d.fault
      BY <1>4, SetChannels
    <2>2. some = IF ok THEN set ELSE d
      OBVIOUS
    <2> HIDE DEF set, some, ok
    <2> QED
      BY <2>1, <2>2
  <1> HIDE DEF some
  <1>6. Same(some, e)
    BY <1>3, <1>5, Answered
  <1>7. Device(e)
    BY <1>5, <1>6, SameDevice
  <1> QED
    BY <1>4, <1>5, <1>6, <1>7 DEF Same, e, plan

\* What any command leaves alone.
Obeys(d, c, e) ==
    /\ Device(e) /\ e.adr = d.adr /\ e.adrAckCnt = d.adrAckCnt /\ e.fault = d.fault
    /\ c.type # "LinkAdrReq" => e.dr = d.dr /\ e.power = d.power

LEMMA CommandKeeps ==
    ASSUME NEW d, Device(d), NEW c \in Command, NEW e \in OnCommand(d, c)
    PROVE  /\ Obeys(d, c, e)
           /\ c.type = "LinkAdrReq" => e = OnLinkAdrReq(d, c)
           /\ c.type = "NewChannelReq" => e = OnNewChannelReq(d, c)
           /\ c.type \notin {"LinkAdrReq", "NewChannelReq"} =>
                 e.dr = d.dr /\ e.power = d.power /\ e.channels = d.channels
  <1>1. CASE c.type = "LinkCheckAns"
    <2>1. e = OnLinkCheckAns(d, c)
      BY <1>1 DEF OnCommand
    <2>2. Same(d, e)
      BY <2>1 DEF OnLinkCheckAns, Device, DeviceFields, Same
    <2> QED
      BY <1>1, <2>2, SameDevice DEF Same, Obeys
  <1>2. CASE c.type = "LinkAdrReq"
    <2>1. e = OnLinkAdrReq(d, c) /\ c \in LinkAdrReq
      BY <1>2, RequestFields DEF OnCommand
    <2>2. CASE d.adr
      <3>1. e = OnLinkAdrReqAdaptive(d, c)
        BY <2>1, <2>2 DEF OnLinkAdrReq
      <3>2. Device(e) /\ e.adr = d.adr /\ e.adrAckCnt = d.adrAckCnt /\ e.fault = d.fault
        BY <2>1, <3>1, AdaptiveKeeps, Zenon
      <3> QED
        BY <1>2, <2>1, <3>2 DEF Obeys
    <2>3. CASE ~d.adr
      <3>1. e = OnLinkAdrReqStatic(d, c)
        BY <2>1, <2>3 DEF OnLinkAdrReq
      <3>2. Device(e) /\ e.adr = d.adr /\ e.adrAckCnt = d.adrAckCnt /\ e.fault = d.fault
        BY <3>1, StaticKeeps, Zenon
      <3> QED
        BY <1>2, <2>1, <3>2 DEF Obeys
    <2> QED
      BY <2>2, <2>3
  <1>3. CASE c.type = "DutyCycleReq"
    <2> DEFINE m == [d EXCEPT !.dutyCycleExponent = c.maxDutyCycle]
    <2>1. e = Answer(m, [type |-> "DutyCycleAns"])
      BY <1>3 DEF OnCommand, OnDutyCycleReq
    <2>2. Same(d, m)
      BY DEF Device, DeviceFields, Same
    <2> HIDE DEF m
    <2>3. Device(m)
      BY <2>2, SameDevice
    <2>4. Same(m, e)
      BY <2>1, <2>3, Answered
    <2>5. Same(d, e)
      BY <2>2, <2>4 DEF Same
    <2> QED
      BY <1>3, <2>5, SameDevice DEF Same, Obeys
  <1>4. CASE c.type = "RxParamSetupReq"
    <2>1. e = OnRxParamSetupReq(d, c)
      BY <1>4 DEF OnCommand
    <2>2. /\ Device(e) /\ e.adr = d.adr /\ e.adrAckCnt = d.adrAckCnt /\ e.fault = d.fault
          /\ e.dr = d.dr /\ e.power = d.power /\ e.channels = d.channels
      BY <2>1, RxParamKeeps, Zenon
    <2> QED
      BY <1>4, <2>2 DEF Obeys
  <1>5. CASE c.type = "DevStatusReq"
    <2>1. e \in OnDevStatusReq(d)
      BY <1>5 DEF OnCommand
    <2>2. PICK a : e = Answer(d, a)
      BY <2>1 DEF OnDevStatusReq
    <2>3. Same(d, e)
      BY <2>2, Answered
    <2> QED
      BY <1>5, <2>3, SameDevice DEF Same, Obeys
  <1>6. CASE c.type = "NewChannelReq"
    <2>1. e = OnNewChannelReq(d, c)
      BY <1>6 DEF OnCommand
    <2>2. /\ Device(e) /\ e.adr = d.adr /\ e.adrAckCnt = d.adrAckCnt /\ e.fault = d.fault
          /\ e.dr = d.dr /\ e.power = d.power
      BY <1>6, <2>1, NewChannelKeeps, Zenon
    <2> QED
      BY <1>6, <2>1, <2>2 DEF Obeys
  <1>7. CASE c.type \notin {"LinkCheckAns", "LinkAdrReq", "DutyCycleReq", "RxParamSetupReq",
                            "DevStatusReq", "NewChannelReq"}
    <2>1. e = d
      BY <1>7 DEF OnCommand
    <2> QED
      BY <1>7, <2>1 DEF Obeys
  <1> QED
    BY <1>1, <1>2, <1>3, <1>4, <1>5, <1>6, <1>7

------------------------------------------------------------------------------
(* A whole downlink.                                                          *)

LEMMA ParseKeeps ==
    ASSUME NEW d, Device(d), NEW cs \in Seq(Command), NEW e \in ParseCommands(d, cs)
    PROVE  Device(e) /\ e.adr = d.adr /\ e.adrAckCnt = d.adrAckCnt /\ e.fault = d.fault
  <1> DEFINE n == Len(cs)
             Keeps(x) == Device(x) /\ x.adr = d.adr /\ x.adrAckCnt = d.adrAckCnt /\ x.fault = d.fault
  <1>1. PICK g : Stages(d, cs, g) /\ ParseCommands(d, cs) = g[n]
    BY ParseInStages
  <1>2. n \in Nat /\ \A k \in 1 .. n : cs[k] \in Command
    OBVIOUS
  <1> DEFINE N == {k \in Nat : k <= n => \A x \in g[k] : Keeps(x)}
  <1>3. 0 \in N
    BY <1>1 DEF Stages
  <1>4. ASSUME NEW k \in N PROVE k + 1 \in N
    <2>1. k \in Nat /\ (k <= n => \A x \in g[k] : Keeps(x))
      OBVIOUS
    <2> HIDE DEF N, n
    <2>2. ASSUME k + 1 <= n, NEW x \in g[k + 1] PROVE Keeps(x)
      <3>1. k + 1 \in 1 .. n /\ (k + 1) - 1 = k
        BY <1>2, <2>1, <2>2
      <3>2. PICK y \in g[k] : x \in OnCommand(y, cs[k + 1])
        BY <1>1, <2>2, <3>1 DEF Stages, n
      <3>3. Keeps(y)
        BY <1>2, <2>1, <3>1
      <3>4. Obeys(y, cs[k + 1], x)
        BY <1>2, <3>1, <3>2, <3>3, CommandKeeps
      <3> QED
        BY <3>3, <3>4 DEF Obeys
    <2> HIDE DEF Keeps
    <2> QED
      BY <2>1, <2>2 DEF N
  <1>5. N = Nat
    <2> HIDE DEF N
    <2>1. N \in SUBSET Nat
      BY DEF N
    <2> QED
      BY <1>3, <1>4, <2>1, Inducts
  <1> HIDE DEF Keeps, n
  <1>6. n \in N
    BY <1>2, <1>5
  <1>7. Keeps(e)
    BY <1>1, <1>2, <1>6
  <1> QED
    BY <1>7 DEF Keeps

LEMMA ReceiveKeeps ==
    ASSUME NEW d, Device(d), NEW cs \in Seq(Command), NEW snr, NEW e \in Receive(d, cs, snr)
    PROVE  Device(e) /\ e.adr = d.adr /\ e.adrAckCnt = 0 /\ e.fault = d.fault
  <1> DEFINE m == [d EXCEPT !.adrAckCnt = 0, !.lastSnr = snr]
  <1>1. Device(m) /\ m.adr = d.adr /\ m.adrAckCnt = 0 /\ m.fault = d.fault
    BY DEF Device, DeviceFields
  <1>2. e \in ParseCommands(m, cs)
    BY DEF Receive
  <1> HIDE DEF m
  <1> QED
    BY <1>1, <1>2, ParseKeeps

\* The mask of the request that the ADR component writes.
LEMMA FirstThree == BitsOf(7) = 0 .. 2
  <1> DEFINE w(i) == 2^i
             bit(i) == (7 \div w(i)) % 2
  <1>1. /\ w(0) = 1 /\ w(1) = 2 /\ w(2) = 4 /\ w(3) = 8 /\ w(4) = 16 /\ w(5) = 32
        /\ w(6) = 64 /\ w(7) = 128 /\ w(8) = 256 /\ w(9) = 512 /\ w(10) = 1024
        /\ w(11) = 2048 /\ w(12) = 4096 /\ w(13) = 8192 /\ w(14) = 16384
        /\ w(15) = 32768
    BY SMT
  <1>2. BitsOf(7) = {i \in 0 .. 15 : bit(i) = 1}
    BY DEF BitsOf
  <1> HIDE DEF w
  <1>3. /\ (7 \div 1) % 2 = 1 /\ (7 \div 2) % 2 = 1 /\ (7 \div 4) % 2 = 1
    BY SMT
  <1>4. /\ (7 \div 8) % 2 = 0 /\ (7 \div 16) % 2 = 0 /\ (7 \div 32) % 2 = 0
        /\ (7 \div 64) % 2 = 0 /\ (7 \div 128) % 2 = 0 /\ (7 \div 256) % 2 = 0
        /\ (7 \div 512) % 2 = 0 /\ (7 \div 1024) % 2 = 0 /\ (7 \div 2048) % 2 = 0
        /\ (7 \div 4096) % 2 = 0 /\ (7 \div 8192) % 2 = 0 /\ (7 \div 16384) % 2 = 0
        /\ (7 \div 32768) % 2 = 0
    BY SMT
  <1>5. bit(0) = 1 /\ bit(1) = 1 /\ bit(2) = 1
    BY <1>1, <1>3, SMT
  <1>6. /\ bit(3) = 0 /\ bit(4) = 0 /\ bit(5) = 0 /\ bit(6) = 0 /\ bit(7) = 0
        /\ bit(8) = 0 /\ bit(9) = 0 /\ bit(10) = 0 /\ bit(11) = 0 /\ bit(12) = 0
        /\ bit(13) = 0 /\ bit(14) = 0 /\ bit(15) = 0
    BY <1>1, <1>4, SMT
  <1> HIDE DEF bit
  <1>7. ASSUME NEW i \in 0 .. 15 PROVE bit(i) = 1 <=> i \in 0 .. 2
    <2>1. i \in {0, 1, 2, 3, 4, 5, 6, 7, 8, 9, 10, 11, 12, 13, 14, 15}
      BY SMT
    <2> QED
      BY <1>5, <1>6, <2>1, SMT
  <1> QED
    BY <1>2, <1>7, SMT

LEMMA RequestOfAdr ==
    ASSUME NEW t \in Target
    PROVE  LET c == LinkAdrRequest(t)
           IN  /\ c \in LinkAdrReq /\ c.type = "LinkAdrReq" /\ c.dataRate = t.dataRate
               /\ c.txPower = GetTxPowerIndex(t.txPower) /\ c.chMaskCntl = 0 /\ c.chMask = 7
  <1>1. t.dataRate \in 0 .. 5 /\ t.txPower \in Powers
    BY DEF Target
  <1>2. GetTxPowerIndex(t.txPower) \in 0 .. 7
    BY <1>1, Indices
  <1> DEFINE i == GetTxPowerIndex(t.txPower)
  <1> HIDE DEF i
  <1>3. LinkAdrRequest(t) = [type |-> "LinkAdrReq", dataRate |-> t.dataRate, txPower |-> i,
                             chMask |-> 7, chMaskCntl |-> 0, nbTrans |-> 1]
    BY DEF LinkAdrRequest, i
  <1>4. 7 \in 0 .. 2^16 - 1
    BY SMT
  <1>5. i \in Nibble /\ t.dataRate \in Nibble /\ 1 \in Nibble /\ 0 \in 0 .. 7
    BY <1>1, <1>2 DEF i, Nibble
  <1>6. LinkAdrRequest(t) \in LinkAdrReq
    <2> DEFINE W == 0 .. 2^16 - 1
    <2>1. 7 \in W
      BY <1>4
    <2> HIDE DEF W
    <2>2. LinkAdrRequest(t) \in [type : {"LinkAdrReq"}, dataRate : Nibble, txPower : Nibble,
                                 chMask : W, chMaskCntl : 0 .. 7, nbTrans : Nibble]
      BY <1>3, <1>5, <2>1
    <2> QED
      BY <2>2 DEF LinkAdrReq, W
  <1> QED
    BY <1>3, <1>6 DEF i

\* The device never refuses it.
LEMMA AdrAccepted ==
    ASSUME NEW d, Device(d), d.adr, NEW t \in Target
    PROVE  LET e == OnLinkAdrReq(d, LinkAdrRequest(t))
           IN  e.dr = t.dataRate /\ e.power = t.txPower
  <1> DEFINE c == LinkAdrRequest(t)
             e == OnLinkAdrReq(d, c)
  <1>1. /\ c \in LinkAdrReq /\ c.dataRate = t.dataRate /\ c.txPower = GetTxPowerIndex(t.txPower)
        /\ c.chMaskCntl = 0 /\ c.chMask = 7
    BY RequestOfAdr
  <1>2. t.dataRate \in 0 .. 5 /\ t.txPower \in Powers
    BY DEF Target
  <1>3. /\ c.txPower \in 0 .. 7 /\ GetDbmForTxPower(c.txPower) = t.txPower /\ t.txPower \in 0 .. 14
    BY <1>1, <1>2, Indices
  <1>4. e = OnLinkAdrReqAdaptive(d, c)
    BY DEF OnLinkAdrReq
  <1> HIDE DEF c, e
  <1>5. MaskOf(d, c) = 0 .. 2
    BY <1>1, FirstThree DEF MaskOf
  <1>6. d.region = Region /\ Plan(d.channels)
    BY DEF Device
  <1>7. MaskOf(d, c) \cap Slots(d.region) = Home /\ 0 \in Home
    <2>1. CASE Region = "EU"
      BY <1>5, <1>6, <2>1, HomeChannels DEF Slots
    <2>2. CASE Region # "EU"
      BY <1>5, <1>6, <2>2, HomeChannels DEF Slots
    <2> QED
      BY <2>1, <2>2
  <1>8. ChannelMaskOk(d, c)
    <2>1. MaskOf(d, c) # {}
      BY <1>5
    <2> QED
      BY <1>1, <1>6, <1>7, <2>1 DEF ChannelMaskOk, Plan
  <1>9. DataRateOk(d, c)
    <2>1. 0 \in DOMAIN d.channels /\ d.channels[0].minDr = 0 /\ d.channels[0].maxDr = 5
      BY <1>6, <1>7 DEF Plan
    <2>2. Supports(d.channels[0], c.dataRate)
      BY <1>1, <1>2, <2>1 DEF Supports
    <2>3. 0 \in MaskOf(d, c) \cap Slots(d.region)
      BY <1>7
    <2> QED
      BY <2>1, <2>2, <2>3 DEF DataRateOk, Exists
  <1>10. PowerOk(c)
    BY <1>3 DEF PowerOk
  <1>11. /\ e.dr = IF c.dataRate # 15 THEN c.dataRate ELSE d.dr
         /\ e.power = IF c.txPower # 15 THEN GetDbmForTxPower(c.txPower) ELSE d.power
    BY <1>1, <1>4, <1>8, <1>9, <1>10, AdaptiveKeeps, Zenon
  <1>12. e.dr = t.dataRate /\ e.power = t.txPower
    BY <1>1, <1>2, <1>3, <1>11
  <1> QED
    BY <1>12 DEF e, c

(* Without other LinkAdrReq than the ADR component's.                         *)
Adrs(cs) == {i \in 1 .. Len(cs) : cs[i].type = "LinkAdrReq"}
Follows(d, t, moved, e) == IF moved THEN e.dr = t.dataRate /\ e.power = t.txPower
                                    ELSE e.dr = d.dr /\ e.power = d.power

LEMMA ParseObeys ==
    ASSUME NEW d, Device(d), NEW cs \in Seq(Command), NEW t,
           Adrs(cs) # {} => d.adr /\ t \in Target,
           \A i \in Adrs(cs) : cs[i] = LinkAdrRequest(t),
           NEW e \in ParseCommands(d, cs)
    PROVE  Follows(d, t, Adrs(cs) # {}, e)
  <1> DEFINE n == Len(cs)
             Some(k) == \E i \in Adrs(cs) : i <= k
             Keeps(k, x) == Device(x) /\ x.adr = d.adr /\ Follows(d, t, Some(k), x)
  <1>1. PICK g : Stages(d, cs, g) /\ ParseCommands(d, cs) = g[n]
    BY ParseInStages
  <1>2. n \in Nat /\ \A k \in 1 .. n : cs[k] \in Command
    OBVIOUS
  <1>3. /\ \A i \in Adrs(cs) : i \in 1 .. n
        /\ \A i \in 1 .. n : i \in Adrs(cs) <=> cs[i].type = "LinkAdrReq"
    BY DEF Adrs
  <1> DEFINE N == {k \in Nat : k <= n => \A x \in g[k] : Keeps(k, x)}
  <1>4. 0 \in N
    <2>1. ~Some(0)
      BY <1>2, <1>3
    <2>2. \A x \in g[0] : x = d
      BY <1>1 DEF Stages
    <2> HIDE DEF Some
    <2>3. \A x \in g[0] : Keeps(0, x)
      BY <2>1, <2>2 DEF Follows
    <2> QED
      BY <2>3
  <1>5. ASSUME NEW k \in N PROVE k + 1 \in N
    <2>1. k \in Nat /\ (k <= n => \A x \in g[k] : Keeps(k, x))
      OBVIOUS
    <2> HIDE DEF N, n
    <2>2. ASSUME k + 1 <= n, NEW x \in g[k + 1] PROVE Keeps(k + 1, x)
      <3>1. k + 1 \in 1 .. n /\ (k + 1) - 1 = k
        BY <1>2, <2>1, <2>2
      <3> DEFINE c == cs[k + 1]
      <3>2. PICK y \in g[k] : x \in OnCommand(y, c)
        BY <1>1, <2>2, <3>1 DEF Stages, n
      <3>3. Keeps(k, y) /\ c \in Command
        <4>1. k <= n
          BY <1>2, <2>1, <2>2
        <4>2. c \in Command
          BY <1>2, <3>1
        <4> HIDE DEF Keeps, c
        <4> QED
          BY <2>1, <4>1, <4>2
      <3>4. Obeys(y, c, x) /\ (c.type = "LinkAdrReq" => x = OnLinkAdrReq(y, c))
        BY <3>2, <3>3, CommandKeeps
      <3>5. CASE c.type = "LinkAdrReq"
        <4>1. k + 1 \in Adrs(cs) /\ Some(k + 1)
          <5>1. k + 1 \in Adrs(cs)
            BY <1>3, <3>1, <3>5
          <5>2. k + 1 <= k + 1
            BY <2>1
          <5> QED
            BY <5>1, <5>2
        <4>2. c = LinkAdrRequest(t) /\ d.adr /\ t \in Target
          BY <4>1
        <4>3. y.adr /\ Device(y)
          BY <3>3, <4>2
        <4> HIDE DEF c
        <4>4. x.dr = t.dataRate /\ x.power = t.txPower
          BY <3>4, <3>5, <4>2, <4>3, AdrAccepted
        <4> HIDE DEF Some
        <4> QED
          BY <3>3, <3>4, <4>1, <4>4 DEF Obeys, Follows
      <3>6. CASE c.type # "LinkAdrReq"
        <4>1. k + 1 \notin Adrs(cs)
          BY <1>3, <3>1, <3>6
        <4>2. Some(k + 1) <=> Some(k)
          <5>1. ASSUME NEW i \in Adrs(cs) PROVE i <= k + 1 <=> i <= k
            <6>1. i \in Nat /\ i # k + 1
              BY <1>2, <1>3, <4>1
            <6> QED
              BY <2>1, <6>1
          <5> QED
            BY <5>1
        <4> HIDE DEF Some, c
        <4> QED
          BY <3>3, <3>4, <3>6, <4>2 DEF Obeys, Follows
      <3> QED
        BY <3>5, <3>6
    <2> HIDE DEF Keeps
    <2> QED
      BY <2>1, <2>2 DEF N
  <1>6. N = Nat
    <2> HIDE DEF N
    <2>1. N \in SUBSET Nat
      BY DEF N
    <2> QED
      BY <1>4, <1>5, <2>1, Inducts
  <1>7. Some(n) <=> Adrs(cs) # {}
    BY <1>2, <1>3
  <1> HIDE DEF Some, n
  <1>8. n \in N
    <2> HIDE DEF N
    <2> QED
      BY <1>2, <1>6
  <1>9. Keeps(n, e)
    <2> HIDE DEF Keeps
    <2> QED
      BY <1>1, <1>2, <1>8
  <1>10. Follows(d, t, Some(n), e)
    BY <1>9
  <1> QED
    BY <1>7, <1>10 DEF Follows

LEMMA ReceiveObeys ==
    ASSUME NEW d, Device(d), NEW cs \in Seq(Command), NEW t, NEW snr,
           Adrs(cs) # {} => d.adr /\ t \in Target,
           \A i \in Adrs(cs) : cs[i] = LinkAdrRequest(t),
           NEW e \in Receive(d, cs, snr)
    PROVE  Follows(d, t, Adrs(cs) # {}, e)
  <1> DEFINE m == [d EXCEPT !.adrAckCnt = 0, !.lastSnr = snr]
  <1>1. Device(m) /\ m.adr = d.adr /\ m.dr = d.dr /\ m.power = d.power
    BY DEF Device, DeviceFields
  <1>2. e \in ParseCommands(m, cs)
    BY DEF Receive
  <1> HIDE DEF m
  <1>3. Adrs(cs) # {} => m.adr /\ t \in Target
    BY <1>1
  <1>4. Follows(m, t, Adrs(cs) # {}, e)
    BY <1>1, <1>2, <1>3, ParseObeys
  <1> QED
    BY <1>1, <1>4 DEF Follows

------------------------------------------------------------------------------
(* The backoff.                                                               *)

AllHome(channels) ==
    [i \in DOMAIN channels |-> IF i \in 0 .. 2 THEN [channels[i] EXCEPT !.enabled = TRUE]
                                               ELSE channels[i]]

LEMMA AllHomeKeeps ==
    ASSUME NEW old, Plan(old)
    PROVE  LET plan == AllHome(old)
           IN  /\ Plan(plan) /\ DOMAIN plan = DOMAIN old
               /\ \A i \in DOMAIN old : /\ plan[i].frequency = old[i].frequency
                                        /\ plan[i].enabled = IF i \in 0 .. 2 THEN TRUE ELSE old[i].enabled
  <1> DEFINE plan == AllHome(old)
  <1>1. /\ DOMAIN plan = DOMAIN old
        /\ \A i \in DOMAIN old : plan[i] = IF i \in 0 .. 2 THEN [old[i] EXCEPT !.enabled = TRUE]
                                                           ELSE old[i]
    BY DEF AllHome
  <1> HIDE DEF plan
  <1>2. ASSUME NEW i \in DOMAIN old
        PROVE  /\ plan[i].frequency = old[i].frequency /\ plan[i].minDr = old[i].minDr
               /\ plan[i].maxDr = old[i].maxDr /\ plan[i] \in Channel
               /\ plan[i].enabled = IF i \in 0 .. 2 THEN TRUE ELSE old[i].enabled
    <2> DEFINE ch == old[i]
    <2>1. ch \in Channel /\ plan[i] = IF i \in 0 .. 2 THEN [ch EXCEPT !.enabled = TRUE] ELSE ch
      BY <1>1 DEF Plan
    <2> HIDE DEF ch
    <2>2. /\ [ch EXCEPT !.enabled = TRUE] \in Channel
          /\ [ch EXCEPT !.enabled = TRUE].frequency = ch.frequency
          /\ [ch EXCEPT !.enabled = TRUE].minDr = ch.minDr
          /\ [ch EXCEPT !.enabled = TRUE].maxDr = ch.maxDr
          /\ [ch EXCEPT !.enabled = TRUE].enabled = TRUE
      BY <2>1 DEF Channel
    <2> QED
      BY <2>1, <2>2 DEF ch
  <1>3. Plan(plan)
    BY <1>1, <1>2 DEF Plan
  <1> QED
    BY <1>1, <1>2, <1>3 DEF plan

(* The backoff raises the power, or lowers the data rate at full power.       *)
Backs(d, e) ==
    /\ Device(e) /\ e.adr = d.adr
    /\ \/ e.dr = d.dr /\ (e.power = d.power \/ e.power = 14)
       \/ e.power = 14 /\ d.power = 14 /\ d.dr \in 1 .. 6 /\ e.dr = d.dr - 1
    /\ e.channels = d.channels \/ e.channels = AllHome(d.channels)
    /\ Region = "EU" => e.fault = d.fault

LEMMA ExecuteBacks ==
    ASSUME NEW d, Device(d)
    PROVE  Backs(d, ExecuteADRBackoff(d)) /\ ExecuteADRBackoff(d).adrAckCnt = d.adrAckCnt
  <1> DEFINE e == ExecuteADRBackoff(d)
             plan == AllHome(d.channels)
  <1>1. 14 \in Powers /\ d.power \in 0 .. 14
    <2>1. 14 \in EvenPowers
      BY SMT DEF EvenPowers
    <2> QED
      BY <2>1, Powerful, Indices DEF Device
  <1>2. Plan(plan)
    BY AllHomeKeeps DEF Device
  <1>3. CASE ~d.adr
    <2>1. e = d
      BY <1>3 DEF ExecuteADRBackoff
    <2> QED
      BY <2>1 DEF Backs
  <1>4. CASE d.adr /\ d.power < 14
    <2>1. e = [d EXCEPT !.power = 14]
      BY <1>4 DEF ExecuteADRBackoff
    <2> HIDE DEF e
    <2> QED
      BY <1>1, <2>1 DEF Backs, Device, DeviceFields, e
  <1>5. CASE d.adr /\ ~(d.power < 14) /\ d.dr # 0
    <2> DEFINE r == d.dr - 1
    <2>1. DOMAIN d = DeviceFields
      BY DEF Device
    <2>2. e = [d EXCEPT !.dr = r]
      BY <1>5, <2>1 DEF ExecuteADRBackoff, DeviceFields
    <2>3. r \in 0 .. 6 /\ d.dr \in 1 .. 6 /\ d.power = 14
      BY <1>1, <1>5 DEF Device
    <2>4. r = d.dr - 1
      OBVIOUS
    <2> HIDE DEF e, r
    <2>5. Device(e) /\ e.adr = d.adr /\ e.power = d.power /\ e.dr = r /\ e.channels = d.channels
          /\ e.fault = d.fault /\ e.adrAckCnt = d.adrAckCnt
      BY <2>2, <2>3 DEF Device, DeviceFields
    <2> QED
      BY <2>3, <2>4, <2>5 DEF Backs, e
  <1>6. CASE d.adr /\ ~(d.power < 14) /\ d.dr = 0 /\ ~ 0 .. 2 \subseteq Slots(d.region)
    <2> DEFINE m == [d EXCEPT !.nbTrans = 1]
    <2>1. e = Throw(m, "vector::at")
      BY <1>6 DEF ExecuteADRBackoff
    <2>2. Device(m) /\ m.adr = d.adr /\ m.power = d.power /\ m.dr = d.dr /\ m.channels = d.channels
          /\ m.adrAckCnt = d.adrAckCnt
      BY DEF Device, DeviceFields
    <2> HIDE DEF m, e
    <2>3. Device(e) /\ e.adr = m.adr /\ e.power = m.power /\ e.dr = m.dr /\ e.channels = m.channels
          /\ e.adrAckCnt = m.adrAckCnt
      BY <2>1, <2>2 DEF Device, DeviceFields, Faults, Throw
    <2>4. Region # "EU"
      <3>1. d.region = Region
        BY DEF Device
      <3> QED
        BY <1>6, <3>1 DEF Slots
    <2> QED
      BY <2>2, <2>3, <2>4 DEF Backs, e
  <1>7. CASE d.adr /\ ~(d.power < 14) /\ d.dr = 0 /\ 0 .. 2 \subseteq Slots(d.region)
    <2>1. DOMAIN d = DeviceFields
      BY DEF Device
    <2>2. e = [d EXCEPT !.nbTrans = 1, !.channels = plan]
      BY <1>7, <2>1 DEF ExecuteADRBackoff, DeviceFields, AllHome
    <2> HIDE DEF e, plan
    <2>3. Device(e) /\ e.adr = d.adr /\ e.power = d.power /\ e.dr = d.dr /\ e.channels = plan
          /\ e.fault = d.fault /\ e.adrAckCnt = d.adrAckCnt
      BY <1>2, <2>2 DEF Device, DeviceFields
    <2> QED
      BY <2>3 DEF Backs, e, plan
  <1> QED
    BY <1>3, <1>4, <1>5, <1>6, <1>7

LEMMA EvaluateBacks ==
    ASSUME NEW d, Device(d), d.adrAckCnt <= CountLimit + 1
    PROVE  Backs(d, EvaluateBackoff(d)) /\ EvaluateBackoff(d).adrAckCnt <= CountLimit
  <1> DEFINE flag == d.adrAckCnt >= ADR_ACK_LIMIT
             asking == [d EXCEPT !.adrAckReq = flag]
             e == EvaluateBackoff(d)
  <1>1. ADR_ACK_LIMIT \in Nat /\ ADR_ACK_LIMIT <= CountLimit /\ CountLimit \in Nat
    BY AdrAckAssumption DEF CountLimit
  <1>2. Same(d, asking)
    BY DEF Device, DeviceFields, Same
  <1>3. e = IF d.adrAckCnt >= CountLimit
            THEN [ExecuteADRBackoff(asking) EXCEPT !.adrAckCnt = ADR_ACK_LIMIT]
            ELSE asking
    BY DEF EvaluateBackoff, CountLimit
  <1> HIDE DEF asking, e
  <1>4. Device(asking)
    BY <1>2, SameDevice
  <1>5. CASE d.adrAckCnt >= CountLimit
    <2> DEFINE m == ExecuteADRBackoff(asking)
    <2>1. Backs(asking, m)
      BY <1>4, ExecuteBacks
    <2>2. e = [m EXCEPT !.adrAckCnt = ADR_ACK_LIMIT]
      BY <1>3, <1>5
    <2> HIDE DEF m
    <2>3. /\ Device(e) /\ e.adr = m.adr /\ e.dr = m.dr /\ e.power = m.power /\ e.channels = m.channels
          /\ e.fault = m.fault /\ e.adrAckCnt = ADR_ACK_LIMIT
      BY <1>1, <2>1, <2>2 DEF Backs, Device, DeviceFields
    <2>4. Backs(d, e)
      BY <1>2, <2>1, <2>3 DEF Backs, Same
    <2> QED
      BY <1>1, <2>3, <2>4 DEF e
  <1>6. CASE ~(d.adrAckCnt >= CountLimit)
    <2>1. e = asking
      BY <1>3, <1>6
    <2>2. Backs(d, e)
      BY <1>2, <1>4, <2>1 DEF Backs, Same
    <2>3. e.adrAckCnt = d.adrAckCnt /\ d.adrAckCnt \in Nat
      BY <1>2, <2>1 DEF Same, Device
    <2> QED
      BY <1>1, <1>6, <2>2, <2>3 DEF e
  <1> QED
    BY <1>5, <1>6

------------------------------------------------------------------------------
(* Sub-bands and sending.                                                     *)

LEMMA BandIndices == DOMAIN Bands(Region) \subseteq 1 .. 6
  <1>1. DOMAIN EuBands = 1 .. 6
    BY SMT DEF EuBands
  <1>2. DOMAIN AlohaBands = 1 .. 1
    BY SMT DEF AlohaBands
  <1>3. DOMAIN SingleChannelBands = 1 .. 1
    BY SMT DEF SingleChannelBands
  <1>4. Region \in {"ALOHA", "EU", "SingleChannel"}
    BY RegionAssumption DEF Regions
  <1>5. Bands(Region) \in {EuBands, AlohaBands, SingleChannelBands}
    BY <1>4, SMT DEF Bands
  <1> QED
    BY <1>1, <1>2, <1>3, <1>5, SMT

LEMMA BandOfValid ==
    \A f : IsFrequencyValid(Bands(Region), f) =>
        GetSubBandFromFrequency(Bands(Region), f) \in DOMAIN Bands(Region)
  <1> SUFFICES ASSUME NEW f, IsFrequencyValid(Bands(Region), f)
               PROVE  GetSubBandFromFrequency(Bands(Region), f) \in DOMAIN Bands(Region)
    OBVIOUS
  <1> DEFINE S == BandsOf(Bands(Region), f)
  <1>1. S # {} /\ GetSubBandFromFrequency(Bands(Region), f) = Min(S)
    BY DEF IsFrequencyValid, GetSubBandFromFrequency
  <1>2. S \subseteq DOMAIN Bands(Region)
    BY DEF BandsOf
  <1> HIDE DEF S
  <1>3. S \in SUBSET Int /\ IsFiniteSet(S)
    <2> DEFINE six == 6
    <2>1. S \subseteq 1 .. six
      BY <1>2, BandIndices
    <2>2. six \in Nat
      OBVIOUS
    <2> HIDE DEF six
    <2>3. IsFiniteSet(1 .. six)
      BY <2>2, FS_Interval
    <2>4. IsFiniteSet(S)
      BY <2>1, <2>3, FS_Subset
    <2> QED
      BY <2>1, <2>2, <2>4
  <1>4. Min(S) \in S
    BY <1>1, <1>3, Smallest
  <1> QED
    BY <1>1, <1>2, <1>4

BandsFor(d) == {GetSubBandFromFrequency(Bands(Region), d.channels[i].frequency) : i \in Compatible(d)}

LEMMA CompatibleBands ==
    ASSUME NEW d, ~AssertsInBand(d.channels, Bands(Region))
    PROVE  BandsFor(d) \subseteq DOMAIN Bands(Region) /\ FreeBands(d) \subseteq BandsFor(d)
  <1>1. ASSUME NEW i \in Compatible(d)
        PROVE  GetSubBandFromFrequency(Bands(Region), d.channels[i].frequency) \in DOMAIN Bands(Region)
    <2>1. i \in DOMAIN d.channels /\ d.channels[i].enabled
      BY DEF Compatible, GetCompatibleTxChannels
    <2>2. IsFrequencyValid(Bands(Region), d.channels[i].frequency)
      BY <2>1 DEF AssertsInBand
    <2> QED
      BY <2>2, BandOfValid
  <1> QED
    BY <1>1 DEF BandsFor, FreeBands

LEMMA FirstWindow ==
    ASSUME NEW d, Device(d)
    PROVE  GetFirstReceiveWindowDataRate(d) \in 0 .. 6
  <1> DEFINE r == d.dr
             o == d.rx1DrOffset
  <1>1. r \in 0 .. 6 /\ o \in 0 .. 5
    BY DEF Device
  <1>2. GetFirstReceiveWindowDataRate(d) = Max({r - o, 0})
    <2>1. \A a \in 0 .. 7, b \in 0 .. 5 : ReplyDataRateMatrix[a][b] = Max({a - b, 0})
      BY DEF ReplyDataRateMatrix
    <2>2. GetFirstReceiveWindowDataRate(d) = ReplyDataRateMatrix[r][o]
      BY DEF GetFirstReceiveWindowDataRate
    <2> HIDE DEF r, o
    <2>3. r \in 0 .. 7
      BY <1>1
    <2> QED
      BY <1>1, <2>1, <2>2, <2>3
  <1> HIDE DEF r, o
  <1>3. Max({r - o, 0}) = IF r - o >= 0 THEN r - o ELSE 0
    BY <1>1, OfTwo
  <1> QED
    BY <1>1, <1>2, <1>3

LEMMA FrameFields ==
    ASSUME NEW d, Device(d)
    PROVE  LET f == FrameOf(d)
           IN  /\ f.sf = GetSfFromDataRate(d.dr) /\ f.sf \in 7 .. 12 /\ f.power = d.power
               /\ f.adr = d.adr /\ f.linkCheck \in BOOLEAN
  <1>1. GetSfFromDataRate(d.dr) \in 7 .. 12
    BY DataRates DEF Device, SpreadingFactors, minSpreadingFactor
  <1> QED
    BY <1>1 DEF FrameOf

LEMMA Thrown ==
    ASSUME NEW d, Device(d), NEW why \in Faults
    PROVE  LET e == Throw(d, why)
           IN  /\ Device(e) /\ e.adr = d.adr /\ e.dr = d.dr /\ e.power = d.power
               /\ e.adrAckCnt = d.adrAckCnt /\ e.channels = d.channels
  BY DEF Device, DeviceFields, Throw

LEMMA SentDevice ==
    ASSUME NEW d, Device(d)
    PROVE  LET e == AfterDoSend(d)
           IN  /\ Device(e) /\ e.adr = d.adr /\ e.dr = d.dr /\ e.power = d.power
               /\ e.adrAckCnt = d.adrAckCnt + 1 /\ e.channels = d.channels /\ e.fault = d.fault
  BY DEF Device, DeviceFields, AfterDoSend

(* What a packet that goes out, or fails to, leaves behind.                   *)
Sends(d) == /\ phase' = "up" /\ dev' = AfterDoSend(d) /\ listenDr' \in 0 .. 6
            /\ frame' = IF phase = "up" THEN frame ELSE FrameOf(d)
            /\ \E b \in FreeBands(d) : resting' = resting \cup {b}
FailsToSend(d) == /\ dev' = Throw(d, "no channel") /\ UNCHANGED <<phase, frame, listenDr, resting>>
                  /\ AssertsInBand(d.channels, Bands(Region)) \/ FreeBands(d) = {}

LEMMA DoSendCases ==
    ASSUME NEW d, Device(d), DoSend(d)
    PROVE  /\ postponed' = {}
           /\ FailsToSend(d) \/ (Sends(d) /\ ~AssertsInBand(d.channels, Bands(Region)))
  <1>1. GetFirstReceiveWindowDataRate(d) \in 0 .. 6
    BY FirstWindow
  <1>2. CASE AssertsInBand(d.channels, Bands(Region)) \/ FreeBands(d) = {}
    BY <1>2, Zenon DEF DoSend, FailsToSend
  <1>3. CASE ~(AssertsInBand(d.channels, Bands(Region)) \/ FreeBands(d) = {})
    BY <1>1, <1>3 DEF DoSend, Sends
  <1> QED
    BY <1>2, <1>3

LEMMA DoSendTypes ==
    ASSUME TInv, NEW d, Device(d), d.adr = dev.adr, d.adrAckCnt <= CountLimit,
           phase \in {"idle", "up"}, DoSend(d)
    PROVE  /\ Device(dev') /\ dev'.adr = dev.adr /\ dev'.adrAckCnt <= CountLimit + 1
           /\ postponed' = {} /\ phase' \in {"idle", "up"} /\ (phase' # "idle" => SentFrame')
           /\ listenDr' \in 0 .. 6 /\ resting' \subseteq DOMAIN Bands(Region)
  <1>1. CountLimit \in Nat /\ d.adrAckCnt \in Nat
    BY AdrAckAssumption DEF CountLimit, Device
  <1>2. /\ phase # "idle" => SentFrame
        /\ listenDr \in 0 .. 6 /\ resting \subseteq DOMAIN Bands(Region)
    BY DEF TInv
  <1>3. postponed' = {} /\ (FailsToSend(d) \/ (Sends(d) /\ ~AssertsInBand(d.channels, Bands(Region))))
    BY DoSendCases
  <1>4. CASE FailsToSend(d)
    <2>1. "no channel" \in Faults
      BY DEF Faults
    <2>2. dev' = Throw(d, "no channel") /\ UNCHANGED <<phase, frame, listenDr, resting>>
      BY <1>4 DEF FailsToSend
    <2>3. Device(dev') /\ dev'.adr = d.adr /\ dev'.adrAckCnt = d.adrAckCnt
      BY <2>1, <2>2, Thrown
    <2>4. phase' # "idle" => SentFrame'
      BY <1>2, <2>2, <2>3 DEF SentFrame
    <2>5. dev'.adr = dev.adr /\ dev'.adrAckCnt <= CountLimit + 1
      BY <1>1, <2>3
    <2>6. phase' \in {"idle", "up"} /\ listenDr' \in 0 .. 6 /\ resting' \subseteq DOMAIN Bands(Region)
      BY <1>2, <2>2
    <2> QED
      BY <1>3, <2>3, <2>4, <2>5, <2>6
  <1>5. CASE Sends(d) /\ ~AssertsInBand(d.channels, Bands(Region))
    <2>1. /\ phase' = "up" /\ dev' = AfterDoSend(d) /\ listenDr' \in 0 .. 6
          /\ frame' = IF phase = "up" THEN frame ELSE FrameOf(d)
          /\ \E b \in FreeBands(d) : resting' = resting \cup {b}
      BY <1>5 DEF Sends
    <2>2. Device(dev') /\ dev'.adr = d.adr /\ dev'.adrAckCnt = d.adrAckCnt + 1
      BY <2>1, SentDevice
    <2>3. SentFrame'
      <3>1. CASE phase = "up"
        BY <1>2, <2>1, <2>2, <3>1 DEF SentFrame
      <3>2. CASE phase # "up"
        <4>1. frame' = FrameOf(d)
          BY <2>1, <3>2
        <4>2. /\ frame'.sf \in 7 .. 12 /\ frame'.power = d.power
              /\ frame'.adr = d.adr /\ frame'.linkCheck \in BOOLEAN
          BY <4>1, FrameFields
        <4> QED
          BY <2>2, <4>2 DEF SentFrame, Device
      <3> QED
        BY <3>1, <3>2
    <2>4. resting' \subseteq DOMAIN Bands(Region)
      <3>1. FreeBands(d) \subseteq DOMAIN Bands(Region)
        BY <1>5, CompatibleBands
      <3> QED
        BY <1>2, <2>1, <3>1
    <2> QED
      BY <1>1, <1>3, <2>1, <2>2, <2>3, <2>4
  <1> QED
    BY <1>4, <1>5, <1>3

------------------------------------------------------------------------------
(* The uplink and its answer.                                                 *)

LEMMA Inserted ==
    ASSUME NEW R, NEW packets \in Seq(R), Len(packets) <= HistoryRange, NEW rx \in R
    PROVE  LET h == Insert(packets, rx)
           IN  h \in Seq(R) /\ Len(h) <= HistoryRange /\ h # <<>> /\ Last(h) = rx
  <1> DEFINE n == Len(packets)
             first == Max({1, n + 2 - HistoryRange})
             all == packets \o <<rx>>
             h == Insert(packets, rx)
  <1>1. n \in Nat /\ HistoryRange \in Nat \ {0}
    BY HistoryAssumption
  <1>2. first = IF 1 >= n + 2 - HistoryRange THEN 1 ELSE n + 2 - HistoryRange
    BY <1>1, OfTwo
  <1>3. all \in Seq(R) /\ Len(all) = n + 1 /\ all[n + 1] = rx
    OBVIOUS
  <1>4. h = SubSeq(all, first, n + 1)
    BY DEF Insert
  <1> HIDE DEF n, first, all, h
  <1>5. first \in 1 .. n + 1 /\ n + 2 - first <= HistoryRange
    BY <1>1, <1>2 DEF n
  <1>6. \A i \in first .. n + 1 : all[i] \in R
    BY <1>1, <1>3, <1>5
  <1>7. h \in Seq(R) /\ Len(h) = n + 2 - first
    BY <1>1, <1>3, <1>4, <1>5
  <1>8. h[n + 2 - first] = rx
    BY <1>1, <1>3, <1>4, <1>5
  <1>9. h # <<>>
    BY <1>1, <1>5, <1>7
  <1> QED
    BY <1>5, <1>7, <1>8, <1>9 DEF Last, h

LEMMA ListOfNone == SetToSeq({}) = <<>>
  <1>1. Cardinality({}) = 0
    BY FS_EmptySet
  <1>2. 1 .. 0 = {}
    OBVIOUS
  <1> DEFINE F == {f \in [1 .. Cardinality({}) -> {}] : IsInjective(f)}
  <1>3. \A f \in [1 .. Cardinality({}) -> {}] : f = <<>>
    BY <1>1, <1>2
  <1>4. <<>> \in [1 .. Cardinality({}) -> {}] /\ IsInjective(<<>>)
    BY <1>1, <1>2 DEF IsInjective
  <1> QED
    BY <1>3, <1>4 DEF SetToSeq

LEMMA ListOfOne == \A r : SetToSeq({r}) = <<r>>
  <1> SUFFICES ASSUME NEW r PROVE SetToSeq({r}) = <<r>>
    OBVIOUS
  <1>1. Cardinality({r}) = 1
    BY FS_Singleton
  <1>2. \A f \in [1 .. 1 -> {r}] : f = <<r>>
    OBVIOUS
  <1>3. <<r>> \in [1 .. 1 -> {r}] /\ IsInjective(<<r>>)
    BY DEF IsInjective
  <1> QED
    BY <1>1, <1>2, <1>3 DEF SetToSeq

LEMMA Listed == \A S : <<>> \in Seq(S) /\ \A r \in S : <<r>> \in Seq(S)
  OBVIOUS

LEMMA Joined == \A S : \A s, t \in Seq(S) : s \o t \in Seq(S)
  OBVIOUS

LEMMA LinkCheckTyped ==
    ASSUME TInv, reply.window > 0
    PROVE  LinkCheckAnswer = <<>> \/ \E a \in LinkCheckAnswers : LinkCheckAnswer = <<a>>
  <1> DEFINE rx == Last(history)
             best == Max(Values(rx))
             diff == (RxPowerToSNR(best) - ThresholdOf(frame.sf)) \div Db
             margin == Max({0, Min({254, diff})})
             count == Cardinality(DOMAIN rx)
             a == [type |-> "LinkCheckAns", margin |-> margin, gwCnt |-> count]
  <1>1. /\ history \in Seq(Receptions(pathLoss)) /\ history # <<>> /\ pathLoss \in PathLosses
        /\ frame.sf \in 7 .. 12
    BY DEF TInv, Reply, SentFrame
  <1>2. Packets(history)
    BY <1>1, PacketsOf
  <1>3. Numbers(rx)
    BY <1>2 DEF Packets, Last
  <1> HIDE DEF rx
  <1>4. count \in Nat
    BY <1>3, FS_CardinalityType DEF Numbers
  <1>5. best \in Int
    BY <1>3, ValuesOfNumbers
  <1>6. ThresholdOf(frame.sf) \in Int
    BY <1>1, Thresholds DEF SpreadingFactors, minSpreadingFactor
  <1> HIDE DEF best, count
  <1>7. diff \in Int
    BY <1>5, <1>6 DEF RxPowerToSNR, NoiseFloor, Db
  <1> HIDE DEF diff
  <1>8. margin \in Int
    <2>1. Min({254, diff}) \in Int
      <3>1. Min({254, diff}) = IF 254 <= diff THEN 254 ELSE diff
        BY <1>7, OfTwo
      <3> QED
        BY <1>7, <3>1
    <2> DEFINE least == Min({254, diff})
    <2> HIDE DEF least
    <2>2. Max({0, least}) = IF 0 >= least THEN 0 ELSE least
      BY <2>1, OfTwo DEF least
    <2> QED
      BY <2>1, <2>2 DEF least
  <1> HIDE DEF margin
  <1>9. a \in LinkCheckAnswers
    BY <1>4, <1>8 DEF LinkCheckAnswers
  <1>10. LinkCheckAnswer = IF frame.linkCheck THEN <<a>> ELSE <<>>
    BY DEF LinkCheckAnswer, a, margin, diff, best, count, rx
  <1> HIDE DEF a
  <1> QED
    BY <1>9, <1>10

LEMMA AdrAnswerTyped ==
    ASSUME TInv, reply.window > 0
    PROVE  /\ AdrTarget \in Target
           /\ AdrAnswer = <<>> \/ (AdrAnswer = <<LinkAdrRequest(AdrTarget)>> /\ frame.adr)
  <1>1. /\ history \in Seq(Receptions(pathLoss)) /\ history # <<>> /\ pathLoss \in PathLosses
        /\ frame.sf \in 7 .. 12 /\ method \in Methods /\ dev.power \in Powers
    BY DEF TInv, Reply, SentFrame, Device
  <1>2. AdrTarget \in Target
    BY <1>1, TargetInTables
  <1> QED
    BY <1>2, Zenon DEF AdrAnswer

LEMMA AnswerTyped ==
    ASSUME TInv, reply.window > 0, NEW extra, extra = {} \/ \E r \in requests : extra = {r}
    PROVE  BeforeSendingReply \o SetToSeq(extra) \in Seq(Command)
  <1>1. LinkCheckAnswer \in Seq(Command)
    <2>1. LinkCheckAnswers \subseteq Command
      BY DEF Command
    <2> QED
      BY <2>1, LinkCheckTyped, Listed, Zenon
  <1>2. AdrAnswer \in Seq(Command)
    <2>1. AdrTarget \in Target
      BY AdrAnswerTyped
    <2>2. LinkAdrRequest(AdrTarget) \in LinkAdrReq
      BY <2>1, RequestOfAdr
    <2>3. LinkAdrRequest(AdrTarget) \in Command
      BY <2>2 DEF Command
    <2> QED
      BY <2>3, AdrAnswerTyped, Listed, Zenon
  <1>3. SetToSeq(extra) \in Seq(Command)
    <2>1. CASE extra = {}
      BY <2>1, ListOfNone, Listed, Zenon
    <2>2. CASE \E r \in requests : extra = {r}
      <3>1. PICK r \in requests : extra = {r}
        BY <2>2
      <3>2. r \in Command
        <4>1. requests \subseteq Request
          BY RequestsAssumption DEF TInv
        <4> QED
          BY <4>1 DEF Command
      <3>3. SetToSeq(extra) = <<r>>
        BY <3>1, ListOfOne, Zenon
      <3> QED
        BY <3>2, <3>3, Listed, Zenon
    <2> QED
      BY <2>1, <2>2
  <1> QED
    BY <1>1, <1>2, <1>3, Joined DEF BeforeSendingReply

------------------------------------------------------------------------------
(* The types are kept.                                                        *)

LEMMA InitialRates == InitialDataRates \subseteq 0 .. 5
  <1>1. ASSUME NEW S \in SUBSET (0 .. 5), S # {} PROVE Min(S) \in 0 .. 5
    <2>1. IsFiniteSet(0 .. 5)
      <3> DEFINE five == 5
      <3>1. five \in Int
        OBVIOUS
      <3> HIDE DEF five
      <3>2. IsFiniteSet(0 .. five)
        BY <3>1, FS_Interval
      <3> QED
        BY <3>2 DEF five
    <2>2. IsFiniteSet(S)
      BY <2>1, FS_Subset, Zenon
    <2>3. S \in SUBSET Int
      OBVIOUS
    <2>4. Min(S) \in S
      BY <1>1, <2>2, <2>3, Smallest
    <2> QED
      BY <2>4
  <1>2. ASSUME NEW powers PROVE SetSpreadingFactorsUp(powers) \in 0 .. 5
    <2> DEFINE above == {i \in 0 .. 5 : Max(powers) > At(EndDeviceSensitivity, i)}
    <2>1. SetSpreadingFactorsUp(powers) = IF above = {} THEN 0 ELSE 5 - Min(above)
      BY DEF SetSpreadingFactorsUp
    <2>2. above \in SUBSET (0 .. 5)
      OBVIOUS
    <2> HIDE DEF above
    <2>3. above # {} => Min(above) \in 0 .. 5
      BY <1>1, <2>2
    <2> QED
      BY <2>1, <2>3
  <1>3. ASSUME NEW draw PROVE SetSpreadingFactorsGivenDistribution(Shares, draw) \in 0 .. 5
    <2> DEFINE above == {i \in 0 .. 4 : draw < At(Shares, i)}
               exact == draw \in {At(Shares, i) : i \in 0 .. 4}
    <2>1. SetSpreadingFactorsGivenDistribution(Shares, draw) =
              IF above = {} \/ exact THEN 0 ELSE 5 - Min(above)
      BY DEF SetSpreadingFactorsGivenDistribution
    <2>2. above \in SUBSET (0 .. 5)
      OBVIOUS
    <2> HIDE DEF above, exact
    <2>3. above # {} => Min(above) \in 0 .. 5
      BY <1>1, <2>2
    <2> QED
      BY <2>1, <2>3
  <1> QED
    BY <1>2, <1>3 DEF InitialDataRates

LEMMA FirstPlan == Plan(Channels(Region))
  <1>1. \A f \in Nat : /\ LogicalChannel(f, 0, 5) \in Channel
                       /\ LogicalChannel(f, 0, 5).minDr = 0 /\ LogicalChannel(f, 0, 5).maxDr = 5
    BY DEF LogicalChannel, Channel
  <1>2. \A i \in 0 .. 2 : \E f \in Nat : EuChannels[i] = LogicalChannel(f, 0, 5)
    BY SMT DEF EuChannels
  <1>3. \A i \in {0} : \E f \in Nat : AlohaChannels[i] = LogicalChannel(f, 0, 5)
    BY SMT DEF AlohaChannels
  <1>4. Region \in {"ALOHA", "EU", "SingleChannel"}
    BY RegionAssumption DEF Regions
  <1>5. ASSUME NEW i \in Home
        PROVE  \E f \in Nat : Channels(Region)[i] = LogicalChannel(f, 0, 5)
    <2>1. CASE Region = "EU"
      <3>1. Channels(Region) = EuChannels /\ i \in 0 .. 2
        BY <2>1, HomeChannels DEF Channels
      <3> QED
        BY <1>2, <3>1, Zenon
    <2>2. CASE Region # "EU"
      <3>1. Channels(Region) = AlohaChannels /\ i \in {0}
        BY <1>4, <2>2, HomeChannels, SMT DEF Channels, SingleChannelChannels
      <3> QED
        BY <1>3, <3>1, Zenon
    <2> QED
      BY <2>1, <2>2
  <1>6. DOMAIN Channels(Region) = Home
    BY DEF Home
  <1> QED
    BY <1>1, <1>5, <1>6 DEF Plan

LEMMA NewDeviceTyped ==
    ASSUME NEW dr \in 0 .. 5, NEW adr \in BOOLEAN
    PROVE  LET d == NewDevice(Region, dr, adr)
           IN  /\ Device(d) /\ d.dr = dr /\ d.power = 14 /\ d.adr = adr /\ d.adrAckCnt = 0
               /\ d.fault = "none" /\ d.channels = Channels(Region)
  <1> DEFINE plan == Channels(Region)
             d == NewDevice(Region, dr, adr)
             f == SecondWindowFrequency
             r == SecondWindowDataRate
  <1>1. Plan(plan)
    BY FirstPlan
  <1>2. 14 \in Powers
    <2>1. 14 \in EvenPowers
      BY SMT DEF EvenPowers
    <2> QED
      BY <2>1, Powerful
  <1>3. d = [dr |-> dr, power |-> 14, nbTrans |-> 1, adr |-> adr, region |-> Region,
             channels |-> plan, commands |-> <<>>, adrAckCnt |-> 0, adrAckReq |-> FALSE,
             rx1DrOffset |-> 0, rx2Dr |-> r, rx2Frequency |-> f, linkMargin |-> 0,
             gatewayCount |-> 0, lastSnr |-> 32, dutyCycleExponent |-> 0, fault |-> "none"]
    BY DEF NewDevice
  <1> HIDE DEF plan, d, f, r
  <1>4. /\ d.dr = dr /\ d.power = 14 /\ d.nbTrans = 1 /\ d.adr = adr /\ d.region = Region
        /\ d.channels = plan /\ d.adrAckCnt = 0 /\ d.rx1DrOffset = 0 /\ d.fault = "none"
    BY <1>3
  <1>5. DOMAIN d = DeviceFields
    BY <1>3 DEF DeviceFields
  <1>6. Device(d)
    BY <1>1, <1>2, <1>4, <1>5 DEF Device, Faults
  <1> QED
    BY <1>4, <1>6 DEF d, plan

LEMMA InitTyped == Init => TInv /\ dev.fault = "none" /\ dev.power = 14
  <1> SUFFICES ASSUME Init PROVE TInv /\ dev.fault = "none" /\ dev.power = 14
    OBVIOUS
  <1>1. PICK adr \in BOOLEAN, dr \in InitialDataRates : dev = NewDevice(Region, dr, adr)
    BY DEF Init
  <1>2. dr \in 0 .. 5
    BY InitialRates
  <1>3. Device(dev) /\ dev.power = 14 /\ dev.adrAckCnt = 0 /\ dev.fault = "none"
    BY <1>1, <1>2, NewDeviceTyped
  <1>4. CountLimit \in Nat
    BY AdrAckAssumption DEF CountLimit
  <1>5. /\ pathLoss \in PathLosses /\ method \in Methods /\ storm \in BOOLEAN
        /\ phase = "idle" /\ listenDr = 0 /\ reply = NoReply
        /\ postponed = {} /\ resting = {} /\ history = <<>> /\ requests \in RequestSets
    BY DEF Init
  <1>6. Reply
    BY <1>5 DEF Reply, NoReply
  <1>7. history \in Seq(Receptions(pathLoss)) /\ Len(history) <= HistoryRange
    BY <1>5, HistoryAssumption
  <1>8. dev.adrAckCnt <= CountLimit + 1 /\ (postponed # {} => dev.adrAckCnt <= CountLimit)
    BY <1>3, <1>4, <1>5
  <1>9. requests \subseteq Requests
    BY <1>5 DEF Requests
  <1> QED
    BY <1>3, <1>5, <1>6, <1>7, <1>8, <1>9 DEF TInv

\* A packet of any size.
Application == \E payload \in AppPayloads : AppSend(payload)

LEMMA AppSendCases ==
    ASSUME TInv, Application
    PROVE  LET d == EvaluateBackoff(dev)
           IN  /\ Backs(dev, d) /\ d.adrAckCnt <= CountLimit
               /\ \/ Refuse(d)
                  \/ AssertsInBand(d.channels, Bands(Region)) /\ Refuse(Throw(d, "out of band"))
                  \/ ~AssertsInBand(d.channels, Bands(Region)) /\ Postpone(d) /\ Compatible(d) # {}
                  \/ /\ phase \notin {"open", "down"} /\ FreeBands(d) # {} /\ DoSend(d)
                     /\ ~AssertsInBand(d.channels, Bands(Region))
  <1> DEFINE d == EvaluateBackoff(dev)
  <1>1. Backs(dev, d) /\ d.adrAckCnt <= CountLimit
    BY EvaluateBacks DEF TInv
  <1>2. PICK payload \in AppPayloads :
        IF d.fault # "none" \/ ~IsPayloadSizeValid(d, payload) THEN Refuse(d)
        ELSE IF AssertsInBand(d.channels, Bands(Region)) THEN Refuse(Throw(d, "out of band"))
        ELSE IF Compatible(d) = {} THEN Refuse(d)
        ELSE IF phase \in {"open", "down"} \/ FreeBands(d) = {} THEN Postpone(d)
        ELSE DoSend(d)
    BY Zenon DEF Application, AppSend
  <1> HIDE DEF d
  <1>3. \/ Refuse(d)
        \/ AssertsInBand(d.channels, Bands(Region)) /\ Refuse(Throw(d, "out of band"))
        \/ ~AssertsInBand(d.channels, Bands(Region)) /\ Postpone(d) /\ Compatible(d) # {}
        \/ /\ phase \notin {"open", "down"} /\ FreeBands(d) # {} /\ DoSend(d)
           /\ ~AssertsInBand(d.channels, Bands(Region))
    BY <1>2, Zenon
  <1> QED
    BY <1>1, <1>3 DEF d

\* Where the device changes and the uplink does not.
LEMMA DeviceStepTyped ==
    ASSUME TInv, Device(dev'), dev'.adr = dev.adr, dev'.adrAckCnt <= CountLimit,
           UNCHANGED <<config, storm, reply, history, phase, frame, listenDr, resting>>,
           requests' \subseteq requests, postponed' \subseteq DOMAIN Bands(Region)
    PROVE  TInv'
  <1>1. SentFrame => SentFrame'
    BY DEF SentFrame
  <1>2. Reply'
    BY DEF TInv, Reply
  <1>3. CountLimit \in Nat /\ dev'.adrAckCnt \in Nat
    BY AdrAckAssumption DEF CountLimit, Device
  <1>4. dev'.adrAckCnt <= CountLimit + 1
    BY <1>3
  <1>5. UNCHANGED <<pathLoss, method>>
    BY DEF config
  <1> QED
    BY <1>1, <1>2, <1>4, <1>5 DEF TInv

\* Where the device goes to the radio.
LEMMA SendStepTyped ==
    ASSUME TInv, NEW d, Device(d), d.adr = dev.adr, d.adrAckCnt <= CountLimit,
           phase \in {"idle", "up"}, DoSend(d), UNCHANGED <<config, storm, reply, history, requests>>
    PROVE  TInv'
  <1>1. /\ Device(dev') /\ dev'.adr = dev.adr /\ dev'.adrAckCnt <= CountLimit + 1
        /\ postponed' = {} /\ phase' \in {"idle", "up"} /\ (phase' # "idle" => SentFrame')
        /\ listenDr' \in 0 .. 6 /\ resting' \subseteq DOMAIN Bands(Region)
    BY DoSendTypes
  <1>2. UNCHANGED <<pathLoss, method>>
    BY DEF config
  <1>3. Reply'
    BY <1>1 DEF TInv, Reply
  <1> QED
    BY <1>1, <1>2, <1>3 DEF TInv

LEMMA NextTyped == TInv /\ [Next]_vars => TInv'
  <1> SUFFICES ASSUME TInv, [Next]_vars PROVE TInv'
    OBVIOUS
  <1>1. /\ Device(dev) /\ CountLimit \in Nat
        /\ dev.adrAckCnt <= CountLimit + 1 /\ (postponed # {} => dev.adrAckCnt <= CountLimit)
        /\ postponed \subseteq DOMAIN Bands(Region) /\ resting \subseteq DOMAIN Bands(Region)
    BY AdrAckAssumption DEF TInv, CountLimit
  <1>2. CASE Application
    <2> DEFINE d == EvaluateBackoff(dev)
    <2>1. /\ Backs(dev, d) /\ d.adrAckCnt <= CountLimit
          /\ \/ Refuse(d)
             \/ AssertsInBand(d.channels, Bands(Region)) /\ Refuse(Throw(d, "out of band"))
             \/ ~AssertsInBand(d.channels, Bands(Region)) /\ Postpone(d) /\ Compatible(d) # {}
             \/ /\ phase \notin {"open", "down"} /\ FreeBands(d) # {} /\ DoSend(d)
                /\ ~AssertsInBand(d.channels, Bands(Region))
      BY <1>2, AppSendCases, Zenon
    <2> HIDE DEF d
    <2>2. UNCHANGED <<config, storm, reply, history, requests>>
      BY <1>2 DEF Application, AppSend
    <2>3. Device(d) /\ d.adr = dev.adr
      BY <2>1 DEF Backs
    <2>4. CASE Refuse(d)
      BY <1>1, <2>1, <2>2, <2>3, <2>4, DeviceStepTyped DEF Refuse
    <2>5. CASE Refuse(Throw(d, "out of band"))
      <3>1. /\ dev' = Throw(d, "out of band")
            /\ UNCHANGED <<phase, frame, listenDr, postponed, resting>>
        BY <2>5 DEF Refuse
      <3>2. "out of band" \in Faults
        BY DEF Faults
      <3>3. Device(dev') /\ dev'.adr = d.adr /\ dev'.adrAckCnt = d.adrAckCnt
        BY <2>3, <3>1, <3>2, Thrown
      <3> QED
        BY <1>1, <2>1, <2>2, <2>3, <3>1, <3>3, DeviceStepTyped
    <2>6. CASE ~AssertsInBand(d.channels, Bands(Region)) /\ Postpone(d)
      <3>1. dev' = d /\ postponed' = BandsFor(d) /\ UNCHANGED <<phase, frame, listenDr, resting>>
        BY <2>6 DEF Postpone, BandsFor
      <3>2. postponed' \subseteq DOMAIN Bands(Region)
        BY <2>6, <3>1, CompatibleBands
      <3> QED
        BY <2>1, <2>2, <2>3, <3>1, <3>2, DeviceStepTyped
    <2>7. CASE phase \notin {"open", "down"} /\ DoSend(d)
      <3>1. phase \in {"idle", "up"}
        BY <2>7 DEF TInv
      <3> QED
        BY <2>1, <2>2, <2>3, <2>7, <3>1, SendStepTyped
    <2> QED
      BY <2>1, <2>4, <2>5, <2>6, <2>7
  <1>3. CASE RunDoSend
    <2>1. phase = "idle" /\ DoSend(dev) /\ UNCHANGED <<config, storm, reply, history, requests>>
      BY <1>3 DEF RunDoSend
    <2>2. dev.adrAckCnt <= CountLimit
      BY <1>1, <1>3 DEF RunDoSend
    <2> QED
      BY <1>1, <2>1, <2>2, SendStepTyped
  <1>4. CASE Rested
    <2>1. /\ resting' \subseteq resting
          /\ UNCHANGED <<dev, config, storm, phase, frame, listenDr, reply, postponed, history, requests>>
      BY <1>4 DEF Rested
    <2>2. UNCHANGED <<pathLoss, method>>
      BY <2>1 DEF config
    <2>3. Reply' /\ (SentFrame => SentFrame')
      BY <2>1 DEF TInv, Reply, SentFrame
    <2> QED
      BY <2>1, <2>2, <2>3 DEF TInv
  <1>5. CASE AddLinkCheck
    <2>1. /\ \E a : dev' = [dev EXCEPT !.commands = Append(@, a)]
          /\ requests' \subseteq requests
          /\ UNCHANGED <<config, storm, phase, frame, listenDr, reply, postponed, resting, history>>
      BY <1>5 DEF AddLinkCheck
    <2>2. Same(dev, dev')
      BY <1>1, <2>1, Answered DEF Answer
    <2>3. Device(dev') /\ dev'.adr = dev.adr /\ dev'.adrAckCnt = dev.adrAckCnt
      BY <1>1, <2>2, SameDevice DEF Same
    <2>4. UNCHANGED <<pathLoss, method>>
      BY <2>1 DEF config
    <2>5. Reply' /\ (SentFrame => SentFrame')
      BY <2>1, <2>3 DEF TInv, Reply, SentFrame
    <2> QED
      BY <2>1, <2>3, <2>4, <2>5 DEF TInv
  <1>6. CASE UplinkArrives
    <2>1. /\ phase = "up" /\ phase' = "open"
          /\ UNCHANGED <<dev, config, storm, frame, listenDr, postponed, resting, requests>>
      BY <1>6 DEF UplinkArrives
    <2>2. UNCHANGED <<pathLoss, method>>
      BY <2>1 DEF config
    <2>3. SentFrame'
      BY <2>1 DEF TInv, SentFrame
    <2>4. \/ UNCHANGED <<history, reply>>
          \/ \E heard \in (SUBSET DOMAIN pathLoss) \ {{}} :
                /\ history' = Insert(history, [g \in heard |-> RxPowers(frame.power)[g]])
                /\ reply' = [NoReply EXCEPT !.needed = frame.adrAckReq, !.window = 1]
      BY <1>6 DEF UplinkArrives, Heard
    <2>5. CASE UNCHANGED <<history, reply>>
      <3>1. Reply'
        BY <2>1, <2>5 DEF TInv, Reply
      <3> QED
        BY <2>1, <2>2, <2>3, <2>5, <3>1 DEF TInv
    <2>6. ASSUME NEW heard \in (SUBSET DOMAIN pathLoss) \ {{}},
                 history' = Insert(history, [g \in heard |-> RxPowers(frame.power)[g]]),
                 reply' = [NoReply EXCEPT !.needed = frame.adrAckReq, !.window = 1]
          PROVE  TInv'
      <3> DEFINE rx == [g \in heard |-> RxPowers(frame.power)[g]]
                 R == Receptions(pathLoss)
      <3>1. rx \in R
        <4>1. ASSUME NEW g \in heard PROVE RxPowers(frame.power)[g] \in Int
          <5>1. pathLoss[g] \in Int
            BY PathLossAssumption DEF TInv
          <5>2. frame.power \in Int
            <6>1. frame.power \in Powers
              BY <2>1 DEF TInv, SentFrame
            <6> QED
              BY <6>1, Indices
          <5>3. RxPowers(frame.power)[g] = Db * frame.power - pathLoss[g]
            BY DEF RxPowers
          <5> QED
            BY <5>1, <5>2, <5>3 DEF Db
        <4> QED
          BY <4>1 DEF Receptions
      <3>2. history \in Seq(R) /\ Len(history) <= HistoryRange
        BY DEF TInv
      <3>3. history' = Insert(history, rx)
        BY <2>6
      <3> HIDE DEF rx, R
      <3>4. history' \in Seq(R) /\ Len(history') <= HistoryRange /\ history' # <<>>
        BY <3>1, <3>2, <3>3, Inserted
      <3>5. reply'.window = 1 /\ reply'.commands = <<>> /\ reply'.target = <<>>
        BY <2>6 DEF NoReply
      <3>6. Reply'
        BY <2>1, <3>4, <3>5 DEF Reply
      <3> QED
        BY <2>1, <2>2, <2>3, <3>4, <3>6 DEF TInv, R
    <2> QED
      BY <2>4, <2>5, <2>6
  <1>7. CASE OnReceiveWindowOpportunity
    <2>1. /\ phase = "open" /\ reply.window > 0
          /\ UNCHANGED <<dev, config, storm, frame, listenDr, postponed, resting, history>>
      BY <1>7 DEF OnReceiveWindowOpportunity
    <2>2. PICK window \in {1, 2}, extra \in {{}} \cup {{r} : r \in requests} :
             /\ requests' = requests \ extra
             /\ IF reply.needed \/ BeforeSendingReply \o SetToSeq(extra) # <<>>
                THEN /\ phase' = "down"
                     /\ reply' = [needed |-> TRUE, window |-> window,
                                  commands |-> BeforeSendingReply \o SetToSeq(extra),
                                  target |-> IF AdrAnswer = <<>> THEN <<>> ELSE <<AdrTarget>>,
                                  dr |-> IF window = 1 THEN GetFirstReceiveWindowDataRate(dev)
                                                       ELSE dev.rx2Dr]
                ELSE reply' = NoReply /\ UNCHANGED phase
      BY <1>7 DEF OnReceiveWindowOpportunity
    <2>3. UNCHANGED <<pathLoss, method>>
      BY <2>1 DEF config
    <2>4. SentFrame /\ (SentFrame => SentFrame')
      BY <2>1 DEF TInv, SentFrame
    <2>5. Reply'
      <3>1. CASE reply' = NoReply /\ UNCHANGED phase
        BY <3>1 DEF Reply, NoReply
      <3>2. CASE /\ phase' = "down"
                 /\ reply' = [needed |-> TRUE, window |-> window,
                              commands |-> BeforeSendingReply \o SetToSeq(extra),
                              target |-> IF AdrAnswer = <<>> THEN <<>> ELSE <<AdrTarget>>,
                              dr |-> IF window = 1 THEN GetFirstReceiveWindowDataRate(dev)
                                                   ELSE dev.rx2Dr]
        <4>1. /\ reply'.window = window /\ reply'.commands = BeforeSendingReply \o SetToSeq(extra)
              /\ reply'.target = IF AdrAnswer = <<>> THEN <<>> ELSE <<AdrTarget>>
          BY <3>2
        <4>2. BeforeSendingReply \o SetToSeq(extra) \in Seq(Command)
          BY <2>1, AnswerTyped
        <4>3. history # <<>>
          BY <2>1 DEF TInv, Reply
        <4>4. AdrTarget \in Target /\ (AdrAnswer # <<>> => frame.adr)
          BY <2>1, AdrAnswerTyped
        <4>5. reply'.target # <<>> => dev'.adr
          BY <2>1, <2>4, <4>1, <4>4 DEF SentFrame
        <4>6. window \in Nat
          OBVIOUS
        <4> HIDE DEF Target
        <4> QED
          BY <2>1, <3>2, <4>1, <4>2, <4>3, <4>4, <4>5, <4>6 DEF Reply
      <3> QED
        BY <2>2, <3>1, <3>2
    <2>6. phase' \in {"open", "down"} /\ requests' \subseteq requests
      BY <2>1, <2>2
    <2> QED
      BY <2>1, <2>3, <2>4, <2>5, <2>6 DEF TInv
  <1>8. CASE WindowsClose
    <2>1. /\ phase' = "idle" /\ reply' = NoReply /\ postponed' \in {postponed, {}}
          /\ UNCHANGED <<dev, config, storm, frame, listenDr, resting, history, requests>>
      BY <1>8 DEF WindowsClose
    <2>2. UNCHANGED <<pathLoss, method>>
      BY <2>1 DEF config
    <2>3. Reply'
      BY <2>1 DEF Reply, NoReply
    <2> QED
      BY <2>1, <2>2, <2>3 DEF TInv
  <1>9. CASE ReceiveReply
    <2>1. /\ dev' \in Receive(dev, reply.commands, DownlinkSnr) /\ phase' = "idle" /\ reply' = NoReply
          /\ UNCHANGED <<config, storm, frame, listenDr, postponed, resting, history, requests>>
      BY <1>9 DEF ReceiveReply
    <2>2. reply.commands \in Seq(Command)
      BY DEF TInv, Reply
    <2>3. Device(dev') /\ dev'.adrAckCnt = 0
      BY <1>1, <2>1, <2>2, ReceiveKeeps
    <2>4. UNCHANGED <<pathLoss, method>>
      BY <2>1 DEF config
    <2>5. Reply'
      BY <2>1 DEF Reply, NoReply
    <2>6. dev'.adrAckCnt <= CountLimit /\ dev'.adrAckCnt <= CountLimit + 1
      BY <1>1, <2>3
    <2> QED
      BY <2>1, <2>3, <2>4, <2>5, <2>6 DEF TInv
  <1>10. CASE StormEnds
    <2>1. /\ storm' = FALSE
          /\ UNCHANGED <<dev, config, phase, frame, listenDr, reply, postponed, resting, history, requests>>
      BY <1>10 DEF StormEnds
    <2>2. UNCHANGED <<pathLoss, method>>
      BY <2>1 DEF config
    <2>3. Reply' /\ (SentFrame => SentFrame')
      BY <2>1 DEF TInv, Reply, SentFrame
    <2> QED
      BY <2>1, <2>2, <2>3 DEF TInv
  <1>11. CASE UNCHANGED vars
    <2>1. UNCHANGED <<dev, pathLoss, method, storm, phase, frame, listenDr, reply, postponed, resting,
                      history, requests>>
      BY <1>11 DEF vars
    <2>2. Reply' /\ (SentFrame => SentFrame')
      BY <2>1 DEF TInv, Reply, SentFrame
    <2> QED
      BY <2>1, <2>2 DEF TInv
  <1> QED
    BY <1>2, <1>3, <1>4, <1>5, <1>6, <1>7, <1>8, <1>9, <1>10, <1>11 DEF Next, Uplink, Application

LEMMA TypesFollow == TInv => TypeOK
  <1> SUFFICES ASSUME TInv PROVE TypeOK
    OBVIOUS
  <1>1. dev.adrAckCnt \in Nat /\ dev.adrAckCnt <= CountLimit + 1 /\ CountLimit \in Nat
    BY AdrAckAssumption DEF TInv, Device, CountLimit
  <1>2. dev.adrAckCnt \in 0 .. CountLimit + 1
    BY <1>1
  <1>3. dev.adrAckCnt \in 0 .. ADR_ACK_LIMIT + ADR_ACK_DELAY + 1
    BY <1>2 DEF CountLimit
  <1> QED
    BY <1>3 DEF TInv, Device, TypeOK, Powers, Faults

(* Whatever the link and whatever other controllers ask for, data rate, power *)
(* and offset of the device stay in the tables that are read with them, and   *)
(* the counter of the backoff stays at most one above its limit: the          *)
(* assertion of EndDeviceLorawanMac::Send.                                    *)
THEOREM TypesKept == Spec => []TypeOK
  <1>1. Init => TInv
    BY InitTyped
  <1>2. TInv /\ [Next]_vars => TInv'
    BY NextTyped
  <1>3. TInv => TypeOK
    BY TypesFollow
  <1> QED
    BY <1>1, <1>2, <1>3, PTL DEF Spec

------------------------------------------------------------------------------
(* The order of the ADR component and what becomes of it.                     *)

(* No controller but the ADR component sends LinkAdrReq, as in the module.    *)
LeaveAdr == \A r \in Requests : r.type # "LinkAdrReq"

(* The commands cs hold LinkAdrReq or not, and no other one than c.           *)
OnlyAdr(cs, some, c) == /\ Adrs(cs) # {} <=> some
                        /\ \A i \in Adrs(cs) : cs[i] = c

LEMMA JoinedAdr ==
    ASSUME NEW S, NEW s \in Seq(S), NEW t \in Seq(S), NEW c,
           NEW a, NEW b, OnlyAdr(s, a, c), OnlyAdr(t, b, c)
    PROVE  OnlyAdr(s \o t, a \/ b, c)
  <1> DEFINE u == s \o t
             m == Len(s)
             n == Len(t)
  <1>1. m \in Nat /\ n \in Nat /\ Len(u) = m + n
    OBVIOUS
  <1>2. \A i \in 1 .. m + n : u[i] = IF i <= m THEN s[i] ELSE t[i - m]
    OBVIOUS
  <1> HIDE DEF u
  <1>3. ASSUME NEW i \in Adrs(u) PROVE (i \in Adrs(s) /\ u[i] = s[i]) \/ (i - m \in Adrs(t) /\ u[i] = t[i - m])
    <2>1. i \in 1 .. m + n /\ u[i].type = "LinkAdrReq"
      BY <1>1 DEF Adrs
    <2>2. CASE i <= m
      <3>1. i \in 1 .. m /\ u[i] = s[i]
        BY <1>1, <1>2, <2>1, <2>2
      <3> QED
        BY <2>1, <3>1 DEF Adrs
    <2>3. CASE ~(i <= m)
      <3>1. i - m \in 1 .. n /\ u[i] = t[i - m]
        BY <1>1, <1>2, <2>1, <2>3
      <3> QED
        BY <2>1, <3>1 DEF Adrs
    <2> QED
      BY <2>2, <2>3
  <1>4. ASSUME NEW i \in Adrs(s) PROVE i \in Adrs(u)
    <2>1. i \in 1 .. m /\ s[i].type = "LinkAdrReq"
      BY DEF Adrs
    <2>2. i \in 1 .. m + n /\ u[i] = s[i]
      BY <1>1, <1>2, <2>1
    <2> QED
      BY <1>1, <2>1, <2>2 DEF Adrs
  <1>5. ASSUME NEW i \in Adrs(t) PROVE i + m \in Adrs(u)
    <2>1. i \in 1 .. n /\ t[i].type = "LinkAdrReq"
      BY DEF Adrs
    <2>2. i + m \in 1 .. m + n /\ ~(i + m <= m) /\ (i + m) - m = i
      BY <1>1, <2>1
    <2>3. u[i + m] = t[i]
      BY <1>2, <2>2
    <2> QED
      BY <1>1, <2>1, <2>2, <2>3 DEF Adrs
  <1> HIDE DEF m, n
  <1>6. \A i \in Adrs(u) : u[i] = c
    BY <1>3 DEF OnlyAdr
  <1>7. Adrs(u) # {} => a \/ b
    BY <1>3 DEF OnlyAdr
  <1>8. a \/ b => Adrs(u) # {}
    BY <1>4, <1>5 DEF OnlyAdr
  <1> QED
    BY <1>6, <1>7, <1>8 DEF OnlyAdr, u

LEMMA NoneAdr == \A c : OnlyAdr(<<>>, FALSE, c)
  <1>1. 1 .. 0 = {} /\ Len(<<>>) = 0
    OBVIOUS
  <1> QED
    BY <1>1 DEF OnlyAdr, Adrs

LEMMA OneAdr == \A c, r : /\ r.type # "LinkAdrReq" => OnlyAdr(<<r>>, FALSE, c)
                          /\ c.type = "LinkAdrReq" => OnlyAdr(<<c>>, TRUE, c)
  <1>1. \A r : /\ r.type # "LinkAdrReq" => Adrs(<<r>>) = {}
               /\ r.type = "LinkAdrReq" => Adrs(<<r>>) = {1}
    BY DEF Adrs
  <1>2. \A c, r : r.type # "LinkAdrReq" => OnlyAdr(<<r>>, FALSE, c)
    BY <1>1 DEF OnlyAdr
  <1>3. ASSUME NEW c, c.type = "LinkAdrReq" PROVE OnlyAdr(<<c>>, TRUE, c)
    <2>1. Adrs(<<c>>) = {1} /\ <<c>>[1] = c
      BY <1>1, <1>3
    <2>2. Adrs(<<c>>) # {} /\ \A i \in Adrs(<<c>>) : i = 1
      BY <2>1
    <2> QED
      BY <2>1, <2>2, Zenon DEF OnlyAdr
  <1> QED
    BY <1>2, <1>3

LEMMA AnswerAdrs ==
    ASSUME TInv, reply.window > 0, LeaveAdr,
           NEW extra, extra = {} \/ \E r \in requests : extra = {r}
    PROVE  OnlyAdr(BeforeSendingReply \o SetToSeq(extra), AdrAnswer # <<>>, LinkAdrRequest(AdrTarget))
  <1> DEFINE c == LinkAdrRequest(AdrTarget)
  <1>1. /\ LinkCheckAnswer \in Seq(Command) /\ OnlyAdr(LinkCheckAnswer, FALSE, c)
    <2>1. CASE LinkCheckAnswer = <<>>
      BY <2>1, NoneAdr, Listed, Zenon
    <2>2. CASE LinkCheckAnswer # <<>>
      <3>1. PICK a \in LinkCheckAnswers : LinkCheckAnswer = <<a>>
        BY <2>2, LinkCheckTyped
      <3>2. a.type # "LinkAdrReq" /\ a \in Command
        BY DEF LinkCheckAnswers, Command
      <3> HIDE DEF c
      <3> QED
        BY <3>1, <3>2, OneAdr, Listed, Zenon
    <2> QED
      BY <2>1, <2>2
  <1>2. AdrAnswer \in Seq(Command) /\ OnlyAdr(AdrAnswer, AdrAnswer # <<>>, c)
    <2>1. CASE AdrAnswer = <<>>
      <3>1. OnlyAdr(<<>>, FALSE, c) /\ <<>> \in Seq(Command)
        BY NoneAdr, Listed, Zenon
      <3> HIDE DEF c
      <3> QED
        BY <2>1, <3>1 DEF OnlyAdr
    <2>2. CASE AdrAnswer # <<>>
      <3>1. AdrAnswer = <<c>> /\ AdrTarget \in Target
        BY <2>2, AdrAnswerTyped
      <3>2. c \in LinkAdrReq /\ c.type = "LinkAdrReq"
        BY <3>1, RequestOfAdr
      <3>3. c \in Command
        BY <3>2 DEF Command
      <3> HIDE DEF c
      <3>4. OnlyAdr(<<c>>, TRUE, c) /\ <<c>> \in Seq(Command)
        BY <3>2, <3>3, OneAdr, Listed, Zenon
      <3> QED
        BY <2>2, <3>1, <3>4 DEF OnlyAdr
    <2> QED
      BY <2>1, <2>2
  <1>3. SetToSeq(extra) \in Seq(Command) /\ OnlyAdr(SetToSeq(extra), FALSE, c)
    <2>1. CASE extra = {}
      BY <2>1, ListOfNone, NoneAdr, Listed, Zenon
    <2>2. CASE \E r \in requests : extra = {r}
      <3>1. PICK r \in requests : extra = {r}
        BY <2>2
      <3>2. r \in Command /\ r.type # "LinkAdrReq"
        BY RequestsAssumption DEF TInv, LeaveAdr, Command
      <3>3. SetToSeq(extra) = <<r>>
        BY <3>1, ListOfOne, Zenon
      <3> HIDE DEF c
      <3> QED
        BY <3>2, <3>3, OneAdr, Listed, Zenon
    <2> QED
      BY <2>1, <2>2
  <1> DEFINE some == AdrAnswer # <<>>
  <1> HIDE DEF c
  <1>4. BeforeSendingReply \in Seq(Command) /\ OnlyAdr(BeforeSendingReply, FALSE \/ some, c)
    <2>1. LinkCheckAnswer \o AdrAnswer \in Seq(Command)
      BY <1>1, <1>2, Joined
    <2>2. OnlyAdr(LinkCheckAnswer \o AdrAnswer, FALSE \/ some, c)
      BY <1>1, <1>2, JoinedAdr
    <2> QED
      BY <2>1, <2>2 DEF BeforeSendingReply
  <1>5. OnlyAdr(BeforeSendingReply \o SetToSeq(extra), (FALSE \/ some) \/ FALSE, c)
    BY <1>3, <1>4, JoinedAdr
  <1>6. ((FALSE \/ some) \/ FALSE) <=> some
    OBVIOUS
  <1> QED
    BY <1>5, <1>6 DEF OnlyAdr, c

(* The downlink holds the order of the ADR component, if it gave one.         *)
Told == OnlyAdr(reply.commands, reply.target # <<>>, LinkAdrRequest(reply.target[1]))

LEMMA ToldOfNone == \A r : r.commands = <<>> /\ r.target = <<>> =>
                        OnlyAdr(r.commands, r.target # <<>>, LinkAdrRequest(r.target[1]))
  <1> SUFFICES ASSUME NEW r, r.commands = <<>>, r.target = <<>>
               PROVE  OnlyAdr(r.commands, r.target # <<>>, LinkAdrRequest(r.target[1]))
    OBVIOUS
  <1> DEFINE c == LinkAdrRequest(r.target[1])
  <1> HIDE DEF c
  <1>1. OnlyAdr(<<>>, FALSE, c)
    BY NoneAdr, Zenon
  <1> QED
    BY <1>1 DEF OnlyAdr, c

(* What a step does to the reply.                                             *)
LEMMA ReplySteps ==
    ASSUME TInv, LeaveAdr, [Next]_vars
    PROVE  \/ UNCHANGED reply
           \/ reply'.commands = <<>> /\ reply'.target = <<>>
           \/ /\ OnReceiveWindowOpportunity /\ reply.window > 0
              /\ reply'.target = IF AdrAnswer = <<>> THEN <<>> ELSE <<AdrTarget>>
              /\ OnlyAdr(reply'.commands, AdrAnswer # <<>>, LinkAdrRequest(AdrTarget))
  <1>1. CASE Application \/ RunDoSend \/ Rested \/ AddLinkCheck \/ StormEnds \/ UNCHANGED vars
    BY <1>1 DEF Application, AppSend, RunDoSend, Rested, AddLinkCheck, StormEnds, vars
  <1>2. CASE UplinkArrives
    <2>1. UNCHANGED reply \/ reply' = [NoReply EXCEPT !.needed = frame.adrAckReq, !.window = 1]
      BY <1>2 DEF UplinkArrives
    <2> QED
      BY <2>1 DEF NoReply
  <1>3. CASE WindowsClose \/ ReceiveReply
    BY <1>3 DEF WindowsClose, ReceiveReply, NoReply
  <1>4. CASE OnReceiveWindowOpportunity
    <2>1. reply.window > 0
      BY <1>4 DEF OnReceiveWindowOpportunity
    <2>2. PICK window \in {1, 2}, extra \in {{}} \cup {{r} : r \in requests} :
             \/ reply' = NoReply
             \/ reply' = [needed |-> TRUE, window |-> window,
                          commands |-> BeforeSendingReply \o SetToSeq(extra),
                          target |-> IF AdrAnswer = <<>> THEN <<>> ELSE <<AdrTarget>>,
                          dr |-> IF window = 1 THEN GetFirstReceiveWindowDataRate(dev)
                                               ELSE dev.rx2Dr]
      BY <1>4 DEF OnReceiveWindowOpportunity
    <2>3. CASE reply' = NoReply
      BY <2>3 DEF NoReply
    <2>4. CASE reply' # NoReply
      <3>1. /\ reply'.commands = BeforeSendingReply \o SetToSeq(extra)
            /\ reply'.target = IF AdrAnswer = <<>> THEN <<>> ELSE <<AdrTarget>>
        BY <2>2, <2>4
      <3>2. extra = {} \/ \E r \in requests : extra = {r}
        OBVIOUS
      <3>3. OnlyAdr(BeforeSendingReply \o SetToSeq(extra), AdrAnswer # <<>>, LinkAdrRequest(AdrTarget))
        BY <2>1, <3>2, AnswerAdrs
      <3> QED
        BY <1>4, <2>1, <3>1, <3>3
    <2> QED
      BY <2>3, <2>4
  <1> QED
    BY <1>1, <1>2, <1>3, <1>4 DEF Next, Uplink, Application

LEMMA ToldKept == LeaveAdr /\ TInv /\ Told /\ [Next]_vars => Told'
  <1> SUFFICES ASSUME LeaveAdr, TInv, Told, [Next]_vars PROVE Told'
    OBVIOUS
  <1>1. CASE UNCHANGED reply
    BY <1>1 DEF Told
  <1>2. CASE reply'.commands = <<>> /\ reply'.target = <<>>
    <2> DEFINE r == reply'
    <2>1. r.commands = <<>> /\ r.target = <<>>
      BY <1>2
    <2>2. OnlyAdr(r.commands, r.target # <<>>, LinkAdrRequest(r.target[1]))
      <3> HIDE DEF r
      <3> QED
        BY <2>1, ToldOfNone, Zenon
    <2> QED
      BY <2>2 DEF Told
  <1>3. CASE /\ reply'.target = IF AdrAnswer = <<>> THEN <<>> ELSE <<AdrTarget>>
             /\ OnlyAdr(reply'.commands, AdrAnswer # <<>>, LinkAdrRequest(AdrTarget))
    <2> DEFINE cs == reply'.commands
               target == reply'.target
    <2>1. /\ target = IF AdrAnswer = <<>> THEN <<>> ELSE <<AdrTarget>>
          /\ OnlyAdr(cs, AdrAnswer # <<>>, LinkAdrRequest(AdrTarget))
      BY <1>3
    <2> HIDE DEF cs, target
    <2>2. target # <<>> <=> AdrAnswer # <<>>
      BY <2>1
    <2>3. AdrAnswer # <<>> => target[1] = AdrTarget
      BY <2>1
    <2>4. OnlyAdr(cs, target # <<>>, LinkAdrRequest(target[1]))
      <3>1. CASE AdrAnswer # <<>>
        <4>1. target[1] = AdrTarget
          BY <2>3, <3>1
        <4>2. OnlyAdr(cs, AdrAnswer # <<>>, LinkAdrRequest(target[1]))
          BY <2>1, <4>1, Zenon
        <4> DEFINE c == LinkAdrRequest(target[1])
        <4> HIDE DEF c
        <4> QED
          BY <2>2, <4>2 DEF OnlyAdr, c
      <3>2. CASE AdrAnswer = <<>>
        <4>1. Adrs(cs) = {}
          BY <2>1, <3>2 DEF OnlyAdr
        <4> DEFINE c == LinkAdrRequest(target[1])
        <4> HIDE DEF c
        <4> QED
          BY <2>2, <3>2, <4>1 DEF OnlyAdr, c
      <3> QED
        BY <3>1, <3>2
    <2> QED
      BY <2>4 DEF Told, cs, target
  <1> QED
    BY <1>1, <1>2, <1>3, ReplySteps

LEMMA InitTold == Init => Told
  <1> SUFFICES ASSUME Init PROVE Told
    OBVIOUS
  <1>1. reply.commands = <<>> /\ reply.target = <<>>
    BY DEF Init, NoReply
  <1> QED
    BY <1>1, ToldOfNone DEF Told

\* An order changes the device only when its downlink is received.
LEMMA OrderReceived ==
    ASSUME TInv, [Next]_vars, reply.target # <<>>, dev' # dev, phase' = "idle"
    PROVE  ReceiveReply
  <1>1. phase = "down"
    BY DEF TInv, Reply
  <1>2. CASE Application
    <2> DEFINE d == EvaluateBackoff(dev)
    <2>1. \/ Refuse(d)
          \/ Refuse(Throw(d, "out of band"))
          \/ Postpone(d)
      BY <1>1, <1>2, AppSendCases
    <2>2. phase' = phase
      BY <2>1 DEF Refuse, Postpone
    <2> QED
      BY <1>1, <2>2
  <1>3. CASE RunDoSend \/ UplinkArrives \/ OnReceiveWindowOpportunity
    BY <1>1, <1>3 DEF RunDoSend, UplinkArrives, OnReceiveWindowOpportunity
  <1>4. CASE Rested \/ StormEnds \/ WindowsClose \/ UNCHANGED vars
    BY <1>4 DEF Rested, StormEnds, WindowsClose, vars
  <1>5. CASE AddLinkCheck
    BY <1>1, <1>5 DEF AddLinkCheck
  <1> QED
    BY <1>2, <1>3, <1>4, <1>5 DEF Next, Uplink, Application

LEMMA OrderObeyed ==
    ASSUME TInv, Told, [Next]_vars, reply.target # <<>>, dev' # dev, phase' = "idle"
    PROVE  [dataRate |-> dev'.dr, txPower |-> dev'.power] = reply.target[1]
  <1> DEFINE t == reply.target[1]
  <1>1. Device(dev) /\ dev.adr /\ reply.commands \in Seq(Command)
    BY DEF TInv, Reply
  <1>2. t \in Target
    <2>1. PICK u \in Target : reply.target = <<u>>
      BY DEF TInv, Reply
    <2> QED
      BY <2>1
  <1>3. dev' \in Receive(dev, reply.commands, DownlinkSnr)
    BY OrderReceived DEF ReceiveReply
  <1>4. Adrs(reply.commands) # {} /\ \A i \in Adrs(reply.commands) : reply.commands[i] = LinkAdrRequest(t)
    BY DEF Told, OnlyAdr
  <1> HIDE DEF t
  <1>5. Follows(dev, t, Adrs(reply.commands) # {}, dev')
    BY <1>1, <1>2, <1>3, <1>4, ReceiveObeys
  <1>6. dev'.dr = t.dataRate /\ dev'.power = t.txPower
    BY <1>4, <1>5 DEF Follows
  <1>7. [dataRate |-> dev'.dr, txPower |-> dev'.power] = t
    BY <1>2, <1>6 DEF Target
  <1> QED
    BY <1>7 DEF t

(* If only the ADR component sends LinkAdrReq, what it asks for is what the   *)
(* device uses once it has heard of it: the power index and the mask of the   *)
(* request mean the same to OnLinkAdrReq as to AdrComponent, and the channels *)
(* of the device, whatever NewChannelReq made of them, never refuse it.       *)
THEOREM OrdersAreObeyed == ASSUME LeaveAdr PROVE Spec => AdrIsObeyed
  <1>1. Init => TInv /\ Told
    BY InitTyped, InitTold
  <1>2. TInv /\ Told /\ [Next]_vars => TInv' /\ Told'
    BY NextTyped, ToldKept
  <1>3. TInv /\ Told /\ [Next]_vars =>
            [reply.target # <<>> /\ dev' # dev /\ phase' = "idle" =>
                [dataRate |-> dev'.dr, txPower |-> dev'.power] = reply.target[1]]_vars
    BY OrderObeyed
  <1> QED
    BY <1>1, <1>2, <1>3, PTL DEF Spec, AdrIsObeyed

------------------------------------------------------------------------------
(* The margin of the link.                                                    *)

MarginWith(power, sf) == RxPowerToSNR(Db * power - BestLoss) - ThresholdOf(sf)

LEMMA Best ==
    ASSUME pathLoss \in PathLosses
    PROVE  BestLoss \in Int /\ \A g \in DOMAIN pathLoss : pathLoss[g] \in Int /\ BestLoss <= pathLoss[g]
  <1>1. Numbers(pathLoss)
    BY PathLossAssumption DEF Numbers
  <1> QED
    BY <1>1, ValuesOfNumbers DEF BestLoss, Numbers

LEMMA RateThresholds ==
    \A dr \in 0 .. 6 : ThresholdOf(GetSfFromDataRate(dr)) = -80 + 10 * (IF dr <= 5 THEN dr ELSE 5)
  <1>1. \A dr \in 0 .. 6 : GetSfFromDataRate(dr) = 12 - (IF dr <= 5 THEN dr ELSE 5)
    BY DEF GetSfFromDataRate, Throws, At, SfForDataRate
  <1>2. \A dr \in 0 .. 6 : 12 - (IF dr <= 5 THEN dr ELSE 5) \in SpreadingFactors
    BY DEF SpreadingFactors, minSpreadingFactor
  <1> SUFFICES ASSUME NEW dr \in 0 .. 6
               PROVE  ThresholdOf(GetSfFromDataRate(dr)) = -80 + 10 * (IF dr <= 5 THEN dr ELSE 5)
    OBVIOUS
  <1> DEFINE r == IF dr <= 5 THEN dr ELSE 5
  <1>3. r \in Int /\ 12 - r \in SpreadingFactors /\ GetSfFromDataRate(dr) = 12 - r
    BY <1>1, <1>2
  <1> HIDE DEF r
  <1>4. ThresholdOf(12 - r) = -80 + 10 * (12 - (12 - r))
    BY <1>3, Thresholds
  <1>5. ThresholdOf(GetSfFromDataRate(dr)) = -80 + 10 * r
    BY <1>3, <1>4
  <1> QED
    BY <1>5 DEF r

\* More power, or a lower data rate, is more margin.
LEMMA MoreMargin ==
    ASSUME pathLoss \in PathLosses, NEW d, Device(d), NEW e, Device(e),
           d.power <= e.power, e.dr <= d.dr
    PROVE  LinkMargin(d) \in Int /\ LinkMargin(e) \in Int /\ LinkMargin(d) <= LinkMargin(e)
  <1>1. BestLoss \in Int
    BY Best
  <1>2. d.dr \in 0 .. 6 /\ e.dr \in 0 .. 6 /\ d.power \in 0 .. 14 /\ e.power \in 0 .. 14
    BY Indices DEF Device
  <1> DEFINE a == ThresholdOf(GetSfFromDataRate(d.dr))
             b == ThresholdOf(GetSfFromDataRate(e.dr))
  <1>3. /\ a = -80 + 10 * (IF d.dr <= 5 THEN d.dr ELSE 5)
        /\ b = -80 + 10 * (IF e.dr <= 5 THEN e.dr ELSE 5)
    BY <1>2, RateThresholds
  <1> HIDE DEF a, b
  <1>4. a \in Int /\ b \in Int /\ b <= a
    BY <1>2, <1>3
  <1>5. /\ LinkMargin(d) = 4 * d.power - BestLoss + 468 - a
        /\ LinkMargin(e) = 4 * e.power - BestLoss + 468 - b
    BY <1>1, <1>2, <1>4 DEF LinkMargin, RxPowerToSNR, NoiseFloor, Db, a, b
  <1> QED
    BY <1>1, <1>2, <1>4, <1>5

(* The figures come from packets sent with the parameters of the frame, the   *)
(* power from the device: an order is only given when it leaves a margin.     *)
FrameMargin == MarginWith(frame.power, frame.sf)
Estimate == \E heard \in (SUBSET DOMAIN pathLoss) \ {{}} :
                Last(history) = [g \in heard |-> RxPowers(frame.power)[g]]

LossInv ==
    method[1] = "MINIMUM" =>
        /\ dev.power < 14 => LinkMargin(dev) >= 0
        /\ phase # "idle" => frame.power <= dev.power /\ (frame.power < 14 => FrameMargin >= 0)
        /\ reply.window > 0 => Estimate
        /\ reply.target # <<>> =>
              MarginWith(reply.target[1].txPower, GetSfFromDataRate(reply.target[1].dataRate)) >= 0

\* What the worst packet says is not better than the link.
LEMMA NotOptimistic ==
    ASSUME TInv, reply.window > 0, Estimate, method[1] = "MINIMUM"
    PROVE  LET snr == CombinedSNR(method[1], method[2], history)
           IN  /\ snr \in Ratios /\ snr.count = 1
               /\ snr.sum <= RxPowerToSNR(Db * frame.power - BestLoss)
  <1> DEFINE snr == CombinedSNR(method[1], method[2], history)
             rx == Last(history)
  <1>1. /\ history \in Seq(Receptions(pathLoss)) /\ history # <<>> /\ pathLoss \in PathLosses
        /\ method \in Methods
    BY DEF TInv, Reply
  <1>2. Packets(history)
    BY <1>1, PacketsOf
  <1>3. method[1] \in CombiningMethod /\ method[2] \in CombiningMethod
    BY <1>1, MethodsAssumption
  <1>4. snr \in Ratios /\ snr.count = 1 /\ snr.sum <= RxPowerToSNR(Max(Values(rx)))
    BY <1>2, <1>3, Combined
  <1>5. Numbers(rx)
    BY <1>2 DEF Packets, Last
  <1>6. frame.power \in 0 .. 14
    BY Indices DEF TInv, Reply, SentFrame
  <1>7. PICK heard \in (SUBSET DOMAIN pathLoss) \ {{}} : rx = [g \in heard |-> RxPowers(frame.power)[g]]
    BY DEF Estimate
  <1> HIDE DEF snr, rx
  <1>8. BestLoss \in Int /\ \A g \in DOMAIN pathLoss : pathLoss[g] \in Int /\ BestLoss <= pathLoss[g]
    BY <1>1, Best
  <1>9. ASSUME NEW g \in DOMAIN rx PROVE rx[g] <= Db * frame.power - BestLoss
    <2>1. g \in DOMAIN pathLoss /\ rx[g] = Db * frame.power - pathLoss[g]
      BY <1>7 DEF RxPowers
    <2> QED
      BY <1>6, <1>8, <2>1 DEF Db
  <1>10. Max(Values(rx)) \in Int /\ Max(Values(rx)) <= Db * frame.power - BestLoss
    <2>1. Max(Values(rx)) \in Values(rx) /\ Values(rx) \in SUBSET Int
      BY <1>5, ValuesOfNumbers
    <2>2. PICK g \in DOMAIN rx : Max(Values(rx)) = rx[g]
      BY <2>1 DEF Values
    <2> QED
      BY <1>9, <2>1, <2>2
  <1>11. snr.sum \in Int
    BY <1>4 DEF Ratios
  <1>12. snr.sum <= RxPowerToSNR(Db * frame.power - BestLoss)
    BY <1>4, <1>6, <1>8, <1>10, <1>11 DEF RxPowerToSNR, NoiseFloor, Db
  <1> QED
    BY <1>4, <1>12 DEF snr

LEMMA OrderKeepsMargin ==
    ASSUME TInv, LossInv, reply.window > 0, method[1] = "MINIMUM", AdrAnswer # <<>>
    PROVE  MarginWith(AdrTarget.txPower, GetSfFromDataRate(AdrTarget.dataRate)) >= 0
  <1> DEFINE snr == CombinedSNR(method[1], method[2], history)
             sf == frame.sf
             p == dev.power
             steps == Steps(snr, sf)
             k == SfDecrements(steps, sf)
             down == PowerDecrements(steps - k, p)
             up == PowerIncrements(steps, p)
             np == NewTxPower(snr, sf, p)
             x == IF ChangeTransmissionPower THEN np ELSE p
             fp == frame.power
  <1>1. /\ phase # "idle" /\ sf \in SpreadingFactors /\ fp \in 0 .. 14 /\ p \in EvenPowers /\ p \in 0 .. 14
        /\ pathLoss \in PathLosses
    <2>1. phase # "idle" /\ sf \in 7 .. 12 /\ fp \in Powers /\ p \in Powers /\ pathLoss \in PathLosses
      BY DEF TInv, Reply, SentFrame, Device
    <2> HIDE DEF sf, fp, p
    <2> QED
      BY <2>1, Powerful, Indices DEF SpreadingFactors, minSpreadingFactor
  <1>2. fp <= p /\ (fp < 14 => FrameMargin >= 0)
    BY <1>1 DEF LossInv
  <1>3. BestLoss \in Int
    BY <1>1, Best
  <1>4. snr \in Ratios /\ snr.count = 1 /\ snr.sum <= RxPowerToSNR(Db * fp - BestLoss)
    BY NotOptimistic DEF LossInv
  <1> HIDE DEF snr, sf, p
  <1>5. /\ k \in Nat /\ down \in Nat /\ up \in Nat
        /\ k <= sf - minSpreadingFactor
        /\ p - 2 * down + 2 * up \in 0 .. 14
        /\ steps >= 0 => k + down <= steps /\ up = 0
        /\ steps < 0 => k = 0 /\ down = 0
    BY <1>1, <1>4, Loops
  <1>6. np = p - 2 * down + 2 * up /\ NewSf(snr, sf) = sf - k
    BY DEF NewTxPower, NewSf
  <1>7. steps \in Int /\ (12 * snr.count) * steps <= snr.sum - snr.count * ThresholdOf(sf)
    BY <1>1, <1>4, StepsFit DEF StepSize, Db
  <1>8. AdrTarget = [dataRate |-> SfToDr(NewSf(snr, sf)), txPower |-> x]
    BY DEF AdrTarget, AdrImplementation, snr, sf, p
  <1>9. AdrTarget # [dataRate |-> SfToDr(sf), txPower |-> p]
    BY DEF AdrAnswer, sf, p
  <1> HIDE DEF k, down, up, np, steps
  <1>10. sf \in 7 .. 12 /\ sf - k \in SpreadingFactors
    BY <1>1, <1>5 DEF SpreadingFactors, minSpreadingFactor
  <1>11. /\ ThresholdOf(sf) = -80 + 10 * (12 - sf)
         /\ ThresholdOf(sf - k) = -80 + 10 * (12 - (sf - k))
         /\ GetSfFromDataRate(SfToDr(sf - k)) = sf - k
    BY <1>1, <1>10, Thresholds, DataRates
  <1> HIDE DEF sf
  <1>21. x \in Int /\ sf \in Int /\ k \in Int /\ fp \in Int
    BY <1>1, <1>5, <1>6, <1>10
  <1> HIDE DEF x
  <1>12. /\ AdrTarget.txPower = x /\ GetSfFromDataRate(AdrTarget.dataRate) = sf - k
    BY <1>6, <1>8, <1>11
  <1> DEFINE best == BestLoss
             sum == snr.sum
             m == FrameMargin
             after == MarginWith(x, sf - k)
  <1>13. m = 4 * fp - best + 468 - (-80 + 10 * (12 - sf))
    <2>1. m = MarginWith(fp, sf)
      BY DEF FrameMargin, sf
    <2> QED
      BY <1>3, <1>11, <1>21, <2>1 DEF MarginWith, RxPowerToSNR, NoiseFloor, Db
  <1>14. after = 4 * x - best + 468 - (-80 + 10 * (12 - (sf - k)))
    BY <1>3, <1>11, <1>21 DEF MarginWith, RxPowerToSNR, NoiseFloor, Db
  <1>15. sum \in Int /\ sum <= 4 * fp - best + 468
    BY <1>4 DEF Ratios, RxPowerToSNR, NoiseFloor, Db
  <1>16. 12 * steps <= sum - (-80 + 10 * (12 - sf))
    BY <1>4, <1>7, <1>10, <1>11, <1>15
  <1>17. best \in Int
    BY <1>3
  <1> HIDE DEF best, sum, m, after, fp
  <1>18. fp \in Int /\ p \in Int /\ sf \in Int
    BY <1>1, <1>10
  <1>19. CASE steps >= 0
    <2>1. up = 0 /\ k + down <= steps
      BY <1>5, <1>19
    <2>2. x \in Int /\ x >= p - 2 * down
      BY <1>5, <1>6, <1>18, <2>1 DEF x
    <2>3. 12 * steps <= m
      BY <1>7, <1>13, <1>15, <1>16, <1>17, <1>18
    <2>4. after >= m - 8 * down - 10 * k
      BY <1>2, <1>5, <1>13, <1>14, <1>17, <1>18, <2>2
    <2>5. m \in Int /\ after \in Int
      BY <1>5, <1>13, <1>14, <1>17, <1>18, <2>2
    <2>6. after >= 0
      BY <1>5, <1>7, <2>1, <2>3, <2>4, <2>5
    <2> QED
      BY <1>12, <2>6 DEF after
  <1>20. CASE steps < 0
    <2>1. k = 0 /\ down = 0 /\ NewSf(snr, sf) = sf
      BY <1>5, <1>6, <1>18, <1>20
    <2>2. x # p
      BY <1>8, <1>9, <2>1
    <2>3. x = p + 2 * up /\ up # 0
      BY <1>5, <1>6, <1>18, <2>1, <2>2 DEF x
    <2>4. p < 14
      BY <1>5, <1>18, <2>1, <2>3
    <2>5. m >= 0
      BY <1>2, <1>18, <2>4 DEF m
    <2>6. after >= m /\ after \in Int /\ m \in Int
      BY <1>2, <1>5, <1>13, <1>14, <1>17, <1>18, <2>1, <2>3
    <2>7. after >= 0
      BY <2>5, <2>6
    <2> QED
      BY <1>12, <2>7 DEF after
  <1> QED
    BY <1>7, <1>19, <1>20

(* What a step does to data rate and power, and to the frame in the air.      *)
Backed(d, e) == \/ e.dr = d.dr /\ (e.power = d.power \/ e.power = 14)
                \/ e.power = 14 /\ d.power = 14 /\ d.dr \in 1 .. 6 /\ e.dr = d.dr - 1
FrameStep == \/ phase' = "idle"
             \/ phase # "idle" /\ frame' = frame
             \/ /\ phase = "idle" /\ frame'.power = dev'.power
                /\ frame'.sf = GetSfFromDataRate(dev'.dr)

LEMMA SendSteps ==
    ASSUME NEW d, Device(d), phase \in {"idle", "up"}, DoSend(d)
    PROVE  dev'.dr = d.dr /\ dev'.power = d.power /\ FrameStep
  <1>1. FailsToSend(d) \/ Sends(d)
    BY DoSendCases
  <1>2. CASE FailsToSend(d)
    <2>1. dev' = Throw(d, "no channel") /\ UNCHANGED <<phase, frame>> /\ "no channel" \in Faults
      BY <1>2 DEF FailsToSend, Faults
    <2>2. dev'.dr = d.dr /\ dev'.power = d.power
      BY <2>1, Thrown
    <2> QED
      BY <2>1, <2>2 DEF FrameStep
  <1>3. CASE Sends(d)
    <2>1. /\ phase' = "up" /\ dev' = AfterDoSend(d)
          /\ frame' = IF phase = "up" THEN frame ELSE FrameOf(d)
      BY <1>3 DEF Sends
    <2>2. dev'.dr = d.dr /\ dev'.power = d.power
      BY <2>1, SentDevice
    <2>3. FrameOf(d).power = d.power /\ FrameOf(d).sf = GetSfFromDataRate(d.dr)
      BY FrameFields
    <2>4. CASE phase = "up"
      BY <2>1, <2>2, <2>4 DEF FrameStep
    <2>5. CASE phase = "idle"
      <3>1. frame' = FrameOf(d)
        BY <2>1, <2>5
      <3> QED
        BY <2>2, <2>3, <2>5, <3>1 DEF FrameStep
    <2> QED
      BY <2>2, <2>4, <2>5
  <1> QED
    BY <1>1, <1>2, <1>3

LEMMA DeviceSteps ==
    ASSUME TInv, [Next]_vars
    PROVE  (Backed(dev, dev') \/ ReceiveReply) /\ FrameStep /\ UNCHANGED <<pathLoss, method>>
  <1>1. Device(dev) /\ phase \in {"idle", "up", "open", "down"}
    BY DEF TInv
  <1>2. CASE Application
    <2> DEFINE d == EvaluateBackoff(dev)
    <2>1. /\ Backs(dev, d)
          /\ \/ Refuse(d)
             \/ Refuse(Throw(d, "out of band"))
             \/ Postpone(d)
             \/ phase \notin {"open", "down"} /\ DoSend(d)
      BY <1>2, AppSendCases, Zenon
    <2> HIDE DEF d
    <2>2. Device(d) /\ Backed(dev, d)
      BY <2>1 DEF Backs, Backed
    <2>3. UNCHANGED <<pathLoss, method>>
      BY <1>2 DEF Application, AppSend, config
    <2>4. dev'.dr = d.dr /\ dev'.power = d.power /\ FrameStep
      <3>1. CASE Refuse(d) \/ Postpone(d)
        BY <3>1 DEF Refuse, Postpone, FrameStep
      <3>2. CASE Refuse(Throw(d, "out of band"))
        <4>1. dev' = Throw(d, "out of band") /\ UNCHANGED <<phase, frame>> /\ "out of band" \in Faults
          BY <3>2 DEF Refuse, Faults
        <4>2. dev'.dr = d.dr /\ dev'.power = d.power
          BY <2>2, <4>1, Thrown
        <4> QED
          BY <4>1, <4>2 DEF FrameStep
      <3>3. CASE phase \notin {"open", "down"} /\ DoSend(d)
        <4>1. phase \in {"idle", "up"}
          BY <1>1, <3>3
        <4> QED
          BY <2>2, <3>3, <4>1, SendSteps
      <3> QED
        BY <2>1, <3>1, <3>2, <3>3
    <2>5. Backed(dev, dev')
      BY <2>2, <2>4 DEF Backed
    <2> QED
      BY <2>3, <2>4, <2>5
  <1>3. CASE RunDoSend
    <2>1. phase \in {"idle", "up"} /\ DoSend(dev) /\ UNCHANGED <<pathLoss, method>>
      BY <1>3 DEF RunDoSend, config
    <2>2. dev'.dr = dev.dr /\ dev'.power = dev.power /\ FrameStep
      BY <1>1, <2>1, SendSteps
    <2> QED
      BY <2>1, <2>2 DEF Backed
  <1>4. CASE AddLinkCheck
    <2>1. /\ \E a : dev' = Answer(dev, a)
          /\ UNCHANGED <<pathLoss, method, phase, frame>>
      BY <1>4 DEF AddLinkCheck, config, Answer
    <2>2. Same(dev, dev')
      BY <1>1, <2>1, Answered
    <2> QED
      BY <2>1, <2>2 DEF Same, Backed, FrameStep
  <1>5. CASE ReceiveReply
    <2>1. phase' = "idle" /\ UNCHANGED <<pathLoss, method>>
      BY <1>5 DEF ReceiveReply, config
    <2> QED
      BY <1>5, <2>1 DEF FrameStep
  <1>6. CASE Rested \/ UplinkArrives \/ OnReceiveWindowOpportunity \/ WindowsClose \/ StormEnds \/ UNCHANGED vars
    <2>1. UNCHANGED <<dev, pathLoss, method, frame>>
      BY <1>6 DEF Rested, UplinkArrives, OnReceiveWindowOpportunity, WindowsClose, StormEnds, vars, config
    <2>2. phase' = "idle" \/ phase # "idle"
      BY <1>6 DEF Rested, UplinkArrives, OnReceiveWindowOpportunity, WindowsClose, StormEnds, vars
    <2> QED
      BY <2>1, <2>2 DEF Backed, FrameStep
  <1> QED
    BY <1>2, <1>3, <1>4, <1>5, <1>6 DEF Next, Uplink, Application

\* A backoff never costs margin.
LEMMA BackedMargin ==
    ASSUME pathLoss \in PathLosses, NEW d, Device(d), NEW e, Device(e), Backed(d, e)
    PROVE  /\ LinkMargin(d) \in Int /\ LinkMargin(e) \in Int /\ LinkMargin(d) <= LinkMargin(e)
           /\ d.power <= e.power /\ (e.power < 14 => e.dr = d.dr /\ e.power = d.power)
           /\ e.power \in 0 .. 14 /\ d.power \in 0 .. 14
  <1>1. /\ d.dr \in 0 .. 6 /\ e.dr \in 0 .. 6 /\ d.power \in 0 .. 14 /\ e.power \in 0 .. 14
    BY Indices DEF Device
  <1>2. d.power <= e.power /\ e.dr <= d.dr /\ (e.power < 14 => e.dr = d.dr /\ e.power = d.power)
    BY <1>1 DEF Backed
  <1>3. LinkMargin(d) \in Int /\ LinkMargin(e) \in Int /\ LinkMargin(d) <= LinkMargin(e)
    BY <1>2, MoreMargin
  <1> QED
    BY <1>1, <1>2, <1>3

\* The margin a reply leaves: what it was, or none below zero.
LEMMA ReplyMargin ==
    ASSUME LeaveAdr, TInv, Told, LossInv, method[1] = "MINIMUM", ReceiveReply
    PROVE  /\ Device(dev')
           /\ \/ dev'.dr = dev.dr /\ dev'.power = dev.power
              \/ LinkMargin(dev') >= 0
  <1> DEFINE t == reply.target[1]
  <1>1. Device(dev) /\ reply.commands \in Seq(Command) /\ (reply.target # <<>> => dev.adr)
    BY DEF TInv, Reply
  <1>2. reply.target # <<>> => t \in Target
    <2>1. reply.target # <<>> => \E u \in Target : reply.target = <<u>>
      BY DEF TInv, Reply
    <2> QED
      BY <2>1
  <1>3. dev' \in Receive(dev, reply.commands, DownlinkSnr)
    BY DEF ReceiveReply
  <1>4. /\ Adrs(reply.commands) # {} <=> reply.target # <<>>
        /\ \A i \in Adrs(reply.commands) : reply.commands[i] = LinkAdrRequest(t)
    BY DEF Told, OnlyAdr
  <1>5. reply.target # <<>> => MarginWith(t.txPower, GetSfFromDataRate(t.dataRate)) >= 0
    BY DEF LossInv
  <1> HIDE DEF t
  <1>6. Device(dev')
    BY <1>1, <1>3, ReceiveKeeps
  <1>7. Follows(dev, t, Adrs(reply.commands) # {}, dev')
    BY <1>1, <1>2, <1>3, <1>4, ReceiveObeys
  <1>8. CASE Adrs(reply.commands) = {}
    BY <1>6, <1>7, <1>8 DEF Follows
  <1>9. CASE Adrs(reply.commands) # {}
    <2>1. dev'.dr = t.dataRate /\ dev'.power = t.txPower
      BY <1>7, <1>9 DEF Follows
    <2>2. LinkMargin(dev') >= 0
      BY <1>4, <1>5, <1>9, <2>1 DEF LinkMargin, MarginWith
    <2> QED
      BY <1>6, <2>2
  <1> QED
    BY <1>8, <1>9

\* The figures of the frame are those of the device that sends it.
LEMMA OwnMargin ==
    \A d, f : f.power = d.power /\ f.sf = GetSfFromDataRate(d.dr) =>
        MarginWith(f.power, f.sf) = LinkMargin(d)
  BY DEF MarginWith, LinkMargin

LEMMA EstimateSteps ==
    ASSUME TInv, [Next]_vars, reply'.window > 0, reply.window > 0 => Estimate
    PROVE  Estimate'
  <1>1. pathLoss' = pathLoss
    BY DeviceSteps
  <1>2. CASE UplinkArrives
    <2>1. phase = "up" /\ UNCHANGED frame
      BY <1>2 DEF UplinkArrives
    <2>2. ~(reply.window > 0)
      BY <2>1 DEF TInv, Reply
    <2>3. PICK heard \in (SUBSET DOMAIN pathLoss) \ {{}} :
             history' = Insert(history, [g \in heard |-> RxPowers(frame.power)[g]])
      BY <1>2, <2>2 DEF UplinkArrives, Heard
    <2> DEFINE rx == [g \in heard |-> RxPowers(frame.power)[g]]
               R == Receptions(pathLoss)
    <2>4. rx \in R
      <3>1. ASSUME NEW g \in heard PROVE RxPowers(frame.power)[g] \in Int
        <4>1. pathLoss[g] \in Int
          BY PathLossAssumption DEF TInv
        <4>2. frame.power \in Int
          <5>1. frame.power \in Powers
            BY <2>1 DEF TInv, SentFrame
          <5> QED
            BY <5>1, Indices
        <4>3. RxPowers(frame.power)[g] = Db * frame.power - pathLoss[g]
          BY DEF RxPowers
        <4> QED
          BY <4>1, <4>2, <4>3 DEF Db
      <3> QED
        BY <3>1 DEF Receptions
    <2>5. history \in Seq(R) /\ Len(history) <= HistoryRange
      BY DEF TInv
    <2>6. history' = Insert(history, rx)
      BY <2>3
    <2> HIDE DEF R, rx
    <2>7. Last(history') = rx
      BY <2>4, <2>5, <2>6, Inserted
    <2>8. RxPowers(frame.power)' = RxPowers(frame.power)
      BY <1>1, <2>1 DEF RxPowers
    <2> QED
      BY <1>1, <2>1, <2>7, <2>8 DEF Estimate, rx
  <1>3. CASE OnReceiveWindowOpportunity \/ StormEnds \/ Rested \/ AddLinkCheck \/ UNCHANGED vars
    <2>1. UNCHANGED <<history, frame>> /\ reply.window > 0
      BY <1>3 DEF OnReceiveWindowOpportunity, StormEnds, Rested, AddLinkCheck, vars
    <2>2. RxPowers(frame.power)' = RxPowers(frame.power)
      BY <1>1, <2>1 DEF RxPowers
    <2> QED
      BY <1>1, <2>1, <2>2 DEF Estimate
  <1>4. CASE WindowsClose \/ ReceiveReply
    BY <1>4 DEF WindowsClose, ReceiveReply, NoReply
  <1>5. CASE Application \/ RunDoSend
    <2>1. UNCHANGED <<reply, history>>
      BY <1>5 DEF Application, AppSend, RunDoSend
    <2>2. phase \in {"open", "down"} /\ reply.window > 0
      BY <2>1 DEF TInv, Reply
    <2>3. Application
      BY <1>5, <2>2 DEF RunDoSend
    <2> DEFINE d == EvaluateBackoff(dev)
    <2>4. Refuse(d) \/ Refuse(Throw(d, "out of band")) \/ Postpone(d)
      BY <2>2, <2>3, AppSendCases
    <2>5. UNCHANGED frame
      BY <2>4 DEF Refuse, Postpone
    <2>6. RxPowers(frame.power)' = RxPowers(frame.power)
      BY <1>1, <2>5 DEF RxPowers
    <2> QED
      BY <1>1, <2>1, <2>2, <2>5, <2>6 DEF Estimate
  <1> QED
    BY <1>2, <1>3, <1>4, <1>5 DEF Next, Uplink, Application

LEMMA LossKept == LeaveAdr /\ TInv /\ Told /\ LossInv /\ [Next]_vars => LossInv'
  <1> SUFFICES ASSUME LeaveAdr, TInv, Told, LossInv, [Next]_vars, method[1] = "MINIMUM" PROVE LossInv'
    BY DeviceSteps DEF LossInv
  <1>1. /\ dev.power < 14 => LinkMargin(dev) >= 0
        /\ phase # "idle" => frame.power <= dev.power /\ (frame.power < 14 => FrameMargin >= 0)
        /\ reply.window > 0 => Estimate
        /\ reply.target # <<>> =>
              MarginWith(reply.target[1].txPower, GetSfFromDataRate(reply.target[1].dataRate)) >= 0
    BY DEF LossInv
  <1>2. /\ Backed(dev, dev') \/ ReceiveReply
        /\ FrameStep /\ pathLoss' = pathLoss /\ method' = method
    BY DeviceSteps
  <1>3. BestLoss' = BestLoss /\ LinkMargin(dev)' = LinkMargin(dev')
    BY <1>2 DEF BestLoss, LinkMargin
  <1>4. \A power, sf : MarginWith(power, sf)' = MarginWith(power, sf)
    BY <1>3 DEF MarginWith
  <1>5. Device(dev) /\ Device(dev') /\ pathLoss \in PathLosses
    <2>1. TInv'
      BY NextTyped
    <2> QED
      BY <2>1 DEF TInv
  <1>6. Backed(dev, dev') =>
           /\ LinkMargin(dev) \in Int /\ LinkMargin(dev') \in Int /\ LinkMargin(dev) <= LinkMargin(dev')
           /\ dev.power <= dev'.power /\ (dev'.power < 14 => dev'.dr = dev.dr /\ dev'.power = dev.power)
           /\ dev'.power \in 0 .. 14 /\ dev.power \in 0 .. 14
    BY <1>5, BackedMargin
  <1>7. dev'.power < 14 => LinkMargin(dev') >= 0
    <2>1. CASE Backed(dev, dev')
      BY <1>1, <1>6, <2>1
    <2>2. CASE ReceiveReply
      <3>1. CASE dev'.dr = dev.dr /\ dev'.power = dev.power
        BY <1>1, <3>1 DEF LinkMargin
      <3>2. CASE LinkMargin(dev') >= 0
        BY <3>2
      <3> QED
        BY <2>2, <3>1, <3>2, ReplyMargin
    <2> QED
      BY <1>2, <2>1, <2>2
  <1>8. ASSUME phase' # "idle"
        PROVE  frame'.power <= dev'.power /\ (frame'.power < 14 => MarginWith(frame'.power, frame'.sf) >= 0)
    <2>1. Backed(dev, dev')
      <3>1. ~ReceiveReply
        BY <1>8 DEF ReceiveReply
      <3> QED
        BY <1>2, <3>1
    <2>2. CASE phase # "idle" /\ frame' = frame
      <3>1. frame.power \in 0 .. 14
        BY <2>2, Indices DEF TInv, SentFrame
      <3>2. frame.power <= dev.power /\ (frame.power < 14 => MarginWith(frame.power, frame.sf) >= 0)
        BY <1>1, <2>2 DEF FrameMargin
      <3>3. frame'.power <= dev'.power
        BY <1>6, <2>1, <2>2, <3>1, <3>2
      <3> QED
        BY <2>2, <3>2, <3>3
    <2>3. CASE frame'.power = dev'.power /\ frame'.sf = GetSfFromDataRate(dev'.dr)
      <3>1. MarginWith(frame'.power, frame'.sf) = LinkMargin(dev')
        BY <2>3, OwnMargin, Zenon
      <3>2. frame'.power <= dev'.power
        BY <1>6, <2>1, <2>3
      <3> QED
        BY <1>7, <2>3, <3>1, <3>2
    <2> QED
      BY <1>2, <1>8, <2>2, <2>3 DEF FrameStep
  <1>9. FrameMargin' = MarginWith(frame'.power, frame'.sf)
    BY <1>3 DEF FrameMargin, MarginWith
  <1>10. reply'.window > 0 => Estimate'
    BY <1>1, EstimateSteps
  <1>11. ASSUME reply'.target # <<>>
         PROVE  MarginWith(reply'.target[1].txPower, GetSfFromDataRate(reply'.target[1].dataRate)) >= 0
    <2>1. CASE UNCHANGED reply
      BY <1>1, <1>11, <2>1
    <2>2. CASE reply.window > 0 /\ reply'.target = IF AdrAnswer = <<>> THEN <<>> ELSE <<AdrTarget>>
      <3>1. AdrAnswer # <<>> /\ reply'.target = <<AdrTarget>>
        BY <1>11, <2>2
      <3>2. reply'.target[1] = AdrTarget
        BY <3>1
      <3>3. MarginWith(AdrTarget.txPower, GetSfFromDataRate(AdrTarget.dataRate)) >= 0
        BY <2>2, <3>1, OrderKeepsMargin
      <3> QED
        BY <3>2, <3>3, Zenon
    <2> QED
      BY <1>11, <2>1, <2>2, ReplySteps
  <1>12. MarginWith(reply.target[1].txPower, GetSfFromDataRate(reply.target[1].dataRate))' =
         MarginWith(reply'.target[1].txPower, GetSfFromDataRate(reply'.target[1].dataRate))
    BY <1>3 DEF MarginWith
  <1>13. (phase # "idle" => frame.power <= dev.power /\ (frame.power < 14 => FrameMargin >= 0))'
    BY <1>8, <1>9
  <1>14. (dev.power < 14 => LinkMargin(dev) >= 0)'
    BY <1>3, <1>7
  <1>15. (reply.target # <<>> =>
            MarginWith(reply.target[1].txPower, GetSfFromDataRate(reply.target[1].dataRate)) >= 0)'
    BY <1>11, <1>12
  <1> QED
    BY <1>10, <1>13, <1>14, <1>15 DEF LossInv

LEMMA InitLoss == Init => LossInv
  <1> SUFFICES ASSUME Init PROVE LossInv
    OBVIOUS
  <1>1. dev.power = 14 /\ phase = "idle" /\ reply.window = 0 /\ reply.target = <<>>
    BY InitTyped DEF Init, NoReply
  <1> QED
    BY <1>1 DEF LossInv

LEMMA MarginSteps ==
    ASSUME LeaveAdr, TInv, Told, LossInv, [Next]_vars, method[1] = "MINIMUM"
    PROVE  LinkMargin(dev') >= Min({0, LinkMargin(dev)})
  <1>1. Device(dev) /\ Device(dev') /\ pathLoss \in PathLosses
    <2>1. TInv'
      BY NextTyped
    <2> QED
      BY <2>1 DEF TInv
  <1>2. LinkMargin(dev) \in Int /\ LinkMargin(dev') \in Int
    <2>1. /\ dev.power <= dev.power /\ dev.dr <= dev.dr
          /\ dev'.power <= dev'.power /\ dev'.dr <= dev'.dr
      BY <1>1, Indices DEF Device
    <2> QED
      BY <1>1, <2>1, MoreMargin
  <1>3. LinkMargin(dev') >= 0 \/ LinkMargin(dev') >= LinkMargin(dev)
    <2>1. CASE Backed(dev, dev')
      BY <1>1, <1>2, <2>1, BackedMargin
    <2>2. CASE ReceiveReply
      <3>1. CASE dev'.dr = dev.dr /\ dev'.power = dev.power
        <4>1. LinkMargin(dev') = LinkMargin(dev)
          BY <3>1 DEF LinkMargin
        <4> QED
          BY <1>2, <4>1
      <3> QED
        BY <2>2, <3>1, ReplyMargin
    <2> QED
      BY <2>1, <2>2, DeviceSteps
  <1> DEFINE before == LinkMargin(dev)
             after == LinkMargin(dev')
  <1> HIDE DEF before, after
  <1>4. before \in Int /\ after \in Int /\ (after >= 0 \/ after >= before)
    BY <1>2, <1>3 DEF before, after
  <1>5. Min({0, before}) = IF 0 <= before THEN 0 ELSE before
    BY <1>4, OfTwo
  <1>6. after >= Min({0, before})
    BY <1>4, <1>5
  <1> QED
    BY <1>6 DEF before, after

(* If only the ADR component sends LinkAdrReq, a server that goes by the      *)
(* worst of the last packets never takes away the margin of a device nor      *)
(* makes a link without margin worse, with any number of gateways and any     *)
(* losses: AdrComponent reads the power from the device when it answers,      *)
(* while its packets were sent before, and the device may have backed off     *)
(* between the uplink and the downlink.                                       *)
THEOREM MarginStays == ASSUME LeaveAdr PROVE Spec => MarginKept
  <1>1. Init => TInv /\ Told /\ LossInv
    BY InitTyped, InitTold, InitLoss
  <1>2. TInv /\ Told /\ LossInv /\ [Next]_vars => TInv' /\ Told' /\ LossInv'
    BY NextTyped, ToldKept, LossKept
  <1>3. TInv /\ Told /\ LossInv /\ [Next]_vars =>
            [method[1] = "MINIMUM" => LinkMargin(dev') >= Min({0, LinkMargin(dev)})]_vars
    BY MarginSteps
  <1> QED
    BY <1>1, <1>2, <1>3, PTL DEF Spec, MarginKept

------------------------------------------------------------------------------
(* What other controllers may ask for without stopping the device.            *)

Band(f) == GetSubBandFromFrequency(Bands(Region), f)
HomeBand == 3

(* A channel is taken away with frequency 0: it stays, disabled.              *)
Removes == \E r \in Requests : r.type = "NewChannelReq" /\ r.frequencyHz = 0

(* New channels lie in the sub-band of the default ones; a LinkAdrReq leaves  *)
(* one of the default channels enabled, has a data rate that they support,    *)
(* and does not enable a channel that was taken away.                         *)
Mild(c) ==
    /\ c.type = "NewChannelReq" =>
          /\ Band(c.frequencyHz) \in {OutOfBand, HomeBand}
          /\ c.frequencyHz = 0 => Removes
    /\ c.type = "LinkAdrReq" =>
          /\ c.dataRate \in (0 .. 5) \cup {15}
          /\ c.chMaskCntl = 6 \/ BitsOf(c.chMask) \cap Home # {}
          /\ Removes => c.chMaskCntl # 6 /\ BitsOf(c.chMask) \subseteq Home
Peaceful == Region = "EU" /\ \A r \in Requests : Mild(r)

Calm(d) ==
    /\ d.fault = "none" /\ d.dr \in 0 .. 5
    /\ \E i \in Home : d.channels[i].enabled
    /\ \A i \in DOMAIN d.channels : d.channels[i].enabled \/ ~Removes =>
                                        Band(d.channels[i].frequency) = HomeBand

LEMMA Alone == \A b \in Int : Min({b}) = b
  <1> SUFFICES ASSUME NEW b \in Int PROVE Min({b}) = b
    OBVIOUS
  <1>1. IsFiniteSet({b})
    BY FS_Singleton
  <1>2. Min({b}) \in {b}
    BY <1>1, Smallest
  <1> QED
    BY <1>2

\* The default channels lie in one sub-band, which allows 14 dBm.
LEMMA HomeBands ==
    ASSUME Region = "EU"
    PROVE  /\ \A i \in Home : Band(Channels(Region)[i].frequency) = HomeBand
           /\ \A f : Band(f) = HomeBand =>
                 IsFrequencyValid(Bands(Region), f) /\ GetTxPowerForChannel(Bands(Region), f) = 14
  <1>1. Bands(Region) = EuBands /\ Channels(Region) = EuChannels
    BY SMT DEF Bands, Channels
  <1>2. ASSUME NEW i \in 0 .. 2 PROVE BandsOf(EuBands, EuChannels[i].frequency) = {3}
    <2> DEFINE f == EuChannels[i].frequency
    <2>1. f = 868100000 + 200000 * i
      BY SMT DEF EuChannels, LogicalChannel
    <2>2. DOMAIN EuBands = 1 .. 6
      BY SMT DEF EuBands
    <2>3. /\ EuBands[1].last = 865000000 /\ EuBands[2].last = 868000000
          /\ EuBands[3].first = 868000000 /\ EuBands[3].last = 868600000
          /\ EuBands[4].first = 868700000 /\ EuBands[5].first = 869400000
          /\ EuBands[6].first = 869700000
      BY SMT DEF EuBands, SubBand
    <2> HIDE DEF f
    <2>4. /\ 868000000 < f /\ f < 868600000
      BY <2>1, SMT
    <2>5. ContainsFrequency(EuBands[3], f)
      BY <2>3, <2>4, SMT DEF ContainsFrequency
    <2>6. /\ ~ContainsFrequency(EuBands[1], f) /\ ~ContainsFrequency(EuBands[2], f)
          /\ ~ContainsFrequency(EuBands[4], f) /\ ~ContainsFrequency(EuBands[5], f)
          /\ ~ContainsFrequency(EuBands[6], f)
      BY <2>1, <2>3, SMT DEF ContainsFrequency
    <2> DEFINE In(b) == ContainsFrequency(EuBands[b], f)
    <2>7. In(3) /\ ~In(1) /\ ~In(2) /\ ~In(4) /\ ~In(5) /\ ~In(6)
      BY <2>5, <2>6
    <2>8. BandsOf(EuBands, f) = {b \in 1 .. 6 : In(b)}
      BY <2>2 DEF BandsOf
    <2> HIDE DEF In
    <2>9. \A b \in 1 .. 6 : In(b) <=> b = 3
      BY <2>7, SMT
    <2>10. BandsOf(EuBands, f) = {3}
      BY <2>8, <2>9, SMT
    <2> QED
      BY <2>10 DEF f
  <1>3. ASSUME NEW i \in 0 .. 2 PROVE GetSubBandFromFrequency(EuBands, EuChannels[i].frequency) = 3
    <2> DEFINE f == EuChannels[i].frequency
    <2>1. BandsOf(EuBands, f) = {3}
      BY <1>2
    <2> HIDE DEF f
    <2>2. GetSubBandFromFrequency(EuBands, f) = Min({3})
      BY <2>1 DEF GetSubBandFromFrequency
    <2> QED
      BY <2>2, Alone DEF f
  <1>4. Home = 0 .. 2
    BY HomeChannels
  <1>5. ASSUME NEW i \in Home PROVE Band(Channels(Region)[i].frequency) = HomeBand
    BY <1>1, <1>3, <1>4 DEF Band, HomeBand
  <1>6. EuBands[3].maxTxPower = 14
    BY SMT DEF EuBands, SubBand
  <1>7. ASSUME NEW f, Band(f) = HomeBand
        PROVE  IsFrequencyValid(Bands(Region), f) /\ GetTxPowerForChannel(Bands(Region), f) = 14
    <2>1. GetSubBandFromFrequency(Bands(Region), f) = 3
      BY <1>7 DEF Band, HomeBand
    <2>2. Bands(Region)[3].maxTxPower = 14
      BY <1>1, <1>6
    <2> QED
      BY <2>1, <2>2 DEF IsFrequencyValid, GetTxPowerForChannel, OutOfBand
  <1> QED
    BY <1>5, <1>7

LEMMA HomeFrequencies ==
    ASSUME Region = "EU", NEW plan, Plan(plan)
    PROVE  \A i \in Home : i \in DOMAIN plan /\ Band(plan[i].frequency) = HomeBand
  BY HomeBands DEF Plan

(* Each command leaves the device calm.                                       *)
LEMMA MaskCalm ==
    ASSUME Region = "EU", NEW d, Device(d), Calm(d), NEW c, Mild(c), c.type = "LinkAdrReq",
           ChannelMaskOk(d, c), NEW e, Device(e), e.channels = ApplyMask(d.channels, MaskOf(d, c)),
           e.fault = d.fault, e.dr \in 0 .. 5
    PROVE  Calm(e)
  <1> DEFINE mask == MaskOf(d, c)
             old == d.channels
             plan == e.channels
  <1>1. plan = ApplyMask(old, mask) /\ Plan(plan) /\ Plan(old)
    BY DEF Device
  <1>2. /\ DOMAIN plan = DOMAIN old
        /\ \A i \in DOMAIN old : plan[i].enabled = (i \in mask) /\ plan[i].frequency = old[i].frequency
    <2> HIDE DEF mask
    <2>1. LET new == ApplyMask(d.channels, mask)
          IN  /\ DOMAIN new = DOMAIN d.channels
              /\ \A i \in DOMAIN d.channels : /\ new[i].enabled = (i \in mask)
                                              /\ new[i].frequency = d.channels[i].frequency
      BY MaskKeeps, Zenon
    <2> QED
      BY <1>1, <2>1, Zenon
  <1>3. Home \subseteq DOMAIN old /\ 0 \in Home
    BY <1>1, HomeChannels DEF Plan
  <1>4. /\ \E i \in Home : i \in mask
        /\ Removes => mask \subseteq Home
    <2>1. CASE c.chMaskCntl = 6
      <3>1. mask = DOMAIN old
        BY <2>1 DEF MaskOf
      <3>2. ~Removes
        BY <2>1 DEF Mild
      <3> QED
        BY <1>3, <3>1, <3>2
    <2>2. CASE c.chMaskCntl # 6
      <3>1. mask = BitsOf(c.chMask)
        BY <2>2 DEF MaskOf
      <3> HIDE DEF mask
      <3> QED
        BY <2>2, <3>1 DEF Mild
    <2> QED
      BY <2>1, <2>2
  <1> HIDE DEF mask, old, plan
  <1>5. \E i \in Home : plan[i].enabled
    BY <1>2, <1>3, <1>4
  <1>6. ASSUME NEW i \in DOMAIN plan, plan[i].enabled \/ ~Removes
        PROVE  Band(plan[i].frequency) = HomeBand
    <2>1. CASE ~Removes
      <3>1. Band(old[i].frequency) = HomeBand
        BY <1>2, <2>1 DEF Calm, old
      <3> QED
        BY <1>2, <3>1
    <2>2. CASE Removes /\ plan[i].enabled
      <3>1. i \in Home
        BY <1>2, <1>4, <2>2
      <3> QED
        BY <1>1, <3>1, HomeFrequencies
    <2> QED
      BY <1>6, <2>1, <2>2
  <1>7. e.fault = "none"
    BY DEF Calm
  <1> QED
    BY <1>5, <1>6, <1>7 DEF Calm, plan

LEMMA AdrCalm ==
    ASSUME Region = "EU", NEW d, Device(d), Calm(d), NEW c \in LinkAdrReq, Mild(c)
    PROVE  Calm(OnLinkAdrReq(d, c))
  <1> DEFINE e == OnLinkAdrReq(d, c)
  <1>1. c.type = "LinkAdrReq" /\ c.dataRate \in (0 .. 5) \cup {15}
    <2>1. c.type = "LinkAdrReq"
      BY LinkAdrFields
    <2> QED
      BY <2>1 DEF Mild
  <1>2. d.dr \in 0 .. 5 /\ d.fault = "none"
    BY DEF Calm
  <1>3. CASE d.adr
    <2> DEFINE ok == ChannelMaskOk(d, c) /\ DataRateOk(d, c) /\ PowerOk(c)
    <2>1. e = OnLinkAdrReqAdaptive(d, c)
      BY <1>3 DEF OnLinkAdrReq
    <2> HIDE DEF e
    <2>2. /\ Device(e) /\ e.fault = d.fault
          /\ ok => /\ e.channels = ApplyMask(d.channels, MaskOf(d, c))
                   /\ e.dr = IF c.dataRate # 15 THEN c.dataRate ELSE d.dr
          /\ ~ok => e.channels = d.channels /\ e.dr = d.dr
      BY <2>1, AdaptiveKeeps, Zenon
    <2>3. ok => ChannelMaskOk(d, c)
      OBVIOUS
    <2> HIDE DEF ok
    <2>4. CASE ok
      <3>1. e.dr \in 0 .. 5 /\ e.channels = ApplyMask(d.channels, MaskOf(d, c)) /\ ChannelMaskOk(d, c)
        BY <1>1, <1>2, <2>2, <2>3, <2>4
      <3> QED
        BY <1>1, <2>2, <3>1, MaskCalm DEF e
    <2>5. CASE ~ok
      <3>1. e.channels = d.channels /\ e.dr = d.dr /\ e.fault = d.fault
        BY <2>2, <2>5
      <3> QED
        BY <3>1 DEF Calm, e
    <2> QED
      BY <2>4, <2>5
  <1>4. CASE ~d.adr
    <2>1. e = OnLinkAdrReqStatic(d, c)
      BY <1>4 DEF OnLinkAdrReq
    <2> HIDE DEF e
    <2>2. /\ Device(e) /\ e.fault = d.fault /\ e.dr = d.dr
          /\ e.channels = d.channels \/ (ChannelMaskOk(d, c)
                                         /\ e.channels = ApplyMask(d.channels, MaskOf(d, c)))
      BY <2>1, StaticKeeps, Zenon
    <2>3. CASE e.channels = d.channels
      BY <2>2, <2>3 DEF Calm, e
    <2>4. CASE ChannelMaskOk(d, c) /\ e.channels = ApplyMask(d.channels, MaskOf(d, c))
      <3>1. e.dr \in 0 .. 5
        BY <1>2, <2>2
      <3> QED
        BY <1>1, <2>2, <2>4, <3>1, MaskCalm DEF e
    <2> QED
      BY <2>2, <2>3, <2>4
  <1> QED
    BY <1>3, <1>4

LEMMA NewChannelCalm ==
    ASSUME Region = "EU", NEW d, Device(d), Calm(d), NEW c \in Command, c.type = "NewChannelReq", Mild(c)
    PROVE  Calm(OnNewChannelReq(d, c))
  <1> DEFINE e == OnNewChannelReq(d, c)
             plan == NewPlan(d, c)
  <1>1. /\ Device(e) /\ e.fault = d.fault /\ e.dr = d.dr
        /\ \/ e.channels = d.channels
           \/ /\ e.channels = plan
              /\ c.chIndex \in Slots(d.region) \ 0 .. 2 /\ ValidDataRate(c.maxDataRate)
              /\ c.frequencyHz = 0 \/ IsFrequencyValid(Bands(d.region), c.frequencyHz)
    BY NewChannelKeeps, Zenon
  <1> HIDE DEF e
  <1>2. CASE e.channels = d.channels
    BY <1>1, <1>2 DEF Calm, e
  <1>3. CASE /\ e.channels = plan
             /\ c.chIndex \in Slots(d.region) \ 0 .. 2 /\ ValidDataRate(c.maxDataRate)
             /\ c.frequencyHz = 0 \/ IsFrequencyValid(Bands(d.region), c.frequencyHz)
    <2>1. /\ DOMAIN plan = DOMAIN d.channels \cup {c.chIndex}
          /\ \A i \in DOMAIN d.channels \ {c.chIndex} : plan[i] = d.channels[i]
          /\ plan[c.chIndex].frequency = c.frequencyHz
          /\ plan[c.chIndex].enabled = (c.frequencyHz # 0)
          /\ c.chIndex \notin Home
      BY <1>3, NewPlanKeeps
    <2> HIDE DEF plan
    <2>2. d.region = Region /\ Home \subseteq DOMAIN d.channels
      BY DEF Device, Plan
    <2>3. c.frequencyHz # 0 => Band(c.frequencyHz) = HomeBand
      <3>1. c.frequencyHz # 0 => Band(c.frequencyHz) # OutOfBand
        BY <1>3, <2>2 DEF IsFrequencyValid, Band
      <3> QED
        BY <3>1 DEF Mild
    <2>4. c.frequencyHz = 0 => Removes
      BY DEF Mild
    <2>5. \E i \in Home : plan[i].enabled
      <3>1. PICK i \in Home : d.channels[i].enabled
        BY DEF Calm
      <3>2. i \in DOMAIN d.channels \ {c.chIndex}
        BY <2>1, <2>2
      <3> QED
        BY <2>1, <3>1, <3>2
    <2>6. ASSUME NEW i \in DOMAIN plan, plan[i].enabled \/ ~Removes
          PROVE  Band(plan[i].frequency) = HomeBand
      <3>1. CASE i = c.chIndex
        <4>1. c.frequencyHz # 0
          BY <2>1, <2>4, <2>6, <3>1
        <4> QED
          BY <2>1, <2>3, <3>1, <4>1
      <3>2. CASE i # c.chIndex
        <4>1. i \in DOMAIN d.channels /\ plan[i] = d.channels[i]
          BY <2>1, <3>2
        <4> QED
          BY <2>6, <4>1 DEF Calm
      <3> QED
        BY <3>1, <3>2
    <2>7. e.fault = "none" /\ e.dr \in 0 .. 5
      BY <1>1 DEF Calm
    <2> QED
      BY <1>3, <2>5, <2>6, <2>7 DEF Calm, e
  <1> QED
    BY <1>1, <1>2, <1>3

LEMMA CommandCalm ==
    ASSUME Region = "EU", NEW d, Device(d), Calm(d), NEW c \in Command, Mild(c), NEW e \in OnCommand(d, c)
    PROVE  Device(e) /\ Calm(e)
  <1>1. /\ Obeys(d, c, e)
        /\ c.type = "LinkAdrReq" => e = OnLinkAdrReq(d, c)
        /\ c.type = "NewChannelReq" => e = OnNewChannelReq(d, c)
        /\ c.type \notin {"LinkAdrReq", "NewChannelReq"} =>
              e.dr = d.dr /\ e.power = d.power /\ e.channels = d.channels
    BY CommandKeeps
  <1>2. Device(e) /\ e.fault = d.fault
    BY <1>1 DEF Obeys
  <1>3. CASE c.type = "LinkAdrReq"
    <2>1. c \in LinkAdrReq /\ e = OnLinkAdrReq(d, c)
      BY <1>1, <1>3, RequestFields
    <2> QED
      BY <1>2, <2>1, AdrCalm
  <1>4. CASE c.type = "NewChannelReq"
    BY <1>1, <1>2, <1>4, NewChannelCalm
  <1>5. CASE c.type \notin {"LinkAdrReq", "NewChannelReq"}
    <2>1. e.dr = d.dr /\ e.channels = d.channels
      BY <1>1, <1>5
    <2> QED
      BY <1>2, <2>1 DEF Calm
  <1> QED
    BY <1>3, <1>4, <1>5

MildCommand == {c \in Command : Mild(c)}

LEMMA ParseCalm ==
    ASSUME Region = "EU", NEW d, Device(d), Calm(d), NEW cs \in Seq(MildCommand),
           NEW e \in ParseCommands(d, cs)
    PROVE  Calm(e)
  <1> DEFINE n == Len(cs)
             Keeps(x) == Device(x) /\ Calm(x)
  <1>1. PICK g : Stages(d, cs, g) /\ ParseCommands(d, cs) = g[n]
    BY ParseInStages
  <1>2. n \in Nat /\ \A k \in 1 .. n : cs[k] \in MildCommand
    OBVIOUS
  <1> DEFINE N == {k \in Nat : k <= n => \A x \in g[k] : Keeps(x)}
  <1>3. 0 \in N
    BY <1>1 DEF Stages
  <1>4. ASSUME NEW k \in N PROVE k + 1 \in N
    <2>1. k \in Nat /\ (k <= n => \A x \in g[k] : Keeps(x))
      OBVIOUS
    <2> HIDE DEF N, n
    <2>2. ASSUME k + 1 <= n, NEW x \in g[k + 1] PROVE Keeps(x)
      <3>1. k + 1 \in 1 .. n /\ (k + 1) - 1 = k
        BY <1>2, <2>1, <2>2
      <3>2. PICK y \in g[k] : x \in OnCommand(y, cs[k + 1])
        BY <1>1, <2>2, <3>1 DEF Stages, n
      <3>3. Keeps(y)
        BY <1>2, <2>1, <3>1
      <3>4. cs[k + 1] \in Command /\ Mild(cs[k + 1])
        BY <1>2, <3>1 DEF MildCommand
      <3> QED
        BY <3>2, <3>3, <3>4, CommandCalm
    <2> HIDE DEF Keeps
    <2> QED
      BY <2>1, <2>2 DEF N
  <1>5. N = Nat
    <2> HIDE DEF N
    <2>1. N \in SUBSET Nat
      BY DEF N
    <2> QED
      BY <1>3, <1>4, <2>1, Inducts
  <1> HIDE DEF Keeps, n
  <1>6. n \in N
    BY <1>2, <1>5
  <1>7. Keeps(e)
    BY <1>1, <1>2, <1>6
  <1> QED
    BY <1>7 DEF Keeps

LEMMA ReceiveCalm ==
    ASSUME Region = "EU", NEW d, Device(d), Calm(d), NEW cs \in Seq(MildCommand), NEW snr,
           NEW e \in Receive(d, cs, snr)
    PROVE  Calm(e)
  <1> DEFINE m == [d EXCEPT !.adrAckCnt = 0, !.lastSnr = snr]
  <1>1. Device(m) /\ m.channels = d.channels /\ m.dr = d.dr /\ m.fault = d.fault
    BY DEF Device, DeviceFields
  <1>2. e \in ParseCommands(m, cs)
    BY DEF Receive
  <1> HIDE DEF m
  <1>3. Calm(m)
    BY <1>1 DEF Calm
  <1> QED
    BY <1>1, <1>2, <1>3, ParseCalm

LEMMA BackoffCalm ==
    ASSUME Region = "EU", NEW d, Device(d), Calm(d), NEW e, Backs(d, e)
    PROVE  Calm(e)
  <1>1. /\ d.fault = "none" /\ d.dr \in 0 .. 5 /\ Plan(d.channels)
        /\ e.fault = d.fault /\ (e.channels = d.channels \/ e.channels = AllHome(d.channels))
        /\ \E i \in Home : d.channels[i].enabled
    BY DEF Calm, Backs, Device
  <1>2. e.dr \in 0 .. 5 /\ e.fault = "none"
    BY <1>1 DEF Backs
  <1>3. CASE e.channels = d.channels
    BY <1>2, <1>3 DEF Calm
  <1>4. CASE e.channels = AllHome(d.channels)
    <2> DEFINE plan == e.channels
    <2>1. /\ Plan(plan) /\ DOMAIN plan = DOMAIN d.channels
          /\ \A i \in DOMAIN d.channels :
                /\ plan[i].frequency = d.channels[i].frequency
                /\ plan[i].enabled = IF i \in 0 .. 2 THEN TRUE ELSE d.channels[i].enabled
      <3> DEFINE old == d.channels
      <3>1. Plan(old)
        BY <1>1
      <3> HIDE DEF old
      <3>2. LET new == AllHome(old)
            IN  /\ Plan(new) /\ DOMAIN new = DOMAIN old
                /\ \A i \in DOMAIN old : /\ new[i].frequency = old[i].frequency
                                         /\ new[i].enabled = IF i \in 0 .. 2 THEN TRUE ELSE old[i].enabled
        BY <3>1, AllHomeKeeps, Zenon
      <3> QED
        BY <1>4, <3>2, Zenon DEF old
    <2>2. Home = 0 .. 2 /\ Home \subseteq DOMAIN d.channels
      BY <1>1, HomeChannels DEF Plan
    <2> HIDE DEF plan
    <2>3. \E i \in Home : plan[i].enabled
      BY <1>1, <2>1, <2>2
    <2>4. ASSUME NEW i \in DOMAIN plan, plan[i].enabled \/ ~Removes
          PROVE  Band(plan[i].frequency) = HomeBand
      <3>1. CASE i \in Home
        BY <2>1, <3>1, HomeFrequencies
      <3>2. CASE i \notin Home
        <4>1. plan[i].frequency = d.channels[i].frequency /\ plan[i].enabled = d.channels[i].enabled
          BY <2>1, <2>2, <3>2
        <4> QED
          BY <2>1, <2>4, <4>1 DEF Calm
      <3> QED
        BY <3>1, <3>2
    <2> QED
      BY <1>2, <2>3, <2>4 DEF Calm, plan
  <1> QED
    BY <1>1, <1>3, <1>4

------------------------------------------------------------------------------
(* No fault.                                                                  *)

Quiet == /\ Calm(dev)
         /\ postponed \subseteq {HomeBand} /\ resting \subseteq {HomeBand}
         /\ reply.commands \in Seq(MildCommand)

\* A calm device has a channel, and none outside the sub-band of all.
LEMMA CalmChannels ==
    ASSUME Region = "EU", NEW d, Device(d), Calm(d)
    PROVE  /\ ~AssertsInBand(d.channels, Bands(Region))
           /\ BandsFor(d) = {HomeBand}
  <1>1. d.region = Region /\ Plan(d.channels) /\ d.power \in 0 .. 14
    BY Indices DEF Device
  <1>2. \A i \in DOMAIN d.channels : d.channels[i].enabled => Band(d.channels[i].frequency) = HomeBand
    BY DEF Calm
  <1>3. ~AssertsInBand(d.channels, Bands(Region))
    BY <1>2, HomeBands DEF AssertsInBand
  <1>4. ASSUME NEW i \in Compatible(d)
        PROVE  GetSubBandFromFrequency(Bands(Region), d.channels[i].frequency) = HomeBand
    <2>1. i \in DOMAIN d.channels /\ d.channels[i].enabled
      BY DEF Compatible, GetCompatibleTxChannels
    <2> QED
      BY <1>2, <2>1 DEF Band
  <1>5. Compatible(d) # {}
    <2>1. PICK i \in Home : d.channels[i].enabled
      BY DEF Calm
    <2>2. i \in DOMAIN d.channels /\ d.channels[i].minDr = 0 /\ d.channels[i].maxDr = 5
      BY <1>1 DEF Plan
    <2>3. GetTxPowerForChannel(Bands(Region), d.channels[i].frequency) = 14
      BY <1>2, <2>1, <2>2, HomeBands
    <2>4. Supports(d.channels[i], d.dr)
      BY <2>2 DEF Supports, Calm
    <2>5. d.power <= GetTxPowerForChannel(Bands(d.region), d.channels[i].frequency)
      BY <1>1, <2>3
    <2>6. i \in Compatible(d)
      BY <2>1, <2>2, <2>4, <2>5, Zenon DEF Compatible, GetCompatibleTxChannels
    <2> QED
      BY <2>6
  <1>6. BandsFor(d) = {HomeBand}
    BY <1>4, <1>5, Zenon DEF BandsFor
  <1> QED
    BY <1>3, <1>6

\* A packet that finds a free channel goes out.
LEMMA SendsCalmly ==
    ASSUME Region = "EU", NEW d, Device(d), Calm(d), FreeBands(d) # {}, DoSend(d),
           resting \subseteq {HomeBand}
    PROVE  Calm(dev') /\ postponed' = {} /\ resting' \subseteq {HomeBand}
  <1>1. ~AssertsInBand(d.channels, Bands(Region)) /\ BandsFor(d) = {HomeBand}
    BY CalmChannels
  <1>2. postponed' = {} /\ Sends(d)
    BY <1>1, DoSendCases DEF FailsToSend
  <1>3. FreeBands(d) \subseteq {HomeBand}
    BY <1>1, CompatibleBands
  <1>4. dev' = AfterDoSend(d) /\ resting' \subseteq {HomeBand}
    BY <1>2, <1>3 DEF Sends
  <1>5. dev'.channels = d.channels /\ dev'.dr = d.dr /\ dev'.fault = d.fault
    BY <1>4, SentDevice
  <1> QED
    BY <1>2, <1>4, <1>5 DEF Calm

\* What waits for a sub-band finds it free when it goes out.
LEMMA RunsCalmly ==
    ASSUME Region = "EU", TInv, Quiet, RunDoSend
    PROVE  FreeBands(dev) # {}
  <1>1. Device(dev) /\ Calm(dev) /\ postponed \subseteq {HomeBand} /\ resting \subseteq {HomeBand}
    BY DEF TInv, Quiet
  <1>2. postponed \ resting # {}
    BY DEF RunDoSend
  <1>3. resting = {}
    BY <1>1, <1>2
  <1>4. FreeBands(dev) = BandsFor(dev)
    BY <1>3 DEF FreeBands, BandsFor
  <1> QED
    BY <1>1, <1>4, CalmChannels

LEMMA AnswerMild ==
    ASSUME Peaceful, TInv, reply.window > 0,
           NEW extra, extra = {} \/ \E r \in requests : extra = {r}
    PROVE  BeforeSendingReply \o SetToSeq(extra) \in Seq(MildCommand)
  <1>1. LinkCheckAnswer \in Seq(MildCommand)
    <2>1. LinkCheckAnswers \subseteq MildCommand
      <3>1. ASSUME NEW a \in LinkCheckAnswers PROVE a \in MildCommand
        <4>1. a \in Command /\ a.type = "LinkCheckAns"
          BY DEF LinkCheckAnswers, Command
        <4> QED
          BY <4>1 DEF MildCommand, Mild
      <3> QED
        BY <3>1
    <2> QED
      BY <2>1, LinkCheckTyped, Listed, Zenon
  <1>2. AdrAnswer \in Seq(MildCommand)
    <2> DEFINE c == LinkAdrRequest(AdrTarget)
    <2>1. AdrTarget \in Target
      BY AdrAnswerTyped
    <2>2. /\ c \in LinkAdrReq /\ c.type = "LinkAdrReq" /\ c.dataRate = AdrTarget.dataRate
          /\ c.chMaskCntl = 0 /\ c.chMask = 7
      BY <2>1, RequestOfAdr
    <2>3. AdrTarget.dataRate \in 0 .. 5
      BY <2>1 DEF Target
    <2> HIDE DEF c
    <2>4. BitsOf(c.chMask) = Home /\ 0 \in Home
      BY <2>2, FirstThree, HomeChannels DEF Peaceful
    <2>5. Mild(c)
      BY <2>2, <2>3, <2>4 DEF Mild
    <2>6. c \in MildCommand
      BY <2>2, <2>5 DEF MildCommand, Command
    <2> QED
      BY <2>6, AdrAnswerTyped, Listed, Zenon DEF c
  <1>3. SetToSeq(extra) \in Seq(MildCommand)
    <2>1. CASE extra = {}
      BY <2>1, ListOfNone, Listed, Zenon
    <2>2. CASE \E r \in requests : extra = {r}
      <3>1. PICK r \in requests : extra = {r}
        BY <2>2
      <3>2. r \in MildCommand
        <4>1. r \in Requests /\ r \in Request
          BY RequestsAssumption DEF TInv
        <4>2. r \in Command /\ Mild(r)
          BY <4>1 DEF Command, Peaceful
        <4> QED
          BY <4>2 DEF MildCommand
      <3>3. SetToSeq(extra) = <<r>>
        BY <3>1, ListOfOne, Zenon
      <3> QED
        BY <3>2, <3>3, Listed, Zenon
    <2> QED
      BY <2>1, <2>2
  <1> QED
    BY <1>1, <1>2, <1>3, Joined DEF BeforeSendingReply

LEMMA InitQuiet == Region = "EU" /\ Init => Quiet
  <1> SUFFICES ASSUME Region = "EU", Init PROVE Quiet
    OBVIOUS
  <1>1. PICK adr \in BOOLEAN, dr \in InitialDataRates : dev = NewDevice(Region, dr, adr)
    BY DEF Init
  <1>2. dr \in 0 .. 5
    BY InitialRates
  <1>3. dev.dr = dr /\ dev.channels = Channels(Region) /\ dev.fault = "none"
    BY <1>1 DEF NewDevice
  <1>4. \A i \in Home : Channels(Region)[i].enabled
    <2>1. Channels(Region) = EuChannels
      BY SMT DEF Channels
    <2>2. \A i \in 0 .. 2 : EuChannels[i].enabled = TRUE
      BY SMT DEF EuChannels, LogicalChannel
    <2> QED
      BY <2>1, <2>2, HomeChannels
  <1>5. Calm(dev)
    <2>1. \E i \in Home : Channels(Region)[i].enabled
      BY <1>4, HomeChannels
    <2>2. \A i \in Home : Band(Channels(Region)[i].frequency) = HomeBand
      BY HomeBands
    <2> QED
      BY <1>2, <1>3, <2>1, <2>2 DEF Calm, Home
  <1>6. postponed = {} /\ resting = {} /\ reply.commands = <<>>
    BY DEF Init, NoReply
  <1> QED
    BY <1>5, <1>6, Listed DEF Quiet

LEMMA QuietKept == Peaceful /\ TInv /\ Quiet /\ [Next]_vars => Quiet'
  <1> SUFFICES ASSUME Peaceful, TInv, Quiet, [Next]_vars PROVE Quiet'
    OBVIOUS
  <1>1. /\ Region = "EU" /\ Device(dev) /\ Calm(dev)
        /\ postponed \subseteq {HomeBand} /\ resting \subseteq {HomeBand}
        /\ reply.commands \in Seq(MildCommand)
    BY DEF Peaceful, TInv, Quiet
  <1>2. CASE Application
    <2> DEFINE d == EvaluateBackoff(dev)
    <2>1. /\ Backs(dev, d)
          /\ \/ Refuse(d)
             \/ AssertsInBand(d.channels, Bands(Region))
             \/ Postpone(d)
             \/ FreeBands(d) # {} /\ DoSend(d)
      BY <1>2, AppSendCases, Zenon
    <2> HIDE DEF d
    <2>2. Device(d) /\ Calm(d)
      BY <1>1, <2>1, BackoffCalm DEF Backs
    <2>3. ~AssertsInBand(d.channels, Bands(Region)) /\ BandsFor(d) = {HomeBand}
      BY <1>1, <2>2, CalmChannels
    <2>4. reply' = reply
      BY <1>2 DEF Application, AppSend
    <2>5. CASE Refuse(d)
      BY <1>1, <2>2, <2>4, <2>5 DEF Refuse, Quiet
    <2>6. CASE Postpone(d)
      <3>1. dev' = d /\ postponed' = BandsFor(d) /\ resting' = resting
        BY <2>6 DEF Postpone, BandsFor
      <3> QED
        BY <1>1, <2>2, <2>3, <2>4, <3>1 DEF Quiet
    <2>7. CASE FreeBands(d) # {} /\ DoSend(d)
      <3>1. Calm(dev') /\ postponed' = {} /\ resting' \subseteq {HomeBand}
        BY <1>1, <2>2, <2>7, SendsCalmly
      <3> QED
        BY <1>1, <2>4, <3>1 DEF Quiet
    <2> QED
      BY <2>1, <2>3, <2>5, <2>6, <2>7
  <1>3. CASE RunDoSend
    <2>1. FreeBands(dev) # {} /\ DoSend(dev) /\ reply' = reply
      BY <1>1, <1>3, RunsCalmly DEF RunDoSend
    <2>2. Calm(dev') /\ postponed' = {} /\ resting' \subseteq {HomeBand}
      BY <1>1, <2>1, SendsCalmly
    <2> QED
      BY <1>1, <2>1, <2>2 DEF Quiet
  <1>4. CASE AddLinkCheck
    <2>1. (\E a : dev' = Answer(dev, a)) /\ UNCHANGED <<postponed, resting, reply>>
      BY <1>4 DEF AddLinkCheck, Answer
    <2>2. Same(dev, dev')
      BY <1>1, <2>1, Answered
    <2>3. Calm(dev')
      BY <1>1, <2>2 DEF Same, Calm
    <2> QED
      BY <1>1, <2>1, <2>3 DEF Quiet
  <1>5. CASE Rested
    <2>1. UNCHANGED <<dev, postponed, reply>> /\ resting' \subseteq resting
      BY <1>5 DEF Rested
    <2> QED
      BY <1>1, <2>1 DEF Quiet
  <1>6. CASE UplinkArrives
    <2>1. UNCHANGED <<dev, postponed, resting>>
      BY <1>6 DEF UplinkArrives
    <2>2. reply' = reply \/ reply' = [NoReply EXCEPT !.needed = frame.adrAckReq, !.window = 1]
      BY <1>6 DEF UplinkArrives
    <2>3. reply'.commands = reply.commands \/ reply'.commands = <<>>
      BY <2>2 DEF NoReply
    <2>4. reply'.commands \in Seq(MildCommand)
      BY <1>1, <2>3, Listed
    <2> QED
      BY <1>1, <2>1, <2>4 DEF Quiet
  <1>7. CASE OnReceiveWindowOpportunity
    <2>1. UNCHANGED <<dev, postponed, resting>> /\ reply.window > 0
      BY <1>7 DEF OnReceiveWindowOpportunity
    <2>2. PICK window \in {1, 2}, extra \in {{}} \cup {{r} : r \in requests} :
             \/ reply' = NoReply
             \/ reply' = [needed |-> TRUE, window |-> window,
                          commands |-> BeforeSendingReply \o SetToSeq(extra),
                          target |-> IF AdrAnswer = <<>> THEN <<>> ELSE <<AdrTarget>>,
                          dr |-> IF window = 1 THEN GetFirstReceiveWindowDataRate(dev)
                                               ELSE dev.rx2Dr]
      BY <1>7 DEF OnReceiveWindowOpportunity
    <2>3. reply'.commands = <<>> \/ reply'.commands = BeforeSendingReply \o SetToSeq(extra)
      BY <2>2 DEF NoReply
    <2>4. extra = {} \/ \E r \in requests : extra = {r}
      OBVIOUS
    <2>5. BeforeSendingReply \o SetToSeq(extra) \in Seq(MildCommand)
      BY <2>1, <2>4, AnswerMild
    <2>6. reply'.commands \in Seq(MildCommand)
      BY <2>3, <2>5, Listed
    <2> QED
      BY <1>1, <2>1, <2>6 DEF Quiet
  <1>8. CASE WindowsClose
    <2>1. UNCHANGED <<dev, resting>> /\ postponed' \in {postponed, {}} /\ reply'.commands = <<>>
      BY <1>8 DEF WindowsClose, NoReply
    <2> QED
      BY <1>1, <2>1, Listed DEF Quiet
  <1>9. CASE ReceiveReply
    <2>1. /\ dev' \in Receive(dev, reply.commands, DownlinkSnr)
          /\ UNCHANGED <<postponed, resting>> /\ reply'.commands = <<>>
      BY <1>9 DEF ReceiveReply, NoReply
    <2>2. Calm(dev')
      BY <1>1, <2>1, ReceiveCalm
    <2> QED
      BY <1>1, <2>1, <2>2, Listed DEF Quiet
  <1>10. CASE StormEnds \/ UNCHANGED vars
    <2>1. UNCHANGED <<dev, postponed, resting, reply>>
      BY <1>10 DEF StormEnds, vars
    <2> QED
      BY <1>1, <2>1 DEF Quiet
  <1> QED
    BY <1>2, <1>3, <1>4, <1>5, <1>6, <1>7, <1>8, <1>9, <1>10 DEF Next, Uplink, Application

(* In the EU region no assertion, vector::at or null channel stops a device   *)
(* that backs off, postpones packets and obeys the server, as long as new     *)
(* channels lie in the sub-band of the default ones and no LinkAdrReq of      *)
(* another controller disables the default channels, sets a data rate that    *)
(* they do not support or enables a channel that was taken away.  What the    *)
(* ADR component writes itself needs no such hypothesis.                      *)
THEOREM NothingFails == ASSUME Peaceful PROVE Spec => []NoFault
  <1>1. Init => TInv /\ Quiet
    BY InitTyped, InitQuiet DEF Peaceful
  <1>2. TInv /\ Quiet /\ [Next]_vars => TInv' /\ Quiet'
    BY NextTyped, QuietKept
  <1>3. Quiet => NoFault
    BY DEF Quiet, Calm, NoFault
  <1> QED
    BY <1>1, <1>2, <1>3, PTL DEF Spec
==============================================================================

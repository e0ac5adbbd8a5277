---------------------------- MODULE PlannerProofs ----------------------------
(***************************************************************************)
(* PlansAreProportional for strata of any number and sizes and any plan of *)
(* stages.  What a sum is takes induction over its length, which here is   *)
(* the least element of a set: SetInduction.                               *)
(***************************************************************************)
EXTENDS CohortPlanner, SequenceTheorems, WellFoundedInduction, TLAPS

(* Induction, and the sums of a sequence of numbers.                       *)

\* What a set of numbers keeps from each number to the next holds of them all.
LEMMA SetInduction ==
  ASSUME NEW S, 0 \in S, \A n \in Nat : n \in S => n + 1 \in S
  PROVE  Nat \subseteq S
<1> SUFFICES ASSUME Nat \ S # {} PROVE FALSE
  OBVIOUS
<1>1. PICK m \in Nat \ S : \A n \in Nat \ S : ~(<<n, m>> \in OpToRel(<, Nat))
  BY NatLessThanWellFounded, WFMin, Zenon
<1>2. \A n \in Nat : n < m => <<n, m>> \in OpToRel(<, Nat)
  BY DEF OpToRel
<1>3. \A n \in Nat \ S : ~(n < m)
  BY <1>1, <1>2, Zenon
<1>4. m - 1 \in Nat /\ m - 1 < m
  BY SMT
<1>5. QED
  BY <1>3, <1>4, SMT

\* The same up to a bound.
LEMMA UpTo ==
  ASSUME NEW S, NEW n \in Nat, 0 \in S, \A k \in 1..n : k - 1 \in S => k \in S
  PROVE  0..n \subseteq S
<1> DEFINE T == {k \in Nat : k \in S \/ k > n}
<1>1. 0 \in T
  OBVIOUS
<1>2. \A k \in Nat : k \in T => k + 1 \in T
  <2> SUFFICES ASSUME NEW k \in Nat, k \in T, k + 1 <= n PROVE k + 1 \in S
    OBVIOUS
  <2>1. k \in S /\ k + 1 \in 1..n /\ (k + 1) - 1 = k
    OBVIOUS
  <2>2. QED
    BY <2>1
<1> HIDE DEF T
<1>3. Nat \subseteq T
  BY <1>1, <1>2, SetInduction
<1>4. QED
  BY <1>3 DEF T

\* The recursion of the sums, of which there is one for every length.
Sum(s, f, n) == s = [k \in 0..n |-> IF k = 0 THEN 0 ELSE s[k - 1] + f[k]]

LEMMA SumsExist ==
  ASSUME NEW f, NEW n \in Nat
  PROVE  \E s : Sum(s, f, n)
<1> DEFINE S == {m \in Nat : \E s : Sum(s, f, m)}
<1>1. 0 \in S
  <2> DEFINE s == [k \in 0..0 |-> 0]
  <2>1. s = [k \in 0..0 |-> IF k = 0 THEN 0 ELSE s[k - 1] + f[k]]
    OBVIOUS
  <2>2. Sum(s, f, 0)
    BY <2>1 DEF Sum
  <2>3. QED
    BY <2>2
<1>2. ASSUME NEW m \in Nat, m \in S PROVE m + 1 \in S
  <2>1. PICK s : Sum(s, f, m)
    BY <1>2
  <2> DEFINE t == [k \in 0..m + 1 |-> IF k = m + 1 THEN s[m] + f[m + 1] ELSE s[k]]
  <2>2. \A k \in 0..m : s[k] = IF k = 0 THEN 0 ELSE s[k - 1] + f[k]
    BY <2>1 DEF Sum
  <2>3. \A k \in 0..m + 1 : t[k] = IF k = 0 THEN 0 ELSE t[k - 1] + f[k]
    BY <2>2
  <2>4. t = [k \in 0..m + 1 |-> IF k = 0 THEN 0 ELSE t[k - 1] + f[k]]
    BY <2>3
  <2>5. Sum(t, f, m + 1)
    BY <2>4 DEF Sum
  <2> HIDE DEF t
  <2>6. QED
    BY <2>5
<1> HIDE DEF S
<1>3. Nat \subseteq S
  BY <1>1, <1>2, SetInduction
<1>4. QED
  BY <1>3 DEF S

LEMMA SumsStep ==
  ASSUME NEW f, NEW n \in Nat
  PROVE  /\ Sums(f, n)[0] = 0
         /\ \A k \in 1..n : Sums(f, n)[k] = Sums(f, n)[k - 1] + f[k]
<1> DEFINE s == Sums(f, n)
<1>1. s = CHOOSE t : Sum(t, f, n)
  BY DEF Sums, Sum
<1>2. Sum(s, f, n)
  BY <1>1, SumsExist
<1> HIDE DEF s
<1>3. s[0] = 0 /\ \A k \in 1..n : s[k] = s[k - 1] + f[k]
  BY <1>2 DEF Sum
<1>4. QED
  BY <1>3 DEF s

LEMMA SumsType ==
  ASSUME NEW n \in Nat, NEW f, \A i \in 1..n : f[i] \in Nat
  PROVE  \A k \in 0..n : Sums(f, n)[k] \in Nat
<1> DEFINE S == {k \in 0..n : Sums(f, n)[k] \in Nat}
<1>1. 0 \in S
  BY SumsStep
<1>2. ASSUME NEW k \in 1..n, k - 1 \in S PROVE k \in S
  BY <1>2, SumsStep
<1> HIDE DEF S
<1>3. 0..n \subseteq S
  BY <1>1, <1>2, UpTo
<1>4. QED
  BY <1>3 DEF S

\* No sum is greater than that of greater numbers.
LEMMA SumsGrow ==
  ASSUME NEW n \in Nat, NEW f, NEW g,
         \A i \in 1..n : f[i] \in Nat /\ g[i] \in Nat /\ f[i] <= g[i]
  PROVE  Sums(f, n)[n] <= Sums(g, n)[n]
<1> DEFINE S == {k \in 0..n : Sums(f, n)[k] <= Sums(g, n)[k]}
<1>0. \A k \in 0..n : Sums(f, n)[k] \in Nat /\ Sums(g, n)[k] \in Nat
  BY SumsType
<1>1. 0 \in S
  BY SumsStep
<1>2. ASSUME NEW k \in 1..n, k - 1 \in S PROVE k \in S
  <2>1. /\ Sums(f, n)[k] = Sums(f, n)[k - 1] + f[k]
        /\ Sums(g, n)[k] = Sums(g, n)[k - 1] + g[k]
    BY SumsStep
  <2>2. Sums(f, n)[k - 1] <= Sums(g, n)[k - 1]
    BY <1>2
  <2>3. Sums(f, n)[k - 1] \in Nat /\ Sums(g, n)[k - 1] \in Nat
    BY <1>0
  <2>4. QED
    BY <2>1, <2>2, <2>3
<1> HIDE DEF S
<1>3. 0..n \subseteq S
  BY <1>1, <1>2, UpTo
<1>4. QED
  BY <1>3 DEF S

\* Changing one number changes the sum by as much.
LEMMA SumsExcept ==
  ASSUME NEW n \in Nat, NEW f \in [1..n -> Nat], NEW i \in 1..n, NEW v \in Nat
  PROVE  Sums([f EXCEPT ![i] = v], n)[n] = Sums(f, n)[n] + v - f[i]
<1> DEFINE g == [f EXCEPT ![i] = v]
           S == {k \in 0..n : Sums(g, n)[k] =
                    IF k < i THEN Sums(f, n)[k] ELSE Sums(f, n)[k] + v - f[i]}
<1>1. \A k \in 1..n : f[k] \in Nat /\ g[k] = IF k = i THEN v ELSE f[k]
  OBVIOUS
<1> HIDE DEF g
<1>2. \A k \in 1..n : g[k] \in Nat
  BY <1>1
<1>3. \A k \in 0..n : Sums(f, n)[k] \in Nat /\ Sums(g, n)[k] \in Nat
  BY <1>1, <1>2, SumsType
<1>4. 0 \in S
  BY SumsStep
<1>5. ASSUME NEW k \in 1..n, k - 1 \in S PROVE k \in S
  <2>1. /\ Sums(f, n)[k] = Sums(f, n)[k - 1] + f[k]
        /\ Sums(g, n)[k] = Sums(g, n)[k - 1] + g[k]
    BY SumsStep
  <2>2. Sums(g, n)[k - 1] =
          IF k - 1 < i THEN Sums(f, n)[k - 1] ELSE Sums(f, n)[k - 1] + v - f[i]
    BY <1>5
  <2>3. Sums(f, n)[k - 1] \in Nat /\ f[i] \in Nat /\ f[k] \in Nat
    BY <1>3, <1>1
  <2>4. g[k] = IF k = i THEN v ELSE f[k]
    BY <1>1
  <2>5. Sums(g, n)[k] = IF k < i THEN Sums(f, n)[k] ELSE Sums(f, n)[k] + v - f[i]
    BY <2>1, <2>2, <2>3, <2>4
  <2>6. QED
    BY <2>5
<1> HIDE DEF S
<1>6. 0..n \subseteq S
  BY <1>4, <1>5, UpTo
<1>7. n \in S /\ ~(n < i)
  BY <1>6
<1>8. QED
  BY <1>7 DEF S, g

\* Division by 100 with remainder, summed: c is what is shared out in
\* hundredths, q the quotients and r the remainders.
LEMMA SumsDivide ==
  ASSUME NEW n \in Nat, NEW p \in Nat, NEW c, NEW q, NEW r,
         \A i \in 1..n : /\ c[i] \in Nat /\ q[i] \in Nat /\ r[i] \in Nat
                         /\ c[i] * p = 100 * q[i] + r[i]
  PROVE  Sums(c, n)[n] * p = 100 * Sums(q, n)[n] + Sums(r, n)[n]
<1> DEFINE S == {k \in 0..n :
                   Sums(c, n)[k] * p = 100 * Sums(q, n)[k] + Sums(r, n)[k]}
<1>0. \A k \in 0..n : /\ Sums(c, n)[k] \in Nat
                      /\ Sums(q, n)[k] \in Nat
                      /\ Sums(r, n)[k] \in Nat
  BY SumsType
<1>1. 0 \in S
  BY SumsStep
<1>2. ASSUME NEW k \in 1..n, k - 1 \in S PROVE k \in S
  <2>1. /\ Sums(c, n)[k] = Sums(c, n)[k - 1] + c[k]
        /\ Sums(q, n)[k] = Sums(q, n)[k - 1] + q[k]
        /\ Sums(r, n)[k] = Sums(r, n)[k - 1] + r[k]
    BY SumsStep
  <2>2. Sums(c, n)[k - 1] * p = 100 * Sums(q, n)[k - 1] + Sums(r, n)[k - 1]
    BY <1>2
  <2>3. \A x, y \in Nat : (x + y) * p = x * p + y * p
    BY SMT
  <2>4. /\ Sums(c, n)[k - 1] \in Nat /\ c[k] \in Nat
        /\ Sums(q, n)[k - 1] \in Nat /\ q[k] \in Nat
        /\ Sums(r, n)[k - 1] \in Nat /\ r[k] \in Nat
    BY <1>0
  <2>5. Sums(c, n)[k] * p = Sums(c, n)[k - 1] * p + c[k] * p
    BY <2>1, <2>3, <2>4
  <2>6. QED
    BY <2>1, <2>2, <2>4, <2>5
<1> HIDE DEF S
<1>3. 0..n \subseteq S
  BY <1>1, <1>2, UpTo
<1>4. QED
  BY <1>3 DEF S

\* A sum that is not zero has a number that is not.
LEMMA SomeAddend ==
  ASSUME NEW n \in Nat, NEW f, \A i \in 1..n : f[i] \in Nat, Sums(f, n)[n] > 0
  PROVE  \E i \in 1..n : f[i] > 0
<1> SUFFICES ASSUME \A i \in 1..n : f[i] = 0 PROVE FALSE
  OBVIOUS
<1> DEFINE S == {k \in 0..n : Sums(f, n)[k] = 0}
<1>1. 0 \in S
  BY SumsStep
<1>2. ASSUME NEW k \in 1..n, k - 1 \in S PROVE k \in S
  BY <1>2, SumsStep
<1> HIDE DEF S
<1>3. 0..n \subseteq S
  BY <1>1, <1>2, UpTo
<1>4. QED
  BY <1>3 DEF S
-----------------------------------------------------------------------------
(* The state of a plan in progress.                                        *)

PlanTypes ==
  /\ sizes \in Seq(Nat) /\ percentages \in Seq(Int)
  /\ ValidStages(percentages) /\ Total(sizes) > 0
  /\ cumulative \in Seq([Strata -> Nat]) /\ stage <= Len(percentages)
  /\ remainders \in [Strata -> 0..99]
  /\ stage > 0 => allocated = Total(cumulative[stage])

\* Between its share and its size, and never less than before.
Proportional ==
  /\ \A s \in 1..stage, k \in Strata :
       Share(s, k) <= cumulative[s][k] /\ cumulative[s][k] <= sizes[k]
  /\ \A s, t \in 1..stage, k \in Strata :
       s < t => cumulative[s][k] <= cumulative[t][k]
  /\ \A s \in 1..stage : s < stage => Total(cumulative[s]) >= Target(s)
  /\ stage = Len(percentages) => cumulative[stage] = sizes

\* The first stage gives a device only for a remainder, and there are enough.
FirstStage ==
  /\ stage > 0 =>
       \A k \in Strata : 100 * cumulative[1][k] <= sizes[k] * percentages[1] + 99
  /\ stage > 1 => Total(cumulative[1]) = Target(1)
  /\ stage = 1 =>
       /\ allocated <= Target(1)
       /\ 100 * (Target(1) - allocated) <= Total(remainders) + 99
       /\ \A k \in Strata :
            \/ remainders[k] = 0
            \/ /\ remainders[k] = Remainder(1, k)
               /\ cumulative[1][k] = Share(1, k)

PlanInv == PlanTypes /\ Proportional /\ FirstStage

\* What is shared out, and to how many.
LEMMA TotalsAreNat ==
  ASSUME PlanTypes, NEW f \in [Strata -> Nat]
  PROVE  Total(f) \in Nat /\ Len(sizes) \in Nat
<1>1. Len(sizes) \in Nat
  BY DEF PlanTypes
<1>2. QED
  BY <1>1, SumsType DEF Total, Strata

LEMMA SizesAreNat ==
  ASSUME PlanTypes
  PROVE  sizes \in [Strata -> Nat] /\ Len(sizes) \in Nat
BY DEF PlanTypes, Strata

LEMMA StageIsNat ==
  ASSUME PlanTypes
  PROVE  /\ stage \in Nat /\ Len(percentages) \in Nat /\ Len(percentages) > 0
         /\ \A s \in 1..Len(percentages) : percentages[s] \in 1..100
         /\ percentages[Len(percentages)] = 100
         /\ \A s \in 1..stage : cumulative[s] \in [Strata -> Nat]
<1>1. /\ percentages \in Seq(Int) /\ percentages # <<>>
      /\ percentages[Len(percentages)] = 100
      /\ \A s \in DOMAIN percentages : percentages[s] \in 1..100
  BY DEF PlanTypes, ValidStages
<1>2. Len(percentages) \in Nat /\ Len(percentages) > 0
  BY <1>1
<1>3. \A s \in 1..Len(percentages) : percentages[s] \in 1..100
  <2>1. DOMAIN percentages = 1..Len(percentages)
    BY <1>1
  <2>2. \A s \in DOMAIN percentages : percentages[s] \in 1..100
    BY <1>1
  <2>3. QED
    BY <2>1, <2>2, Zenon
<1>4. stage \in Nat /\ \A s \in 1..stage : cumulative[s] \in [Strata -> Nat]
  <2>1. cumulative \in Seq([Strata -> Nat])
    BY DEF PlanTypes
  <2> DEFINE T == [Strata -> Nat]
  <2> HIDE DEF T
  <2>2. cumulative \in Seq(T)
    BY <2>1 DEF T
  <2>3. Len(cumulative) \in Nat /\ \A s \in 1..Len(cumulative) : cumulative[s] \in T
    BY <2>2
  <2>4. QED
    BY <2>3 DEF T, stage
<1>5. QED
  BY <1>1, <1>2, <1>3, <1>4

\* A hundredth part rounded down, and its remainder.
LEMMA Hundredths ==
  ASSUME NEW x \in Nat
  PROVE  /\ x \div 100 \in Nat /\ x % 100 \in 0..99
         /\ x = 100 * (x \div 100) + (x % 100)
BY SMT

LEMMA SharesOf ==
  ASSUME PlanTypes, NEW s \in 1..Len(percentages), NEW k \in Strata
  PROVE  /\ Share(s, k) \in Nat /\ Share(s, k) <= sizes[k]
         /\ sizes[k] * percentages[s] \in Nat
         /\ Remainder(s, k) \in 0..99
         /\ sizes[k] * percentages[s]
              = 100 * Share(s, k) + Remainder(s, k)
         /\ s = Len(percentages) => Share(s, k) = sizes[k]
<1>1. sizes[k] \in Nat /\ percentages[s] \in 1..100
  BY SizesAreNat, StageIsNat
<1> DEFINE c == sizes[k]
           p == percentages[s]
<1> HIDE DEF c, p
<1>2. c \in Nat /\ p \in 1..100
  BY <1>1 DEF c, p
<1>3. c * p \in Nat /\ c * p <= c * 100
  BY <1>2, SMT
<1>4. /\ (c * p) \div 100 \in Nat /\ (c * p) % 100 \in 0..99
      /\ c * p = 100 * ((c * p) \div 100) + ((c * p) % 100)
  BY <1>3, Hundredths
<1>5. (c * p) \div 100 <= c
  <2> DEFINE q == (c * p) \div 100
             r == (c * p) % 100
             y == c * p
  <2>1. q \in Nat /\ r \in 0..99 /\ y = 100 * q + r /\ y <= c * 100
    BY <1>3, <1>4
  <2> HIDE DEF q, r, y
  <2>2. q <= c
    BY <1>2, <2>1, SMT
  <2>3. QED
    BY <2>2 DEF q
<1>6. p = 100 => (c * p) \div 100 = c
  BY <1>2, SMT
<1>7. s = Len(percentages) => p = 100
  BY StageIsNat DEF p
<1>8. QED
  BY <1>3, <1>4, <1>5, <1>6, <1>7 DEF c, p, Share, Remainder

LEMMA TargetsAreNat ==
  ASSUME PlanTypes, NEW s \in 1..Len(percentages)
  PROVE  /\ Target(s) \in Nat /\ Target(s) <= Total(sizes)
         /\ Total(sizes) * percentages[s] \in Nat
         /\ Total(sizes) * percentages[s] <= 100 * Target(s)
         /\ 100 * Target(s) <= Total(sizes) * percentages[s] + 99
<1>1. Total(sizes) \in Nat /\ Total(sizes) > 0 /\ percentages[s] \in 1..100
  BY SizesAreNat, TotalsAreNat, StageIsNat DEF PlanTypes
<1> DEFINE n == Total(sizes)
           p == percentages[s]
           x == n * p
           share == (x + 99) \div 100
<1> HIDE DEF n, p
<1>3. n \in Nat /\ n > 0 /\ p \in 1..100
  BY <1>1 DEF n, p
<1>2. x \in Nat /\ x > 0 /\ x <= n * 100
  BY <1>3, SMT
<1> HIDE DEF x
<1>4. share \in Nat /\ x <= 100 * share /\ 100 * share <= x + 99
  <2>1. x + 99 \in Nat
    BY <1>2
  <2>2. QED
    BY <1>2, <2>1, Hundredths, SMT
<1> HIDE DEF share
<1>5. share >= 1 /\ share <= n
  BY <1>2, <1>3, <1>4, SMT
<1>6. Target(s) = IF share < 1 THEN 1 ELSE share
  BY DEF Target, share, x, n, p
<1>7. Target(s) = share
  BY <1>4, <1>5, <1>6
<1>8. QED
  BY <1>2, <1>4, <1>5, <1>7 DEF x, n, p
-----------------------------------------------------------------------------
(* A stage is begun.                                                       *)

\* A stage that is filled has reached its target, whether it gave that many
\* devices or ran out of room.
LEMMA FilledIsEnough ==
  ASSUME PlanTypes, Filled, stage > 0
  PROVE  Total(cumulative[stage]) >= Target(stage)
<1>1. CASE allocated >= Target(stage)
  BY <1>1 DEF PlanTypes
<1>2. CASE Room = {}
  <2>1. stage \in 1..Len(percentages) /\ cumulative[stage] \in [Strata -> Nat]
    BY StageIsNat DEF PlanTypes
  <2>2. sizes \in [Strata -> Nat] /\ Len(sizes) \in Nat
    BY SizesAreNat
  <2>3. \A k \in Strata : sizes[k] <= cumulative[stage][k]
    BY <1>2, <2>1, <2>2 DEF Room
  <2>4. Total(sizes) <= Total(cumulative[stage])
    BY <2>1, <2>2, <2>3, SumsGrow DEF Total, Strata
  <2>5. Target(stage) \in Nat /\ Target(stage) <= Total(sizes)
    BY <2>1, TargetsAreNat
  <2>6. Total(sizes) \in Nat /\ Total(cumulative[stage]) \in Nat
    BY <2>1, <2>2, TotalsAreNat
  <2>7. QED
    BY <2>4, <2>5, <2>6
<1>3. QED
  BY <1>1, <1>2 DEF Filled

\* The stage that is begun: never above the sizes nor below the one before.
LEMMA BaseFits ==
  ASSUME PlanTypes, Proportional, stage < Len(percentages)
  PROVE  /\ stage + 1 \in 1..Len(percentages)
         /\ Base(stage + 1) \in [Strata -> Nat]
         /\ \A k \in Strata :
              /\ Share(stage + 1, k) <= Base(stage + 1)[k]
              /\ Base(stage + 1)[k] <= sizes[k]
              /\ stage > 0 => cumulative[stage][k] <= Base(stage + 1)[k]
              /\ stage = 0 => Base(stage + 1)[k] = Share(1, k)
         /\ stage + 1 = Len(percentages) => Base(stage + 1) = sizes
<1>1. stage \in Nat /\ stage + 1 \in 1..Len(percentages)
  BY StageIsNat
<1>2. sizes \in [Strata -> Nat]
  BY SizesAreNat
<1>3. ASSUME NEW k \in Strata
      PROVE  /\ Share(stage + 1, k) \in Nat /\ Share(stage + 1, k) <= sizes[k]
             /\ stage + 1 = Len(percentages) => Share(stage + 1, k) = sizes[k]
  BY <1>1, SharesOf
<1>4. ASSUME NEW k \in Strata, stage > 0
      PROVE  cumulative[stage][k] \in Nat /\ cumulative[stage][k] <= sizes[k]
  <2>1. stage \in 1..stage
    BY <1>1, <1>4
  <2>2. cumulative[stage] \in [Strata -> Nat]
    BY <2>1, StageIsNat
  <2>3. QED
    BY <1>4, <2>1, <2>2 DEF Proportional
<1>5. ASSUME NEW k \in Strata
      PROVE  /\ Base(stage + 1)[k] \in Nat
             /\ Share(stage + 1, k) <= Base(stage + 1)[k]
             /\ Base(stage + 1)[k] <= sizes[k]
             /\ stage > 0 => cumulative[stage][k] <= Base(stage + 1)[k]
             /\ stage = 0 => Base(stage + 1)[k] = Share(1, k)
             /\ stage + 1 = Len(percentages) => Base(stage + 1)[k] = sizes[k]
  <2>1. (stage + 1) - 1 = stage /\ (stage + 1 > 1 <=> stage > 0)
    BY <1>1
  <2>2. Base(stage + 1)[k] = IF stage > 0 /\ cumulative[stage][k] > Share(stage + 1, k)
                             THEN cumulative[stage][k] ELSE Share(stage + 1, k)
    BY <2>1 DEF Base
  <2>3. sizes[k] \in Nat
    BY <1>2
  <2>4. stage = 0 => stage + 1 = 1
    OBVIOUS
  <2>5. QED
    BY <1>1, <1>3, <1>4, <2>2, <2>3, <2>4
<1>6. Base(stage + 1) = [k \in Strata |-> Base(stage + 1)[k]]
  BY DEF Base
<1>7. Base(stage + 1) \in [Strata -> Nat]
  BY <1>5, <1>6
<1>8. stage + 1 = Len(percentages) => Base(stage + 1) = sizes
  BY <1>2, <1>5, <1>6
<1>9. QED
  BY <1>1, <1>5, <1>7, <1>8

\* The shares of the first stage and what rounding took from them.
Sharing(base, rest) ==
  \A k \in Strata : base[k] = Share(1, k) /\ rest[k] = Remainder(1, k)

\* What a first stage has to add to its shares is at most what rounding took.
LEMMA FirstStageOwes ==
  ASSUME PlanTypes, NEW base, NEW rest, Sharing(base, rest)
  PROVE  /\ Total(base) \in Nat /\ Total(rest) \in Nat /\ Target(1) \in Nat
         /\ Total(base) <= Target(1)
         /\ 100 * (Target(1) - Total(base)) <= Total(rest) + 99
<1>1. Len(sizes) \in Nat /\ sizes \in [Strata -> Nat]
  BY SizesAreNat
<1>2. 1 \in 1..Len(percentages)
  BY StageIsNat
<1>p. percentages[1] \in Nat
  <2>1. percentages[1] \in 1..100
    BY <1>2, StageIsNat
  <2> DEFINE p == percentages[1]
  <2> HIDE DEF p
  <2>2. p \in Nat
    BY <2>1 DEF p
  <2>3. QED
    BY <2>2 DEF p
<1>3. ASSUME NEW k \in Strata
      PROVE  /\ sizes[k] \in Nat /\ base[k] \in Nat /\ rest[k] \in Nat
             /\ sizes[k] * percentages[1] = 100 * base[k] + rest[k]
  <2>2. base[k] = Share(1, k) /\ rest[k] = Remainder(1, k)
    BY DEF Sharing
  <2> DEFINE x == sizes[k] * percentages[1]
  <2>3. /\ Share(1, k) \in Nat /\ Remainder(1, k) \in 0..99
        /\ x = 100 * Share(1, k) + Remainder(1, k)
    BY <1>2, SharesOf
  <2>4. sizes[k] \in Nat
    BY <1>1
  <2> HIDE DEF x
  <2>5. sizes[k] \in Nat /\ base[k] \in Nat /\ rest[k] \in Nat /\ x = 100 * base[k] + rest[k]
    BY <2>2, <2>3, <2>4
  <2>6. QED
    BY <2>5 DEF x
<1>4. Total(sizes) * percentages[1] = 100 * Total(base) + Total(rest)
  <2> DEFINE n == Len(sizes)
             p == percentages[1]
  <2>1. \A k \in 1..n : /\ sizes[k] \in Nat /\ base[k] \in Nat /\ rest[k] \in Nat
                        /\ sizes[k] * p = 100 * base[k] + rest[k]
    BY <1>3 DEF Strata
  <2>2. n \in Nat /\ p \in Nat
    BY <1>1, <1>p
  <2> HIDE DEF n, p
  <2>3. Sums(sizes, n)[n] * p = 100 * Sums(base, n)[n] + Sums(rest, n)[n]
    BY <2>1, <2>2, SumsDivide
  <2>4. QED
    BY <2>3 DEF Total, n, p
<1>5. Total(base) \in Nat /\ Total(rest) \in Nat
  BY <1>1, <1>3, SumsType DEF Total, Strata
<1>6. /\ Target(1) \in Nat
      /\ Total(sizes) * percentages[1] <= 100 * Target(1)
      /\ 100 * Target(1) <= Total(sizes) * percentages[1] + 99
  BY <1>2, TargetsAreNat
<1>7. QED
  <2> DEFINE x == Total(sizes) * percentages[1]
  <2>1. x = 100 * Total(base) + Total(rest)
    BY <1>4
  <2>2. x <= 100 * Target(1) /\ 100 * Target(1) <= x + 99
    BY <1>6
  <2> HIDE DEF x
  <2>3. QED
    BY <1>5, <1>6, <2>1, <2>2

\* What a stage adds to the plan.
LEMMA Begun ==
  ASSUME PlanTypes, Proportional, PlanStage
  PROVE  /\ stage' = stage + 1 /\ stage + 1 \in 1..Len(percentages)
         /\ cumulative' \in Seq([Strata -> Nat])
         /\ \A s \in 1..stage : cumulative'[s] = cumulative[s]
         /\ cumulative'[stage + 1] = Base(stage + 1)
         /\ allocated' = Total(cumulative'[stage + 1])
         /\ sizes' = sizes /\ percentages' = percentages
<1> DEFINE T == [Strata -> Nat]
           base == Base(stage + 1)
<1>1. /\ cumulative' = Append(cumulative, base) /\ allocated' = Total(base)
      /\ sizes' = sizes /\ percentages' = percentages
      /\ stage < Len(percentages)
  BY DEF PlanStage
<1>2. base \in T /\ stage + 1 \in 1..Len(percentages)
  BY <1>1, BaseFits
<1>3. cumulative \in Seq(T)
  BY DEF PlanTypes
<1> HIDE DEF T, base
<1>4. /\ cumulative' \in Seq(T) /\ Len(cumulative') = Len(cumulative) + 1
      /\ \A s \in 1..Len(cumulative) : cumulative'[s] = cumulative[s]
      /\ cumulative'[Len(cumulative) + 1] = base
  BY <1>1, <1>2, <1>3, AppendProperties
<1>5. QED
  BY <1>1, <1>2, <1>4 DEF T, base, stage

\* What the sizes and percentages alone decide stays as it is.
LEMMA Steady ==
  ASSUME sizes' = sizes, percentages' = percentages
  PROVE  /\ Strata' = Strata /\ Total(sizes)' = Total(sizes)
         /\ ValidStages(percentages)' <=> ValidStages(percentages)
         /\ \A s, k : Share(s, k)' = Share(s, k) /\ Remainder(s, k)' = Remainder(s, k)
         /\ \A s : Target(s)' = Target(s)
BY DEF Strata, Total, ValidStages, Share, Remainder, Target

LEMMA PlanStageTypes ==
  ASSUME PlanTypes, Proportional, PlanStage
  PROVE  PlanTypes'
<1>1. /\ stage' = stage + 1 /\ stage + 1 \in 1..Len(percentages)
      /\ cumulative' \in Seq([Strata -> Nat])
      /\ allocated' = Total(cumulative'[stage + 1])
      /\ sizes' = sizes /\ percentages' = percentages
  BY Begun
<1>2. /\ sizes' \in Seq(Nat) /\ percentages' \in Seq(Int)
      /\ ValidStages(percentages)' /\ Total(sizes)' > 0
      /\ Strata' = Strata
  BY <1>1, Steady DEF PlanTypes
<1>3. stage' <= Len(percentages')
  BY <1>1, StageIsNat
<1>4. remainders' \in [Strata -> 0..99]
  <2>1. remainders' = [k \in Strata |-> Remainder(stage + 1, k)]
    BY DEF PlanStage
  <2>2. \A k \in Strata : Remainder(stage + 1, k) \in 0..99
    BY <1>1, SharesOf
  <2>3. QED
    BY <2>1, <2>2
<1>5. allocated' = Total(cumulative[stage])'
  BY <1>1 DEF Total
<1>6. cumulative' \in Seq([Strata' -> Nat]) /\ remainders' \in [Strata' -> 0..99]
  BY <1>1, <1>2, <1>4
<1>7. QED
  BY <1>2, <1>3, <1>5, <1>6 DEF PlanTypes

LEMMA PlanStageProportional ==
  ASSUME PlanTypes, Proportional, PlanStage
  PROVE  Proportional'
<1>1. /\ stage' = stage + 1 /\ stage + 1 \in 1..Len(percentages)
      /\ \A s \in 1..stage : cumulative'[s] = cumulative[s]
      /\ cumulative'[stage + 1] = Base(stage + 1)
      /\ sizes' = sizes /\ percentages' = percentages
      /\ stage \in Nat
  BY Begun, StageIsNat
<1>2. /\ Strata' = Strata
      /\ \A s, k : Share(s, k)' = Share(s, k)
      /\ \A s : Target(s)' = Target(s)
  BY <1>1, Steady
<1>3. /\ Base(stage + 1) \in [Strata -> Nat]
      /\ \A k \in Strata :
           /\ Share(stage + 1, k) <= Base(stage + 1)[k]
           /\ Base(stage + 1)[k] <= sizes[k]
           /\ stage > 0 => cumulative[stage][k] <= Base(stage + 1)[k]
      /\ stage + 1 = Len(percentages) => Base(stage + 1) = sizes
  <2>1. stage < Len(percentages)
    BY DEF PlanStage
  <2>2. QED
    BY <2>1, BaseFits
<1>4. ASSUME NEW s \in 1..stage + 1, NEW k \in Strata
      PROVE  Share(s, k) <= cumulative'[s][k] /\ cumulative'[s][k] <= sizes[k]
  <2>1. CASE s \in 1..stage
    BY <1>1, <2>1 DEF Proportional
  <2>2. CASE s = stage + 1
    BY <1>1, <1>3, <2>2
  <2>3. QED
    BY <1>1, <2>1, <2>2
<1>5. ASSUME NEW s \in 1..stage + 1, NEW t \in 1..stage + 1, s < t, NEW k \in Strata
      PROVE  cumulative'[s][k] <= cumulative'[t][k]
  <2>1. CASE t \in 1..stage
    <3>1. s \in 1..stage
      BY <1>1, <1>5, <2>1
    <3>2. QED
      BY <1>1, <1>5, <2>1, <3>1 DEF Proportional
  <2>2. CASE t = stage + 1
    <3>1. s \in 1..stage /\ stage > 0 /\ stage \in 1..stage
      BY <1>1, <1>5, <2>2
    <3>2. cumulative[s] \in [Strata -> Nat] /\ cumulative[stage] \in [Strata -> Nat]
      BY <3>1, StageIsNat
    <3> DEFINE x == cumulative[s][k]
               y == cumulative[stage][k]
               z == Base(stage + 1)[k]
    <3>3. x \in Nat /\ y \in Nat /\ z \in Nat
      BY <1>3, <3>2
    <3>4. s < stage => x <= y
      BY <3>1 DEF Proportional
    <3>5. s = stage => x = y
      OBVIOUS
    <3>6. y <= z
      BY <1>3, <3>1
    <3>7. cumulative'[s][k] = x /\ cumulative'[t][k] = z
      BY <1>1, <2>2, <3>1
    <3> HIDE DEF x, y, z
    <3>8. x <= y
      BY <1>1, <3>1, <3>3, <3>4, <3>5
    <3>9. QED
      BY <3>3, <3>6, <3>7, <3>8
  <2>3. QED
    BY <1>1, <2>1, <2>2
<1>6. ASSUME NEW s \in 1..stage
      PROVE  Total(cumulative[s])' >= Target(s)
  <2>1. Total(cumulative[s]) >= Target(s)
    <3>1. CASE s = stage
      <4>1. Filled /\ stage > 0
        BY <1>1, <3>1 DEF PlanStage
      <4>2. QED
        BY <3>1, <4>1, FilledIsEnough
    <3>2. CASE s < stage
      BY <3>2 DEF Proportional
    <3>3. QED
      BY <1>1, <3>1, <3>2
  <2>2. Total(cumulative[s])' = Total(cumulative[s])
    BY <1>1 DEF Total
  <2>3. QED
    BY <2>1, <2>2
<1>7. stage + 1 = Len(percentages) => cumulative'[stage + 1] = sizes
  BY <1>1, <1>3
<1>8. \A s \in 1..stage + 1 : s < stage + 1 => s \in 1..stage
  BY <1>1
<1>9. QED
  BY <1>1, <1>2, <1>4, <1>5, <1>6, <1>7, <1>8 DEF Proportional

LEMMA PlanStageFirst ==
  ASSUME PlanInv, PlanStage
  PROVE  FirstStage'
<1>0. PlanTypes /\ Proportional /\ FirstStage
  BY DEF PlanInv
<1>1. /\ stage' = stage + 1 /\ stage + 1 \in 1..Len(percentages)
      /\ \A s \in 1..stage : cumulative'[s] = cumulative[s]
      /\ cumulative'[stage + 1] = Base(stage + 1)
      /\ allocated' = Total(cumulative'[stage + 1])
      /\ sizes' = sizes /\ percentages' = percentages
      /\ stage \in Nat /\ stage < Len(percentages)
  BY <1>0, Begun, StageIsNat DEF PlanStage
<1>2. /\ Strata' = Strata
      /\ \A k : Share(1, k)' = Share(1, k) /\ Remainder(1, k)' = Remainder(1, k)
      /\ Target(1)' = Target(1)
  BY <1>1, Steady
<1>3. remainders' = [k \in Strata |-> Remainder(stage + 1, k)]
  BY DEF PlanStage
<1>4. CASE stage = 0
  <2>1. Sharing(cumulative'[1], remainders')
    <3>1. \A k \in Strata : Base(stage + 1)[k] = Share(1, k)
      BY <1>0, <1>1, <1>4, BaseFits
    <3>2. QED
      BY <1>1, <1>3, <1>4, <3>1 DEF Sharing
  <2>2. /\ Total(cumulative'[1]) <= Target(1)
        /\ 100 * (Target(1) - Total(cumulative'[1])) <= Total(remainders') + 99
    BY <1>0, <2>1, FirstStageOwes
  <2>3. Total(remainders)' = Total(remainders')
    BY <1>1 DEF Total
  <2>4. ASSUME NEW k \in Strata
        PROVE  100 * cumulative'[1][k] <= sizes[k] * percentages[1] + 99
    <3> DEFINE x == sizes[k] * percentages[1]
               q == Share(1, k)
               r == Remainder(1, k)
    <3>1. 1 \in 1..Len(percentages)
      BY <1>1, <1>4
    <3>2. q \in Nat /\ r \in 0..99 /\ x = 100 * q + r
      BY <1>0, <3>1, SharesOf
    <3>3. cumulative'[1][k] = q
      BY <2>1 DEF Sharing
    <3> HIDE DEF x, q, r
    <3>4. 100 * cumulative'[1][k] <= x + 99
      BY <3>2, <3>3
    <3>5. QED
      BY <3>4 DEF x
  <2>5. stage' = 1 /\ allocated' = Total(cumulative'[1])
    BY <1>1, <1>4
  <2>6. QED
    BY <1>1, <1>2, <2>1, <2>2, <2>3, <2>4, <2>5 DEF FirstStage, Sharing
<1>5. CASE stage > 0
  <2>1. 1 \in 1..stage /\ cumulative'[1] = cumulative[1] /\ stage' > 1
    BY <1>1, <1>5
  <2>2. Total(cumulative[1]) = Target(1)
    <3>1. CASE stage = 1
      <4>1. Total(cumulative[1]) >= Target(1)
        BY <1>0, <1>5, <3>1, FilledIsEnough DEF PlanStage
      <4>2. Total(cumulative[1]) <= Target(1)
        BY <1>0, <3>1 DEF PlanTypes, FirstStage
      <4>3. Total(cumulative[1]) \in Nat
        BY <1>0, <2>1, StageIsNat, TotalsAreNat
      <4>4. Target(1) \in Nat
        <5>1. 1 \in 1..Len(percentages)
          BY <1>1, <3>1
        <5>2. QED
          BY <1>0, <5>1, TargetsAreNat
      <4>5. QED
        BY <4>1, <4>2, <4>3, <4>4
    <3>2. CASE stage > 1
      BY <1>0, <3>2 DEF FirstStage
    <3>3. QED
      BY <1>1, <1>5, <3>1, <3>2
  <2>3. Total(cumulative[1])' = Total(cumulative[1])
    BY <1>1, <2>1 DEF Total
  <2>4. \A k \in Strata : 100 * cumulative'[1][k] <= sizes[k] * percentages[1] + 99
    BY <1>0, <1>5, <2>1 DEF FirstStage
  <2>5. ~(stage' = 1)
    BY <2>1
  <2>6. QED
    BY <1>1, <1>2, <2>2, <2>3, <2>4, <2>5 DEF FirstStage
<1>6. QED
  BY <1>1, <1>4, <1>5

LEMMA PlanStageKeeps ==
  ASSUME PlanInv, PlanStage
  PROVE  PlanInv'
BY PlanStageTypes, PlanStageProportional, PlanStageFirst DEF PlanInv
-----------------------------------------------------------------------------
(* A device is given.                                                      *)

\* The largest number, the first of equals, of some of a sequence.
LEMMA FirstLargest ==
  ASSUME NEW n \in Nat, NEW f, NEW some, some # {},
         \A i \in some : i \in 1..n /\ f[i] \in Nat
  PROVE  \E k \in some : \A other \in some :
           f[k] > f[other] \/ (f[k] = f[other] /\ k <= other)
<1> DEFINE First(k, m) == \A other \in some : other <= m =>
             f[k] > f[other] \/ (f[k] = f[other] /\ k <= other)
           S == {m \in 0..n : \/ \A i \in some : ~(i <= m)
                              \/ \E k \in some : First(k, m)}
<1>1. 0 \in S
  <2>1. \A i \in some : ~(i <= 0)
    OBVIOUS
  <2>2. 0 \in 0..n
    OBVIOUS
  <2>3. QED
    BY <2>1, <2>2
<1>2. ASSUME NEW m \in 1..n, m - 1 \in S PROVE m \in S
  <2>1. \A i \in some : i <= m <=> i <= m - 1 \/ i = m
    OBVIOUS
  <2>2. CASE \A i \in some : ~(i <= m - 1)
    <3>1. CASE m \in some
      <4>1. First(m, m)
        BY <2>1, <2>2, <3>1
      <4>2. QED
        BY <3>1, <4>1
    <3>2. CASE m \notin some
      <4>1. \A i \in some : ~(i <= m)
        BY <2>1, <2>2, <3>2
      <4>2. QED
        BY <4>1
    <3>3. QED
      BY <3>1, <3>2
  <2>3. CASE \E k \in some : First(k, m - 1)
    <3>1. PICK k \in some : First(k, m - 1)
      BY <2>3
    <3>2. k \in 1..n /\ f[k] \in Nat
      OBVIOUS
    <3>3. CASE m \notin some \/ f[m] < f[k] \/ (f[m] = f[k] /\ k <= m)
      <4>1. First(k, m)
        BY <2>1, <3>1, <3>3
      <4>2. QED
        BY <4>1
    <3>4. CASE m \in some /\ f[m] > f[k]
      <4>1. First(m, m)
        BY <2>1, <3>1, <3>2, <3>4
      <4>2. QED
        BY <3>4, <4>1
    <3>5. CASE m \in some /\ f[m] = f[k] /\ m < k
      <4>1. First(m, m)
        BY <2>1, <3>1, <3>2, <3>5
      <4>2. QED
        BY <3>5, <4>1
    <3>6. QED
      BY <3>2, <3>3, <3>4, <3>5
  <2>4. QED
    BY <1>2, <2>2, <2>3
<1> HIDE DEF S
<1>3. 0..n \subseteq S
  BY <1>1, <1>2, UpTo
<1>4. n \in S /\ \A i \in some : i <= n
  BY <1>3
<1>5. QED
  BY <1>4 DEF S

LEMMA NeediestHasMost ==
  ASSUME PlanTypes, Room # {}
  PROVE  /\ Neediest \in Room
         /\ \A other \in Room : remainders[Neediest] >= remainders[other]
<1> DEFINE n == Len(sizes)
<1>1. n \in Nat /\ \A k \in Room : k \in Strata
  BY SizesAreNat DEF Room
<1>2. \A k \in Strata : remainders[k] \in Nat
  <2>1. remainders \in [Strata -> 0..99]
    BY DEF PlanTypes
  <2>2. \A k \in Strata : remainders[k] \in 0..99
    BY <2>1
  <2>3. QED
    BY <2>2
<1>3. Strata = 1..n
  BY DEF Strata
<1> HIDE DEF n
<1>4. \E k \in Room : \A other \in Room :
        \/ remainders[k] > remainders[other]
        \/ remainders[k] = remainders[other] /\ k <= other
  BY <1>1, <1>2, <1>3, FirstLargest
<1>5. /\ Neediest \in Room
      /\ \A other \in Room :
           \/ remainders[Neediest] > remainders[other]
           \/ remainders[Neediest] = remainders[other] /\ Neediest <= other
  BY <1>4, Zenon DEF Neediest
<1>6. QED
  BY <1>1, <1>2, <1>5

\* A device is missing only in a stage before the last, and there is room.
LEMMA Short ==
  ASSUME PlanTypes, Proportional, ~Filled
  PROVE  /\ stage \in 1..Len(percentages) /\ stage # Len(percentages)
         /\ cumulative[stage] \in [Strata -> Nat] /\ allocated \in Nat
         /\ allocated = Total(cumulative[stage])
         /\ Target(stage) \in Nat /\ allocated < Target(stage) /\ Room # {}
<1>1. stage \in 1..Len(percentages) /\ stage \in 1..stage
  BY StageIsNat DEF Filled, PlanTypes
<1>2. cumulative[stage] \in [Strata -> Nat]
  BY <1>1, StageIsNat
<1>3. allocated = Total(cumulative[stage]) /\ Room # {} /\ ~(allocated >= Target(stage))
  BY DEF PlanTypes, Filled
<1>4. allocated \in Nat
  BY <1>2, <1>3, TotalsAreNat
<1>5. Target(stage) \in Nat
  BY <1>1, TargetsAreNat
<1>6. stage # Len(percentages)
  <2> SUFFICES ASSUME cumulative[stage] = sizes PROVE FALSE
    BY DEF Proportional
  <2>1. PICK k \in Strata : cumulative[stage][k] < sizes[k]
    BY <1>3 DEF Room
  <2>2. sizes[k] \in Nat /\ sizes[k] < sizes[k]
    BY <2>1, SizesAreNat
  <2>3. QED
    BY <2>2
<1>7. QED
  BY <1>1, <1>2, <1>3, <1>4, <1>5, <1>6

\* What a device adds to the plan.
LEMMA Given ==
  ASSUME PlanTypes, Proportional, GiveOne
  PROVE  /\ stage' = stage /\ cumulative' \in Seq([Strata -> Nat])
         /\ Neediest \in Strata
         /\ cumulative[stage][Neediest] \in Nat
         /\ cumulative[stage][Neediest] < sizes[Neediest]
         /\ \A s \in 1..stage : s # stage => cumulative'[s] = cumulative[s]
         /\ \A k \in Strata : cumulative'[stage][k] =
              IF k = Neediest THEN cumulative[stage][k] + 1 ELSE cumulative[stage][k]
         /\ allocated' = allocated + 1
         /\ Total(cumulative'[stage]) = allocated + 1
         /\ sizes' = sizes /\ percentages' = percentages
<1> DEFINE T == [Strata -> Nat]
           m == Neediest
           v == cumulative[stage][m] + 1
           row == [cumulative[stage] EXCEPT ![m] = v]
<1>0. ~Filled
  BY DEF GiveOne
<1>1. /\ cumulative' = [cumulative EXCEPT ![stage] = row]
      /\ allocated' = allocated + 1 /\ sizes' = sizes /\ percentages' = percentages
  BY DEF GiveOne
<1>2. /\ stage \in 1..stage /\ cumulative[stage] \in T /\ allocated \in Nat
      /\ allocated = Total(cumulative[stage]) /\ Room # {}
  BY <1>0, Short
<1>3. m \in Room /\ m \in Strata /\ cumulative[stage][m] < sizes[m]
  BY <1>2, NeediestHasMost DEF Room
<1>4. cumulative[stage][m] \in Nat /\ v \in Nat
  BY <1>2, <1>3
<1> HIDE DEF m, v
<1>5. row \in T /\ \A k \in Strata : row[k] = IF k = m THEN v ELSE cumulative[stage][k]
  BY <1>2, <1>3, <1>4
<1>6. Total(row) = allocated + 1
  <2> DEFINE n == Len(sizes)
             f == cumulative[stage]
  <2>1. n \in Nat /\ f \in [1..n -> Nat] /\ m \in 1..n
    BY <1>2, <1>3, SizesAreNat DEF Strata
  <2>2. allocated = Sums(f, n)[n]
    BY <1>2 DEF Total
  <2>3. f[m] \in Nat /\ v = f[m] + 1
    BY <1>4 DEF v, m
  <2>4. Total(row) = Sums([f EXCEPT ![m] = v], n)[n]
    BY DEF Total
  <2> HIDE DEF n, f
  <2>5. Sums([f EXCEPT ![m] = v], n)[n] = Sums(f, n)[n] + v - f[m]
    BY <1>4, <2>1, SumsExcept
  <2>6. QED
    BY <1>2, <2>2, <2>3, <2>4, <2>5
<1> HIDE DEF T, row
<1>7. /\ cumulative' \in Seq(T) /\ Len(cumulative') = Len(cumulative)
      /\ cumulative'[stage] = row
      /\ \A s \in 1..stage : s # stage => cumulative'[s] = cumulative[s]
  <2>1. cumulative \in Seq(T)
    BY DEF PlanTypes, T
  <2>2. /\ stage \in 1..Len(cumulative)
        /\ \A s \in 1..stage : s \in 1..Len(cumulative)
    BY <1>2 DEF stage
  <2>3. QED
    BY <1>1, <1>5, <2>1, <2>2, ExceptSeq
<1>8. QED
  BY <1>1, <1>3, <1>4, <1>5, <1>6, <1>7 DEF stage, T, m, v

LEMMA GiveOneTypes ==
  ASSUME PlanTypes, Proportional, GiveOne
  PROVE  PlanTypes'
<1>1. /\ stage' = stage /\ cumulative' \in Seq([Strata -> Nat])
      /\ allocated' = allocated + 1
      /\ Total(cumulative'[stage]) = allocated + 1
      /\ sizes' = sizes /\ percentages' = percentages
  BY Given
<1>2. /\ sizes' \in Seq(Nat) /\ percentages' \in Seq(Int)
      /\ ValidStages(percentages)' /\ Total(sizes)' > 0
      /\ Strata' = Strata
  BY <1>1, Steady DEF PlanTypes
<1>3. stage' <= Len(percentages')
  BY <1>1 DEF PlanTypes
<1>4. remainders' \in [Strata -> 0..99]
  <2>1. remainders \in [Strata -> 0..99] /\ remainders' = [remainders EXCEPT ![Neediest] = 0]
    BY DEF PlanTypes, GiveOne
  <2>2. 0 \in 0..99
    OBVIOUS
  <2>3. QED
    BY <2>1, <2>2
<1>5. allocated' = Total(cumulative[stage])'
  BY <1>1 DEF Total
<1>6. cumulative' \in Seq([Strata' -> Nat]) /\ remainders' \in [Strata' -> 0..99]
  BY <1>1, <1>2, <1>4
<1>7. QED
  BY <1>2, <1>3, <1>5, <1>6 DEF PlanTypes

LEMMA GiveOneProportional ==
  ASSUME PlanTypes, Proportional, GiveOne
  PROVE  Proportional'
<1>0. ~Filled
  BY DEF GiveOne
<1>1. /\ stage' = stage /\ Neediest \in Strata
      /\ cumulative[stage][Neediest] < sizes[Neediest]
      /\ \A s \in 1..stage : s # stage => cumulative'[s] = cumulative[s]
      /\ \A k \in Strata : cumulative'[stage][k] =
           IF k = Neediest THEN cumulative[stage][k] + 1 ELSE cumulative[stage][k]
      /\ sizes' = sizes /\ percentages' = percentages
  BY Given
<1>2. /\ Strata' = Strata
      /\ \A s, k : Share(s, k)' = Share(s, k)
      /\ \A s : Target(s)' = Target(s)
  BY <1>1, Steady
<1>3. /\ stage \in Nat /\ \A s \in 1..stage : s \in 1..Len(percentages)
      /\ stage # Len(percentages)
  BY <1>0, Short, StageIsNat DEF PlanTypes
<1>4. ASSUME NEW s \in 1..stage, NEW k \in Strata
      PROVE  /\ Share(s, k) <= cumulative'[s][k] /\ cumulative'[s][k] <= sizes[k]
             /\ cumulative[s][k] \in Nat /\ cumulative[s][k] <= cumulative'[s][k]
             /\ s # stage => cumulative'[s][k] = cumulative[s][k]
  <2>1. cumulative[s][k] \in Nat /\ sizes[k] \in Nat
    BY SizesAreNat, StageIsNat
  <2>2. Share(s, k) \in Nat
    BY <1>3, SharesOf
  <2>3. Share(s, k) <= cumulative[s][k] /\ cumulative[s][k] <= sizes[k]
    BY DEF Proportional
  <2>4. CASE s # stage
    BY <1>1, <2>1, <2>3, <2>4
  <2>5. CASE s = stage
    <3> DEFINE x == cumulative[s][k]
               y == cumulative'[s][k]
    <3>1. y = IF k = Neediest THEN x + 1 ELSE x
      BY <1>1, <2>5
    <3>2. k = Neediest => x < sizes[k]
      BY <1>1, <2>5
    <3>3. x \in Nat /\ Share(s, k) <= x /\ x <= sizes[k]
      BY <2>1, <2>3
    <3> HIDE DEF x, y
    <3>4. Share(s, k) <= y /\ y <= sizes[k] /\ x <= y
      BY <2>1, <2>2, <3>1, <3>2, <3>3
    <3>5. QED
      BY <2>5, <3>3, <3>4 DEF x, y
  <2>6. QED
    BY <2>4, <2>5
<1>5. ASSUME NEW s \in 1..stage, NEW t \in 1..stage, s < t, NEW k \in Strata
      PROVE  cumulative'[s][k] <= cumulative'[t][k]
  <2>1. s # stage
    BY <1>3, <1>5
  <2> DEFINE x == cumulative[s][k]
             y == cumulative[t][k]
             z == cumulative'[t][k]
  <2>2. x <= y
    BY <1>5 DEF Proportional
  <2>3. x \in Nat /\ y \in Nat /\ y <= z /\ z \in Nat /\ cumulative'[s][k] = x
    <3>1. x \in Nat /\ y \in Nat /\ y <= z /\ cumulative'[s][k] = x
      BY <1>4, <2>1
    <3>2. z \in Nat
      <4>1. CASE t = stage
        BY <1>1, <3>1, <4>1
      <4>2. CASE t # stage
        BY <1>4, <3>1, <4>2
      <4>3. QED
        BY <4>1, <4>2
    <3>3. QED
      BY <3>1, <3>2
  <2> HIDE DEF x, y, z
  <2>4. x <= z
    BY <2>2, <2>3
  <2>5. QED
    BY <2>3, <2>4 DEF z
<1>6. ASSUME NEW s \in 1..stage, s < stage
      PROVE  Total(cumulative[s])' >= Target(s)
  <2>1. cumulative'[s] = cumulative[s]
    BY <1>1, <1>3, <1>6
  <2>2. Total(cumulative[s])' = Total(cumulative[s])
    BY <1>1, <2>1 DEF Total
  <2>3. Total(cumulative[s]) >= Target(s)
    BY <1>6 DEF Proportional
  <2>4. QED
    BY <2>2, <2>3
<1>7. QED
  BY <1>1, <1>2, <1>3, <1>4, <1>5, <1>6 DEF Proportional

\* While the first stage is short, the neediest stratum has a remainder left.
LEMMA RemainderLeft ==
  ASSUME PlanInv, GiveOne, stage = 1
  PROVE  /\ remainders[Neediest] \in 1..99 /\ Total(remainders) \in Nat
         /\ remainders[Neediest] = Remainder(1, Neediest)
         /\ cumulative[1][Neediest] = Share(1, Neediest)
<1>0. PlanTypes /\ Proportional /\ FirstStage /\ ~Filled
  BY DEF PlanInv, GiveOne
<1>1. /\ allocated \in Nat /\ Target(1) \in Nat /\ allocated < Target(1)
      /\ 1 \in 1..Len(percentages) /\ Room # {}
  BY <1>0, Short
<1>2. 100 * (Target(1) - allocated) <= Total(remainders) + 99
  BY <1>0 DEF FirstStage
<1>3. /\ Len(sizes) \in Nat
      /\ \A k \in 1..Len(sizes) : remainders[k] \in 0..99 /\ remainders[k] \in Nat
  <2>1. \A k \in Strata : remainders[k] \in 0..99
    BY <1>0 DEF PlanTypes
  <2>2. \A k \in Strata : remainders[k] \in Nat
    BY <2>1
  <2>3. QED
    BY <1>0, <2>1, <2>2, SizesAreNat DEF Strata
<1>4. Total(remainders) \in Nat
  BY <1>3, SumsType DEF Total
<1>5. Total(remainders) > 0
  BY <1>1, <1>2, <1>4
<1>6. PICK k \in Strata : remainders[k] > 0
  BY <1>3, <1>5, SomeAddend DEF Total, Strata
<1>7. k \in Room
  <2>1. cumulative[1][k] = Share(1, k) /\ remainders[k] = Remainder(1, k)
    BY <1>0, <1>6 DEF FirstStage
  <2>2. sizes[k] \in Nat /\ percentages[1] \in 1..100
    BY <1>0, <1>1, SizesAreNat, StageIsNat
  <2> DEFINE c == sizes[k]
             p == percentages[1]
             q == Share(1, k)
             r == Remainder(1, k)
  <2>3. q \in Nat /\ r \in 0..99 /\ c * p = 100 * q + r
    BY <1>0, <1>1, SharesOf
  <2>4. c \in Nat /\ p \in 1..100 /\ r > 0
    BY <1>6, <2>1, <2>2
  <2> HIDE DEF c, p, q, r
  <2>5. c * p <= c * 100
    BY <2>4, SMT
  <2>6. q < c
    BY <2>3, <2>4, <2>5, SMT
  <2>7. QED
    BY <2>1, <2>6 DEF Room, q, c
<1>8. Neediest \in Strata /\ remainders[Neediest] >= remainders[k]
  BY <1>0, <1>7, NeediestHasMost DEF Room
<1>9. remainders[Neediest] \in 1..99
  <2>1. remainders[Neediest] \in 0..99 /\ remainders[k] \in 0..99
    BY <1>3, <1>8 DEF Strata
  <2>2. QED
    BY <1>6, <1>8, <2>1
<1>10. \/ remainders[Neediest] = 0
       \/ /\ remainders[Neediest] = Remainder(1, Neediest)
          /\ cumulative[1][Neediest] = Share(1, Neediest)
  BY <1>0, <1>8 DEF FirstStage
<1>11. QED
  BY <1>4, <1>9, <1>10

LEMMA GiveOneFirst ==
  ASSUME PlanInv, GiveOne
  PROVE  FirstStage'
<1>0. PlanTypes /\ Proportional /\ FirstStage /\ ~Filled
  BY DEF PlanInv, GiveOne
<1>1. /\ stage' = stage /\ Neediest \in Strata
      /\ \A s \in 1..stage : s # stage => cumulative'[s] = cumulative[s]
      /\ \A k \in Strata : cumulative'[stage][k] =
           IF k = Neediest THEN cumulative[stage][k] + 1 ELSE cumulative[stage][k]
      /\ allocated' = allocated + 1
      /\ sizes' = sizes /\ percentages' = percentages
  BY <1>0, Given
<1>2. /\ Strata' = Strata
      /\ \A k : Share(1, k)' = Share(1, k) /\ Remainder(1, k)' = Remainder(1, k)
      /\ Target(1)' = Target(1)
  BY <1>1, Steady
<1>3. /\ allocated \in Nat /\ allocated < Target(stage) /\ Target(stage) \in Nat
      /\ stage \in 1..Len(percentages) /\ 1 \in 1..stage /\ 1 \in 1..Len(percentages)
      /\ stage \in Nat /\ stage > 0
  BY <1>0, Short, StageIsNat
<1>4. remainders' = [remainders EXCEPT ![Neediest] = 0]
  BY DEF GiveOne
<1>5. \A k \in Strata : 100 * cumulative[1][k] <= sizes[k] * percentages[1] + 99
  BY <1>0, <1>3 DEF FirstStage
<1>6. CASE stage = 1
  <2>1. /\ remainders[Neediest] \in 1..99 /\ Total(remainders) \in Nat
        /\ remainders[Neediest] = Remainder(1, Neediest)
        /\ cumulative[1][Neediest] = Share(1, Neediest)
    BY <1>6, RemainderLeft
  <2>2. ASSUME NEW k \in Strata
        PROVE  100 * cumulative'[1][k] <= sizes[k] * percentages[1] + 99
    <3>1. CASE k = Neediest
      <4> DEFINE x == sizes[k] * percentages[1]
                 q == Share(1, k)
                 r == Remainder(1, k)
      <4>1. q \in Nat /\ x = 100 * q + r
        BY <1>0, <1>3, SharesOf
      <4>2. r \in 1..99 /\ cumulative'[1][k] = q + 1
        BY <1>1, <1>6, <2>1, <3>1
      <4> HIDE DEF x, q, r
      <4>3. 100 * cumulative'[1][k] <= x + 99
        BY <4>1, <4>2
      <4>4. QED
        BY <4>3 DEF x
    <3>2. CASE k # Neediest
      BY <1>1, <1>5, <1>6, <3>2
    <3>3. QED
      BY <3>1, <3>2
  <2>3. Total(remainders)' = Total(remainders) - remainders[Neediest]
    <3> DEFINE n == Len(sizes)
               m == Neediest
    <3>1. \A k \in Strata : remainders[k] \in 0..99
      BY <1>0 DEF PlanTypes
    <3>2. \A k \in Strata : remainders[k] \in Nat
      BY <3>1
    <3>3. n \in Nat /\ m \in 1..n /\ remainders \in [1..n -> Nat]
      BY <1>0, <1>1, <3>2, SizesAreNat DEF PlanTypes, Strata
    <3>4. Total(remainders)' = Sums([remainders EXCEPT ![m] = 0], n)[n]
      BY <1>1, <1>4 DEF Total
    <3>5. Total(remainders) = Sums(remainders, n)[n]
      BY DEF Total
    <3>6. remainders[m] \in Nat
      BY <1>1, <3>2
    <3> HIDE DEF n, m
    <3>7. Sums([remainders EXCEPT ![m] = 0], n)[n] = Sums(remainders, n)[n] + 0 - remainders[m]
      <4>1. 0 \in Nat
        OBVIOUS
      <4>2. QED
        BY <3>3, <4>1, SumsExcept, Zenon
    <3>8. Total(remainders)' = Total(remainders) - remainders[m]
      BY <2>1, <3>4, <3>5, <3>6, <3>7
    <3>9. QED
      BY <3>8 DEF m
  <2>4. 100 * (Target(1) - allocated') <= Total(remainders)' + 99
    <3> DEFINE x == Total(remainders)
               y == remainders[Neediest]
    <3>1. 100 * (Target(1) - allocated) <= x + 99
      BY <1>0, <1>6 DEF FirstStage
    <3>2. x \in Nat /\ y \in 1..99 /\ Total(remainders)' = x - y
      BY <2>1, <2>3
    <3>3. Target(1) \in Nat /\ allocated \in Nat /\ allocated' = allocated + 1
      BY <1>1, <1>3, <1>6
    <3> HIDE DEF x, y
    <3>4. QED
      BY <3>1, <3>2, <3>3
  <2>5. allocated' <= Target(1)
    BY <1>1, <1>3, <1>6
  <2>6. ASSUME NEW k \in Strata
        PROVE  \/ remainders'[k] = 0
               \/ /\ remainders'[k] = Remainder(1, k)
                  /\ cumulative'[1][k] = Share(1, k)
    <3>1. remainders'[k] = IF k = Neediest THEN 0 ELSE remainders[k]
      BY <1>0, <1>4 DEF PlanTypes
    <3>2. k # Neediest => cumulative'[1][k] = cumulative[1][k]
      BY <1>1, <1>6
    <3>3. \/ remainders[k] = 0
          \/ remainders[k] = Remainder(1, k) /\ cumulative[1][k] = Share(1, k)
      BY <1>0, <1>6 DEF FirstStage
    <3>4. QED
      BY <3>1, <3>2, <3>3
  <2>7. stage' = 1
    BY <1>1, <1>6
  <2>8. QED
    BY <1>1, <1>2, <2>2, <2>4, <2>5, <2>6, <2>7 DEF FirstStage
<1>7. CASE stage > 1
  <2>1. cumulative'[1] = cumulative[1] /\ stage' > 1
    BY <1>1, <1>3, <1>7
  <2>2. Total(cumulative[1])' = Total(cumulative[1])
    BY <1>1, <2>1 DEF Total
  <2>3. Total(cumulative[1]) = Target(1)
    BY <1>0, <1>7 DEF FirstStage
  <2>4. ~(stage' = 1)
    BY <1>1, <1>7
  <2>5. QED
    BY <1>1, <1>2, <1>5, <2>1, <2>2, <2>3, <2>4 DEF FirstStage
<1>8. QED
  BY <1>3, <1>6, <1>7

LEMMA GiveOneKeeps ==
  ASSUME PlanInv, GiveOne
  PROVE  PlanInv'
BY GiveOneTypes, GiveOneProportional, GiveOneFirst DEF PlanInv
-----------------------------------------------------------------------------
(* The invariant, and what it says.                                        *)

LEMMA PlanInvStart ==
  ASSUME PlanInit
  PROVE  PlanInv
<1>1. /\ sizes \in Seq(Nat) /\ percentages \in Seq(Int)
      /\ ValidStages(percentages) /\ Total(sizes) > 0
      /\ cumulative = <<>>
  BY CohortsAssumption, StagePlansAssumption DEF PlanInit
<1>2. stage = 0
  BY <1>1 DEF stage
<1>3. Len(percentages) \in Nat /\ Len(percentages) > 0
  <2>1. percentages # <<>>
    BY <1>1 DEF ValidStages
  <2>2. QED
    BY <1>1, <2>1
<1>4. remainders \in [Strata -> 0..99]
  <2>1. remainders = [k \in Strata |-> 0] /\ 0 \in 0..99
    BY DEF PlanInit
  <2>2. QED
    BY <2>1
<1>5. cumulative \in Seq([Strata -> Nat])
  <2> DEFINE T == [Strata -> Nat]
  <2> HIDE DEF T
  <2>1. cumulative \in Seq(T)
    BY <1>1
  <2>2. QED
    BY <2>1 DEF T
<1>6. PlanTypes
  BY <1>1, <1>2, <1>3, <1>4, <1>5 DEF PlanTypes
<1>7. Proportional
  BY <1>2, <1>3 DEF Proportional
<1>8. FirstStage
  BY <1>2 DEF FirstStage
<1>9. QED
  BY <1>6, <1>7, <1>8 DEF PlanInv

\* A member is put into the first stage that reaches it.
LEMMA MembersAsCounted ==
  ASSUME PlanTypes, Proportional, Planned,
         NEW s \in DOMAIN percentages, NEW k \in Strata, NEW place \in 0..sizes[k] - 1
  PROVE  MemberStage(k, place) <= s <=> place < cumulative[s][k]
<1> DEFINE n == Len(percentages)
           reaching == {t \in DOMAIN percentages : place < cumulative[t][k]}
           none == [t \in 1..n |-> 0]
<1>1. DOMAIN percentages = 1..n /\ n \in Nat /\ n > 0
  BY StageIsNat DEF PlanTypes
<1>2. stage = n
  BY DEF Planned
<1>3. \A t \in 1..n : cumulative[t][k] \in Nat
  BY <1>2, StageIsNat
<1>4. place \in Nat /\ place < sizes[k]
  BY SizesAreNat
<1>5. n \in reaching
  <2>1. cumulative[n] = sizes
    BY <1>2 DEF Proportional
  <2>2. QED
    BY <1>1, <1>4, <2>1
<1>6. \A t, u \in 1..n : t < u => cumulative[t][k] <= cumulative[u][k]
  BY <1>2 DEF Proportional
<1>7. \A t \in reaching : t \in 1..n /\ none[t] = 0
  BY <1>1
<1>8. \E t \in reaching : \A u \in reaching : t <= u
  <2> HIDE DEF reaching
  <2>1. \A t \in reaching : t \in 1..n /\ none[t] \in Nat
    BY <1>7
  <2>2. \E t \in reaching : \A u \in reaching :
          none[t] > none[u] \/ (none[t] = none[u] /\ t <= u)
    <3> HIDE DEF none, n
    <3>1. QED
      BY <1>1, <1>5, <2>1, FirstLargest
  <2> HIDE DEF none
  <2>3. QED
    BY <1>7, <2>2
<1>9. MemberStage(k, place) \in reaching /\ \A t \in reaching : MemberStage(k, place) <= t
  <2>1. MemberStage(k, place) = CHOOSE t \in reaching : \A u \in reaching : t <= u
    BY <1>5 DEF MemberStage
  <2> HIDE DEF reaching
  <2>2. QED
    BY <1>8, <2>1
<1>10. /\ MemberStage(k, place) \in 1..n /\ s \in 1..n
       /\ place < cumulative[MemberStage(k, place)][k]
  BY <1>1, <1>9
<1>11. s \in reaching <=> place < cumulative[s][k]
  OBVIOUS
<1> DEFINE m == MemberStage(k, place)
<1>12. ASSUME m <= s PROVE place < cumulative[s][k]
  <2>1. m < s => cumulative[m][k] <= cumulative[s][k]
    BY <1>6, <1>10
  <2> DEFINE x == cumulative[m][k]
             y == cumulative[s][k]
  <2>2. x \in Nat /\ y \in Nat /\ place < x
    BY <1>3, <1>10
  <2>3. m = s => x = y
    OBVIOUS
  <2>4. m \in Int /\ s \in Int
    BY <1>10
  <2> HIDE DEF x, y, m
  <2>5. place < y
    BY <1>4, <1>12, <2>1, <2>2, <2>3, <2>4 DEF x, y
  <2>6. QED
    BY <2>5 DEF y
<1>13. place < cumulative[s][k] => m <= s
  BY <1>9, <1>11
<1>14. QED
  BY <1>12, <1>13

LEMMA PlanInvEnough ==
  ASSUME PlanInv
  PROVE  PlansAreProportional
<1>0. PlanTypes /\ Proportional /\ FirstStage
  BY DEF PlanInv
<1>1. DOMAIN cumulative = 1..stage /\ stage \in Nat
  BY <1>0, StageIsNat DEF PlanTypes, stage
<1>2. ASSUME NEW s \in 1..stage, s < stage \/ Filled
      PROVE  /\ Total(cumulative[s]) >= Target(s)
             /\ s = 1 => Total(cumulative[s]) = Target(s)
             /\ s = Len(percentages) => cumulative[s] = sizes
  <2>1. Total(cumulative[s]) >= Target(s)
    <3>1. CASE s < stage
      BY <1>0, <3>1 DEF Proportional
    <3>2. CASE s = stage /\ Filled
      BY <1>0, <1>1, <3>2, FilledIsEnough
    <3>3. QED
      BY <1>1, <1>2, <3>1, <3>2
  <2>2. s = 1 => Total(cumulative[s]) = Target(s)
    <3> SUFFICES ASSUME s = 1 PROVE Total(cumulative[1]) = Target(1)
      OBVIOUS
    <3>1. CASE stage > 1
      BY <1>0, <3>1 DEF FirstStage
    <3>2. CASE stage = 1
      <4>1. Total(cumulative[1]) <= Target(1)
        BY <1>0, <3>2 DEF FirstStage, PlanTypes
      <4>2. Total(cumulative[1]) \in Nat /\ Target(1) \in Nat
        BY <1>0, <3>2, StageIsNat, TotalsAreNat, TargetsAreNat
      <4>3. QED
        BY <2>1, <4>1, <4>2
    <3>3. QED
      BY <1>1, <3>1, <3>2
  <2>3. s = Len(percentages) => s = stage
    BY <1>0, <1>1, StageIsNat DEF PlanTypes
  <2>4. s = Len(percentages) => cumulative[s] = sizes
    BY <1>0, <2>3 DEF Proportional
  <2>5. QED
    BY <2>1, <2>2, <2>4
<1>3. ASSUME NEW s \in 1..stage, NEW k \in Strata
      PROVE  /\ cumulative[s][k] >= Share(s, k)
             /\ s > 1 => cumulative[s][k] >= cumulative[s - 1][k]
             /\ s = 1 => 100 * cumulative[s][k] <= sizes[k] * percentages[s] + 99
  <2>1. cumulative[s][k] >= Share(s, k)
    <3>1. Share(s, k) <= cumulative[s][k]
      BY <1>0 DEF Proportional
    <3>2. QED
      BY <3>1
  <2>2. s > 1 => cumulative[s][k] >= cumulative[s - 1][k]
    <3>1. s > 1 => s - 1 \in 1..stage /\ s - 1 < s
      BY <1>1
    <3>2. s > 1 => cumulative[s - 1][k] <= cumulative[s][k]
      BY <1>0, <3>1 DEF Proportional
    <3>3. QED
      BY <3>2
  <2>3. s = 1 => 100 * cumulative[s][k] <= sizes[k] * percentages[s] + 99
    BY <1>0, <1>1 DEF FirstStage
  <2>4. QED
    BY <2>1, <2>2, <2>3
<1>4. Planned => \A s \in DOMAIN percentages, k \in Strata :
                   \A place \in 0..sizes[k] - 1 :
                     MemberStage(k, place) <= s <=> place < cumulative[s][k]
  BY <1>0, MembersAsCounted
<1>5. QED
  BY <1>1, <1>2, <1>3, <1>4 DEF PlansAreProportional

\* Whatever the strata and the stages: the plan a release is given nests its
\* stages, keeps its proportions and leaves nobody out (CohortPlanner::plan).
THEOREM PlansStayProportional == PlanSpec => []PlansAreProportional
<1>1. PlanInit => PlanInv
  BY PlanInvStart
<1>2. PlanInv /\ [PlanNext]_planVars => PlanInv'
  <2> SUFFICES ASSUME PlanInv, [PlanNext]_planVars PROVE PlanInv'
    OBVIOUS
  <2>1. CASE PlanStage
    BY <2>1, PlanStageKeeps
  <2>2. CASE GiveOne
    BY <2>2, GiveOneKeeps
  <2>3. CASE UNCHANGED planVars
    BY <2>3 DEF planVars, PlanInv, PlanTypes, Proportional, FirstStage, Strata,
       stage, ValidStages, Total, Target, Share, Remainder
  <2>4. QED
    BY <2>1, <2>2, <2>3 DEF PlanNext
<1>3. PlanInv => PlansAreProportional
  BY PlanInvEnough
<1>4. QED
  BY <1>1, <1>2, <1>3, PTL DEF PlanSpec
=============================================================================

---------------------------- MODULE CohortPlanner ----------------------------
(***************************************************************************)
(* How many devices of each stratum (hardware model and architecture) the  *)
(* stages of a release reach, by the method of largest remainders.  Strata *)
(* are in the order of their keys and are known by their sizes; which      *)
(* devices of a stratum come first is decided by a keyed hash.  The loops  *)
(* over stages and over the devices left to give are steps.                *)
(***************************************************************************)
EXTENDS Integers, Sequences

CONSTANTS
  Cohorts,    \* sequences of sizes of strata
  StagePlans  \* sequences of percentages

ASSUME CohortsAssumption == Cohorts \subseteq Seq(Nat)
ASSUME StagePlansAssumption == StagePlans \subseteq Seq(Int)

VARIABLES
  sizes,          \* of the strata
  percentages,    \* of the stages
  cumulative,     \* devices reached by the end of each stage, by stratum; the
                  \* last is the stage being planned
  remainders,     \* what rounding took from each stratum in this stage
  allocated       \* devices reached by the end of this stage

planVars == <<sizes, percentages, cumulative, remainders, allocated>>

Strata == 1..Len(sizes)
stage == Len(cumulative)

\* Percentages increase to 100.
ValidStages(p) ==
  /\ p # <<>> /\ p[Len(p)] = 100
  /\ \A s \in DOMAIN p : p[s] \in 1..100 /\ (s > 1 => p[s] > p[s - 1])

\* The sums of the first k values.
Sums(f, n) ==
  LET sum[k \in 0..n] == IF k = 0 THEN 0 ELSE sum[k - 1] + f[k] IN sum

Total(counts) == Sums(counts, Len(sizes))[Len(sizes)]

\* The devices a stage is to reach: its share rounded up, at least one.
Target(s) ==
  LET share == (Total(sizes) * percentages[s] + 99) \div 100 IN
  IF share < 1 THEN 1 ELSE share

\* The share of a stratum, rounded down, and what rounding takes.
Share(s, k) == (sizes[k] * percentages[s]) \div 100
Remainder(s, k) == (sizes[k] * percentages[s]) % 100

PlanInit ==
  /\ sizes \in Cohorts /\ percentages \in StagePlans
  /\ ValidStages(percentages) /\ Total(sizes) > 0
  /\ cumulative = <<>> /\ allocated = 0
  /\ remainders = [k \in Strata |-> 0]

Room == {k \in Strata : cumulative[stage][k] < sizes[k]}

Filled == stage > 0 => allocated >= Target(stage) \/ Room = {}

\* A stage starts from its share, rounded down, and never below the one before.
Base(s) ==
  [k \in Strata |->
     IF s > 1 /\ cumulative[s - 1][k] > Share(s, k)
     THEN cumulative[s - 1][k] ELSE Share(s, k)]

PlanStage ==
  LET base == Base(stage + 1) IN
  /\ Filled /\ stage < Len(percentages)
  /\ cumulative' = Append(cumulative, base)
  /\ remainders' = [k \in Strata |-> Remainder(stage + 1, k)]
  /\ allocated' = Total(base)
  /\ UNCHANGED <<sizes, percentages>>

\* The stratum with room that has the largest remainder, the first of equals.
Neediest ==
  CHOOSE k \in Room :
    \A other \in Room :
      \/ remainders[k] > remainders[other]
      \/ remainders[k] = remainders[other] /\ k <= other

\* Mutant of GiveOne: the remainder is not used up.
GiveOneAgain ==
  /\ ~Filled
  /\ cumulative' = [cumulative EXCEPT ![stage][Neediest] = @ + 1]
  /\ allocated' = allocated + 1
  /\ UNCHANGED <<sizes, percentages, remainders>>

\* One more device, for which the stratum's remainder is used up.
GiveOne ==
  /\ ~Filled
  /\ cumulative' = [cumulative EXCEPT ![stage][Neediest] = @ + 1]
  /\ remainders' = [remainders EXCEPT ![Neediest] = 0]
  /\ allocated' = allocated + 1
  /\ UNCHANGED <<sizes, percentages>>

PlanNext == PlanStage \/ GiveOne

PlanSpec == PlanInit /\ [][PlanNext]_planVars

Planned == stage = Len(percentages) /\ Filled

\* The stage of the member at a place of its stratum: the first that reaches it.
MemberStage(k, place) ==
  LET reaching == {s \in DOMAIN percentages : place < cumulative[s][k]} IN
  IF reaching = {} THEN Len(percentages)
  ELSE CHOOSE s \in reaching : \A t \in reaching : s <= t
-----------------------------------------------------------------------------

\* Stages are nested and never short of their target, the first reaches
\* exactly its target and the last everybody; no stratum gets less than its
\* share rounded down, or in the first stage more than its share rounded up,
\* however the strata differ in size (safety.cpp:187-219); and as many members
\* as were counted are put into the stages.
PlansAreProportional ==
  /\ \A s \in DOMAIN cumulative :
       /\ s < stage \/ Filled =>
            /\ Total(cumulative[s]) >= Target(s)
            /\ s = 1 => Total(cumulative[s]) = Target(s)
            /\ s = Len(percentages) => cumulative[s] = sizes
       /\ \A k \in Strata :
            /\ cumulative[s][k] >= Share(s, k)
            /\ s > 1 => cumulative[s][k] >= cumulative[s - 1][k]
            /\ s = 1 => 100 * cumulative[s][k] <= sizes[k] * percentages[s] + 99
  /\ Planned =>
       \A s \in DOMAIN percentages, k \in Strata :
         \A place \in 0..sizes[k] - 1 :
           MemberStage(k, place) <= s <=> place < cumulative[s][k]
=============================================================================

----------------------------- MODULE FleetPlanner -----------------------------
(***************************************************************************)
(* drone_flight/fleet_router.py and the handler assign_fleet of router.py: *)
(* which drone takes which target, by the exact solver or by sampling a    *)
(* QUBO that is split into problems of at most qubit_budget variables.     *)
(*                                                                         *)
(* A solution is the set of the pairs <<drone, target>> whose bit is 1.    *)
(***************************************************************************)
EXTENDS Integers, FiniteSets, Sequences, FiniteSetsExt

CONSTANTS MaxFleet,     \* bound: drones and targets of a request
          MaxQubits,    \* bound: their product
          Distances,    \* distances in metres
          Budgets       \* values of qubit_budget

ASSUME PlannerAssumption == /\ MaxFleet \in Nat /\ MaxQubits \in Nat
                            /\ Distances \subseteq Nat /\ Budgets \subseteq Nat

VARIABLES asks,      \* the request: drones, targets, distances, budget and solver
          subs,      \* sub-problems not solved yet: <<drones, targets>>
          chosen,    \* the assignments so far
          feasible   \* all_feasible

planvars == <<asks, subs, chosen, feasible>>

NoAsk == [drones |-> {}, targets |-> {}, cost |-> <<>>, budget |-> 0, quantum |-> FALSE]
PlannerInit == asks = NoAsk /\ subs = <<>> /\ chosen = {} /\ feasible = TRUE

-----------------------------------------------------------------------------
(* AssignmentProblem, for the drones ds and the targets ts *)

Bits(ds, ts) == SUBSET (ds \X ts)
Largest(ds, ts) == Max({asks.cost[x] : x \in ds \X ts})

\* Mutant: a target nobody takes costs as much as the longest way.
X_Penalty(ds, ts) == IF Largest(ds, ts) = 0 THEN 1 ELSE Largest(ds, ts)

Penalty(ds, ts) == IF Largest(ds, ts) = 0 THEN 1 ELSE 2 * Largest(ds, ts) * Cardinality(ts)

\* build_qubo: the coefficient of each variable and of each pair of variables.
Linear(ds, ts, x) == asks.cost[x] - Penalty(ds, ts)
Pairs(b) == {{x, y} : x, y \in b} \ {{x} : x \in b}
Quadratic(ds, ts, pair) ==
    IF \E x, y \in pair : x # y /\ x[2] = y[2] THEN 2 * Penalty(ds, ts) ELSE 0

Energy(ds, ts, b) == SumFunction([x \in b |-> Linear(ds, ts, x)])
                       + SumFunction([p \in Pairs(b) |-> Quadratic(ds, ts, p)])

Decode(b, j) == {x[1] : x \in {y \in b : y[2] = j}}
IsFeasible(ts, b) == \A j \in ts : Cardinality(Decode(b, j)) = 1
TotalCost(b) == SumFunction([x \in b |-> asks.cost[x]])

\* _qubo_to_ising with x = (1 - z) / 2, four times its terms; spins of b are -1.
Spin(b, x) == IF x \in b THEN -1 ELSE 1
Bond(b, p) == IF Cardinality(p \cap b) = 1 THEN -1 ELSE 1
Field(ds, ts, x) ==
    -2 * Linear(ds, ts, x)
      - SumFunction([y \in (ds \X ts) \ {x} |-> Quadratic(ds, ts, {x, y})])
Ising(ds, ts, b) ==
    SumFunction([x \in ds \X ts |-> Field(ds, ts, x) * Spin(b, x)])
      + SumFunction([p \in Pairs(ds \X ts) |-> Quadratic(ds, ts, p) * Bond(b, p)])

-----------------------------------------------------------------------------
(* decompose_fleet_indices *)

Isqrt(n) == CHOOSE r \in 0..n : r * r <= n /\ (r + 1) * (r + 1) > n
AtLeast(a, b) == IF a > b THEN a ELSE b
AtMost(a, b) == IF a < b THEN a ELSE b
DronesPerSub == AtMost(Cardinality(asks.drones), AtLeast(2, Isqrt(asks.budget)))
TargetsPerSub == AtLeast(1, asks.budget \div DronesPerSub)

Rankings(S) == {f \in [1..Cardinality(S) -> S] : \A x \in S : \E k \in DOMAIN f : f[k] = x}

\* Around the centre the targets may come in any order, and the drones nearest to a
\* group of them may be any of the right number.
Decomposes ==
    /\ asks # NoAsk /\ subs = <<>> /\ chosen = {}
    /\ LET n == Cardinality(asks.targets)
           groups == (n + TargetsPerSub - 1) \div TargetsPerSub
       IN IF ~asks.quantum \/ Cardinality(asks.drones) * n <= asks.budget
          THEN subs' = <<<<asks.drones, asks.targets>>>>
          ELSE \E order \in Rankings(asks.targets),
                  near \in [1..groups -> kSubset(DronesPerSub, asks.drones)] :
                  subs' = [k \in 1..groups |->
                             <<near[k], {order[j] : j \in ((k - 1) * TargetsPerSub + 1)
                                                           ..AtMost(k * TargetsPerSub, n)}>>]
    /\ UNCHANGED <<asks, chosen, feasible>>

-----------------------------------------------------------------------------
(* assign_fleet *)

PlansFleet ==
    /\ asks = NoAsk
    /\ \E d, t \in 1..MaxFleet, k \in Budgets, q \in BOOLEAN :
          /\ d * t <= MaxQubits
          /\ \E c \in [(1..d) \X (1..t) -> Distances] :
                asks' = [drones |-> 1..d, targets |-> 1..t, cost |-> c, budget |-> k, quantum |-> q]
    /\ UNCHANGED <<subs, chosen, feasible>>

\* CP-SAT: every target once, at the least total distance.
Best(ds, ts) ==
    LET ok == {b \in Bits(ds, ts) : IsFeasible(ts, b)}
    IN {b \in ok : \A c \in ok : TotalCost(b) <= TotalCost(c)}

\* QAOA: the sample with the least energy, whichever vectors were sampled.
SolvesNext ==
    /\ subs # <<>>
    /\ LET ds == Head(subs)[1]
           ts == Head(subs)[2]
       IN \E b \in IF asks.quantum THEN Bits(ds, ts) ELSE Best(ds, ts) :
             /\ chosen' = chosen \cup b
             /\ feasible' = (feasible /\ IsFeasible(ts, b))
    /\ subs' = Tail(subs)
    /\ UNCHANGED asks

PlannerNext == PlansFleet \/ Decomposes \/ SolvesNext
PlannerSpec == PlannerInit /\ [][PlannerNext]_planvars

-----------------------------------------------------------------------------
(* Properties *)

\* Every variable keeps its type.
PlannerTypeOK ==
    /\ asks.drones \subseteq 1..MaxFleet /\ asks.targets \subseteq 1..MaxFleet
    /\ \A k \in 1..Len(subs) : subs[k][1] \subseteq asks.drones /\ subs[k][2] \subseteq asks.targets
    /\ chosen \subseteq asks.drones \X asks.targets /\ feasible \in BOOLEAN

\* Where e is least.
Lowest(e) == {b \in DOMAIN e : e[b] = Min({e[c] : c \in DOMAIN e})}

\* The assignments that send every target one of its nearest drones.
Nearest(ds, ts) ==
    {b \in Bits(ds, ts) : /\ IsFeasible(ts, b)
                          /\ \A x \in b, i \in ds : asks.cost[x] <= asks.cost[<<i, x[2]>>]}

\* The penalty is large enough and the spins say the same: in each sub-problem the
\* vectors of least energy are the assignments of least distance, which send every
\* target its nearest drone.  The sub-problems divide the targets and keep the budget
\* (of two or more), so an answer that is called feasible serves every target once
\* (build_qubo, _qubo_to_ising and decompose_fleet_indices, fleet_router.py).
AssignmentIsBest ==
    /\ chosen = {} => \A k \in 1..Len(subs) :
         LET ds == subs[k][1]
             ts == subs[k][2]
             e == [b \in Bits(ds, ts) |-> Energy(ds, ts, b)]
         IN /\ Lowest(e) = Nearest(ds, ts) /\ Nearest(ds, ts) = Best(ds, ts)
            /\ \A b \in Bits(ds, ts) : 4 * e[b] - Ising(ds, ts, b) = 4 * e[{}] - Ising(ds, ts, {})
            /\ asks.quantum /\ asks.budget >= 2 => Cardinality(ds) * Cardinality(ts) <= asks.budget
            /\ \A l \in 1..Len(subs) \ {k} : ts \cap subs[l][2] = {}
    /\ asks # NoAsk /\ subs = <<>> /\ chosen # {} /\ feasible => IsFeasible(asks.targets, chosen)
=============================================================================

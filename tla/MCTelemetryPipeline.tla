------------------------- MODULE MCTelemetryPipeline -------------------------
(* Model-checking instances of TelemetryPipeline.                          *)
EXTENDS TelemetryPipeline, TLC

Symmetry == Permutations(Sessions)

\* What the steps to come and the invariants depend on.  A cancelled reader only ends: of
\* where it is, it matters whether it is publishing or in an update, and about a breach.
\* A dictionary that is neither registered nor in a notification that goes on is never
\* read again.
Doomed(t) == t \in cancelled
At(t) == IF Doomed(t) /\ at[t] \in Awaiting \ {"publishing"} THEN "others" ELSE at[t]
Stage(t) == IF Doomed(t) /\ stage[t] # "breach" THEN "other" ELSE stage[t]
Target(t) == IF Doomed(t) THEN None ELSE target[t]
Used(s) == s = entry \/ \E t \in Tasks : Target(t) = s
View == <<entry, [s \in Sessions |-> IF Used(s) THEN dict[s] ELSE Default], cancelled, loop,
          [t \in Tasks |-> <<At(t), Stage(t), Target(t)>>], fired, boxVars, fence, breachVars>>
=============================================================================

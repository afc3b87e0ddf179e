---------------------------- MODULE MCPlanBatches ----------------------------
(* Instances of PlanBatches for TLC. Batches are interchangeable, and so    *)
(* are request slots.                                                       *)
EXTENDS PlanBatches, TLC
CONSTANTS r1, r2, v0, v1, b1, b2, q1, q2, s1

OneRow == {r1}
TwoValues == {v0, v1}
OneBatch == {b1}
TwoBatches == {b1, b2}
TwoRequests == {q1, q2}
OneSource == {s1}
SelectiveKinds == {"action", "assignment", "estimate"}
AllKinds == SelectiveKinds \cup {"tasks", "design"}
TasksOnly == {"tasks"}

Symmetry == Permutations(Batches) \cup Permutations(Requests)
=============================================================================
